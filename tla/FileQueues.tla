----------------------------- MODULE FileQueues -----------------------------
(***************************************************************************)
(* FileOutputQueue and FileInputQueue (filequeue.hpp): the two ends of a   *)
(* pipe, in two threads, that lend and take back elements like the queues  *)
(* in memory do.  The operating system moves bytes: a write may take any   *)
(* part of what it is offered, a read may return any part of what there    *)
(* is, and neither waits.                                                  *)
(*                                                                         *)
(* The bytes the writer commits are numbered 1, 2, ... in the order of the *)
(* elements they make up, so a byte is its number, and the number says     *)
(* where it has to come out.                                               *)
(***************************************************************************)
EXTENDS FilePollScheduler, Sequences

CONSTANTS
  ElementSize,   \* sizeof(T)
  OutCapacity,   \* the elements a FileOutputQueue has memory for
  InCapacity,    \* the elements a FileInputQueue has memory for
  PipeSize,      \* the bytes the operating system keeps
  Granule,       \* it moves a multiple of this many bytes
  Counts,        \* the arguments of begin_write and begin_read
  Items          \* bound on the elements committed

ASSUME FileQueuesAssumption ==
  /\ {ElementSize, OutCapacity, InCapacity, PipeSize, Granule} \subseteq Nat \ {0}
  /\ Counts \subseteq 0 .. InCapacity /\ Counts \subseteq 0 .. OutCapacity
  /\ PipeSize % Granule = 0 /\ ElementSize % Granule = 0
  /\ Items \in Nat

VARIABLES
  synchronous,  \* the template parameter of the FileOutputQueue
  pipe,         \* Seq(byte): what the operating system has of the stream
  closed,       \* is the writing end closed?
  pending,      \* Seq(byte): from m_writeout_position, m_bytes_to_write long
  writer,       \* where the writer is, and what it asked for
  m_buff,       \* Seq(byte): what has been read into the FileInputQueue
  m_carry, m_size,
  reader,       \* where the reader is, what it asked for and what it was lent
  bytes_read,   \* the local variable of begin_read
  written,      \* how many elements were committed
  taken,        \* Seq(element): what the reader took with end_read
  thrown        \* what broke the stream: "writer" and "reader" if an exception
                \* reached them in the middle of a transfer, "grant" if a
                \* begin_read read over elements lent before, "mixed" see ReadThrows

outputVars == << synchronous, pending, writer, written >>
inputVars  == << m_buff, m_carry, m_size, reader, bytes_read, taken >>
fileVars   == << pipe, closed, thrown, outputVars, inputVars, pollVars >>

Outside == [at |-> "outside", want |-> 0]

Init ==
  /\ SchedulerInit
  /\ synchronous \in BOOLEAN
  /\ pipe = << >> /\ closed = FALSE /\ pending = << >> /\ m_buff = << >>
  /\ writer = Outside /\ reader = Outside
  /\ m_carry = 0 /\ m_size = 0 /\ bytes_read = 0
  /\ written = 0 /\ taken = << >> /\ thrown = {}

(* How many bytes one system call moves when it is offered n of them and   *)
(* has room for `room'; 0 stands for EAGAIN.                               *)
Moves(n, room) ==
  LET most == IF n < room THEN n ELSE room IN
  IF most = 0 THEN {0} ELSE {k \in 1 .. most : k % Granule = 0}

First(s, n) == SubSeq(s, 1, n)
Rest(s, n)  == SubSeq(s, n + 1, Len(s))

(* write_buffer(): it is done when nothing is pending.                     *)
write_buffer ==
  \E n \in Moves(Len(pending), PipeSize - Len(pipe)) :
    /\ pipe'    = pipe \o First(pending, n)
    /\ pending' = Rest(pending, n)

-----------------------------------------------------------------------------
(* The writer.                                                             *)
WriterAt(place) == writer' = [writer EXCEPT !.at = place]

CallBeginWrite(n) ==
  /\ writer.at = "outside" /\ ~ closed
  /\ writer' = [at |-> "begin", want |-> n]
  /\ UNCHANGED << pipe, closed, thrown, synchronous, pending, written, inputVars, pollVars >>

(* Where wait_writeable leaves its caller, which waits at `place'.         *)
WaitWriteable(place) ==
  IF wait_throws THEN writer' = Outside /\ thrown' = thrown \cup {"writer"}
                 ELSE WriterAt(place) /\ UNCHANGED thrown

(* A begin_write that lends the buffer without waiting for all of it to go.*)
BeginWriteEarly ==
  /\ writer.at = "begin" /\ write_buffer
  /\ WriterAt("holding")
  /\ UNCHANGED << closed, thrown, synchronous, written, inputVars, pollVars >>

(* begin_write: "while (write_buffer()) wait_writeable", but begin_write(0)*)
(* tries once and returns 0.                                               *)
BeginWrite ==
  /\ writer.at = "begin" /\ write_buffer
  /\ \/ /\ pending' = << >> /\ writer' = [at |-> "holding", want |-> 0] /\ UNCHANGED thrown
     \/ /\ pending' # << >> /\ writer.want = 0 /\ writer' = Outside /\ UNCHANGED thrown
     \/ /\ pending' # << >> /\ writer.want > 0 /\ WaitWriteable("begin_poll")
  /\ UNCHANGED << closed, synchronous, written, inputVars, pollVars >>

(* end_write(count): the memory becomes what is to be written, and the     *)
(* next element follows the last.                                          *)
CallEndWrite(count) ==
  /\ writer.at = "holding" /\ count <= OutCapacity /\ written + count <= Items
  /\ written' = written + count
  /\ pending' = [i \in 1 .. count * ElementSize |-> written * ElementSize + i]
  /\ WriterAt("end")
  /\ UNCHANGED << pipe, closed, thrown, synchronous, inputVars, pollVars >>

(* An end_write that tries once, whatever it is.                           *)
EndWriteOnce ==
  /\ writer.at = "end" /\ write_buffer
  /\ writer' = Outside
  /\ UNCHANGED << closed, thrown, synchronous, written, inputVars, pollVars >>

(* Asynchronous: one attempt, what is left stays for begin_write.          *)
EndWrite ==
  /\ writer.at = "end" /\ write_buffer
  /\ \/ /\ pending' = << >> \/ ~ synchronous
        /\ writer' = Outside /\ UNCHANGED thrown
     \/ /\ pending' # << >> /\ synchronous /\ WaitWriteable("end_poll")
  /\ UNCHANGED << closed, synchronous, written, inputVars, pollVars >>

(* Sleeping in poll().                                                     *)
PollWriteable ==
  /\ writer.at \in {"begin_poll", "end_poll"}
  /\ \/ /\ poll_throws /\ writer' = Outside /\ thrown' = thrown \cup {"writer"}
     \/ /\ poll_returns(Len(pipe) < PipeSize) /\ UNCHANGED thrown
        /\ WriterAt(IF writer.at = "begin_poll" THEN "begin" ELSE "end")
  /\ UNCHANGED << pipe, closed, synchronous, pending, written, inputVars, pollVars >>

(* The writing end is closed, the queue goes and with it what is pending.  *)
CloseOutput ==
  /\ writer.at = "outside" /\ ~ closed
  /\ closed' = TRUE /\ pending' = << >>
  /\ thrown' = IF pending = << >> THEN thrown ELSE thrown \cup {"writer"}
  /\ UNCHANGED << pipe, synchronous, writer, written, inputVars, pollVars >>

-----------------------------------------------------------------------------
(* The reader.                                                             *)
Lent(n) == reader' = [at |-> "holding", want |-> n]

(* begin_read.  What end_read left in the buffer may be enough: then no    *)
(* system call is made, and m_size stays what it was.                      *)
CallBeginRead(n) ==
  /\ reader.at = "outside"
  /\ IF m_carry > 0 /\ m_carry >= n THEN Lent(m_carry)
                                    ELSE reader' = [at |-> "read", want |-> n]
  /\ bytes_read' = 0
  /\ UNCHANGED << pipe, closed, thrown, outputVars, m_buff, m_carry, m_size, taken, pollVars >>

(* buffer_position                                                         *)
Position == m_carry * ElementSize + bytes_read

(* An exception leaves m_size as it was: what was read is forgotten, or,   *)
(* if m_size still counts the elements of a grant that was left, lies      *)
(* mixed with what is left of those.                                       *)
ReadThrows ==
  /\ reader' = Outside
  /\ thrown' = thrown \cup IF bytes_read = 0 THEN {}
                           ELSE IF m_size = m_carry THEN {"reader"} ELSE {"reader", "mixed"}
  /\ UNCHANGED << m_buff, m_size, bytes_read, pipe >>

(* begin_read reads behind m_carry elements, whatever m_size says.         *)
ReadsOver == thrown' = IF m_size = m_carry THEN thrown ELSE thrown \cup {"grant"}

(* One pass of the loop, which reads as much as there is room for and ends *)
(* when it has enough.                                                     *)
ReadSome ==
  /\ pipe # << >>
  /\ \E n \in Moves(Len(pipe), InCapacity * ElementSize - Position) \ {0} :
       /\ m_buff' = (First(m_buff, Position) \o First(pipe, n)) \o Rest(m_buff, Position + n)
       /\ pipe' = Rest(pipe, n)
       /\ bytes_read' = bytes_read + n
  /\ IF bytes_read' >= (reader.want - m_carry) * ElementSize
     THEN m_size' = m_carry + bytes_read' \div ElementSize /\ Lent(m_size')
     ELSE UNCHANGED << m_size, reader >>
  /\ ReadsOver

ReadNothing ==
  /\ pipe = << >>
  /\ \/ closed /\ ReadThrows                    \* EndOfInputException
     \/ /\ ~ closed /\ reader.want = 0          \* "return what we have"
        /\ m_size' = m_carry /\ Lent(m_size') /\ ReadsOver
        /\ UNCHANGED << m_buff, bytes_read, pipe >>
     \/ /\ ~ closed /\ reader.want > 0
        /\ \/ wait_throws /\ ReadThrows
           \/ /\ ~ wait_throws
              /\ reader' = [reader EXCEPT !.at = "read_poll"]
              /\ UNCHANGED << m_buff, m_size, bytes_read, pipe, thrown >>

BeginRead ==
  /\ reader.at = "read"
  /\ ReadSome \/ ReadNothing
  /\ UNCHANGED << closed, outputVars, m_carry, taken, pollVars >>

(* A poll() that does not watch the internal pipe.                         *)
PollFileOnly ==
  /\ reader.at = "read_poll" /\ (pipe # << >> \/ closed)
  /\ reader' = [reader EXCEPT !.at = "read"]
  /\ UNCHANGED << pipe, closed, thrown, outputVars, m_buff, m_carry, m_size, bytes_read,
                  taken, pollVars >>

PollReadable ==
  /\ reader.at = "read_poll"
  /\ \/ poll_throws /\ ReadThrows
     \/ /\ poll_returns(pipe # << >> \/ closed)
        /\ reader' = [reader EXCEPT !.at = "read"]
        /\ UNCHANGED << m_buff, m_size, bytes_read, pipe, thrown >>
  /\ UNCHANGED << closed, outputVars, m_carry, taken, pollVars >>

(* The elements at the start of m_buff.                                    *)
Element(i) == SubSeq(m_buff, (i - 1) * ElementSize + 1, i * ElementSize)

(* end_read(count), count > 0, moves what is left to the front.            *)
EndRead(count) ==
  /\ reader.at = "holding" /\ count <= reader.want
  /\ reader'  = Outside
  /\ taken'   = taken \o [i \in 1 .. count |-> Element(i)]
  /\ m_carry' = m_size - count
  /\ m_buff'  = SubSeq(m_buff, count * ElementSize + 1, m_size * ElementSize)
  /\ m_size'  = m_size - count
  /\ UNCHANGED << pipe, closed, thrown, outputVars, bytes_read, pollVars >>

(* The reader leaves what it was lent: with end_read(0), which does        *)
(* nothing, or without end_read, because the begin_write that follows in   *)
(* StaticProcessor::process throws.                                        *)
LeaveGrant ==
  /\ reader.at = "holding"
  /\ reader' = Outside
  /\ UNCHANGED << pipe, closed, thrown, outputVars, m_buff, m_carry, m_size, bytes_read,
                  taken, pollVars >>

-----------------------------------------------------------------------------
WriterSteps == BeginWrite \/ EndWrite \/ PollWriteable
ReaderSteps == BeginRead \/ PollReadable

Next ==
  \/ WriterSteps \/ ReaderSteps
  \/ \E n \in Counts : CallBeginWrite(n) \/ CallBeginRead(n)
  \/ \E c \in 0 .. OutCapacity : CallEndWrite(c)
  \/ \E c \in 1 .. InCapacity : EndRead(c)
  \/ LeaveGrant
  \/ CloseOutput
  \/ SchedulerNext /\ UNCHANGED << pipe, closed, thrown, outputVars, inputVars >>

Spec == Init /\ [][Next]_fileVars

-----------------------------------------------------------------------------
Byte == 1 .. Items * ElementSize

(* The pointers of the two queues stay in their buffers.                   *)
TypeOK ==
  /\ m_interrupted \in BOOLEAN /\ internal_bytes \in 0 .. MaxInterrupts
  /\ interrupting \subseteq Controllers /\ resetting \in {"no", "draining", "drained"}
  /\ told \in {"reset", "resetting", "interrupted", "unknown"}
  /\ synchronous \in BOOLEAN /\ closed \in BOOLEAN
  /\ pipe \in Seq(Byte) /\ Len(pipe) <= PipeSize
  /\ pending \in Seq(Byte) /\ Len(pending) <= OutCapacity * ElementSize
  /\ m_buff \in Seq(Byte) /\ Len(m_buff) <= InCapacity * ElementSize
  /\ m_carry \in 0 .. InCapacity /\ m_size \in m_carry .. InCapacity
  /\ Position <= InCapacity * ElementSize \/ reader.at \notin {"read", "read_poll"}
  /\ writer.at \in {"outside", "begin", "begin_poll", "holding", "end", "end_poll"}
  /\ reader.at \in {"outside", "read", "read_poll", "holding"}
  /\ writer.want \in Counts /\ reader.want \in 0 .. InCapacity
  /\ written \in 0 .. Items /\ thrown \subseteq {"writer", "reader", "grant", "mixed"}

(* The bytes of the stream, in the order in which they come or will come   *)
(* out.  begin_read counts its own once it has read some.                  *)
InBuffer ==
  IF reader.at \in {"read", "read_poll"} /\ bytes_read > 0
  THEN First(m_buff, Position) ELSE First(m_buff, m_size * ElementSize)
Bytes(elements) ==
  [k \in 1 .. Len(elements) * ElementSize |->
     elements[((k - 1) \div ElementSize) + 1][((k - 1) % ElementSize) + 1]]
Journey == Bytes(taken) \o InBuffer \o pipe \o pending

(* Through partial writes, partial reads, carried elements, grants that    *)
(* are left and interrupts at any point, no byte overtakes another or      *)
(* comes out twice, unless an exception met begin_read half way through    *)
(* reading over a grant that was left.  None is missing unless begin_read  *)
(* read over such a grant or was met by an exception half way, or the      *)
(* output was closed with bytes pending.  A grant that is left loses       *)
(* nothing by itself, nor does an interrupted writer: its next begin_write *)
(* goes on where it was.                                                   *)
NoneOvertakes ==
  "mixed" \notin thrown => \A i, j \in DOMAIN Journey : i < j => Journey[i] < Journey[j]
NoneMissing ==
  thrown \cap {"reader", "grant"} = {} =>
    /\ Journey = [i \in 1 .. Len(Journey) |-> i]
    /\ ~ closed => Len(Journey) = written * ElementSize
InOrder == NoneOvertakes /\ NoneMissing

(* Where nothing was thrown and no grant was left, consecutive reads give  *)
(* the consecutive elements that were written, as the test                 *)
(* a_file_queue.blocking compares them.                                    *)
NoGaps ==
  thrown = {} =>
    \A i \in DOMAIN taken :
      taken[i] = [b \in 1 .. ElementSize |-> (i - 1) * ElementSize + b]

(* An interrupt() that returned and wrote its byte while no reset() was    *)
(* reading the bytes away ends every poll() until the next reset() begins, *)
(* whatever other interrupts do.  One that overlaps the reading of a       *)
(* reset() is swallowed: nothing is said of it.                            *)
StandingInterrupt == told = "interrupted" => poll_throws

(* A reset() that no interrupt() overlaps leaves nothing behind, however   *)
(* many interrupts there were: the next wait waits.                        *)
CleanReset == told = "reset" => ~ wait_throws /\ ~ poll_throws

(* A call that waits goes on when it can, the operating system runs a      *)
(* thread that has something to do, and there is somebody who reads, and   *)
(* does not leave its grants for ever: it is terminated a few times only.  *)
FairSpec ==
  /\ Spec
  /\ WF_fileVars(WriterSteps) /\ WF_fileVars(ReaderSteps)
  /\ WF_fileVars(\E n \in Counts : CallBeginRead(n))
  /\ WF_fileVars(reader.want = 0 /\ LeaveGrant)
  /\ SF_fileVars(\E c \in 1 .. InCapacity : EndRead(c))
  /\ WF_fileVars(ControlSteps /\ UNCHANGED << pipe, closed, thrown, outputVars, inputVars >>)

(* interrupt_write and interrupt_read get a thread out of its poll().      *)
InterruptEndsCall ==
  /\ told = "interrupted" /\ writer.at \in {"begin_poll", "end_poll"}
       ~> told # "interrupted" \/ writer.at \notin {"begin_poll", "end_poll"}
  /\ told = "interrupted" /\ reader.at = "read_poll"
       ~> told # "interrupted" \/ reader.at # "read_poll"

(* What a queue that writes synchronously was given in end_write gets on   *)
(* its way: "data as issued by begin_write is now valid and can be         *)
(* processed by the next node".                                            *)
SynchronousLeaves ==
  pending # << >> /\ synchronous ~> pending = << >> \/ "writer" \in thrown
=============================================================================
