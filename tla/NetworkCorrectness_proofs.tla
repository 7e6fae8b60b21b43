---------------------- MODULE NetworkCorrectness_proofs ----------------------
(***************************************************************************)
(* Proofs about networks of threaded processes, for every number of        *)
(* processes, every capacity and every block size.                         *)
(***************************************************************************)
EXTENDS NetworkCorrectness, QueueCorrectness_proofs

-----------------------------------------------------------------------------
(* A network uses its queues the way a queue expects it: each of its steps *)
(* is a step of FixedMemoryQueue or does not concern the queues.  What was *)
(* proved of a queue with any two clients is then true in a network.       *)

(* Both ends of a process are queues, and it asks them for numbers of      *)
(* elements that clients may ask for.                                      *)
LEMMA EndsAreQueues ==
  /\ 0 \in Queues /\ N \in Queues /\ 1 \in Counts
  /\ \A p \in Processes : /\ In(p) \in Queues /\ Out(p) \in Queues
                          /\ Blocksize[p] \in Counts
                          /\ Blocksize[p] \in Nat \ {0}
BY NetworkAssumption DEF In, Out, Processes

(* What processing makes of an element is an element.                      *)
LEMMA ProcessedIsElement ==
  ASSUME NEW v \in Values
  PROVE  ProcessBlockFunction(v) \in Values
<1>1. Modulus \in Nat \ {0} /\ v + Raise \in Int
  BY NetworkAssumption
<1>2. (v + Raise) % Modulus \in 0 .. Modulus - 1
  BY <1>1
<1> QED
  BY <1>2, NetworkAssumption DEF ProcessBlockFunction

(* A client never hands back more than the queue holds.                    *)
LEMMA EndCallsFit ==
  ASSUME Inv, NEW q \in Queues, NEW c \in Nat,
         EndWrite(q, c) \/ EndRead(q, c)
  PROVE  c \in 0 .. Capacity[q]
<1>1. /\ Capacity[q] \in Nat /\ m_size[q] \in Nat /\ m_size[q] <= Capacity[q]
      /\ writer[q].room \in Nat /\ reader[q].room \in Nat /\ Len(staged[q]) \in Nat
  BY AtOneQueue DEF Client
<1>2. CASE EndWrite(q, c)
  <2>1. c <= Len(staged[q]) /\ Len(staged[q]) <= writer[q].room
        /\ writer[q].room <= Capacity[q] - m_size[q]
    BY <1>2, AtOneQueue DEF EndWrite, WriterInv, available
  <2> QED
    BY <1>1, <2>1
<1>3. CASE EndRead(q, c)
  <2>1. c <= reader[q].room /\ reader[q].room <= m_size[q]
    BY <1>3, AtOneQueue DEF EndRead, ReaderInv
  <2> QED
    BY <1>1, <2>1
<1> QED
  BY <1>2, <1>3

(* The thread of a process.                                                *)
LEMMA ThreadObeys ==
  ASSUME Inv, NEW p \in Processes, ThreadNext(p)
  PROVE  Next
<1>1. CASE ReadBlock(p)
  BY <1>1, EndsAreQueues DEF ReadBlock, ReaderNext, Next
<1>2. CASE Reading(p)
  BY <1>2, EndsAreQueues DEF Reading, ReaderNext, Next
<1>3. CASE WriteBlock(p)
  BY <1>3, EndsAreQueues DEF WriteBlock, WriterNext, Next
<1>4. CASE Writing(p)
  BY <1>4, EndsAreQueues DEF Writing, WriterNext, Next
<1>5. CASE ProcessLoad(p)
  BY <1>5, EndsAreQueues DEF ProcessLoad, ReaderNext, Next
<1>6. CASE ProcessStore(p)
  <2> DEFINE n == Len(staged[Out(p)])  v == seen[In(p)][n + 1]
  <2>1. seen[In(p)] \in Seq(Values) /\ n \in Nat /\ n < Len(seen[In(p)])
    BY <1>6, EndsAreQueues, AtOneQueue DEF ProcessStore
  <2>2. v \in Values
    BY <2>1
  <2>3. Store(Out(p), ProcessBlockFunction(v))
    BY <1>6 DEF ProcessStore
  <2> QED
    BY <2>2, <2>3, ProcessedIsElement, EndsAreQueues DEF WriterNext, Next
<1>7. CASE EndBlockWrite(p)
  <2>1. EndWrite(Out(p), Blocksize[p])
    BY <1>7 DEF EndBlockWrite
  <2>2. Blocksize[p] \in 0 .. Capacity[Out(p)]
    BY <2>1, EndsAreQueues, EndCallsFit
  <2> QED
    BY <2>1, <2>2, EndsAreQueues DEF WriterNext, Next
<1>8. CASE EndBlockRead(p)
  <2>1. EndRead(In(p), Blocksize[p])
    BY <1>8 DEF EndBlockRead
  <2>2. Blocksize[p] \in 0 .. Capacity[In(p)]
    BY <2>1, EndsAreQueues, EndCallsFit
  <2> QED
    BY <2>1, <2>2, EndsAreQueues DEF ReaderNext, Next
<1> QED
  BY <1>1, <1>2, <1>3, <1>4, <1>5, <1>6, <1>7, <1>8 DEF ThreadNext

(* The user of a process: interrupt_ and resume_ are calls on the queues,  *)
(* the rest does not concern them.                                         *)
LEMMA UserObeys ==
  ASSUME NEW p \in Processes, UserNext(p)
  PROVE  Next \/ UNCHANGED queueVars
<1>1. CASE terminate(p)
  BY <1>1, EndsAreQueues DEF terminate, Control, OtherNext, Next
<1>2. CASE terminate_interrupt_write(p)
  BY <1>2, EndsAreQueues DEF terminate_interrupt_write, Control, OtherNext, Next
<1>3. CASE resume(p)
  BY <1>3, EndsAreQueues DEF resume, Control, OtherNext, Next
<1>4. CASE set_input(p) \/ set_output(p) \/ terminate_idle(p) \/ terminate_join(p)
  BY <1>4 DEF set_input, set_output, terminate_idle, terminate_join
<1> QED
  BY <1>1, <1>2, <1>3, <1>4 DEF UserNext

(* The source pushes the elements 1 .. Items, and no other.                *)
SourceInv ==
  /\ sent \in 0 .. Items
  /\ source # "outside" => sent < Items

(* Only the source pushes.                                                 *)
LEMMA SourceStep ==
  ASSUME SourceInv, [NetworkNext]_networkVars
  PROVE  SourceInv'
<1>1. Items \in Nat
  BY NetworkAssumption
<1>2. CASE push_one
  <2>1. CASE source = "outside" /\ sent < Items /\ sent' = sent
    BY <2>1 DEF SourceInv
  <2>2. CASE source # "outside" /\ sent' = sent
    BY <2>2 DEF SourceInv
  <2>3. CASE source = "holding" /\ source' = "outside" /\ sent' = sent + 1
    BY <2>3, <1>1 DEF SourceInv
  <2> QED
    BY <1>2, <2>1, <2>2, <2>3 DEF push_one, SourceGoes
<1>3. CASE UNCHANGED << source, sent >>
  BY <1>3 DEF SourceInv
<1>4. CASE \E p \in Processes : ThreadNext(p) \/ UserNext(p)
  <2>1. UNCHANGED outsideVars
    BY <1>4 DEF ThreadNext, ReadBlock, Reading, WriteBlock, Writing, ProcessLoad,
                ProcessStore, EndBlockWrite, EndBlockRead, GoTo,
                UserNext, set_input, set_output, terminate_idle, terminate,
                terminate_interrupt_write, terminate_join, resume
  <2> QED
    BY <2>1, <1>3 DEF outsideVars
<1>5. CASE pop_one
  BY <1>5, <1>3 DEF pop_one, SinkGoes
<1>6. CASE InterruptEnds \/ ResumeEnds \/ SleeperWakes \/ UNCHANGED networkVars
  BY <1>6, <1>3 DEF InterruptEnds, ResumeEnds, SleeperWakes, networkVars, outsideVars
<1> QED
  BY <1>2, <1>4, <1>5, <1>6 DEF NetworkNext

(* push_one at the first queue, pop_one at the last.                       *)
LEMMA EndsObey ==
  ASSUME Inv, SourceInv, push_one \/ pop_one
  PROVE  Next
<1>1. Capacity[0] \in Nat \ {0} /\ Capacity[N] \in Nat \ {0}
  BY EndsAreQueues, AtOneQueue
<1>2. CASE push_one
  <2>1. CASE CallBeginWrite(0, 1) \/ BeginWrite(0) \/ EndWrite(0, 1)
    BY <2>1, <1>1, EndsAreQueues DEF WriterNext, Next
  <2>2. CASE source = "holding" /\ Store(0, sent + 1)
    <3>1. sent + 1 \in Values
      BY <2>2, NetworkAssumption DEF SourceInv
    <3> QED
      BY <2>2, <3>1, EndsAreQueues DEF WriterNext, Next
  <2> QED
    BY <1>2, <2>1, <2>2 DEF push_one
<1>3. CASE pop_one
  <2>1. CallBeginRead(N, 1) \/ BeginRead(N) \/ Load(N) \/ EndRead(N, 1)
    BY <1>3 DEF pop_one
  <2> QED
    BY <2>1, <1>1, EndsAreQueues DEF ReaderNext, Next
<1> QED
  BY <1>2, <1>3

(* Every step of the network.                                              *)
LEMMA NetworkStepObeys ==
  ASSUME Inv, SourceInv, [NetworkNext]_networkVars
  PROVE  [Next]_queueVars
<1>1. CASE \E p \in Processes : ThreadNext(p) \/ UserNext(p)
  BY <1>1, ThreadObeys, UserObeys
<1>2. CASE push_one \/ pop_one
  BY <1>2, EndsObey
<1>3. CASE InterruptEnds
  BY <1>3, EndsAreQueues DEF InterruptEnds, Control, OtherNext, Next
<1>4. CASE ResumeEnds
  BY <1>4, EndsAreQueues DEF ResumeEnds, Control, OtherNext, Next
<1>5. CASE SleeperWakes
  BY <1>5 DEF SleeperWakes, OtherNext, Next
<1>6. CASE UNCHANGED networkVars
  BY <1>6 DEF networkVars
<1> QED
  BY <1>1, <1>2, <1>3, <1>4, <1>5, <1>6 DEF NetworkNext

(* The invariant of the queues holds in a network.                         *)
LEMMA NetworkInvariant == NetworkSpec => [](Inv /\ SourceInv)
<1>1. NetworkInit => Inv /\ SourceInv
  BY InitInv, NetworkAssumption DEF NetworkInit, SourceInv
<1>2. Inv /\ SourceInv /\ [NetworkNext]_networkVars => Inv' /\ SourceInv'
  BY NetworkStepObeys, NextInv, SourceStep
<1> QED
  BY <1>1, <1>2, PTL DEF NetworkSpec

(* A network is legal use of its queues: whatever its threads and users do *)
(* to them, in whatever order, is a behaviour of FixedMemoryQueue.         *)
THEOREM NetworkObeysQueues == NetworkSpec => Spec
<1>1. NetworkInit => Init
  BY DEF NetworkInit
<1>2. Inv /\ SourceInv /\ [NetworkNext]_networkVars => [Next]_queueVars
  BY NetworkStepObeys
<1> QED
  BY <1>1, <1>2, NetworkInvariant, PTL DEF NetworkSpec, Spec

(* Between two processes, and at the ends, a network has Kahn channels.    *)
THEOREM NetworkHasChannels == NetworkSpec => ImplementsChannels
BY NetworkObeysQueues, QueueImplementsChannels, PTL

(* No process sleeps through the end_ call or the interrupt it waits for:  *)
(* nobody in a network calls wait_empty.                                   *)
THEOREM NetworkLosesNoWakeup ==
  ASSUME Drainers \subseteq {"writer"}
  PROVE  NetworkSpec => []NoLostWakeup
BY NetworkObeysQueues, WakeupsAreNotLost, PTL

-----------------------------------------------------------------------------
(* The inductive invariant of a network, in named parts: control.          *)

(* The places of a thread that has the block it reads.                     *)
PastRead == {"write", "writing", "process", "end_read"}

(* The thread of a process has the grants its place says it has, and what  *)
(* it stored is what it made of the first elements of its source block.    *)
ThreadInv(p) ==
  LET r == reader[In(p)]   loaded == seen[In(p)]
      w == writer[Out(p)]  stored == staged[Out(p)]
  IN
  /\ r.at = "begin" <=> pc[p] = "reading"
  /\ w.at = "begin" <=> pc[p] = "writing"
  /\ pc[p] \in PastRead => r.at = "holding"
  /\ pc[p] = "process" => w.at = "holding"
  /\ pc[p] \notin {"process", "end_read"} => loaded = << >>
  /\ pc[p] # "process" => stored = << >>
  /\ pc[p] = "process" =>
       /\ Len(stored) <= Len(loaded) /\ Len(loaded) <= Blocksize[p]
       /\ \A i \in 1 .. Len(stored) : stored[i] = ProcessBlockFunction(loaded[i])
  /\ pc[p] = "end_read" => Len(loaded) = Blocksize[p] /\ done[p] >= Blocksize[p]

(* A process has a thread, running or exited, while both its pointers are  *)
(* set; only then can its user be inside terminate().                      *)
UserInv(p) ==
  /\ pc[p] = "none" <=> ~ (input[p] /\ output[p])
  /\ user[p] # "outside" => input[p] /\ output[p]

(* If the user always resumes before starting: a process that has its      *)
(* queues is interrupted only from its own terminate() on.                 *)
FlagInv(p) ==
  ResumeFirst /\ input[p] /\ output[p] =>
    /\ m_interrupted_not_empty[In(p)] => user[p] # "outside"
    /\ m_interrupted_not_full[Out(p)] => user[p] = "join"
    /\ pc[p] = "exited" => user[p] # "outside"

(* The source and the sink have the grants their place says they have.     *)
EndsInv ==
  /\ source = "begin" <=> writer[0].at = "begin"
  /\ source = "holding" => writer[0].at = "holding"
  /\ staged[0] = << >> \/ (source = "holding" /\ staged[0] = << sent + 1 >>)
  /\ sink = "begin" <=> reader[N].at = "begin"
  /\ sink = "holding" => reader[N].at = "holding"
  /\ seen[N] = << >> \/ (sink = "holding" /\ Len(seen[N]) = 1)

(* The types of the variables of a network.  Nobody calls wait_empty.      *)
NetTypeOK ==
  /\ pc \in [Processes -> {"none", "read", "reading", "exited"} \cup PastRead]
  /\ input \in [Processes -> BOOLEAN] /\ output \in [Processes -> BOOLEAN]
  /\ user \in [Processes -> {"outside", "interrupt_write", "join"}]
  /\ done \in [Processes -> Nat]
  /\ source \in {"outside", "begin", "holding"} /\ sent \in 0 .. Items
  /\ source # "outside" => sent < Items
  /\ sink \in {"outside", "begin", "holding"} /\ received \in Seq(Values)
  /\ draining = [q \in Queues |-> {}]

(* Who is where: the part of the invariant that needs no data.             *)
ControlInv ==
  /\ NetTypeOK /\ EndsInv
  /\ \A p \in Processes : ThreadInv(p) /\ UserInv(p)

(* The clients of a queue: a step of one leaves the other alone, and those *)
(* of the other queues.                                                    *)
WritersKept(S) ==
  \A q \in Queues \ S : writer'[q] = writer[q] /\ staged'[q] = staged[q]
(* ... and the readers of the others.                                      *)
ReadersKept(S) ==
  \A q \in Queues \ S : reader'[q] = reader[q] /\ seen'[q] = seen[q]

(* A step of a queue's writer concerns the writer's end of that queue      *)
(* only.                                                                   *)
LEMMA WriterFrame ==
  ASSUME Inv, NEW q \in Queues, NEW n, NEW v,
         CallBeginWrite(q, n) \/ BeginWrite(q) \/ Store(q, v) \/ EndWrite(q, n)
  PROVE  WritersKept({q}) /\ ReadersKept({}) /\ UNCHANGED draining
<1>1. writer \in [Queues -> Client] /\ staged \in [Queues -> Seq(Values)]
  BY DEF Inv, TypeOK
<1>2. UNCHANGED draining /\ UNCHANGED readerVars
  BY DEF CallBeginWrite, BeginWrite, Store, EndWrite
<1>3. \/ UNCHANGED writer
      \/ \E c : writer' = [writer EXCEPT ![q] = c]
  BY DEF CallBeginWrite, BeginWrite, BeginWriteReturns, BeginWriteWaits, Store, EndWrite
<1>4. UNCHANGED staged \/ \E c : staged' = [staged EXCEPT ![q] = c]
  BY DEF CallBeginWrite, BeginWrite, Store, EndWrite
<1> QED
  BY <1>1, <1>2, <1>3, <1>4 DEF readerVars, WritersKept, ReadersKept

(* A step of a queue's reader concerns the reader's end of that queue      *)
(* only.                                                                   *)
LEMMA ReaderFrame ==
  ASSUME Inv, NEW q \in Queues, NEW n,
         CallBeginRead(q, n) \/ BeginRead(q) \/ Load(q) \/ EndRead(q, n)
  PROVE  WritersKept({}) /\ ReadersKept({q}) /\ UNCHANGED draining
<1>1. reader \in [Queues -> Client] /\ seen \in [Queues -> Seq(Values)]
  BY DEF Inv, TypeOK
<1>2. UNCHANGED draining /\ UNCHANGED writerVars
  BY DEF CallBeginRead, BeginRead, Load, EndRead
<1>3. \/ UNCHANGED reader
      \/ \E c : reader' = [reader EXCEPT ![q] = c]
  BY DEF CallBeginRead, BeginRead, BeginReadReturns, BeginReadWaits, Load, EndRead
<1>4. UNCHANGED seen \/ \E c : seen' = [seen EXCEPT ![q] = c]
  BY DEF CallBeginRead, BeginRead, Load, EndRead
<1> QED
  BY <1>1, <1>2, <1>3, <1>4 DEF writerVars, WritersKept, ReadersKept

(* How a begin_ call can go on: it gets a grant, waits, or throws.         *)
LEMMA BeginWriteGoesOn ==
  ASSUME Inv, NEW q \in Queues, BeginWrite(q)
  PROVE  /\ writer[q].at = "begin" /\ UNCHANGED << staged, ringVars >>
         /\ \/ writer'[q].at = "holding"
            \/ writer'[q].at = "begin"
            \/ writer'[q].at = "outside" /\ m_interrupted_not_full[q]
<1>1. writer \in [Queues -> Client]
  BY DEF Inv, TypeOK
<1>2. writer[q].at = "begin" /\ UNCHANGED << staged, ringVars >>
  BY DEF BeginWrite
<1>3. CASE BeginWriteReturns(q)
  BY <1>1, <1>2, <1>3 DEF BeginWriteReturns, Holding
<1>4. CASE BeginWriteWaits(q)
  BY <1>1, <1>2, <1>4 DEF BeginWriteWaits, Outside, wait_until_not_full_throws
<1> QED
  BY <1>2, <1>3, <1>4 DEF BeginWrite

(* The same for the reader.                                                *)
LEMMA BeginReadGoesOn ==
  ASSUME Inv, NEW q \in Queues, BeginRead(q)
  PROVE  /\ reader[q].at = "begin" /\ UNCHANGED << seen, ringVars >>
         /\ \/ reader'[q].at = "holding"
            \/ reader'[q].at = "begin"
            \/ reader'[q].at = "outside" /\ m_interrupted_not_empty[q]
<1>1. reader \in [Queues -> Client]
  BY DEF Inv, TypeOK
<1>2. reader[q].at = "begin" /\ UNCHANGED << seen, ringVars >>
  BY DEF BeginRead
<1>3. CASE BeginReadReturns(q)
  BY <1>1, <1>2, <1>3 DEF BeginReadReturns, Holding
<1>4. CASE BeginReadWaits(q)
  BY <1>1, <1>2, <1>4 DEF BeginReadWaits, Outside, wait_until_not_empty_throws
<1> QED
  BY <1>2, <1>3, <1>4 DEF BeginRead

(* A call that ends an access does not leave its client in a begin_ call.  *)
LEMMA RemainderIsNoCall ==
  ASSUME NEW grant, NEW c
  PROVE  Remainder(grant, c).at \in {"outside", "holding"}
BY DEF Remainder, Outside, Holding

(* What the invariants say of a process does not concern the others: the   *)
(* thread of a process uses its own two ends of queues.                    *)
LEMMA ThreadFrame ==
  ASSUME Inv, NEW p \in Processes, ThreadNext(p)
  PROVE  /\ WritersKept({Out(p)}) /\ ReadersKept({In(p)})
         /\ UNCHANGED << input, output, user, terminates, outsideVars, draining >>
         /\ \E place, count : GoTo(p, place, count)
<1>1. In(p) \in Queues /\ Out(p) \in Queues
  BY EndsAreQueues
<1>2. CASE ReadBlock(p) \/ Reading(p) \/ ProcessLoad(p) \/ EndBlockRead(p)
  <2>1. WritersKept({}) /\ ReadersKept({In(p)}) /\ UNCHANGED draining
    BY <1>1, <1>2, ReaderFrame DEF ReadBlock, Reading, ProcessLoad, EndBlockRead
  <2>2. \E place, count : GoTo(p, place, count)
    BY <1>2 DEF ReadBlock, Reading, ProcessLoad, EndBlockRead
  <2> QED
    BY <2>1, <2>2 DEF WritersKept, GoTo
<1>3. CASE WriteBlock(p) \/ Writing(p) \/ ProcessStore(p) \/ EndBlockWrite(p)
  <2>1. WritersKept({Out(p)}) /\ ReadersKept({}) /\ UNCHANGED draining
    BY <1>1, <1>3, WriterFrame DEF WriteBlock, Writing, ProcessStore, EndBlockWrite
  <2>2. \E place, count : GoTo(p, place, count)
    BY <1>3 DEF WriteBlock, Writing, ProcessStore, EndBlockWrite
  <2> QED
    BY <2>1, <2>2 DEF ReadersKept, GoTo
<1> QED
  BY <1>2, <1>3 DEF ThreadNext

(* A thread whose place and whose ends nobody touched is as it was.        *)
LEMMA OtherThreadKept ==
  ASSUME NEW o \in Processes, ThreadInv(o),
         pc'[o] = pc[o], done'[o] = done[o],
         writer'[Out(o)] = writer[Out(o)], staged'[Out(o)] = staged[Out(o)],
         reader'[In(o)] = reader[In(o)], seen'[In(o)] = seen[In(o)]
  PROVE  ThreadInv(o)'
BY DEF ThreadInv, In, Out

(* What the invariants say of the variables a process uses.                *)
LEMMA ThreadTypes ==
  ASSUME Inv, ControlInv, NEW p \in Processes
  PROVE  /\ pc \in [Processes -> {"none", "read", "reading", "exited"} \cup PastRead]
         /\ done \in [Processes -> Nat] /\ Blocksize[p] \in Nat \ {0}
         /\ ThreadInv(p) /\ UserInv(p)
         /\ In(p) \in Queues /\ Out(p) \in Queues
         /\ writer \in [Queues -> Client] /\ staged \in [Queues -> Seq(Values)]
         /\ reader \in [Queues -> Client] /\ seen \in [Queues -> Seq(Values)]
         /\ staged[Out(p)] \in Seq(Values) /\ seen[In(p)] \in Seq(Values)
BY EndsAreQueues DEF ControlInv, NetTypeOK, Inv, TypeOK

(* The calls of the thread, one by one.                                    *)
LEMMA ReadBlockControl ==
  ASSUME Inv, ControlInv, NEW p \in Processes, ReadBlock(p)
  PROVE  ThreadInv(p)'
<1>1. pc'[p] = "reading" /\ done'[p] = done[p] /\ pc[p] = "read"
  BY ThreadTypes DEF ReadBlock, GoTo
<1>2. WritersKept({})
  BY EndsAreQueues, ReaderFrame DEF ReadBlock
<1>3. reader'[In(p)].at = "begin" /\ seen'[In(p)] = << >>
  BY ThreadTypes DEF ReadBlock, CallBeginRead, Begin
<1> QED
  BY <1>1, <1>2, <1>3, ThreadTypes DEF ThreadInv, WritersKept, PastRead, In, Out

(* A pass through begin_read.                                              *)
LEMMA ReadingControl ==
  ASSUME Inv, ControlInv, NEW p \in Processes, Reading(p)
  PROVE  ThreadInv(p)'
<1>1. pc'[p] = AfterBegin(p, reader'[In(p)], "write") /\ done'[p] = done[p] /\ pc[p] = "reading"
  BY ThreadTypes DEF Reading, GoTo
<1>2. WritersKept({})
  BY EndsAreQueues, ReaderFrame DEF Reading
<1>3. /\ seen'[In(p)] = seen[In(p)]
      /\ \/ reader'[In(p)].at = "holding" /\ pc'[p] = "write"
         \/ reader'[In(p)].at = "begin" /\ pc'[p] = "reading"
         \/ reader'[In(p)].at = "outside" /\ pc'[p] = "exited"
  BY <1>1, ThreadTypes, BeginReadGoesOn DEF Reading, AfterBegin
<1> QED
  BY <1>1, <1>2, <1>3, ThreadTypes DEF ThreadInv, WritersKept, PastRead, In, Out

(* The call of begin_write.                                                *)
LEMMA WriteBlockControl ==
  ASSUME Inv, ControlInv, NEW p \in Processes, WriteBlock(p)
  PROVE  ThreadInv(p)'
<1>1. pc'[p] = "writing" /\ done'[p] = done[p] /\ pc[p] = "write"
  BY ThreadTypes DEF WriteBlock, GoTo
<1>2. ReadersKept({})
  BY EndsAreQueues, WriterFrame DEF WriteBlock
<1>3. writer'[Out(p)].at = "begin" /\ staged'[Out(p)] = << >>
  BY ThreadTypes DEF WriteBlock, CallBeginWrite, Begin
<1> QED
  BY <1>1, <1>2, <1>3, ThreadTypes DEF ThreadInv, ReadersKept, PastRead, In, Out

(* A pass through begin_write.                                             *)
LEMMA WritingControl ==
  ASSUME Inv, ControlInv, NEW p \in Processes, Writing(p)
  PROVE  ThreadInv(p)'
<1>1. pc'[p] = AfterBegin(p, writer'[Out(p)], "process") /\ done'[p] = done[p] /\ pc[p] = "writing"
  BY ThreadTypes DEF Writing, GoTo
<1>2. ReadersKept({})
  BY EndsAreQueues, WriterFrame DEF Writing
<1>3. /\ staged'[Out(p)] = staged[Out(p)]
      /\ \/ writer'[Out(p)].at = "holding" /\ pc'[p] = "process"
         \/ writer'[Out(p)].at = "begin" /\ pc'[p] = "writing"
         \/ writer'[Out(p)].at = "outside" /\ pc'[p] = "exited"
  BY <1>1, ThreadTypes, BeginWriteGoesOn DEF Writing, AfterBegin
<1>4. staged[Out(p)] = << >> /\ seen[In(p)] = << >> /\ reader[In(p)].at = "holding"
  BY <1>1, ThreadTypes DEF ThreadInv, PastRead
<1>5. /\ staged'[Out(p)] = << >> /\ seen'[In(p)] = << >> /\ reader'[In(p)].at = "holding"
  BY <1>2, <1>3, <1>4, ThreadTypes DEF ReadersKept
<1> QED
  BY <1>1, <1>3, <1>5, ThreadTypes DEF ThreadInv, PastRead

(* ProcessBlockFunction reads an element.                                  *)
LEMMA ProcessLoadControl ==
  ASSUME Inv, ControlInv, NEW p \in Processes, ProcessLoad(p)
  PROVE  ThreadInv(p)'
<1> DEFINE loaded == seen[In(p)]  stored == staged[Out(p)]
<1>1. /\ pc'[p] = "process" /\ done'[p] = done[p] /\ pc[p] = "process"
      /\ Len(loaded) = Len(stored) /\ Len(loaded) < Blocksize[p]
  BY ThreadTypes DEF ProcessLoad, GoTo
<1>2. WritersKept({}) /\ Load(In(p))
  BY EndsAreQueues, ReaderFrame DEF ProcessLoad
<1>3. /\ reader' = reader
      /\ \E v : seen'[In(p)] = Append(loaded, v)
  BY <1>2, ThreadTypes DEF Load
<1>4. /\ stored \in Seq(Values) /\ loaded \in Seq(Values) /\ Len(stored) \in Nat
      /\ \A i \in 1 .. Len(stored) : stored[i] = ProcessBlockFunction(loaded[i])
      /\ reader[In(p)].at = "holding" /\ writer[Out(p)].at = "holding"
  BY <1>1, ThreadTypes DEF ThreadInv, PastRead
<1>5. staged'[Out(p)] = stored /\ writer'[Out(p)] = writer[Out(p)]
  BY <1>2, ThreadTypes DEF WritersKept
<1>6. /\ Len(seen'[In(p)]) = Len(loaded) + 1
      /\ \A i \in 1 .. Len(stored) : seen'[In(p)][i] = loaded[i]
  BY <1>1, <1>3, <1>4, ThreadTypes
<1>7. Blocksize[p] \in Nat
  BY ThreadTypes
<1> HIDE DEF loaded, stored
<1>8. Len(stored) <= Len(seen'[In(p)]) /\ Len(seen'[In(p)]) <= Blocksize[p]
  BY <1>1, <1>4, <1>6, <1>7
<1>9. \A i \in 1 .. Len(stored) : stored[i] = ProcessBlockFunction(seen'[In(p)][i])
  BY <1>4, <1>6
<1> QED
  BY <1>1, <1>3, <1>4, <1>5, <1>8, <1>9 DEF ThreadInv, PastRead, ProcessBlockFunction

(* ProcessBlockFunction writes an element.                                 *)
LEMMA ProcessStoreControl ==
  ASSUME Inv, ControlInv, NEW p \in Processes, ProcessStore(p)
  PROVE  ThreadInv(p)'
<1> DEFINE loaded == seen[In(p)]  stored == staged[Out(p)]  n == Len(stored)
           v == ProcessBlockFunction(loaded[n + 1])
<1>1. /\ pc'[p] = "process" /\ done'[p] = done[p] /\ pc[p] = "process"
      /\ n < Len(loaded)
  BY ThreadTypes DEF ProcessStore, GoTo
<1>2. ReadersKept({}) /\ Store(Out(p), v)
  BY EndsAreQueues, WriterFrame DEF ProcessStore
<1>3. writer' = writer /\ staged'[Out(p)] = Append(stored, v)
  BY <1>2, ThreadTypes DEF Store
<1>4. /\ stored \in Seq(Values) /\ loaded \in Seq(Values) /\ n \in Nat /\ Len(loaded) \in Nat
      /\ Len(loaded) <= Blocksize[p]
      /\ \A i \in 1 .. n : stored[i] = ProcessBlockFunction(loaded[i])
      /\ reader[In(p)].at = "holding" /\ writer[Out(p)].at = "holding"
  BY <1>1, ThreadTypes DEF ThreadInv, PastRead
<1>5. seen'[In(p)] = loaded /\ reader'[In(p)] = reader[In(p)]
  BY <1>2, ThreadTypes DEF ReadersKept
<1>6. /\ Len(staged'[Out(p)]) = n + 1
      /\ \A i \in 1 .. n : staged'[Out(p)][i] = stored[i]
      /\ staged'[Out(p)][n + 1] = v
  BY <1>3, <1>4, ThreadTypes
<1>9. \A i \in 1 .. n + 1 : staged'[Out(p)][i] = ProcessBlockFunction(loaded[i])
  BY <1>4, <1>6
<1> HIDE DEF loaded, stored, n
<1>8. n + 1 <= Len(loaded)
  BY <1>1, <1>4
<1> QED
  BY <1>1, <1>3, <1>4, <1>5, <1>6, <1>8, <1>9 DEF ThreadInv, PastRead, ProcessBlockFunction

(* end_write: the whole block was stored, so the whole block was read.     *)
LEMMA EndBlockWriteControl ==
  ASSUME Inv, ControlInv, NEW p \in Processes, EndBlockWrite(p)
  PROVE  ThreadInv(p)'
<1> DEFINE B == Blocksize[p]  loaded == seen[In(p)]  stored == staged[Out(p)]
<1>1. /\ pc'[p] = "end_read" /\ done'[p] = done[p] + B /\ pc[p] = "process"
      /\ Len(stored) = B
  BY ThreadTypes DEF EndBlockWrite, GoTo
<1>2. ReadersKept({}) /\ EndWrite(Out(p), B)
  BY EndsAreQueues, WriterFrame DEF EndBlockWrite
<1>3. /\ writer'[Out(p)] = Remainder(writer[Out(p)], B)
      /\ staged'[Out(p)] = SubSeq(stored, B + 1, Len(stored))
  BY <1>2, ThreadTypes DEF EndWrite
<1>4. /\ stored \in Seq(Values) /\ loaded \in Seq(Values) /\ Len(loaded) \in Nat
      /\ Len(loaded) <= B /\ Len(stored) <= Len(loaded) /\ B \in Nat /\ done[p] \in Nat
      /\ reader[In(p)].at = "holding"
  BY <1>1, ThreadTypes DEF ThreadInv, PastRead
<1>5. seen'[In(p)] = loaded /\ reader'[In(p)] = reader[In(p)]
  BY <1>2, ThreadTypes DEF ReadersKept
<1>6. staged'[Out(p)] = << >>
  BY <1>1, <1>3, <1>4
<1>7. writer'[Out(p)].at # "begin"
  BY <1>3, RemainderIsNoCall
<1>8. Len(loaded) = B /\ done[p] + B >= B
  BY <1>1, <1>4
<1> QED
  BY <1>1, <1>4, <1>5, <1>6, <1>7, <1>8 DEF ThreadInv, PastRead

(* end_read: nothing the thread has looked at is left.                     *)
LEMMA EndBlockReadControl ==
  ASSUME Inv, ControlInv, NEW p \in Processes, EndBlockRead(p)
  PROVE  ThreadInv(p)'
<1> DEFINE B == Blocksize[p]  loaded == seen[In(p)]
<1>1. pc'[p] = "read" /\ done'[p] = done[p] /\ pc[p] = "end_read"
  BY ThreadTypes DEF EndBlockRead, GoTo
<1>2. WritersKept({}) /\ EndRead(In(p), B)
  BY EndsAreQueues, ReaderFrame DEF EndBlockRead
<1>3. /\ reader'[In(p)] = Remainder(reader[In(p)], B)
      /\ seen'[In(p)] = SubSeq(loaded, B + 1, Len(loaded))
  BY <1>2, ThreadTypes DEF EndRead
<1>4. /\ loaded \in Seq(Values) /\ B \in Nat /\ Len(loaded) = B
      /\ writer[Out(p)].at # "begin" /\ staged[Out(p)] = << >>
  BY <1>1, ThreadTypes DEF ThreadInv, PastRead
<1>5. staged'[Out(p)] = << >> /\ writer'[Out(p)].at # "begin"
  BY <1>2, <1>4, ThreadTypes DEF WritersKept
<1>6. seen'[In(p)] = << >>
  BY <1>3, <1>4
<1>7. reader'[In(p)].at # "begin"
  BY <1>3, RemainderIsNoCall
<1> QED
  BY <1>1, <1>5, <1>6, <1>7 DEF ThreadInv, PastRead

(* All of them; and a thread that runs is there before and after its step. *)
LEMMA ThreadOwn ==
  ASSUME Inv, ControlInv, NEW p \in Processes, ThreadNext(p)
  PROVE  ThreadInv(p)' /\ pc[p] # "none" /\ pc'[p] # "none"
<1>1. ThreadInv(p)'
  BY ReadBlockControl, ReadingControl, WriteBlockControl, WritingControl, ProcessLoadControl,
     ProcessStoreControl, EndBlockWriteControl, EndBlockReadControl DEF ThreadNext
<1>2. pc[p] # "none"
  BY DEF ThreadNext, ReadBlock, Reading, WriteBlock, Writing, ProcessLoad, ProcessStore,
         EndBlockWrite, EndBlockRead
<1>3. pc'[p] # "none"
  <2>1. CASE Reading(p)
    BY <2>1, ThreadTypes, BeginReadGoesOn DEF Reading, GoTo, AfterBegin
  <2>2. CASE Writing(p)
    BY <2>2, ThreadTypes, BeginWriteGoesOn DEF Writing, GoTo, AfterBegin
  <2>3. CASE ~ Reading(p) /\ ~ Writing(p)
    BY <2>3, ThreadTypes DEF ThreadNext, ReadBlock, WriteBlock, ProcessLoad, ProcessStore,
                             EndBlockWrite, EndBlockRead, GoTo
  <2> QED
    BY <2>1, <2>2, <2>3
<1> QED
  BY <1>1, <1>2, <1>3

(* A thread moves itself, and counts its own elements.                     *)
LEMMA ThreadPlaces ==
  ASSUME Inv, ControlInv, NEW p \in Processes, ThreadNext(p)
  PROVE  /\ pc' \in [Processes -> {"none", "read", "reading", "exited"} \cup PastRead]
         /\ done' \in [Processes -> Nat]
         /\ \A o \in Processes \ {p} : pc'[o] = pc[o] /\ done'[o] = done[o]
<1>1. PICK place, count : GoTo(p, place, count)
  BY ThreadFrame
<1>2. \A o \in Processes \ {p} : pc'[o] = pc[o] /\ done'[o] = done[o]
  BY <1>1, ThreadTypes DEF GoTo
<1>3. pc'[p] \in {"none", "read", "reading", "exited"} \cup PastRead
  <2>1. CASE Reading(p)
    BY <2>1, ThreadTypes, BeginReadGoesOn DEF Reading, GoTo, AfterBegin, PastRead
  <2>2. CASE Writing(p)
    BY <2>2, ThreadTypes, BeginWriteGoesOn DEF Writing, GoTo, AfterBegin, PastRead
  <2>3. CASE ~ Reading(p) /\ ~ Writing(p)
    BY <2>3, ThreadTypes DEF ThreadNext, ReadBlock, WriteBlock, ProcessLoad, ProcessStore,
                             EndBlockWrite, EndBlockRead, GoTo, PastRead
  <2> QED
    BY <2>1, <2>2, <2>3
<1>4. done'[p] \in Nat
  BY ThreadTypes DEF ThreadNext, ReadBlock, Reading, WriteBlock, Writing, ProcessLoad,
                     ProcessStore, EndBlockWrite, EndBlockRead, GoTo
<1>5. pc' = [pc EXCEPT ![p] = pc'[p]] /\ done' = [done EXCEPT ![p] = done'[p]]
  BY <1>1, ThreadTypes DEF GoTo
<1> QED
  BY <1>2, <1>3, <1>4, <1>5, ThreadTypes

(* The two ends of the network are nobody else's.                          *)
LEMMA EndsKept ==
  ASSUME EndsInv, UNCHANGED << source, sent, sink >>,
         writer'[0] = writer[0], staged'[0] = staged[0],
         reader'[N] = reader[N], seen'[N] = seen[N]
  PROVE  EndsInv'
BY DEF EndsInv

(* A step of a thread keeps the control part of the invariant.             *)
LEMMA ThreadControl ==
  ASSUME Inv, ControlInv, NEW p \in Processes, ThreadNext(p)
  PROVE  ControlInv'
<1>1. /\ WritersKept({Out(p)}) /\ ReadersKept({In(p)})
      /\ UNCHANGED << input, output, user, terminates, outsideVars, draining >>
  BY ThreadFrame
<1>2. N \in Nat /\ Queues = 0 .. N /\ p \in 1 .. N
  BY NetworkAssumption DEF Processes
<1>3. ASSUME NEW o \in Processes, o # p
      PROVE  ThreadInv(o)' /\ UserInv(o)'
  <2>1. In(o) \in Queues \ {In(p)} /\ Out(o) \in Queues \ {Out(p)}
    BY <1>2, <1>3 DEF In, Out, Processes
  <2>2. ThreadInv(o)'
    BY <1>1, <1>3, <2>1, ThreadPlaces, OtherThreadKept, ThreadTypes DEF WritersKept, ReadersKept
  <2> QED
    BY <1>1, <1>3, <2>2, ThreadPlaces, ThreadTypes DEF UserInv
<1>4. ThreadInv(p)' /\ UserInv(p)'
  BY <1>1, ThreadOwn, ThreadTypes DEF UserInv
<1>5. EndsInv'
  <2>1. 0 \in Queues \ {Out(p)} /\ N \in Queues \ {In(p)}
    BY <1>2 DEF In, Out
  <2> QED
    BY <1>1, <2>1, EndsKept DEF WritersKept, ReadersKept, ControlInv, outsideVars
<1>6. NetTypeOK'
  BY <1>1, ThreadPlaces DEF ControlInv, NetTypeOK, outsideVars
<1> QED
  BY <1>3, <1>4, <1>5, <1>6 DEF ControlInv

(* The user of a process.                                                  *)
LEMMA UserFrame ==
  ASSUME NEW p \in Processes, UserNext(p)
  PROVE  UNCHANGED << ringVars, writerVars, readerVars, draining, outsideVars, done >>
BY DEF UserNext, set_input, set_output, terminate_idle, terminate, terminate_interrupt_write,
       terminate_join, resume, queueVars, processVars

(* A step of the user does: start() finds no thread, join() leaves none.   *)
LEMMA UserControl ==
  ASSUME Inv, ControlInv, NEW p \in Processes, UserNext(p)
  PROVE  ControlInv'
<1>1. UNCHANGED << ringVars, writerVars, readerVars, draining, outsideVars, done >>
  BY UserFrame
<1>2. /\ pc \in [Processes -> {"none", "read", "reading", "exited"} \cup PastRead]
      /\ input \in [Processes -> BOOLEAN] /\ output \in [Processes -> BOOLEAN]
      /\ user \in [Processes -> {"outside", "interrupt_write", "join"}]
      /\ UserInv(p)
  BY DEF ControlInv, NetTypeOK
<1>3. \/ pc'[p] = pc[p]
      \/ pc[p] = "none" /\ pc'[p] = "read"
      \/ pc[p] = "exited" /\ pc'[p] = "none"
  BY <1>2 DEF UserNext, set_input, set_output, terminate_idle, terminate,
              terminate_interrupt_write, terminate_join, resume, Start, UserInv, processVars
<1>4. /\ \A o \in Processes \ {p} :
           pc'[o] = pc[o] /\ input'[o] = input[o] /\ output'[o] = output[o] /\ user'[o] = user[o]
      /\ pc' \in [Processes -> {"none", "read", "reading", "exited"} \cup PastRead]
      /\ input' \in [Processes -> BOOLEAN] /\ output' \in [Processes -> BOOLEAN]
      /\ user' \in [Processes -> {"outside", "interrupt_write", "join"}]
  BY <1>2 DEF UserNext, set_input, set_output, terminate_idle, terminate,
              terminate_interrupt_write, terminate_join, resume, Start, processVars
<1>5. UserInv(p)'
  BY <1>2 DEF UserNext, set_input, set_output, terminate_idle, terminate,
              terminate_interrupt_write, terminate_join, resume, Start, UserInv, processVars
<1>6. ASSUME NEW o \in Processes PROVE ThreadInv(o)'
  <2>1. ThreadInv(o)
    BY DEF ControlInv
  <2>2. CASE pc'[o] = pc[o]
    BY <1>1, <2>1, <2>2, OtherThreadKept DEF writerVars, readerVars
  <2>3. CASE pc'[o] # pc[o]
    BY <1>1, <1>3, <1>4, <2>1, <2>3 DEF ThreadInv, writerVars, readerVars, PastRead
  <2> QED
    BY <2>2, <2>3
<1>7. ASSUME NEW o \in Processes, o # p PROVE UserInv(o)'
  BY <1>4, <1>7 DEF ControlInv, UserInv
<1>8. EndsInv' /\ NetTypeOK'
  BY <1>1, <1>4, EndsKept DEF ControlInv, NetTypeOK, outsideVars, writerVars, readerVars
<1> QED
  BY <1>5, <1>6, <1>7, <1>8 DEF ControlInv

(* push_one at the first queue, pop_one at the last: processes use the     *)
(* other ends of these.                                                    *)
LEMMA SourceControl ==
  ASSUME Inv, ControlInv, push_one
  PROVE  ControlInv'
<1>1. 0 \in Queues /\ N \in Nat /\ Items \in Nat
  BY NetworkAssumption
<1>2. /\ WritersKept({0}) /\ ReadersKept({}) /\ UNCHANGED draining
      /\ UNCHANGED << sink, received, interrupts, processVars >>
  BY <1>1, WriterFrame DEF push_one, SourceGoes
<1>3. /\ writer \in [Queues -> Client] /\ staged \in [Queues -> Seq(Values)]
      /\ staged[0] \in Seq(Values) /\ EndsInv
      /\ source \in {"outside", "begin", "holding"} /\ sent \in 0 .. Items
      /\ source # "outside" => sent < Items
  BY <1>1 DEF Inv, TypeOK, ControlInv, NetTypeOK
<1>4. /\ source' \in {"outside", "begin", "holding"} /\ sent' \in 0 .. Items
      /\ source' # "outside" => sent' < Items
      /\ source' = "begin" <=> writer'[0].at = "begin"
      /\ source' = "holding" => writer'[0].at = "holding"
      /\ staged'[0] = << >> \/ (source' = "holding" /\ staged'[0] = << sent' + 1 >>)
  <2>1. CASE source = "outside" /\ CallBeginWrite(0, 1) /\ source' = "begin" /\ sent < Items
             /\ sent' = sent
    BY <1>1, <1>3, <2>1 DEF CallBeginWrite, Begin
  <2>2. CASE source = "begin" /\ BeginWrite(0) /\ source' = writer'[0].at /\ sent' = sent
    BY <1>1, <1>3, <2>2, BeginWriteGoesOn DEF EndsInv
  <2>3. CASE source = "holding" /\ staged[0] = << >> /\ Store(0, sent + 1)
             /\ source' = "holding" /\ sent' = sent
    <3>1. writer' = writer /\ staged'[0] = << sent + 1 >>
      BY <1>1, <1>3, <2>3 DEF Store
    <3> QED
      BY <1>3, <2>3, <3>1 DEF EndsInv
  <2>4. CASE source = "holding" /\ staged[0] # << >> /\ EndWrite(0, 1)
             /\ source' = "outside" /\ sent' = sent + 1
    <3>1. /\ staged[0] = << sent + 1 >>
          /\ writer'[0] = Remainder(writer[0], 1)
          /\ staged'[0] = SubSeq(staged[0], 2, Len(staged[0]))
      BY <1>1, <1>3, <2>4 DEF EndWrite, EndsInv
    <3>2. staged'[0] = << >>
      BY <1>3, <3>1
    <3>3. writer'[0].at # "begin"
      BY <3>1, RemainderIsNoCall
    <3>4. sent + 1 \in 0 .. Items
      BY <1>1, <1>3, <2>4
    <3> QED
      BY <2>4, <3>2, <3>3, <3>4
  <2> QED
    BY <2>1, <2>2, <2>3, <2>4 DEF push_one, SourceGoes
<1>5. reader'[N] = reader[N] /\ seen'[N] = seen[N]
  BY <1>1, <1>2, EndsAreQueues DEF ReadersKept
<1>6. EndsInv' /\ NetTypeOK'
  BY <1>2, <1>3, <1>4, <1>5 DEF EndsInv, ControlInv, NetTypeOK, processVars
<1>7. ASSUME NEW p \in Processes PROVE ThreadInv(p)' /\ UserInv(p)'
  <2>1. In(p) \in Queues /\ Out(p) \in Queues \ {0}
    BY NetworkAssumption DEF In, Out, Processes
  <2> QED
    BY <1>2, <2>1, OtherThreadKept DEF WritersKept, ReadersKept, ControlInv, UserInv, processVars
<1> QED
  BY <1>6, <1>7 DEF ControlInv

(* The same for pop_one.                                                   *)
LEMMA SinkControl ==
  ASSUME Inv, ControlInv, pop_one
  PROVE  ControlInv'
<1>1. N \in Queues /\ N \in Nat /\ 0 \in Queues
  BY NetworkAssumption
<1>2. /\ WritersKept({}) /\ ReadersKept({N}) /\ UNCHANGED draining
      /\ UNCHANGED << source, sent, interrupts, processVars >>
  BY <1>1, ReaderFrame DEF pop_one, SinkGoes
<1>3. /\ reader \in [Queues -> Client] /\ seen \in [Queues -> Seq(Values)]
      /\ seen[N] \in Seq(Values) /\ EndsInv /\ received \in Seq(Values)
      /\ sink \in {"outside", "begin", "holding"}
  BY <1>1 DEF Inv, TypeOK, ControlInv, NetTypeOK
<1>4. /\ sink' \in {"outside", "begin", "holding"} /\ received' \in Seq(Values)
      /\ sink' = "begin" <=> reader'[N].at = "begin"
      /\ sink' = "holding" => reader'[N].at = "holding"
      /\ seen'[N] = << >> \/ (sink' = "holding" /\ Len(seen'[N]) = 1)
  <2>1. CASE sink = "outside" /\ CallBeginRead(N, 1) /\ sink' = "begin" /\ received' = received
    BY <1>1, <1>3, <2>1 DEF CallBeginRead, Begin
  <2>2. CASE sink = "begin" /\ BeginRead(N) /\ sink' = reader'[N].at /\ received' = received
    BY <1>1, <1>3, <2>2, BeginReadGoesOn DEF EndsInv
  <2>3. CASE sink = "holding" /\ seen[N] = << >> /\ Load(N)
             /\ sink' = "holding" /\ received' = received
    <3>1. reader' = reader /\ \E v : seen'[N] = << v >>
      BY <1>1, <1>3, <2>3 DEF Load
    <3> QED
      BY <1>3, <2>3, <3>1 DEF EndsInv
  <2>4. CASE sink = "holding" /\ seen[N] # << >> /\ EndRead(N, 1)
             /\ sink' = "outside" /\ received' = Append(received, seen[N][1])
    <3>1. /\ Len(seen[N]) = 1
          /\ reader'[N] = Remainder(reader[N], 1)
          /\ seen'[N] = SubSeq(seen[N], 2, Len(seen[N]))
      BY <1>1, <1>3, <2>4 DEF EndRead, EndsInv
    <3>2. seen'[N] = << >> /\ seen[N][1] \in Values
      BY <1>3, <3>1
    <3>3. reader'[N].at # "begin"
      BY <3>1, RemainderIsNoCall
    <3>4. received' \in Seq(Values)
      BY <1>3, <2>4, <3>2
    <3> QED
      BY <2>4, <3>2, <3>3, <3>4
  <2> QED
    BY <2>1, <2>2, <2>3, <2>4 DEF pop_one, SinkGoes
<1>5. writer'[0] = writer[0] /\ staged'[0] = staged[0]
  BY <1>1, <1>2 DEF WritersKept
<1>6. EndsInv' /\ NetTypeOK'
  BY <1>2, <1>3, <1>4, <1>5 DEF EndsInv, ControlInv, NetTypeOK, processVars
<1>7. ASSUME NEW p \in Processes PROVE ThreadInv(p)' /\ UserInv(p)'
  <2>1. In(p) \in Queues \ {N} /\ Out(p) \in Queues
    BY NetworkAssumption DEF In, Out, Processes
  <2> QED
    BY <1>2, <2>1, OtherThreadKept DEF WritersKept, ReadersKept, ControlInv, UserInv, processVars
<1> QED
  BY <1>6, <1>7 DEF ControlInv

(* Every step of the network keeps the control part of the invariant.      *)
LEMMA ControlNext ==
  ASSUME Inv, ControlInv, [NetworkNext]_networkVars
  PROVE  ControlInv'
<1>1. CASE \E p \in Processes : ThreadNext(p) \/ UserNext(p)
  BY <1>1, ThreadControl, UserControl
<1>2. CASE push_one \/ pop_one
  BY <1>2, SourceControl, SinkControl
<1>3. CASE InterruptEnds \/ ResumeEnds \/ SleeperWakes \/ UNCHANGED networkVars
  <2>1. UNCHANGED << writerVars, readerVars, draining, processVars, source, sent, sink, received >>
    BY <1>3 DEF InterruptEnds, ResumeEnds, SleeperWakes, Wakeup, networkVars, queueVars, outsideVars
  <2>2. \A p \in Processes : ThreadInv(p)' /\ UserInv(p)'
    BY <2>1, OtherThreadKept DEF ControlInv, UserInv, writerVars, readerVars, processVars
  <2>3. EndsInv' /\ NetTypeOK'
    BY <2>1, EndsKept DEF ControlInv, NetTypeOK, writerVars, readerVars, processVars
  <2> QED
    BY <2>2, <2>3 DEF ControlInv
<1> QED
  BY <1>1, <1>2, <1>3 DEF NetworkNext

(* It holds when the network is built.                                     *)
LEMMA ControlInit == NetworkInit => ControlInv
<1> SUFFICES ASSUME NetworkInit PROVE ControlInv
  OBVIOUS
<1>1. \A q \in Queues : /\ writer[q].at = "outside" /\ staged[q] = << >>
                        /\ reader[q].at = "outside" /\ seen[q] = << >>
  BY DEF NetworkInit, Init, Outside
<1>2. \A p \in Processes : ThreadInv(p) /\ UserInv(p)
  BY <1>1, EndsAreQueues DEF NetworkInit, ThreadInv, UserInv, PastRead
<1>3. EndsInv
  BY <1>1, EndsAreQueues DEF NetworkInit, EndsInv
<1>4. NetTypeOK
  <2>1. Items \in Nat /\ << >> \in Seq(Values)
    BY NetworkAssumption
  <2> QED
    BY <2>1 DEF NetworkInit, Init, NetTypeOK
<1> QED
  BY <1>2, <1>3, <1>4 DEF ControlInv

-----------------------------------------------------------------------------
(* terminate() has joined the thread of a process, so nobody is left in    *)
(* the two queues it used, nor in its memory.                              *)
LEMMA ControlStops == Inv /\ ControlInv => StoppedIsGone
<1> SUFFICES ASSUME Inv, ControlInv, NEW p \in Processes, ~ (input[p] /\ output[p])
             PROVE  /\ pc[p] = "none"
                    /\ reader[In(p)].at # "begin" /\ "reader" \notin m_condition_not_empty[In(p)]
                    /\ writer[Out(p)].at # "begin" /\ "writer" \notin m_condition_not_full[Out(p)]
                    /\ staged[Out(p)] = << >>
  BY DEF StoppedIsGone
<1>1. pc[p] = "none"
  BY DEF ControlInv, UserInv
<1>2. reader[In(p)].at # "begin" /\ writer[Out(p)].at # "begin" /\ staged[Out(p)] = << >>
  BY <1>1 DEF ControlInv, ThreadInv
<1>3. "writer" \notin draining[Out(p)]
  BY ThreadTypes DEF ControlInv, NetTypeOK
<1>4. SleepInv(In(p)) /\ SleepInv(Out(p))
  BY ThreadTypes, AtOneQueue
<1> QED
  BY <1>1, <1>2, <1>3, <1>4 DEF SleepInv

(* The flags are Boolean.                                                  *)
LEMMA FlagTypes ==
  ASSUME Inv
  PROVE  /\ m_interrupted_not_full \in [Queues -> BOOLEAN]
         /\ m_interrupted_not_empty \in [Queues -> BOOLEAN]
BY DEF Inv, TypeOK

(* The calls of the two clients leave the flags alone.                     *)
LEMMA ClientsKeepFlags ==
  ASSUME NEW q, NEW n, NEW v,
         \/ CallBeginWrite(q, n) \/ BeginWrite(q) \/ Store(q, v) \/ EndWrite(q, n)
         \/ CallBeginRead(q, n) \/ BeginRead(q) \/ Load(q) \/ EndRead(q, n)
  PROVE  UNCHANGED << m_interrupted_not_full, m_interrupted_not_empty >>
<1>1. CASE CallBeginWrite(q, n) \/ Store(q, v) \/ CallBeginRead(q, n) \/ Load(q)
  BY <1>1 DEF CallBeginWrite, Store, CallBeginRead, Load, schedulerVars
<1>2. CASE BeginWrite(q) \/ BeginRead(q)
  BY <1>2 DEF BeginWrite, BeginWriteReturns, BeginWriteWaits, BeginRead, BeginReadReturns,
              BeginReadWaits, wait_until_not_full_sleeps, wait_until_not_full_throws,
              wait_until_not_empty_sleeps, wait_until_not_empty_throws, schedulerVars
<1>3. CASE EndWrite(q, n) \/ EndRead(q, n)
  BY <1>3 DEF EndWrite, EndRead, trigger_not_full, trigger_not_empty
<1> QED
  BY <1>1, <1>2, <1>3

(* A process is interrupted at its own ends by its own terminate() only,   *)
(* and started again only when the interrupts have been taken back.        *)
FlagsInv == \A p \in Processes : FlagInv(p)

(* A process next to the one whose user acts keeps its own flags.          *)
LEMMA FlagKept ==
  ASSUME NEW o \in Processes, FlagInv(o),
         UNCHANGED << pc[o], input[o], output[o], user[o] >>,
         m_interrupted_not_empty'[In(o)] => m_interrupted_not_empty[In(o)],
         m_interrupted_not_full'[Out(o)] => m_interrupted_not_full[Out(o)]
  PROVE  FlagInv(o)'
BY DEF FlagInv, In, Out

(* A thread ends only because one of the flags at its ends is set.         *)
LEMMA ThreadFlags ==
  ASSUME Inv, ControlInv, FlagsInv, NEW p \in Processes, ThreadNext(p)
  PROVE  FlagsInv'
<1>1. UNCHANGED << m_interrupted_not_full, m_interrupted_not_empty >>
  BY ClientsKeepFlags DEF ThreadNext, ReadBlock, Reading, WriteBlock, Writing, ProcessLoad,
                          ProcessStore, EndBlockWrite, EndBlockRead
<1>2. UNCHANGED << input, output, user >>
  BY ThreadFrame
<1>3. ASSUME NEW o \in Processes, o # p PROVE FlagInv(o)'
  BY <1>1, <1>2, <1>3, ThreadPlaces, FlagKept DEF FlagsInv
<1>4. pc[p] # "exited" /\ (pc'[p] = "exited" =>
         m_interrupted_not_empty[In(p)] \/ m_interrupted_not_full[Out(p)])
  <2>1. CASE Reading(p)
    BY <2>1, ThreadTypes, BeginReadGoesOn DEF Reading, GoTo, AfterBegin
  <2>2. CASE Writing(p)
    BY <2>2, ThreadTypes, BeginWriteGoesOn DEF Writing, GoTo, AfterBegin
  <2>3. CASE ~ Reading(p) /\ ~ Writing(p)
    BY <2>3, ThreadTypes DEF ThreadNext, ReadBlock, WriteBlock, ProcessLoad, ProcessStore,
                             EndBlockWrite, EndBlockRead, GoTo
  <2> QED
    BY <2>1, <2>2, <2>3
<1>5. FlagInv(p)'
  BY <1>1, <1>2, <1>4 DEF FlagsInv, FlagInv, In, Out
<1> QED
  BY <1>3, <1>5 DEF FlagsInv

(* A user's interrupts reach the process it terminates only, and the       *)
(* resume_ calls come before the next start.                               *)
LEMMA UserFlags ==
  ASSUME Inv, ControlInv, FlagsInv, NEW p \in Processes, UserNext(p)
  PROVE  FlagsInv'
<1>1. /\ m_interrupted_not_full \in [Queues -> BOOLEAN]
      /\ m_interrupted_not_empty \in [Queues -> BOOLEAN]
      /\ In(p) \in Queues /\ Out(p) \in Queues /\ UserInv(p) /\ FlagInv(p)
      /\ pc \in [Processes -> {"none", "read", "reading", "exited"} \cup PastRead]
      /\ input \in [Processes -> BOOLEAN] /\ output \in [Processes -> BOOLEAN]
      /\ user \in [Processes -> {"outside", "interrupt_write", "join"}]
  BY FlagTypes, ThreadTypes DEF ControlInv, NetTypeOK, FlagsInv
<1>2. CASE set_input(p) \/ set_output(p)
  <2>1. /\ UNCHANGED << m_interrupted_not_full, m_interrupted_not_empty, user >>
        /\ ResumeFirst => Resumed(p)
        /\ pc[p] = "none" /\ pc'[p] # "exited"
    BY <1>1, <1>2 DEF set_input, set_output, queueVars, schedulerVars, UserInv, Start
  <2>2. FlagInv(p)'
    BY <1>1, <2>1 DEF FlagInv, Resumed, In, Out
  <2>3. \A o \in Processes \ {p} : UNCHANGED << pc[o], input[o], output[o] >>
    BY <1>1, <1>2 DEF set_input, set_output, Start
  <2> QED
    BY <2>1, <2>2, <2>3, FlagKept DEF FlagsInv
<1>3. CASE terminate_idle(p) \/ terminate_join(p)
  <2>1. /\ UNCHANGED << m_interrupted_not_full, m_interrupted_not_empty >>
        /\ ~ input'[p]
        /\ \A o \in Processes \ {p} : UNCHANGED << pc[o], input[o], output[o], user[o] >>
    BY <1>1, <1>3 DEF terminate_idle, terminate_join, queueVars, schedulerVars
  <2>2. FlagInv(p)'
    BY <2>1 DEF FlagInv
  <2> QED
    BY <2>1, <2>2, FlagKept DEF FlagsInv
<1>4. CASE terminate(p)
  <2>1. /\ m_interrupted_not_empty' = [m_interrupted_not_empty EXCEPT ![In(p)] = TRUE]
        /\ UNCHANGED << m_interrupted_not_full, pc, input, output >>
        /\ user' = [user EXCEPT ![p] = "interrupt_write"] /\ user[p] = "outside"
    BY <1>4 DEF terminate, interrupt_not_empty, set_not_empty
  <2>2. FlagInv(p)'
    BY <1>1, <2>1 DEF FlagInv, In, Out
  <2>3. ASSUME NEW o \in Processes, o # p PROVE FlagInv(o)'
    <3>1. In(o) \in Queues \ {In(p)}
      BY <2>3, EndsAreQueues, NetworkAssumption DEF In, Processes
    <3> QED
      BY <1>1, <2>1, <2>3, <3>1, FlagKept DEF FlagsInv
  <2> QED
    BY <2>2, <2>3 DEF FlagsInv
<1>5. CASE terminate_interrupt_write(p)
  <2>1. /\ m_interrupted_not_full' = [m_interrupted_not_full EXCEPT ![Out(p)] = TRUE]
        /\ UNCHANGED << m_interrupted_not_empty, pc, input, output >>
        /\ user' = [user EXCEPT ![p] = "join"]
    BY <1>5 DEF terminate_interrupt_write, interrupt_not_full, set_not_full
  <2>2. FlagInv(p)'
    BY <1>1, <2>1 DEF FlagInv, In, Out
  <2>3. ASSUME NEW o \in Processes, o # p PROVE FlagInv(o)'
    <3>1. Out(o) \in Queues \ {Out(p)}
      BY <2>3, EndsAreQueues DEF Out
    <3> QED
      BY <1>1, <2>1, <2>3, <3>1, FlagKept DEF FlagsInv
  <2> QED
    BY <2>2, <2>3 DEF FlagsInv
<1>6. CASE resume(p)
  <2>1. /\ UNCHANGED processVars
        /\ \A q \in Queues : /\ m_interrupted_not_empty'[q] => m_interrupted_not_empty[q]
                             /\ m_interrupted_not_full'[q] => m_interrupted_not_full[q]
    BY <1>1, <1>6 DEF resume, resume_not_empty, resume_not_full, set_not_empty, set_not_full
  <2> QED
    BY <2>1, EndsAreQueues, FlagKept DEF FlagsInv, processVars
<1> QED
  BY <1>2, <1>3, <1>4, <1>5, <1>6 DEF UserNext

(* Interrupts at the two ends of the network concern no process.           *)
LEMMA FlagsNext ==
  ASSUME Inv, ControlInv, FlagsInv, [NetworkNext]_networkVars
  PROVE  FlagsInv'
<1>1. CASE \E p \in Processes : ThreadNext(p) \/ UserNext(p)
  BY <1>1, ThreadFlags, UserFlags
<1>2. CASE push_one \/ pop_one \/ InterruptEnds \/ ResumeEnds \/ SleeperWakes
           \/ UNCHANGED networkVars
  <2>1. /\ m_interrupted_not_full \in [Queues -> BOOLEAN]
        /\ m_interrupted_not_empty \in [Queues -> BOOLEAN]
    BY FlagTypes
  <2>2. UNCHANGED << pc, input, output, user >>
    BY <1>2 DEF push_one, pop_one, SourceGoes, SinkGoes, InterruptEnds, ResumeEnds, SleeperWakes,
                networkVars, processVars
  <2>3. /\ \A q \in Queues \ {N} : m_interrupted_not_empty'[q] => m_interrupted_not_empty[q]
        /\ \A q \in Queues \ {0} : m_interrupted_not_full'[q] => m_interrupted_not_full[q]
    <3>1. CASE push_one \/ pop_one
      BY <3>1, ClientsKeepFlags DEF push_one, pop_one
    <3>2. CASE InterruptEnds \/ ResumeEnds
      BY <3>2, <2>1, EndsAreQueues
         DEF InterruptEnds, ResumeEnds, interrupt_not_full, interrupt_not_empty,
             resume_not_full, resume_not_empty, set_not_full, set_not_empty
    <3>3. CASE SleeperWakes \/ UNCHANGED networkVars
      BY <3>3 DEF SleeperWakes, Wakeup, SpuriousWakeup, networkVars, queueVars, schedulerVars
    <3> QED
      BY <1>2, <3>1, <3>2, <3>3
  <2>4. \A p \in Processes : In(p) \in Queues \ {N} /\ Out(p) \in Queues \ {0}
    BY NetworkAssumption DEF In, Out, Processes
  <2> QED
    BY <2>2, <2>3, <2>4, FlagKept DEF FlagsInv
<1> QED
  BY <1>1, <1>2 DEF NetworkNext

(* The control part of the invariant holds throughout.                     *)
LEMMA ControlHolds == NetworkSpec => [](Inv /\ ControlInv /\ FlagsInv)
<1>1. NetworkInit => Inv /\ ControlInv /\ FlagsInv
  <2>1. NetworkInit => FlagsInv
    BY DEF NetworkInit, FlagsInv, FlagInv
  <2> QED
    BY <2>1, ControlInit, InitInv DEF NetworkInit
<1>2. Inv /\ SourceInv /\ ControlInv /\ FlagsInv /\ [NetworkNext]_networkVars
        => ControlInv' /\ FlagsInv'
  BY ControlNext, FlagsNext
<1> QED
  BY <1>1, <1>2, NetworkInvariant, PTL DEF NetworkSpec

(* terminate() has joined the thread: no thread of a stopped process is    *)
(* inside a call on a queue, asleep in it, or has memory it has written    *)
(* to.                                                                     *)
THEOREM StoppedProcessesAreGone == NetworkSpec => []StoppedIsGone
BY ControlHolds, ControlStops, PTL

(* A thread ends only because its own process is being terminated,         *)
(* whatever is interrupted around it.                                      *)
THEOREM ThreadsEndWhenTerminated == NetworkSpec => []EndsOnlyWhenTerminated
<1>1. ControlInv /\ FlagsInv => EndsOnlyWhenTerminated
  <2> SUFFICES ASSUME ControlInv, FlagsInv, NEW p \in Processes, ResumeFirst, pc[p] = "exited"
               PROVE  user[p] \in {"interrupt_write", "join"}
    BY DEF EndsOnlyWhenTerminated
  <2>1. input[p] /\ output[p]
    BY DEF ControlInv, UserInv
  <2> QED
    BY <2>1 DEF ControlInv, NetTypeOK, FlagsInv, FlagInv
<1> QED
  BY <1>1, ControlHolds, PTL

-----------------------------------------------------------------------------
(***************************************************************************)
(* The data: every element comes out once, in order, and the memory a      *)
(* process is lent has room for its block.                                 *)
(***************************************************************************)
(* The only multiple of m between -m and m is 0.                           *)
LEMMA Multiples ==
  ASSUME NEW m \in Nat \ {0}, NEW k \in Int, NEW d \in Int, m * k = d, -m < d, d < m
  PROVE  d = 0
<1>1. CASE k >= 1
  <2>1. m * k >= m
    BY <1>1
  <2> QED
   BY <2>1
<1>2. CASE k <= -1
  <2>1. m * k <= -m
    BY <1>2
  <2> QED
   BY <2>1
<1>3. CASE k = 0
  BY <1>3
<1> QED BY <1>1, <1>2, <1>3

(* Elements that wrap around wrap around once more as they are added to.   *)
LEMMA ModAdd ==
  ASSUME NEW m \in Nat \ {0}, NEW a \in Nat, NEW b \in Nat
  PROVE  ((a % m) + b) % m = (a + b) % m
<1> DEFINE r == a % m  s == (r + b) % m  t == (a + b) % m
           k == a \div m  j == (r + b) \div m  l == (a + b) \div m
<1>1. r \in 0 .. m - 1 /\ k \in Int /\ a = m * k + r
  OBVIOUS
<1>2. s \in 0 .. m - 1 /\ j \in Int /\ r + b = m * j + s
  BY <1>1
<1>3. t \in 0 .. m - 1 /\ l \in Int /\ a + b = m * l + t
  OBVIOUS
<1> HIDE DEF r, s, t, k, j, l
<1>4. m * (l - k - j) = s - t
  BY <1>1, <1>2, <1>3
<1> DEFINE c == l - k - j  d == s - t
<1>5. c \in Int /\ d \in Int /\ -m < d /\ d < m
  BY <1>1, <1>2, <1>3
<1>7. m * c = d
  BY <1>4
<1>8. d = 0
  <2> HIDE DEF c, d
  <2> QED
    BY <1>5, <1>7, Multiples
<1>6. s = t
  BY <1>2, <1>3, <1>8
<1> QED
  BY <1>6 DEF r, s, t

(* One process more adds Raise once more.                                  *)
LEMMA Dist ==
  ASSUME NEW q \in Nat, NEW R \in Nat
  PROVE (q+1) * R = q * R + R /\ q * R \in Nat
OBVIOUS

-----------------------------------------------------------------------------
(* The inductive invariant: data.                                          *)

(* What is in a queue is what was put in and not taken out.                *)
QueueData(q) ==
  /\ m_size[q] = Put(q) - Taken(q)
  /\ \A i \in 1 .. m_size[q] : Contents(q)[i] = Travelled(q, Taken(q) + i)

(* The same for every queue, and for what the sink received.               *)
DataInv ==
  /\ \A q \in Queues : QueueData(q)
  /\ \A i \in 1 .. Len(received) : received[i] = Travelled(N, i)

(* What was put in and taken out of a queue, and whose counters say so.    *)
LEMMA Counters ==
  ASSUME ControlInv, NEW q \in Queues
  PROVE  /\ Put(q) \in Nat /\ Taken(q) \in Nat /\ q \in Nat
         /\ q # 0 => q \in Processes /\ q = Out(q) /\ Put(q) = done[q]
         /\ q # N => q + 1 \in Processes /\ q = In(q + 1)
<1>1. q \in 0 .. N /\ N \in Nat /\ Items \in Nat
  BY NetworkAssumption
<1>2. q # 0 => q \in Processes /\ q = Out(q)
  BY <1>1 DEF Processes, Out
<1>3. q # N => q + 1 \in Processes /\ q = In(q + 1)
  BY <1>1 DEF Processes, In
<1>4. Put(q) \in Nat
  BY <1>1, <1>2 DEF Put, ControlInv, NetTypeOK
<1>5. Taken(q) \in Nat
  <2>1. CASE q = N
    BY <2>1 DEF Taken, ControlInv, NetTypeOK
  <2>2. CASE q # N
    <3>1. done[q + 1] \in Nat /\ Blocksize[q + 1] \in Nat
      BY <1>3, <2>2, EndsAreQueues DEF ControlInv, NetTypeOK
    <3>2. pc[q + 1] = "end_read" => done[q + 1] >= Blocksize[q + 1]
      BY <1>3, <2>2 DEF ControlInv, ThreadInv
    <3> QED
      BY <2>2, <3>1, <3>2 DEF Taken
  <2> QED
    BY <2>1, <2>2
<1> QED
  BY <1>1, <1>2, <1>3, <1>4, <1>5 DEF Put

(* A reader's thread works with the oldest elements of its queue.          *)
LEMMA SeenIsContents ==
  ASSUME Inv, NEW q \in Queues, reader[q].at = "holding", NEW i \in 1 .. Len(seen[q])
  PROVE  i \in 1 .. m_size[q] /\ seen[q][i] = Contents(q)[i]
<1> DEFINE cap == Capacity[q]  last == m_last[q]  size == m_size[q]
           r == reader[q]      n == Len(seen[q])
<1>1. /\ cap \in Nat \ {0} /\ last \in Nat /\ size \in Nat /\ n \in Nat /\ i \in Nat
      /\ 1 <= i /\ i <= n /\ r \in Client /\ r.room \in Nat
  BY AtOneQueue DEF Client
<1>2. /\ r.buf = last /\ r.buf + r.room <= cap /\ r.room <= size /\ n <= r.room
      /\ m_buff[q][r.buf + (i - 1)] = seen[q][i]
  BY AtOneQueue DEF ReaderInv
<1>3. i \in 1 .. size
  BY <1>1, <1>2
<1>4. Wrap(cap, last + (i - 1)) = last + (i - 1)
  <2>1. last + (i - 1) < cap
    BY <1>1, <1>2
  <2> HIDE DEF cap, last
  <2> QED BY <1>1, <2>1 DEF Wrap
<1> QED
  BY <1>2, <1>3, <1>4, ContentsIsSeq DEF SlotOf

(* One more process.                                                       *)
LEMMA OneProcessMore ==
  ASSUME NEW q \in Nat, NEW i \in Nat
  PROVE  ProcessBlockFunction(Travelled(q, i)) = Travelled(q + 1, i)
<1>1. Modulus \in Nat \ {0} /\ Raise \in Nat
  BY NetworkAssumption
<1>2. (q + 1) * Raise = q * Raise + Raise /\ q * Raise \in Nat
  BY <1>1, Dist
<1> DEFINE a == i + q * Raise
<1>3. a \in Nat /\ i + (q + 1) * Raise = a + Raise
  BY <1>1, <1>2
<1>4. ((a % Modulus) + Raise) % Modulus = (a + Raise) % Modulus
  <2> HIDE DEF a
  <2> QED BY <1>1, <1>3, ModAdd
<1> QED
  BY <1>3, <1>4 DEF ProcessBlockFunction, Travelled

(* What the source pushes is untouched, being smaller than Modulus.        *)
LEMMA PushedIsFresh ==
  ASSUME NEW i \in 0 .. Items
  PROVE  Travelled(0, i) = i
<1>1. Items \in 0 .. Modulus - 1 /\ Modulus \in Nat \ {0} /\ Raise \in Nat
  BY NetworkAssumption
<1>2. 0 * Raise = 0 /\ i \in 0 .. Modulus - 1
  BY <1>1
<1> QED
  BY <1>1, <1>2 DEF Travelled

(* A queue nobody puts into or takes from.                                 *)
LEMMA QueueDataKept ==
  ASSUME NEW q \in Queues, QueueData(q), Put(q)' = Put(q), Taken(q)' = Taken(q),
         m_size'[q] = m_size[q], Contents(q)' = Contents(q)
  PROVE  QueueData(q)'
BY DEF QueueData, Travelled

(* end_write appends what the writer prepared, end_read takes from the     *)
(* front.                                                                  *)
LEMMA CommittedData ==
  ASSUME Inv, ControlInv, NEW q \in Queues, QueueData(q),
         NEW c \in 0 .. Capacity[q], EndWrite(q, c),
         Put(q)' = Put(q) + c, Taken(q)' = Taken(q),
         \A i \in 1 .. c : staged[q][i] = Travelled(q, Put(q) + i)
  PROVE  QueueData(q)'
<1> DEFINE size == m_size[q]  old == Contents(q)  put == Put(q)  taken == Taken(q)
           part == SubSeq(staged[q], 1, c)
<1>1. size \in Nat /\ c \in Nat /\ put \in Nat /\ taken \in Nat /\ size = put - taken
  BY AtOneQueue, Counters DEF QueueData
<1>2. m_size'[q] = size + c
  <2>1. m_size \in [Queues -> Nat]
    BY DEF Inv, TypeOK
  <2> QED
    BY <2>1 DEF EndWrite
<1>3. Contents(q)' = old \o part /\ c <= Len(staged[q])
  BY EndWriteCommits DEF Channel!Commit, Chan
<1>4. old \in Seq(Values) /\ Len(old) = size
  BY ContentsIsSeq
<1>5. staged[q] \in Seq(Values)
  BY AtOneQueue
<1>6. part \in Seq(Values) /\ Len(part) = c /\ \A i \in 1 .. c : part[i] = staged[q][i]
  BY <1>1, <1>3, <1>5
<1>7. ASSUME NEW i \in 1 .. size + c
      PROVE  (old \o part)[i] = Travelled(q, taken + i)
  <2> HIDE DEF old, part, size, put, taken
  <2>1. CASE i <= size
    <3>1. (old \o part)[i] = old[i] /\ i \in 1 .. size
      BY <1>1, <1>4, <1>6, <2>1
    <3> QED
      BY <3>1 DEF QueueData, old, size, taken
  <2>2. CASE i > size
    <3>1. i - size \in 1 .. c /\ taken + i = put + (i - size)
      BY <1>1, <2>2
    <3>2. (old \o part)[i] = part[i - size]
      BY <1>1, <1>4, <1>6, <2>2
    <3> QED
      BY <1>6, <3>1, <3>2 DEF put
  <2>3. i <= size \/ i > size
    BY <1>1
  <2> QED
    BY <2>1, <2>2, <2>3
<1>8. QueueData(q)' = (/\ m_size'[q] = Put(q)' - Taken(q)'
                      /\ \A i \in 1 .. m_size'[q] : Contents(q)'[i] = Travelled(q, Taken(q)' + i))
  BY DEF QueueData, Travelled
<1>9. size + c = (put + c) - taken
  BY <1>1
<1> QED
  BY <1>2, <1>3, <1>7, <1>8, <1>9

(* end_read takes from the front.                                          *)
LEMMA ConsumedData ==
  ASSUME Inv, ControlInv, NEW q \in Queues, QueueData(q),
         NEW c \in 0 .. Capacity[q], EndRead(q, c),
         Put(q)' = Put(q), Taken(q)' = Taken(q) + c
  PROVE  QueueData(q)'
<1> DEFINE size == m_size[q]  old == Contents(q)  put == Put(q)  taken == Taken(q)
           new == SubSeq(old, c + 1, Len(old))
<1>1. size \in Nat /\ c \in Nat /\ put \in Nat /\ taken \in Nat /\ size = put - taken
  BY AtOneQueue, Counters DEF QueueData
<1>2. m_size'[q] = size - c
  <2>1. m_size \in [Queues -> Nat]
    BY DEF Inv, TypeOK
  <2> QED
    BY <2>1 DEF EndRead
<1>3. Contents(q)' = new /\ c <= Len(old)
  BY EndReadConsumes DEF Channel!Consume, Chan
<1>4. old \in Seq(Values) /\ Len(old) = size
  BY ContentsIsSeq
<1>5. ASSUME NEW i \in 1 .. size - c
      PROVE  new[i] = Travelled(q, (taken + c) + i)
  <2> HIDE DEF old, size, put, taken
  <2>3. i \in Nat /\ 1 <= i /\ i <= size - c
    BY <1>1
  <2>4. c + i \in 1 .. size /\ taken + (c + i) = (taken + c) + i
    BY <1>1, <2>3
  <2>5. new[i] = old[c + i]
    BY <1>1, <1>3, <1>4, <2>3
  <2>1. new[i] = old[c + i] /\ c + i \in 1 .. size /\ taken + (c + i) = (taken + c) + i
    BY <2>4, <2>5
  <2>2. old[c + i] = Travelled(q, taken + (c + i))
    BY <2>1 DEF QueueData, old, size, taken
  <2> QED
    BY <2>1, <2>2
<1>6. QueueData(q)' = (/\ m_size'[q] = Put(q)' - Taken(q)'
                      /\ \A i \in 1 .. m_size'[q] : Contents(q)'[i] = Travelled(q, Taken(q)' + i))
  BY DEF QueueData, Travelled
<1>7. size - c = put - (taken + c)
  BY <1>1
<1> QED
  BY <1>2, <1>3, <1>5, <1>6, <1>7

(* Only end_ calls change what a queue holds, and they concern one queue.  *)
LEMMA ContentsKept ==
  ASSUME Inv, NEW q \in Queues, NEW n, NEW v \in Values,
         \/ CallBeginWrite(q, n) \/ BeginWrite(q) \/ Store(q, v)
         \/ CallBeginRead(q, n) \/ BeginRead(q) \/ Load(q)
  PROVE  \A o \in Queues : m_size'[o] = m_size[o] /\ Contents(o)' = Contents(o)
<1>1. m_size' = m_size /\ Chan' = Chan
  <2>1. CASE Store(q, v)
    BY <2>1, StorePrepares DEF Channel!Prepare, Chan, Store
  <2>2. CASE ~ Store(q, v)
    <3>1. UNCHANGED ringVars
      BY <2>2 DEF CallBeginWrite, BeginWrite, CallBeginRead, BeginRead, Load
    <3> QED
      BY <3>1, ChanKept DEF ringVars
  <2> QED
    BY <2>1, <2>2
<1> QED
  BY <1>1 DEF Chan

(* An end_ call on one queue leaves the others alone.                      *)
LEMMA OtherContentsKept ==
  ASSUME Inv, NEW q \in Queues, NEW c, EndWrite(q, c) \/ EndRead(q, c)
  PROVE  \A o \in Queues \ {q} : m_size'[o] = m_size[o] /\ Contents(o)' = Contents(o)
<1>1. \A o \in Queues \ {q} : m_size'[o] = m_size[o] /\ m_last'[o] = m_last[o] /\ m_buff' = m_buff
  BY DEF EndWrite, EndRead, Inv, TypeOK
<1> QED
  BY <1>1 DEF Contents, SlotOf

(* A block is passed on.                                                   *)
LEMMA EndBlockWriteData ==
  ASSUME Inv, ControlInv, DataInv, NEW p \in Processes, EndBlockWrite(p)
  PROVE  DataInv'
<1> DEFINE B == Blocksize[p]
<1>1. /\ pc[p] = "process" /\ pc' = [pc EXCEPT ![p] = "end_read"]
      /\ done' = [done EXCEPT ![p] = done[p] + B] /\ UNCHANGED << sent, received >>
      /\ EndWrite(Out(p), B) /\ Len(staged[Out(p)]) = B
  BY DEF EndBlockWrite, GoTo, outsideVars
<1>2. /\ pc \in [Processes -> {"none", "read", "reading", "exited"} \cup PastRead]
      /\ done \in [Processes -> Nat] /\ B \in Nat \ {0} /\ ThreadInv(p)
      /\ In(p) \in Queues /\ Out(p) \in Queues
      /\ seen[In(p)] \in Seq(Values) /\ staged[Out(p)] \in Seq(Values)
  BY ThreadTypes
<1>3. B \in 0 .. Capacity[Out(p)]
  BY <1>1, <1>2, EndCallsFit
<1>4. N \in Nat /\ Queues = 0 .. N /\ p \in 1 .. N
  BY NetworkAssumption DEF Processes
<1>5. /\ pc'[p] = "end_read" /\ done'[p] = done[p] + B
      /\ \A o \in Processes \ {p} : pc'[o] = pc[o] /\ done'[o] = done[o]
  BY <1>1, <1>2
<1>6. ASSUME NEW q \in Queues
      PROVE  /\ Taken(q)' = Taken(q)
             /\ q # p => Put(q)' = Put(q)
             /\ q = p => Put(q)' = Put(q) + B
  <2>1. q # N => q + 1 \in Processes
    BY <1>4 DEF Processes
  <2>2. q # 0 => q \in Processes
    BY <1>4 DEF Processes
  <2>3. CASE q + 1 = p
    <3>1. Taken(q) = done[p] /\ Taken(q)' = done'[p] - B /\ q # p
      BY <1>1, <1>4, <1>5, <2>3 DEF Taken
    <3>2. (done[p] + B) - B = done[p]
      BY <1>2
    <3> QED
      BY <1>1, <1>5, <2>2, <3>1, <3>2 DEF Put
  <2>4. CASE q + 1 # p
    BY <1>1, <1>4, <1>5, <2>1, <2>2, <2>4 DEF Taken, Put
  <2> QED
    BY <2>3, <2>4
<1>7. ASSUME NEW i \in 1 .. B
      PROVE  staged[Out(p)][i] = Travelled(Out(p), Put(Out(p)) + i)
  <2>1. /\ reader[In(p)].at = "holding" /\ i \in 1 .. Len(seen[In(p)]) /\ i \in Nat
        /\ staged[Out(p)][i] = ProcessBlockFunction(seen[In(p)][i])
    BY <1>1, <1>2 DEF ThreadInv, PastRead
  <2>2. i \in 1 .. m_size[In(p)] /\ seen[In(p)][i] = Contents(In(p))[i]
    BY <1>2, <2>1, SeenIsContents
  <2>3. Contents(In(p))[i] = Travelled(In(p), Taken(In(p)) + i)
    BY <1>2, <2>2 DEF DataInv, QueueData
  <2>4. Taken(In(p)) = done[p] /\ Put(Out(p)) = done[p] /\ In(p) \in Nat /\ In(p) + 1 = Out(p)
    BY <1>1, <1>4 DEF Taken, Put, In, Out
  <2>5. done[p] + i \in Nat
    BY <1>2, <2>1
  <2> QED
    BY <2>1, <2>2, <2>3, <2>4, <2>5, OneProcessMore
<1>8. ASSUME NEW q \in Queues PROVE QueueData(q)'
  <2>1. QueueData(q)
    BY DEF DataInv
  <2>2. CASE q = p
    BY <1>1, <1>2, <1>3, <1>6, <1>7, <2>1, <2>2, CommittedData DEF Out
  <2>3. CASE q # p
    BY <1>1, <1>2, <1>6, <2>1, <2>3, OtherContentsKept, QueueDataKept DEF Out
  <2> QED
    BY <2>2, <2>3
<1>9. \A i \in 1 .. Len(received') : received'[i] = Travelled(N, i)'
  BY <1>1 DEF DataInv, Travelled
<1> QED
  BY <1>8, <1>9 DEF DataInv

(* A block is handed back.                                                 *)
LEMMA EndBlockReadData ==
  ASSUME Inv, ControlInv, DataInv, NEW p \in Processes, EndBlockRead(p)
  PROVE  DataInv'
<1> DEFINE B == Blocksize[p]
<1>1. /\ pc[p] = "end_read" /\ pc' = [pc EXCEPT ![p] = "read"]
      /\ done' = [done EXCEPT ![p] = done[p] + 0] /\ UNCHANGED << sent, received >>
      /\ EndRead(In(p), B)
  BY DEF EndBlockRead, GoTo, outsideVars
<1>2. /\ pc \in [Processes -> {"none", "read", "reading", "exited"} \cup PastRead]
      /\ done \in [Processes -> Nat] /\ B \in Nat \ {0} /\ ThreadInv(p)
      /\ In(p) \in Queues /\ Out(p) \in Queues
  BY ThreadTypes
<1>3. B \in 0 .. Capacity[In(p)]
  BY <1>1, <1>2, EndCallsFit
<1>4. N \in Nat /\ Queues = 0 .. N /\ p \in 1 .. N
  BY NetworkAssumption DEF Processes
<1>5. /\ pc'[p] = "read" /\ done' = done
      /\ \A o \in Processes \ {p} : pc'[o] = pc[o]
  BY <1>1, <1>2
<1>6. ASSUME NEW q \in Queues
      PROVE  /\ Put(q)' = Put(q)
             /\ q # In(p) => Taken(q)' = Taken(q)
             /\ q = In(p) => Taken(q)' = Taken(q) + B
  <2>1. q # N => q + 1 \in Processes
    BY <1>4 DEF Processes
  <2>3. CASE q + 1 = p
    <3>1. Taken(q) = done[p] - B /\ Taken(q)' = done[p] /\ q = In(p)
      BY <1>1, <1>4, <1>5, <2>3 DEF Taken, In
    <3>2. (done[p] - B) + B = done[p]
      BY <1>2
    <3> QED
      BY <1>1, <1>5, <3>1, <3>2 DEF Put
  <2>4. CASE q + 1 # p
    <3>1. q # In(p)
      BY <1>4, <2>4 DEF In
    <3> QED
      BY <1>1, <1>4, <1>5, <2>1, <2>4, <3>1 DEF Taken, Put
  <2> QED
    BY <2>3, <2>4
<1>8. ASSUME NEW q \in Queues PROVE QueueData(q)'
  <2>1. QueueData(q)
    BY DEF DataInv
  <2>2. CASE q = In(p)
    BY <1>1, <1>2, <1>3, <1>6, <2>1, <2>2, ConsumedData
  <2>3. CASE q # In(p)
    BY <1>1, <1>2, <1>6, <2>1, <2>3, OtherContentsKept, QueueDataKept
  <2> QED
    BY <2>2, <2>3
<1>9. \A i \in 1 .. Len(received') : received'[i] = Travelled(N, i)'
  BY <1>1 DEF DataInv, Travelled
<1> QED
  BY <1>8, <1>9 DEF DataInv

(* Steps that put nothing in and take nothing out.                         *)
LEMMA DataKept ==
  ASSUME DataInv, UNCHANGED << done, sent, received >>,
         \A p \in Processes : pc'[p] = "end_read" <=> pc[p] = "end_read",
         \A q \in Queues : m_size'[q] = m_size[q] /\ Contents(q)' = Contents(q)
  PROVE  DataInv'
<1>1. ASSUME NEW q \in Queues PROVE QueueData(q)'
  <2>1. q # N => q + 1 \in Processes
    BY NetworkAssumption DEF Processes
  <2>2. Put(q)' = Put(q) /\ Taken(q)' = Taken(q)
    BY <2>1 DEF Put, Taken
  <2> QED
    BY <2>2, QueueDataKept DEF DataInv
<1>2. \A i \in 1 .. Len(received') : received'[i] = Travelled(N, i)'
  BY DEF DataInv, Travelled
<1> QED
  BY <1>1, <1>2 DEF DataInv

(* The thread's other calls move no data between queues.                   *)
LEMMA ThreadData ==
  ASSUME Inv, ControlInv, DataInv, NEW p \in Processes, ThreadNext(p)
  PROVE  DataInv'
<1>1. CASE EndBlockWrite(p)
  BY <1>1, EndBlockWriteData
<1>2. CASE EndBlockRead(p)
  BY <1>2, EndBlockReadData
<1>3. CASE ~ EndBlockWrite(p) /\ ~ EndBlockRead(p)
  <2>1. \A q \in Queues : m_size'[q] = m_size[q] /\ Contents(q)' = Contents(q)
    <3>1. 0 \in Values
      BY NetworkAssumption
    <3>2. CASE ProcessStore(p)
      <4> DEFINE n == Len(staged[Out(p)])  v == seen[In(p)][n + 1]
      <4>1. seen[In(p)] \in Seq(Values) /\ n \in Nat /\ n < Len(seen[In(p)])
        BY <3>2, ThreadTypes DEF ProcessStore
      <4>2. v \in Values /\ Store(Out(p), ProcessBlockFunction(v))
        BY <3>2, <4>1 DEF ProcessStore
      <4> HIDE DEF v
      <4> QED
        BY <4>2, ProcessedIsElement, ContentsKept, ThreadTypes
    <3>3. CASE ~ ProcessStore(p)
      BY <1>3, <3>1, <3>3, ContentsKept, ThreadTypes
         DEF ThreadNext, ReadBlock, Reading, WriteBlock, Writing, ProcessLoad
    <3> QED
      BY <3>2, <3>3
  <2>2. UNCHANGED << sent, received >>
    BY ThreadFrame DEF outsideVars
  <2>3. done'[p] = done[p] /\ pc[p] # "end_read" /\ pc'[p] # "end_read"
    <3>1. CASE Reading(p)
      BY <3>1, ThreadTypes, BeginReadGoesOn DEF Reading, GoTo, AfterBegin
    <3>2. CASE Writing(p)
      BY <3>2, ThreadTypes, BeginWriteGoesOn DEF Writing, GoTo, AfterBegin
    <3>3. CASE ReadBlock(p) \/ WriteBlock(p) \/ ProcessLoad(p) \/ ProcessStore(p)
      BY <3>3, ThreadTypes DEF ReadBlock, WriteBlock, ProcessLoad, ProcessStore, GoTo
    <3> QED
      BY <1>3, <3>1, <3>2, <3>3 DEF ThreadNext
  <2>4. /\ done' = done
        /\ \A o \in Processes : pc'[o] = "end_read" <=> pc[o] = "end_read"
    <3>1. done \in [Processes -> Nat] /\ done' \in [Processes -> Nat]
      BY ThreadPlaces, ThreadTypes
    <3>2. \A o \in Processes : done'[o] = done[o]
      BY <2>3, ThreadPlaces
    <3>3. \A o \in Processes : pc'[o] = "end_read" <=> pc[o] = "end_read"
      BY <2>3, ThreadPlaces
    <3> QED
      BY <3>1, <3>2, <3>3
  <2> QED
    BY <2>1, <2>2, <2>4, DataKept
<1> QED
  BY <1>1, <1>2, <1>3

(* A user starts and stops threads and leaves the data alone: a process is *)
(* never stopped between its end_write and its end_read.                   *)
LEMMA UserData ==
  ASSUME Inv, ControlInv, DataInv, NEW p \in Processes, UserNext(p)
  PROVE  DataInv'
<1>1. UNCHANGED << ringVars, outsideVars, done >>
  BY UserFrame
<1>2. \A q \in Queues : m_size'[q] = m_size[q] /\ Contents(q)' = Contents(q)
  BY <1>1 DEF ringVars, Contents, SlotOf
<1>3. /\ pc \in [Processes -> {"none", "read", "reading", "exited"} \cup PastRead]
      /\ input \in [Processes -> BOOLEAN] /\ output \in [Processes -> BOOLEAN] /\ UserInv(p)
  BY DEF ControlInv, NetTypeOK
<1>4. /\ \A o \in Processes \ {p} : pc'[o] = pc[o]
      /\ pc'[p] = pc[p] \/ (pc[p] \in {"none", "exited"} /\ pc'[p] \in {"none", "read"})
  BY <1>3 DEF UserNext, set_input, set_output, terminate_idle, terminate, UserInv,
              terminate_interrupt_write, terminate_join, resume, Start, processVars
<1> QED
  BY <1>1, <1>2, <1>4, DataKept DEF outsideVars

(* The two ends.                                                           *)
LEMMA SourceData ==
  ASSUME Inv, ControlInv, DataInv, push_one
  PROVE  DataInv'
<1>1. /\ 0 \in Queues /\ Items \in Nat /\ 1 \in Nat /\ UNCHANGED << pc, done, received >>
      /\ sent \in 0 .. Items /\ (source # "outside" => sent < Items)
  BY EndsAreQueues, NetworkAssumption DEF push_one, SourceGoes, processVars, ControlInv, NetTypeOK
<1>2. CASE sent' = sent /\ \/ CallBeginWrite(0, 1) \/ BeginWrite(0)
                           \/ source = "holding" /\ Store(0, sent + 1)
  <2>1. source = "holding" => sent + 1 \in Values
    <3>1. Items <= Modulus - 1 /\ Modulus \in Nat /\ Values = 0 .. Modulus - 1
      BY NetworkAssumption
    <3> QED
      BY <1>1, <3>1
  <2>2. 0 \in Values
    BY NetworkAssumption
  <2>3. \A q \in Queues : m_size'[q] = m_size[q] /\ Contents(q)' = Contents(q)
    BY <1>1, <1>2, <2>1, <2>2, ContentsKept
  <2> QED
    BY <1>1, <1>2, <2>3, DataKept
<1>3. CASE source = "holding" /\ staged[0] # << >> /\ EndWrite(0, 1) /\ sent' = sent + 1
  <2>1. staged[0] = << sent + 1 >> /\ 1 \in 0 .. Capacity[0]
    BY <1>1, <1>3, EndCallsFit DEF ControlInv, EndsInv
  <2>2. ASSUME NEW q \in Queues
        PROVE  /\ Taken(q)' = Taken(q)
               /\ q # 0 => Put(q)' = Put(q)
               /\ q = 0 => Put(q)' = Put(q) + 1
    BY <1>1, <1>3 DEF Taken, Put
  <2>3. \A i \in 1 .. 1 : staged[0][i] = Travelled(0, Put(0) + i)
    <3>1. Put(0) = sent /\ sent + 1 \in 0 .. Items
      BY <1>1, <1>3 DEF Put
    <3>2. Travelled(0, sent + 1) = sent + 1
      BY <3>1, PushedIsFresh
    <3>3. staged[0][1] = sent + 1
      BY <2>1
    <3> QED
      BY <3>1, <3>2, <3>3
  <2>4. QueueData(0)'
    BY <1>1, <1>3, <2>1, <2>2, <2>3, CommittedData DEF DataInv
  <2>5. ASSUME NEW q \in Queues, q # 0 PROVE QueueData(q)'
    BY <1>1, <1>3, <2>2, <2>5, OtherContentsKept, QueueDataKept DEF DataInv
  <2>6. \A i \in 1 .. Len(received') : received'[i] = Travelled(N, i)'
    BY <1>1 DEF DataInv, Travelled
  <2> QED
    BY <2>4, <2>5, <2>6 DEF DataInv
<1> QED
  BY <1>2, <1>3 DEF push_one, SourceGoes

(* pop_one receives the oldest element of the last queue.                  *)
LEMMA SinkData ==
  ASSUME Inv, ControlInv, DataInv, pop_one
  PROVE  DataInv'
<1>1. /\ N \in Queues /\ 1 \in Nat /\ UNCHANGED << pc, done, sent >>
      /\ received \in Seq(Values) /\ seen[N] \in Seq(Values)
  BY EndsAreQueues DEF pop_one, SinkGoes, processVars, ControlInv, NetTypeOK, Inv, TypeOK
<1>2. CASE received' = received /\ (CallBeginRead(N, 1) \/ BeginRead(N) \/ Load(N))
  <2>1. 0 \in Values
    BY NetworkAssumption
  <2>2. \A q \in Queues : m_size'[q] = m_size[q] /\ Contents(q)' = Contents(q)
    BY <1>1, <1>2, <2>1, ContentsKept
  <2> QED
    BY <1>1, <1>2, <2>2, DataKept
<1>3. CASE sink = "holding" /\ seen[N] # << >> /\ EndRead(N, 1)
           /\ received' = Append(received, seen[N][1])
  <2>1. 1 \in 0 .. Capacity[N]
    BY <1>1, <1>3, EndCallsFit
  <2>2. Len(received') = Len(received) + 1 /\ Len(received) \in Nat /\ seen[N][1] \in Values
    BY <1>1, <1>3
  <2>3. ASSUME NEW q \in Queues
        PROVE  /\ Put(q)' = Put(q)
               /\ q # N => Taken(q)' = Taken(q)
               /\ q = N => Taken(q)' = Taken(q) + 1
    BY <1>1, <1>3, <2>2 DEF Taken, Put
  <2>4. QueueData(N)'
    BY <1>1, <1>3, <2>1, <2>3, ConsumedData DEF DataInv
  <2>5. ASSUME NEW q \in Queues, q # N PROVE QueueData(q)'
    BY <1>1, <1>3, <2>3, <2>5, OtherContentsKept, QueueDataKept DEF DataInv
  <2>6. seen[N][1] = Travelled(N, Len(received) + 1)
    <3>1. reader[N].at = "holding" /\ 1 \in 1 .. Len(seen[N])
      BY <1>1, <1>3 DEF EndRead
    <3>2. 1 \in 1 .. m_size[N] /\ seen[N][1] = Contents(N)[1]
      BY <1>1, <3>1, SeenIsContents
    <3> QED
      BY <1>1, <3>2 DEF DataInv, QueueData, Taken
  <2>7. ASSUME NEW i \in 1 .. Len(received') PROVE received'[i] = Travelled(N, i)'
    <3>1. CASE i \in 1 .. Len(received)
      BY <1>1, <1>3, <2>2, <3>1 DEF DataInv, Travelled
    <3>2. CASE i = Len(received) + 1
      BY <1>1, <1>3, <2>2, <2>6, <3>2 DEF Travelled
    <3> QED
      BY <2>2, <3>1, <3>2
  <2> QED
    BY <2>4, <2>5, <2>7 DEF DataInv
<1> QED
  BY <1>2, <1>3 DEF pop_one, SinkGoes

(* Every step keeps the data part of the invariant.                        *)
LEMMA DataNext ==
  ASSUME Inv, ControlInv, DataInv, [NetworkNext]_networkVars
  PROVE  DataInv'
<1>1. CASE \E p \in Processes : ThreadNext(p) \/ UserNext(p)
  BY <1>1, ThreadData, UserData
<1>2. CASE push_one \/ pop_one
  BY <1>2, SourceData, SinkData
<1>3. CASE InterruptEnds \/ ResumeEnds \/ SleeperWakes \/ UNCHANGED networkVars
  <2>1. UNCHANGED << ringVars, pc, done, sent, received >>
    BY <1>3 DEF InterruptEnds, ResumeEnds, SleeperWakes, Wakeup, networkVars, queueVars,
                outsideVars, processVars
  <2>2. \A q \in Queues : m_size'[q] = m_size[q] /\ Contents(q)' = Contents(q)
    BY <2>1 DEF ringVars, Contents, SlotOf
  <2> QED
    BY <2>1, <2>2, DataKept
<1> QED
  BY <1>1, <1>2, <1>3 DEF NetworkNext

(* It holds when the network is built.                                     *)
LEMMA DataInit == NetworkInit => DataInv
<1> SUFFICES ASSUME NetworkInit PROVE DataInv
  OBVIOUS
<1>1. \A q \in Queues : Put(q) = 0 /\ Taken(q) = 0 /\ m_size[q] = 0
  <2>1. \A q \in Queues : (q # 0 => q \in Processes) /\ (q # N => q + 1 \in Processes)
    BY NetworkAssumption DEF Processes
  <2> QED
    BY <2>1 DEF NetworkInit, Init, Put, Taken
<1>2. \A q \in Queues : QueueData(q)
  BY <1>1 DEF QueueData
<1> QED
  BY <1>2 DEF NetworkInit, DataInv

(* Whatever is terminated, interrupted and started again, in whatever      *)
(* order: every queue holds exactly what was put in and not taken out, and *)
(* what comes out of the network is what went in, in order, processed once *)
(* by every process.                                                       *)
THEOREM NetworkExactlyOnce == NetworkSpec => []ExactlyOnce
<1>1. Inv /\ ControlInv /\ DataInv => ExactlyOnce
  <2> SUFFICES ASSUME Inv, ControlInv, DataInv PROVE ExactlyOnce
    OBVIOUS
  <2>1. ASSUME NEW q \in Queues
        PROVE  Contents(q) = [i \in 1 .. Put(q) - Taken(q) |-> Travelled(q, Taken(q) + i)]
    BY DEF DataInv, QueueData, Contents
  <2>2. received = [i \in 1 .. Len(received) |-> Travelled(N, i)]
    <3>1. received \in Seq(Values)
      BY DEF ControlInv, NetTypeOK
    <3>2. received = [i \in 1 .. Len(received) |-> received[i]]
      BY <3>1
    <3> QED
      BY <3>2 DEF DataInv
  <2> QED
    BY <2>1, <2>2 DEF ExactlyOnce
<1>2. NetworkInit => DataInv
  BY DataInit
<1>3. Inv /\ ControlInv /\ DataInv /\ [NetworkNext]_networkVars => DataInv'
  BY DataNext
<1> QED
  BY <1>1, <1>2, <1>3, ControlHolds, PTL DEF NetworkSpec

-----------------------------------------------------------------------------
(* Two multiples of m that differ, differ by m or more.                    *)
LEMMA MultiplesApart ==
  ASSUME NEW m \in Nat \ {0}, NEW a \in Nat, NEW b \in Nat, a % m = 0, b % m = 0, b < a
  PROVE  a - b >= m
<1> DEFINE k == a \div m  j == b \div m  c == k - j  d == a - b
<1>1. k \in Int /\ a = m * k
  OBVIOUS
<1>2. j \in Int /\ b = m * j
  OBVIOUS
<1>3. c \in Int /\ d \in Int /\ 0 < d
  BY <1>1, <1>2
<1>4. m * c = d
  <2> HIDE DEF k, j
  <2> QED BY <1>1, <1>2
<1>5. ASSUME d < m PROVE FALSE
  <2> HIDE DEF c, d
  <2>1. -m < d
    BY <1>3
  <2> QED
    BY <1>3, <1>4, <1>5, <2>1, Multiples
<1> HIDE DEF k, j
<1> QED
  BY <1>3, <1>5

(* A multiple of m plus m is a multiple of m.                              *)
LEMMA MultipleAdded ==
  ASSUME NEW m \in Nat \ {0}, NEW a \in Nat, a % m = 0
  PROVE  (a + m) % m = 0
<1>1. ((a % m) + m) % m = (a + m) % m
  BY ModAdd
<1>2. (0 + m) % m = 0
  OBVIOUS
<1> QED
  BY <1>1, <1>2

(* The clients of the queues of p agree with them in whole blocks.         *)
BlockInv(p) ==
  /\ m_last[In(p)] % Blocksize[p] = 0 /\ m_first[Out(p)] % Blocksize[p] = 0
  /\ pc[p] = "reading" => reader[In(p)].want = Blocksize[p]
  /\ pc[p] = "writing" => writer[Out(p)].want = Blocksize[p]
  /\ pc[p] \in PastRead => reader[In(p)].room >= Blocksize[p]
  /\ pc[p] = "process"  => writer[Out(p)].room >= Blocksize[p]

(* ... at every process.                                                   *)
BlocksInv == \A p \in Processes : BlockInv(p)

(* A queue is a whole number of the blocks of the processes that use it.   *)
WholeBlocks ==
  \A p \in Processes : /\ Capacity[In(p)] % Blocksize[p] = 0
                       /\ Capacity[Out(p)] % Blocksize[p] = 0

(* The memory begin_write lends ends at m_last, or at the end of a block.  *)
LEMMA BlockToWrite ==
  ASSUME Inv, NEW q \in Queues, NEW B \in Nat \ {0}, Capacity[q] % B = 0, m_first[q] % B = 0,
         BeginWrite(q), writer[q].want = B, writer'[q].at = "holding"
  PROVE  writer'[q].room >= B
<1> DEFINE cap == Capacity[q]  first == m_first[q]  last == m_last[q]  size == m_size[q]
<1>1. /\ cap \in Nat \ {0} /\ first \in Nat /\ last \in Nat /\ size \in Nat
      /\ first < cap /\ last < cap /\ size <= cap /\ first = Wrap(cap, last + size)
  BY AtOneQueue DEF RingInv
<1>2. BeginWriteReturns(q)
  BY AtOneQueue DEF BeginWrite, BeginWriteWaits, Outside, Inv, TypeOK
<1>3. cap - size >= B /\ writer'[q].room = WriteRoom(cap, first, last, size)
  BY <1>2 DEF BeginWriteReturns, Holding, available, Inv, TypeOK
<1>4. cap - first >= B
  BY <1>1, MultiplesApart
<1>5. WriteRoom(cap, first, last, size) >= B
  <2> HIDE DEF cap, first, last, size
  <2> QED
    BY <1>1, <1>3, <1>4 DEF WriteRoom, Wrap
<1> QED
  BY <1>3, <1>5

(* The memory begin_read lends ends at m_first, or at the end of a block.  *)
LEMMA BlockToRead ==
  ASSUME Inv, NEW q \in Queues, NEW B \in Nat \ {0}, Capacity[q] % B = 0, m_last[q] % B = 0,
         BeginRead(q), reader[q].want = B, reader'[q].at = "holding"
  PROVE  reader'[q].room >= B
<1> DEFINE cap == Capacity[q]  first == m_first[q]  last == m_last[q]  size == m_size[q]
<1>1. /\ cap \in Nat \ {0} /\ first \in Nat /\ last \in Nat /\ size \in Nat
      /\ first < cap /\ last < cap /\ size <= cap /\ first = Wrap(cap, last + size)
  BY AtOneQueue DEF RingInv
<1>2. BeginReadReturns(q)
  BY AtOneQueue DEF BeginRead, BeginReadWaits, Outside, Inv, TypeOK
<1>3. size >= B /\ reader'[q].room = ReadRoom(cap, first, last, size)
  BY <1>2 DEF BeginReadReturns, Holding, Inv, TypeOK
<1>4. cap - last >= B
  BY <1>1, MultiplesApart
<1>5. ReadRoom(cap, first, last, size) >= B
  <2> HIDE DEF cap, first, last, size
  <2> QED
    BY <1>1, <1>3, <1>4 DEF ReadRoom, Wrap
<1> QED
  BY <1>3, <1>5

(* A pointer that is advanced by a block stays at the start of a block.    *)
LEMMA PointerAdvances ==
  ASSUME NEW B \in Nat \ {0}, NEW cap \in Nat, NEW what \in Nat, what % B = 0
  PROVE  Increment(cap, what, B) % B = 0
<1>1. (what + B) % B = 0
  BY MultipleAdded
<1>2. 0 % B = 0
  OBVIOUS
<1> QED
  BY <1>1, <1>2 DEF Increment

(* m_first is moved by the writer only, m_last by the reader only.         *)
LEMMA WriterPointers ==
  ASSUME Inv, NEW q \in Queues, NEW n, NEW v,
         CallBeginWrite(q, n) \/ BeginWrite(q) \/ Store(q, v) \/ EndWrite(q, n)
  PROVE  m_last' = m_last /\ \A o \in Queues \ {q} : m_first'[o] = m_first[o]
<1>1. m_first \in [Queues -> Nat]
  BY DEF Inv, TypeOK
<1>2. CASE EndWrite(q, n)
  BY <1>1, <1>2 DEF EndWrite
<1>3. CASE CallBeginWrite(q, n) \/ BeginWrite(q) \/ Store(q, v)
  BY <1>3 DEF CallBeginWrite, BeginWrite, Store, ringVars
<1> QED
  BY <1>2, <1>3

(* The same for the reader.                                                *)
LEMMA ReaderPointers ==
  ASSUME Inv, NEW q \in Queues, NEW n,
         CallBeginRead(q, n) \/ BeginRead(q) \/ Load(q) \/ EndRead(q, n)
  PROVE  m_first' = m_first /\ \A o \in Queues \ {q} : m_last'[o] = m_last[o]
<1>1. m_last \in [Queues -> Nat]
  BY DEF Inv, TypeOK
<1>2. CASE EndRead(q, n)
  BY <1>1, <1>2 DEF EndRead
<1>3. CASE CallBeginRead(q, n) \/ BeginRead(q) \/ Load(q)
  BY <1>3 DEF CallBeginRead, BeginRead, Load, ringVars
<1> QED
  BY <1>2, <1>3

(* A process whose place, ends and pointers nobody touched.                *)
LEMMA BlockKept ==
  ASSUME NEW o \in Processes, BlockInv(o), pc'[o] = pc[o],
         m_last'[In(o)] = m_last[In(o)], m_first'[Out(o)] = m_first[Out(o)],
         reader'[In(o)] = reader[In(o)], writer'[Out(o)] = writer[Out(o)]
  PROVE  BlockInv(o)'
BY DEF BlockInv, In, Out

(* A thread asks for a block, gets one, and advances its pointer by one.   *)
LEMMA ThreadBlocks ==
  ASSUME Inv, ControlInv, WholeBlocks, BlocksInv, NEW p \in Processes, ThreadNext(p)
  PROVE  BlocksInv'
<1> DEFINE B == Blocksize[p]  i == In(p)  o == Out(p)
<1>1. WritersKept({o}) /\ ReadersKept({i})
  BY ThreadFrame
<1>5. i # o /\ Capacity[i] \in Nat /\ Capacity[o] \in Nat
  <2>1. i # o
    BY NetworkAssumption DEF In, Out, Processes
  <2>2. i \in Queues /\ o \in Queues
    BY EndsAreQueues
  <2> QED
    BY <2>1, <2>2, CapacityAssumption
<1>6. /\ Capacity[i] % B = 0 /\ Capacity[o] % B = 0 /\ BlockInv(p)
      /\ m_last \in [Queues -> Nat] /\ m_first \in [Queues -> Nat]
  BY DEF BlocksInv, WholeBlocks, Inv, TypeOK
<1>2. /\ i \in Queues /\ o \in Queues /\ i # o
      /\ pc \in [Processes -> {"none", "read", "reading", "exited"} \cup PastRead]
      /\ B \in Nat \ {0} /\ ThreadInv(p) /\ BlockInv(p)
      /\ writer \in [Queues -> Client] /\ reader \in [Queues -> Client]
      /\ Capacity[i] % B = 0 /\ Capacity[o] % B = 0
      /\ Capacity[i] \in Nat /\ Capacity[o] \in Nat
      /\ m_last \in [Queues -> Nat] /\ m_first \in [Queues -> Nat]
  BY <1>5, <1>6, ThreadTypes
<1>3. ASSUME NEW r \in Processes, r # p PROVE BlockInv(r)'
  <2>1. In(r) \in Queues \ {i} /\ Out(r) \in Queues \ {o} /\ In(r) # Out(r)
    BY <1>3, NetworkAssumption DEF In, Out, Processes
  <2>2. m_last'[In(r)] = m_last[In(r)] /\ m_first'[Out(r)] = m_first[Out(r)]
    <3>1. CASE ReadBlock(p) \/ Reading(p) \/ ProcessLoad(p) \/ EndBlockRead(p)
      BY <1>2, <2>1, <3>1, ReaderPointers DEF ReadBlock, Reading, ProcessLoad, EndBlockRead
    <3>2. CASE WriteBlock(p) \/ Writing(p) \/ ProcessStore(p) \/ EndBlockWrite(p)
      BY <1>2, <2>1, <3>2, WriterPointers DEF WriteBlock, Writing, ProcessStore, EndBlockWrite
    <3> QED
      BY <3>1, <3>2 DEF ThreadNext
  <2> QED
    BY <1>1, <1>3, <2>1, <2>2, ThreadPlaces, BlockKept DEF BlocksInv, WritersKept, ReadersKept
<1>4. BlockInv(p)'
  <2>1. CASE ReadBlock(p)
    BY <1>2, <2>1 DEF ReadBlock, CallBeginRead, Begin, GoTo, ringVars, writerVars, BlockInv,
                      PastRead, In, Out
  <2>2. CASE WriteBlock(p)
    BY <1>2, <2>2 DEF WriteBlock, CallBeginWrite, Begin, GoTo, ringVars, readerVars, BlockInv,
                      PastRead, In, Out
  <2>3. CASE Reading(p)
    <3>1. /\ BeginRead(i) /\ pc[p] = "reading" /\ reader[i].want = B
          /\ pc'[p] = AfterBegin(p, reader'[i], "write")
          /\ UNCHANGED << m_first, m_last, writer >>
      BY <1>2, <2>3 DEF Reading, GoTo, BeginRead, ringVars, writerVars, BlockInv
    <3>2. CASE reader'[i].at = "holding"
      <4>1. reader'[i].room >= B /\ pc'[p] = "write"
        BY <1>2, <3>1, <3>2, BlockToRead DEF AfterBegin, BlockInv
      <4> QED
        BY <1>2, <3>1, <4>1 DEF BlockInv, PastRead, In, Out
    <3>3. CASE reader'[i].at = "begin"
      <4>1. reader'[i] = reader[i] /\ pc'[p] = "reading"
        BY <1>2, <3>1, <3>3 DEF AfterBegin, BeginRead, BeginReadReturns, BeginReadWaits,
                                Holding, Outside
      <4> QED
        BY <1>2, <3>1, <4>1 DEF BlockInv, PastRead, In, Out
    <3>4. CASE reader'[i].at = "outside"
      <4>1. pc'[p] = "exited"
        BY <1>2, <3>1, <3>4 DEF AfterBegin
      <4> QED
        BY <1>2, <3>1, <4>1 DEF BlockInv, PastRead, In, Out
    <3> QED
      BY <1>2, <3>1, <3>2, <3>3, <3>4, BeginReadGoesOn
  <2>4. CASE Writing(p)
    <3>1. /\ BeginWrite(o) /\ pc[p] = "writing" /\ writer[o].want = B
          /\ pc'[p] = AfterBegin(p, writer'[o], "process")
          /\ UNCHANGED << m_first, m_last, reader >> /\ reader[i].room >= B
      BY <1>2, <2>4 DEF Writing, GoTo, BeginWrite, ringVars, readerVars, BlockInv, PastRead
    <3>2. CASE writer'[o].at = "holding"
      <4>1. writer'[o].room >= B /\ pc'[p] = "process"
        BY <1>2, <3>1, <3>2, BlockToWrite DEF AfterBegin, BlockInv
      <4> QED
        BY <1>2, <3>1, <4>1 DEF BlockInv, PastRead, In, Out
    <3>3. CASE writer'[o].at = "begin"
      <4>1. writer'[o] = writer[o] /\ pc'[p] = "writing"
        BY <1>2, <3>1, <3>3 DEF AfterBegin, BeginWrite, BeginWriteReturns, BeginWriteWaits,
                                Holding, Outside
      <4> QED
        BY <1>2, <3>1, <4>1 DEF BlockInv, PastRead, In, Out
    <3>4. CASE writer'[o].at = "outside"
      <4>1. pc'[p] = "exited"
        BY <1>2, <3>1, <3>4 DEF AfterBegin
      <4> QED
        BY <1>2, <3>1, <4>1 DEF BlockInv, PastRead, In, Out
    <3> QED
      BY <1>2, <3>1, <3>2, <3>3, <3>4, BeginWriteGoesOn
  <2>5. CASE ProcessLoad(p) \/ ProcessStore(p)
    BY <1>2, <2>5 DEF ProcessLoad, ProcessStore, Load, Store, GoTo, ringVars, readerVars,
                      writerVars, BlockInv, PastRead, In, Out
  <2>6. CASE EndBlockWrite(p)
    <3>1. /\ EndWrite(o, B) /\ pc[p] = "process" /\ pc'[p] = "end_read"
      BY <1>2, <2>6 DEF EndBlockWrite, GoTo
    <3>2. /\ m_first'[o] = Increment(Capacity[o], m_first[o], B)
          /\ UNCHANGED << m_last, reader >>
      BY <1>2, <3>1 DEF EndWrite, readerVars
    <3>3. m_first'[o] % B = 0
      BY <1>2, <3>2, PointerAdvances DEF BlockInv
    <3> QED
      BY <1>2, <3>1, <3>2, <3>3 DEF BlockInv, PastRead, In, Out
  <2>7. CASE EndBlockRead(p)
    <3>1. /\ EndRead(i, B) /\ pc'[p] = "read"
      BY <1>2, <2>7 DEF EndBlockRead, GoTo
    <3>2. /\ m_last'[i] = Increment(Capacity[i], m_last[i], B)
          /\ UNCHANGED << m_first, writer >>
      BY <1>2, <3>1 DEF EndRead, writerVars
    <3>3. m_last'[i] % B = 0
      BY <1>2, <3>2, PointerAdvances DEF BlockInv
    <3> QED
      BY <1>2, <3>1, <3>2, <3>3 DEF BlockInv, PastRead, In, Out
  <2> QED
    BY <2>1, <2>2, <2>3, <2>4, <2>5, <2>6, <2>7 DEF ThreadNext
<1> QED
  BY <1>3, <1>4 DEF BlocksInv

(* A user moves no pointer.                                                *)
LEMMA UserBlocks ==
  ASSUME ControlInv, BlocksInv, NEW p \in Processes, UserNext(p)
  PROVE  BlocksInv'
<1>1. UNCHANGED << m_first, m_last, writer, reader >>
  BY UserFrame DEF ringVars, writerVars, readerVars
<1>2. pc \in [Processes -> {"none", "read", "reading", "exited"} \cup PastRead] /\ UserInv(p)
      /\ input \in [Processes -> BOOLEAN] /\ output \in [Processes -> BOOLEAN]
  BY DEF ControlInv, NetTypeOK
<1>3. /\ \A r \in Processes \ {p} : pc'[r] = pc[r]
      /\ pc'[p] = pc[p] \/ pc'[p] \in {"none", "read"}
  BY <1>2 DEF UserNext, set_input, set_output, terminate_idle, terminate, UserInv,
              terminate_interrupt_write, terminate_join, resume, Start, processVars
<1> QED
  BY <1>1, <1>3 DEF BlocksInv, BlockInv, PastRead, In, Out

(* The source and the sink move the pointers no process uses.              *)
LEMMA EndsBlocks ==
  ASSUME Inv, BlocksInv, push_one \/ pop_one
  PROVE  BlocksInv'
<1>1. /\ \A q \in Queues \ {N} : m_last'[q] = m_last[q]
      /\ \A q \in Queues \ {0} : m_first'[q] = m_first[q]
  <2>1. CASE push_one
    BY <2>1, EndsAreQueues, WriterPointers DEF push_one
  <2>2. CASE pop_one
    BY <2>2, EndsAreQueues, ReaderPointers DEF pop_one
  <2> QED
    BY <2>1, <2>2
<1>2. WritersKept({0}) /\ ReadersKept({N}) /\ pc' = pc
  <2>1. CASE push_one
    BY <2>1, EndsAreQueues, WriterFrame DEF push_one, SourceGoes, processVars, ReadersKept
  <2>2. CASE pop_one
    BY <2>2, EndsAreQueues, ReaderFrame DEF pop_one, SinkGoes, processVars, WritersKept
  <2> QED
    BY <2>1, <2>2
<1>3. \A p \in Processes : In(p) \in Queues \ {N} /\ Out(p) \in Queues \ {0}
  BY NetworkAssumption DEF In, Out, Processes
<1> QED
  BY <1>1, <1>2, <1>3, BlockKept DEF BlocksInv, WritersKept, ReadersKept

(* Every step keeps the blocks aligned.                                    *)
LEMMA BlocksNext ==
  ASSUME Inv, ControlInv, WholeBlocks, BlocksInv, [NetworkNext]_networkVars
  PROVE  BlocksInv'
<1>1. CASE \E p \in Processes : ThreadNext(p) \/ UserNext(p)
  BY <1>1, ThreadBlocks, UserBlocks
<1>2. CASE push_one \/ pop_one
  BY <1>2, EndsBlocks
<1>3. CASE InterruptEnds \/ ResumeEnds \/ SleeperWakes \/ UNCHANGED networkVars
  <2>1. UNCHANGED << m_first, m_last, writer, reader, pc >>
    BY <1>3 DEF InterruptEnds, ResumeEnds, SleeperWakes, Wakeup, networkVars, queueVars,
                ringVars, writerVars, readerVars, processVars
  <2> QED
    BY <2>1, BlockKept DEF BlocksInv
<1> QED
  BY <1>1, <1>2, <1>3 DEF NetworkNext

(* The two assertions of StaticProcessor::process: in queues that are a    *)
(* whole number of blocks, begin_read and begin_write never lend less than *)
(* a block, so ProcessBlockFunction stays inside its grants.               *)
THEOREM GrantsHoldBlocks ==
  ASSUME WholeBlocks
  PROVE  NetworkSpec => []GrantHoldsBlock
<1>1. BlocksInv => GrantHoldsBlock
  BY DEF BlocksInv, BlockInv, GrantHoldsBlock, PastRead
<1>2. NetworkInit => BlocksInv
  <2> SUFFICES ASSUME NetworkInit, NEW p \in Processes PROVE BlockInv(p)
    BY DEF BlocksInv
  <2>1. 0 % Blocksize[p] = 0
    BY EndsAreQueues
  <2> QED
    BY <2>1, EndsAreQueues DEF NetworkInit, Init, BlockInv, PastRead
<1>3. Inv /\ ControlInv /\ BlocksInv /\ [NetworkNext]_networkVars => BlocksInv'
  BY BlocksNext
<1> QED
  BY <1>1, <1>2, <1>3, ControlHolds, PTL DEF NetworkSpec
=============================================================================
