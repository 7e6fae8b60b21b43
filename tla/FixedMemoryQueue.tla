-------------------------- MODULE FixedMemoryQueue --------------------------
(***************************************************************************)
(* FixedMemoryQueue<T, PthreadScheduler> (queue.hpp, pthreadscheduler.cpp):*)
(* the ring buffer that carries the data of the network between threads.   *)
(*                                                                         *)
(* Every queue has one writer thread and one reader thread.  A begin_ call *)
(* lends its caller a piece of the ring ("grant"), which the caller fills  *)
(* or reads element by element WITHOUT the lock; an end_ call hands it     *)
(* back.  Other threads call wait_empty, interrupt_, resume_ and clear.    *)
(*                                                                         *)
(* One step is what runs under one acquisition of the queue's mutex, or    *)
(* one access to one element outside it.  A call that may have to wait is  *)
(* the step that enters it and then one step per pass through its loop.    *)
(***************************************************************************)
EXTENDS RingArithmetic, PthreadScheduler, Sequences

CONSTANTS
  Capacity,    \* [Queues -> positive number]
  Values,      \* the elements clients send
  Junk,        \* what "new T[capacity]" leaves in a slot
  Counts,      \* the count_min arguments clients use
  Drainers     \* the threads that may call wait_empty()

ASSUME CapacityAssumption == Capacity \in [Queues -> Nat \ {0}]
ASSUME JunkAssumption     == Junk \notin Values
ASSUME CountsAssumption   == Counts \subseteq Nat

VARIABLES
  m_buff,      \* [Queues -> [slot -> element]]
  m_first,     \* where the next element is written
  m_last,      \* where the oldest element is
  m_size,
  writer,      \* [Queues -> client record]: the thread that calls begin_write
  reader,      \* [Queues -> client record]: the thread that calls begin_read
  staged,      \* [Queues -> Seq(Values)]: what the writer put in its grant
  seen,        \* [Queues -> Seq(Values)]: what the reader got from its grant
  draining     \* [Queues -> SUBSET Drainers]: who is inside wait_empty()

ringVars   == << m_buff, m_first, m_last, m_size >>
writerVars == << writer, staged >>
readerVars == << reader, seen >>
queueVars  == << ringVars, writerVars, readerVars, draining, schedulerVars >>

Slots(q)     == 0 .. Capacity[q] - 1
available(q) == Capacity[q] - m_size[q]
empty(q)     == m_size[q] = 0

(* A client is outside the queue, inside a begin_ call that asked for      *)
(* `want' elements, or holds the grant of `room' slots that starts at buf. *)
Outside            == [at |-> "outside", want |-> 0, buf |-> 0,   room |-> 0]
Begin(n)           == [at |-> "begin",   want |-> n, buf |-> 0,   room |-> 0]
Holding(buf, room) == [at |-> "holding", want |-> 0, buf |-> buf, room |-> room]

(* What is left of a grant after its first c slots were handed back.       *)
Remainder(grant, c) ==
  IF c = grant.room THEN Outside ELSE Holding(grant.buf + c, grant.room - c)

Init ==
  /\ SchedulerInit
  /\ m_buff  = [q \in Queues |-> [i \in Slots(q) |-> Junk]]
  /\ m_first = [q \in Queues |-> 0]
  /\ m_last  = [q \in Queues |-> 0]
  /\ m_size  = [q \in Queues |-> 0]
  /\ writer  = [q \in Queues |-> Outside]
  /\ reader  = [q \in Queues |-> Outside]
  /\ staged  = [q \in Queues |-> << >>]
  /\ seen    = [q \in Queues |-> << >>]
  /\ draining = [q \in Queues |-> {}]

-----------------------------------------------------------------------------
(* The writer.                                                             *)

(* A writer may ask again before it committed its grant: what it stored    *)
(* there is then dropped.                                                  *)
CallBeginWrite(q, n) ==
  /\ writer[q].at # "begin" /\ "writer" \notin draining[q]
  /\ n <= Capacity[q]
  /\ writer' = [writer EXCEPT ![q] = Begin(n)]
  /\ staged' = [staged EXCEPT ![q] = << >>]
  /\ UNCHANGED << ringVars, readerVars, draining, schedulerVars >>

(* One pass through "while (available() < count)".                         *)
BeginWriteReturns(q) ==
  /\ available(q) >= writer[q].want
  /\ writer' = [writer EXCEPT ![q] =
       Holding(m_first[q],
               WriteRoom(Capacity[q], m_first[q], m_last[q], m_size[q]))]
  /\ UNCHANGED schedulerVars

BeginWriteWaits(q) ==
  /\ available(q) < writer[q].want
  /\ \/ wait_until_not_full_sleeps(q, "writer") /\ UNCHANGED writer
     \/ wait_until_not_full_throws(q) /\ writer' = [writer EXCEPT ![q] = Outside]

BeginWrite(q) ==
  /\ writer[q].at = "begin" /\ "writer" \notin m_condition_not_full[q]
  /\ BeginWriteReturns(q) \/ BeginWriteWaits(q)
  /\ UNCHANGED << ringVars, staged, readerVars, draining >>

(* The client stores the next element of its grant.                        *)
Store(q, v) ==
  LET i == writer[q].buf + Len(staged[q]) IN
  /\ writer[q].at = "holding" /\ Len(staged[q]) < writer[q].room
  /\ m_buff' = [m_buff EXCEPT ![q] = [@ EXCEPT ![i] = v]]
  /\ staged' = [staged EXCEPT ![q] = Append(@, v)]
  /\ UNCHANGED << m_first, m_last, m_size, writer, readerVars, draining,
                  schedulerVars >>

(* An end_write that signals the wrong condition variable.                 *)
EndWriteWrongSignal(q, c) ==
  /\ writer[q].at = "holding" /\ c <= Len(staged[q])
  /\ m_first' = [m_first EXCEPT ![q] = Increment(Capacity[q], @, c)]
  /\ m_size'  = [m_size EXCEPT ![q] = @ + c]
  /\ trigger_not_full(q)
  /\ writer'  = [writer EXCEPT ![q] = Remainder(@, c)]
  /\ staged'  = [staged EXCEPT ![q] = SubSeq(@, c + 1, Len(@))]
  /\ UNCHANGED << m_buff, m_last, readerVars, draining >>

EndWrite(q, c) ==
  /\ writer[q].at = "holding" /\ c <= Len(staged[q])
  /\ m_first' = [m_first EXCEPT ![q] = Increment(Capacity[q], @, c)]
  /\ m_size'  = [m_size EXCEPT ![q] = @ + c]
  /\ trigger_not_empty(q)
  /\ writer'  = [writer EXCEPT ![q] = Remainder(@, c)]
  /\ staged'  = [staged EXCEPT ![q] = SubSeq(@, c + 1, Len(@))]
  /\ UNCHANGED << m_buff, m_last, readerVars, draining >>

-----------------------------------------------------------------------------
(* The reader.                                                             *)

CallBeginRead(q, n) ==
  /\ reader[q].at # "begin"
  /\ n <= Capacity[q]
  /\ reader' = [reader EXCEPT ![q] = Begin(n)]
  /\ seen'   = [seen EXCEPT ![q] = << >>]
  /\ UNCHANGED << ringVars, writerVars, draining, schedulerVars >>

BeginReadReturns(q) ==
  /\ m_size[q] >= reader[q].want
  /\ reader' = [reader EXCEPT ![q] =
       Holding(m_last[q],
               ReadRoom(Capacity[q], m_first[q], m_last[q], m_size[q]))]
  /\ UNCHANGED schedulerVars

BeginReadWaits(q) ==
  /\ m_size[q] < reader[q].want
  /\ \/ wait_until_not_empty_sleeps(q, "reader") /\ UNCHANGED reader
     \/ wait_until_not_empty_throws(q) /\ reader' = [reader EXCEPT ![q] = Outside]

BeginRead(q) ==
  /\ reader[q].at = "begin" /\ "reader" \notin m_condition_not_empty[q]
  /\ BeginReadReturns(q) \/ BeginReadWaits(q)
  /\ UNCHANGED << ringVars, writerVars, seen, draining >>

(* The client looks at the next element of its grant.                      *)
Load(q) ==
  LET i == reader[q].buf + Len(seen[q]) IN
  /\ reader[q].at = "holding" /\ Len(seen[q]) < reader[q].room
  /\ seen' = [seen EXCEPT ![q] = Append(@, m_buff[q][i])]
  /\ UNCHANGED << ringVars, writerVars, reader, draining, schedulerVars >>

(* An end_read that only signals a queue that was full.                    *)
EndReadSignalsIfFull(q, c) ==
  /\ reader[q].at = "holding" /\ c <= reader[q].room
  /\ m_last' = [m_last EXCEPT ![q] = Increment(Capacity[q], @, c)]
  /\ m_size' = [m_size EXCEPT ![q] = @ - c]
  /\ IF available(q) = 0 THEN trigger_not_full(q) ELSE UNCHANGED schedulerVars
  /\ reader' = [reader EXCEPT ![q] = Remainder(@, c)]
  /\ seen'   = [seen EXCEPT ![q] = SubSeq(@, c + 1, Len(@))]
  /\ UNCHANGED << m_buff, m_first, writerVars, draining >>

EndRead(q, c) ==
  /\ reader[q].at = "holding" /\ c <= reader[q].room
  /\ m_last' = [m_last EXCEPT ![q] = Increment(Capacity[q], @, c)]
  /\ m_size' = [m_size EXCEPT ![q] = @ - c]
  /\ trigger_not_full(q)
  /\ reader' = [reader EXCEPT ![q] = Remainder(@, c)]
  /\ seen'   = [seen EXCEPT ![q] = SubSeq(@, c + 1, Len(@))]
  /\ UNCHANGED << m_buff, m_first, writerVars, draining >>

-----------------------------------------------------------------------------
(* The other calls.                                                        *)

CallWaitEmpty(q, t) ==
  /\ t \notin draining[q]
  /\ t = "writer" => writer[q].at = "outside"
  /\ draining' = [draining EXCEPT ![q] = @ \cup {t}]
  /\ UNCHANGED << ringVars, writerVars, readerVars, schedulerVars >>

(* wait_empty sleeps in the condition variable of the writers.             *)
WaitEmpty(q, t) ==
  /\ t \in draining[q] \ m_condition_not_full[q]
  /\ \/ /\ empty(q) \/ m_interrupted_not_full[q]
        /\ draining' = [draining EXCEPT ![q] = @ \ {t}]
        /\ UNCHANGED schedulerVars
     \/ /\ ~ empty(q) /\ wait_until_not_full_sleeps(q, t)
        /\ UNCHANGED draining
  /\ UNCHANGED << ringVars, writerVars, readerVars >>

(* interrupt_read, interrupt_write, resume_read, resume_write.             *)
Control(q) ==
  /\ \/ interrupt_not_empty(q) \/ interrupt_not_full(q)
     \/ resume_not_empty(q)    \/ resume_not_full(q)
  /\ UNCHANGED << ringVars, writerVars, readerVars, draining >>

(* A clear() that forgets m_last.                                          *)
ClearKeepsLast(q) ==
  /\ writer[q].at = "outside" /\ reader[q].at = "outside" /\ draining[q] = {}
  /\ m_first' = [m_first EXCEPT ![q] = 0]
  /\ m_size'  = [m_size EXCEPT ![q] = 0]
  /\ UNCHANGED << m_buff, m_last, writerVars, readerVars, draining, schedulerVars >>

(* clear() forgets the grants and wakes nobody: it is for a queue that is  *)
(* not in use.                                                             *)
Clear(q) ==
  /\ writer[q].at = "outside" /\ reader[q].at = "outside" /\ draining[q] = {}
  /\ m_first' = [m_first EXCEPT ![q] = 0]
  /\ m_last'  = [m_last EXCEPT ![q] = 0]
  /\ m_size'  = [m_size EXCEPT ![q] = 0]
  /\ UNCHANGED << m_buff, writerVars, readerVars, draining, schedulerVars >>

Wakeup(q) ==
  /\ SpuriousWakeup(q)
  /\ UNCHANGED << ringVars, writerVars, readerVars, draining >>

WriterNext(q) ==
  \/ \E n \in Counts : CallBeginWrite(q, n)
  \/ BeginWrite(q)
  \/ \E v \in Values : Store(q, v)
  \/ \E c \in 0 .. Capacity[q] : EndWrite(q, c)

ReaderNext(q) ==
  \/ \E n \in Counts : CallBeginRead(q, n)
  \/ BeginRead(q)
  \/ Load(q)
  \/ \E c \in 0 .. Capacity[q] : EndRead(q, c)

OtherNext(q) ==
  \/ \E t \in Drainers : CallWaitEmpty(q, t) \/ WaitEmpty(q, t)
  \/ Control(q)
  \/ Clear(q)
  \/ Wakeup(q)

Next == \E q \in Queues : WriterNext(q) \/ ReaderNext(q) \/ OtherNext(q)

Spec == Init /\ [][Next]_queueVars
=============================================================================
