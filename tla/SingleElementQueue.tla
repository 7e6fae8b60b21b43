------------------------- MODULE SingleElementQueue -------------------------
(***************************************************************************)
(* SingleElementQueue<T, PthreadScheduler> (queue.hpp): one slot and a     *)
(* flag.  The slot is filled and read by the clients without the lock; the *)
(* flag says whose it is.  A step is what runs under one acquisition of    *)
(* the mutex, or one access to the slot outside it, as in                  *)
(* FixedMemoryQueue.                                                       *)
(***************************************************************************)
EXTENDS PthreadScheduler, Sequences

CONSTANTS
  Values,      \* the elements clients send
  Junk,        \* what the slot holds before the first element
  Drainers     \* the threads that may call wait_empty()

ASSUME JunkAssumption == Junk \notin Values

VARIABLES
  m_full,      \* [Queues -> BOOLEAN]
  m_buffer,    \* [Queues -> element]
  writer,      \* [Queues -> where the writer is]
  reader,      \* [Queues -> where the reader is]
  staged,      \* [Queues -> Seq(Values)]: what the writer stored in the slot
  seen,        \* [Queues -> Seq(Values)]: what the reader saw in the slot
  draining     \* [Queues -> SUBSET Drainers]: who is inside wait_empty()

singleVars == << m_full, m_buffer, writer, reader, staged, seen, draining, schedulerVars >>

(* "begin" is inside begin_write(1) or begin_read(1).                      *)
Places == {"outside", "begin", "holding"}

Init ==
  /\ SchedulerInit
  /\ m_full   = [q \in Queues |-> FALSE]
  /\ m_buffer = [q \in Queues |-> Junk]
  /\ writer   = [q \in Queues |-> "outside"] /\ staged = [q \in Queues |-> << >>]
  /\ reader   = [q \in Queues |-> "outside"] /\ seen   = [q \in Queues |-> << >>]
  /\ draining = [q \in Queues |-> {}]

WriterAt(q, place) == writer' = [writer EXCEPT ![q] = place]
ReaderAt(q, place) == reader' = [reader EXCEPT ![q] = place]

-----------------------------------------------------------------------------
(* A writer that asks again drops what it stored.                          *)
CallBeginWrite(q) ==
  /\ writer[q] # "begin" /\ "writer" \notin draining[q]
  /\ WriterAt(q, "begin") /\ staged' = [staged EXCEPT ![q] = << >>]
  /\ UNCHANGED << m_full, m_buffer, reader, seen, draining, schedulerVars >>

(* begin_write(1): one pass through "while (m_full)".                      *)
BeginWrite(q) ==
  /\ writer[q] = "begin" /\ "writer" \notin m_condition_not_full[q]
  /\ \/ ~ m_full[q] /\ WriterAt(q, "holding") /\ UNCHANGED schedulerVars
     \/ m_full[q] /\ wait_until_not_full_sleeps(q, "writer") /\ UNCHANGED writer
     \/ m_full[q] /\ wait_until_not_full_throws(q) /\ WriterAt(q, "outside")
  /\ UNCHANGED << m_full, m_buffer, reader, staged, seen, draining >>

(* A begin_write(0) that lends the slot whoever has it.                    *)
TryBeginWriteAlways(q) ==
  /\ writer[q] # "begin" /\ "writer" \notin draining[q]
  /\ WriterAt(q, "holding") /\ staged' = [staged EXCEPT ![q] = << >>]
  /\ UNCHANGED << m_full, m_buffer, reader, seen, draining, schedulerVars >>

(* begin_write(0) does not wait.                                           *)
TryBeginWrite(q) ==
  /\ writer[q] # "begin" /\ "writer" \notin draining[q]
  /\ WriterAt(q, IF m_full[q] THEN "outside" ELSE "holding")
  /\ staged' = [staged EXCEPT ![q] = << >>]
  /\ UNCHANGED << m_full, m_buffer, reader, seen, draining, schedulerVars >>

Store(q, v) ==
  /\ writer[q] = "holding" /\ staged[q] = << >>
  /\ m_buffer' = [m_buffer EXCEPT ![q] = v] /\ staged' = [staged EXCEPT ![q] = << v >>]
  /\ UNCHANGED << m_full, writer, reader, seen, draining, schedulerVars >>

(* end_write(1), and end_write(0) which does nothing.                      *)
EndWrite(q) ==
  /\ writer[q] = "holding" /\ staged[q] # << >>
  /\ m_full' = [m_full EXCEPT ![q] = TRUE] /\ trigger_not_empty(q)
  /\ WriterAt(q, "outside") /\ staged' = [staged EXCEPT ![q] = << >>]
  /\ UNCHANGED << m_buffer, reader, seen, draining >>

EndWriteNothing(q) ==
  /\ writer[q] = "holding"
  /\ WriterAt(q, "outside") /\ staged' = [staged EXCEPT ![q] = << >>]
  /\ UNCHANGED << m_full, m_buffer, reader, seen, draining, schedulerVars >>

-----------------------------------------------------------------------------
CallBeginRead(q) ==
  /\ reader[q] # "begin"
  /\ ReaderAt(q, "begin") /\ seen' = [seen EXCEPT ![q] = << >>]
  /\ UNCHANGED << m_full, m_buffer, writer, staged, draining, schedulerVars >>

BeginRead(q) ==
  /\ reader[q] = "begin" /\ "reader" \notin m_condition_not_empty[q]
  /\ \/ m_full[q] /\ ReaderAt(q, "holding") /\ UNCHANGED schedulerVars
     \/ ~ m_full[q] /\ wait_until_not_empty_sleeps(q, "reader") /\ UNCHANGED reader
     \/ ~ m_full[q] /\ wait_until_not_empty_throws(q) /\ ReaderAt(q, "outside")
  /\ UNCHANGED << m_full, m_buffer, writer, staged, seen, draining >>

TryBeginRead(q) ==
  /\ reader[q] # "begin"
  /\ ReaderAt(q, IF m_full[q] THEN "holding" ELSE "outside")
  /\ seen' = [seen EXCEPT ![q] = << >>]
  /\ UNCHANGED << m_full, m_buffer, writer, staged, draining, schedulerVars >>

Load(q) ==
  /\ reader[q] = "holding" /\ seen[q] = << >>
  /\ seen' = [seen EXCEPT ![q] = << m_buffer[q] >>]
  /\ UNCHANGED << m_full, m_buffer, writer, reader, staged, draining, schedulerVars >>

(* An end_read that wakes nobody.                                          *)
EndReadSilently(q) ==
  /\ reader[q] = "holding"
  /\ m_full' = [m_full EXCEPT ![q] = FALSE]
  /\ ReaderAt(q, "outside") /\ seen' = [seen EXCEPT ![q] = << >>]
  /\ UNCHANGED << m_buffer, writer, staged, draining, schedulerVars >>

EndRead(q) ==
  /\ reader[q] = "holding"
  /\ m_full' = [m_full EXCEPT ![q] = FALSE] /\ trigger_not_full(q)
  /\ ReaderAt(q, "outside") /\ seen' = [seen EXCEPT ![q] = << >>]
  /\ UNCHANGED << m_buffer, writer, staged, draining >>

EndReadNothing(q) ==
  /\ reader[q] = "holding"
  /\ ReaderAt(q, "outside") /\ seen' = [seen EXCEPT ![q] = << >>]
  /\ UNCHANGED << m_full, m_buffer, writer, staged, draining, schedulerVars >>

-----------------------------------------------------------------------------
CallWaitEmpty(q, t) ==
  /\ t \notin draining[q]
  /\ t = "writer" => writer[q] = "outside"
  /\ draining' = [draining EXCEPT ![q] = @ \cup {t}]
  /\ UNCHANGED << m_full, m_buffer, writer, reader, staged, seen, schedulerVars >>

(* wait_empty is wait_until_not_full: an interrupt makes it throw.         *)
WaitEmpty(q, t) ==
  /\ t \in draining[q] \ m_condition_not_full[q]
  /\ \/ /\ ~ m_full[q] /\ UNCHANGED schedulerVars
        /\ draining' = [draining EXCEPT ![q] = @ \ {t}]
     \/ /\ m_full[q] /\ wait_until_not_full_throws(q)
        /\ draining' = [draining EXCEPT ![q] = @ \ {t}]
     \/ m_full[q] /\ wait_until_not_full_sleeps(q, t) /\ UNCHANGED draining
  /\ UNCHANGED << m_full, m_buffer, writer, reader, staged, seen >>

(* interrupt_read and interrupt_write; there is nothing that takes them    *)
(* back.                                                                   *)
Control(q) ==
  /\ interrupt_not_empty(q) \/ interrupt_not_full(q)
  /\ UNCHANGED << m_full, m_buffer, writer, reader, staged, seen, draining >>

(* clear() wakes nobody: it is for a queue that is not in use.             *)
Clear(q) ==
  /\ writer[q] = "outside" /\ reader[q] = "outside" /\ draining[q] = {}
  /\ m_full' = [m_full EXCEPT ![q] = FALSE]
  /\ UNCHANGED << m_buffer, writer, reader, staged, seen, draining, schedulerVars >>

Wakeup(q) ==
  /\ SpuriousWakeup(q)
  /\ UNCHANGED << m_full, m_buffer, writer, reader, staged, seen, draining >>

WriterNext(q) ==
  \/ CallBeginWrite(q) \/ BeginWrite(q) \/ TryBeginWrite(q)
  \/ \E v \in Values : Store(q, v)
  \/ EndWrite(q) \/ EndWriteNothing(q)
ReaderNext(q) ==
  \/ CallBeginRead(q) \/ BeginRead(q) \/ TryBeginRead(q)
  \/ Load(q) \/ EndRead(q) \/ EndReadNothing(q)
OtherNext(q) ==
  \/ \E t \in Drainers : CallWaitEmpty(q, t) \/ WaitEmpty(q, t)
  \/ Control(q) \/ Clear(q) \/ Wakeup(q)

Next == \E q \in Queues : WriterNext(q) \/ ReaderNext(q) \/ OtherNext(q)

Spec == Init /\ [][Next]_singleVars
=============================================================================
