-------------------------- MODULE QueueCorrectness --------------------------
(***************************************************************************)
(* What a FixedMemoryQueue guarantees to its writer and its reader, and    *)
(* the inductive invariant the guarantees rest on.                         *)
(***************************************************************************)
EXTENDS FixedMemoryQueue

(* The i-th oldest committed element is i slots after m_last.              *)
SlotOf(q, i) == Wrap(Capacity[q], m_last[q] + (i - 1))
Contents(q)  == [i \in 1 .. m_size[q] |-> m_buff[q][SlotOf(q, i)]]

GrantSlots(grant) == grant.buf .. grant.buf + grant.room - 1

-----------------------------------------------------------------------------
Client == [at : {"outside", "begin", "holding"}, want : Nat, buf : Nat, room : Nat]

(* Every variable keeps its type; in particular the pointers stay inside   *)
(* the buffer ("bad pointer", "bad increment" of increment()) and m_size,  *)
(* which is unsigned, never goes below 0 ("invalid end_read").             *)
TypeOK ==
  /\ m_condition_not_full    \in [Queues -> SUBSET (Drainers \cup {"writer"})]
  /\ m_condition_not_empty   \in [Queues -> SUBSET {"reader"}]
  /\ m_interrupted_not_full  \in [Queues -> BOOLEAN]
  /\ m_interrupted_not_empty \in [Queues -> BOOLEAN]
  /\ DOMAIN m_buff = Queues
  /\ \A q \in Queues : m_buff[q] \in [Slots(q) -> Values \cup {Junk}]
  /\ m_first \in [Queues -> Nat] /\ \A q \in Queues : m_first[q] < Capacity[q]
  /\ m_last  \in [Queues -> Nat] /\ \A q \in Queues : m_last[q] < Capacity[q]
  /\ m_size  \in [Queues -> Nat] /\ \A q \in Queues : m_size[q] <= Capacity[q]
  /\ writer \in [Queues -> Client] /\ staged \in [Queues -> Seq(Values)]
  /\ reader \in [Queues -> Client] /\ seen \in [Queues -> Seq(Values)]
  /\ draining \in [Queues -> SUBSET Drainers]

(* The lock is not held while a client fills or reads its grant: what      *)
(* begin_write lends must never be a slot begin_read has lent.             *)
GrantsDisjoint ==
  \A q \in Queues :
    writer[q].at = "holding" /\ reader[q].at = "holding" =>
      GrantSlots(writer[q]) \cap GrantSlots(reader[q]) = {}

(* Nobody sleeps in begin_write, begin_read or its own wait_empty() once   *)
(* the call could return or has been interrupted: every end_, interrupt_   *)
(* and resume_ call wakes the client it concerns.                          *)
WriterMustWait(q) ==
  /\ ~ m_interrupted_not_full[q]
  /\ IF "writer" \in draining[q] THEN ~ empty(q)
                                 ELSE available(q) < writer[q].want
ReaderMustWait(q) ==
  /\ ~ m_interrupted_not_empty[q]
  /\ m_size[q] < reader[q].want

NoLostWakeup ==
  \A q \in Queues :
    /\ "writer" \in m_condition_not_full[q]  => WriterMustWait(q)
    /\ "reader" \in m_condition_not_empty[q] => ReaderMustWait(q)

-----------------------------------------------------------------------------
(* The inductive invariant, in named parts.                                *)

(* m_first is redundant: m_last and m_size determine it.                   *)
RingInv(q) == m_first[q] = Wrap(Capacity[q], m_last[q] + m_size[q])

(* Committed slots hold elements of the clients, never Junk.               *)
CommittedInv(q) == \A i \in 1 .. m_size[q] : m_buff[q][SlotOf(q, i)] \in Values

(* A writer's grant starts at m_first, does not wrap, and has room.        *)
WriterInv(q) ==
  LET w == writer[q] IN
  /\ w.at = "holding" =>
       /\ w.buf = m_first[q] /\ w.buf + w.room <= Capacity[q]
       /\ w.room <= available(q)
       /\ Len(staged[q]) <= w.room
       /\ \A i \in 1 .. Len(staged[q]) : m_buff[q][w.buf + (i - 1)] = staged[q][i]
  /\ w.at # "holding" => staged[q] = << >>

(* A reader's grant starts at m_last, does not wrap, and covers committed  *)
(* elements only; what the reader has looked at is still there.            *)
ReaderInv(q) ==
  LET r == reader[q] IN
  /\ r.at = "holding" =>
       /\ r.buf = m_last[q] /\ r.buf + r.room <= Capacity[q]
       /\ r.room <= m_size[q]
       /\ Len(seen[q]) <= r.room
       /\ \A i \in 1 .. Len(seen[q]) : m_buff[q][r.buf + (i - 1)] = seen[q][i]
  /\ r.at # "holding" => seen[q] = << >>

(* Who sleeps is inside a call that may wait.                              *)
SleepInv(q) ==
  /\ "writer" \in m_condition_not_full[q] =>
       writer[q].at = "begin" \/ "writer" \in draining[q]
  /\ "writer" \in draining[q] => writer[q].at = "outside"
  /\ "reader" \in m_condition_not_empty[q] => reader[q].at = "begin"
  /\ m_condition_not_full[q] \ {"writer"} \subseteq draining[q]

(* The parts hold together: m_first and m_last say where the grants are,   *)
(* the grants say which slots change without the lock, and those are not   *)
(* the committed ones.                                                     *)
QueueInv ==
  \A q \in Queues :
    RingInv(q) /\ CommittedInv(q) /\ WriterInv(q) /\ ReaderInv(q) /\ SleepInv(q)

-----------------------------------------------------------------------------
(* A queue is a Kahn channel: elements arrive in the order they were       *)
(* committed, none lost, duplicated or altered, the reader never sees an   *)
(* element before it is committed or after its slot is reused, and no call *)
(* but clear() takes elements away.                                        *)
Channel == INSTANCE Channels WITH chan <- [q \in Queues |-> Contents(q)]
ImplementsChannels == Channel!Spec

-----------------------------------------------------------------------------
(* A thread that is not asleep is run by the operating system.  Nothing    *)
(* obliges a client to call, to commit or to give back its grant.          *)
Fairness ==
  \A q \in Queues :
    /\ WF_queueVars(BeginWrite(q))
    /\ WF_queueVars(BeginRead(q))
    /\ \A t \in Drainers : WF_queueVars(WaitEmpty(q, t))

FairSpec == Spec /\ Fairness

(* begin_write returns once there is room ("Will block if no room in       *)
(* buffer for count_min items"), whatever the other threads then do.       *)
WriterGetsRoom ==
  \A q \in Queues :
    writer[q].at = "begin" /\ available(q) >= writer[q].want
      ~> writer[q].at = "holding"

(* begin_read returns once somebody committed enough, and wait_empty once  *)
(* the queue is empty.                                                     *)
ReaderGetsData ==
  \A q \in Queues :
    reader[q].at = "begin" /\ m_size[q] >= reader[q].want
      ~> reader[q].at = "holding"
DrainerReturns ==
  \A q \in Queues : \A t \in Drainers :
    t \in draining[q] /\ empty(q) ~> t \notin draining[q] \/ ~ empty(q)

(* No call that could return is left waiting by the order in which the     *)
(* threads signal each other.                                              *)
CallsReturn == WriterGetsRoom /\ ReaderGetsData /\ DrainerReturns

(* An interrupt that is not taken back gets the thread out of its call:    *)
(* terminate() joins the thread and relies on it.                          *)
InterruptEndsCall ==
  \A q \in Queues :
    /\ writer[q].at = "begin" /\ m_interrupted_not_full[q]
         ~> writer[q].at # "begin" \/ ~ m_interrupted_not_full[q]
    /\ reader[q].at = "begin" /\ m_interrupted_not_empty[q]
         ~> reader[q].at # "begin" \/ ~ m_interrupted_not_empty[q]
=============================================================================
