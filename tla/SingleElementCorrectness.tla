---------------------- MODULE SingleElementCorrectness ----------------------
(***************************************************************************)
(* A SingleElementQueue promises what every queue promises, with room for  *)
(* one element.                                                            *)
(***************************************************************************)
EXTENDS SingleElementQueue

(* Every variable keeps its type.                                          *)
TypeOK ==
  /\ m_condition_not_full    \in [Queues -> SUBSET (Drainers \cup {"writer"})]
  /\ m_condition_not_empty   \in [Queues -> SUBSET {"reader"}]
  /\ m_interrupted_not_full  \in [Queues -> BOOLEAN]
  /\ m_interrupted_not_empty \in [Queues -> BOOLEAN]
  /\ m_full   \in [Queues -> BOOLEAN]
  /\ m_buffer \in [Queues -> Values \cup {Junk}]
  /\ writer \in [Queues -> Places] /\ staged \in [Queues -> Seq(Values)]
  /\ reader \in [Queues -> Places] /\ seen \in [Queues -> Seq(Values)]
  /\ draining \in [Queues -> SUBSET Drainers]

(* m_full says whose the slot is, although neither client holds the lock   *)
(* while it uses it, and what a client put there or saw there is there.    *)
SlotInv(q) ==
  /\ writer[q] = "holding" => ~ m_full[q]
  /\ reader[q] = "holding" => m_full[q]
  /\ m_full[q] => m_buffer[q] \in Values
  /\ staged[q] # << >> => writer[q] = "holding" /\ staged[q] = << m_buffer[q] >>
  /\ seen[q]   # << >> => reader[q] = "holding" /\ seen[q]   = << m_buffer[q] >>
SlotOwned == \A q \in Queues : SlotInv(q)

(* Nobody sleeps once what it waits for is there or it was interrupted.    *)
NoLostWakeup ==
  \A q \in Queues :
    /\ m_condition_not_full[q] # {}  => m_full[q] /\ ~ m_interrupted_not_full[q]
    /\ m_condition_not_empty[q] # {} => ~ m_full[q] /\ ~ m_interrupted_not_empty[q]

(* The queue is a Kahn channel of capacity 1: no element is lost, doubled, *)
(* seen before it is committed or overwritten before it is consumed.       *)
Contents(q) == IF m_full[q] THEN << m_buffer[q] >> ELSE << >>
Channel == INSTANCE Channels WITH chan <- [q \in Queues |-> Contents(q)],
                                  Capacity <- [q \in Queues |-> 1]
ImplementsChannels == Channel!Spec

(* A thread that is not asleep is run by the operating system.             *)
FairSpec ==
  /\ Spec
  /\ \A q \in Queues :
       /\ WF_singleVars(BeginWrite(q)) /\ WF_singleVars(BeginRead(q))
       /\ \A t \in Drainers : WF_singleVars(WaitEmpty(q, t))

(* begin_write, begin_read and wait_empty return: when the slot is free,   *)
(* or full, as they need it, or after an interrupt, which stays in force.  *)
CallsReturn ==
  \A q \in Queues :
    /\ writer[q] = "begin" /\ (~ m_full[q] \/ m_interrupted_not_full[q])
         ~> writer[q] # "begin"
    /\ reader[q] = "begin" /\ (m_full[q] \/ m_interrupted_not_empty[q])
         ~> reader[q] # "begin"
    /\ \A t \in Drainers :
         t \in draining[q] /\ m_interrupted_not_full[q] ~> t \notin draining[q]
=============================================================================
