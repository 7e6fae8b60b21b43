------------------------- MODULE MCFixedMemoryQueue -------------------------
(***************************************************************************)
(* Small queues for TLC.                                                   *)
(***************************************************************************)
EXTENDS QueueCorrectness

CONSTANT MCCapacity       \* the capacity every queue of the instance has
MCCapacities == [q \in Queues |-> MCCapacity]
=============================================================================
