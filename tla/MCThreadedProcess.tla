-------------------------- MODULE MCThreadedProcess --------------------------
(***************************************************************************)
(* Small networks for TLC: the capacities and block sizes of the queues    *)
(* and processes, in order.                                                *)
(***************************************************************************)
EXTENDS NetworkCorrectness

CONSTANTS MCCapacity0, MCCapacity1, MCCapacity2, MCBlock1, MCBlock2

MCCapacities == [q \in Queues |-> CASE q = 0 -> MCCapacity0
                                    [] q = 1 -> MCCapacity1
                                    [] q = 2 -> MCCapacity2]
MCBlocksizes == [p \in 1 .. N |-> CASE p = 1 -> MCBlock1 [] p = 2 -> MCBlock2]
MCValues     == 0 .. Modulus - 1
=============================================================================
