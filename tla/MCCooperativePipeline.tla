------------------------ MODULE MCCooperativePipeline ------------------------
(***************************************************************************)
(* Small cooperative chains for TLC.                                       *)
(***************************************************************************)
EXTENDS CooperativePipeline

CONSTANTS MCCapacity0, MCCapacity1, MCCapacity2, MCBlock1, MCBlock2,
          MCReceived, MCReceivedNoWait

MCCapacities == [q \in 0 .. N |-> CASE q = 0 -> MCCapacity0
                                    [] q = 1 -> MCCapacity1
                                    [] q = 2 -> MCCapacity2]
MCMaxReceived == [waits \in BOOLEAN |-> IF waits THEN MCReceived ELSE MCReceivedNoWait]
MCBlocksizes == [p \in 1 .. N |-> CASE p = 1 -> MCBlock1 [] p = 2 -> MCBlock2]
=============================================================================
