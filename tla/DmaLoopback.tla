---------------------------- MODULE DmaLoopback ----------------------------
(***************************************************************************)
(* Two DMA fifos with a route between them, as the zerocopy tests of       *)
(* testdyplodriver.cpp set them up: a program fills blocks and enqueues    *)
(* them at "w", another primes "r" with empty blocks and gets them back    *)
(* filled.  The logic moves the content of the oldest block of "w" into    *)
(* the oldest block of "r".  Each block carries one item, numbered.        *)
(***************************************************************************)
EXTENDS HardwareDMAFifo

CONSTANT Items      \* bound on the items sent

(* The "count" of reconfigure is an unsigned int: it cannot be too large.  *)
ASSUME LoopbackAssumption ==
  /\ Items \in Nat /\ NoItem \notin 1 .. Items /\ Fifos = {"w", "r"}
  /\ \E most \in BlockCounts : \A n \in BlockCounts : n <= most

VARIABLES
  filled,      \* how many of the blocks held at "w" the program has filled
  sent,        \* how many items were filled in
  received     \* how many items the reader has looked at

loopVars == << fifoVars, filled, sent, received >>

Init == FifoInit /\ filled = 0 /\ sent = 0 /\ received = 0

(* What some blocks hold, in their order, and without the empty ones that  *)
(* come first.                                                             *)
Contents(f, indices) == [k \in DOMAIN indices |-> blocks[f][indices[k]].content]
Empties(contents) ==
  CHOOSE n \in 0 .. Len(contents) :
    /\ \A k \in 1 .. n : contents[k] = NoItem
    /\ n < Len(contents) => contents[n + 1] # NoItem
Full(contents) == SubSeq(contents, Empties(contents) + 1, Len(contents))

(* The blocks of a fifo in the order in which the client gets them, from   *)
(* those it holds and the one at the head on; the hardware has the last.   *)
InTurn(f) ==
  held[f] \o [k \in 1 .. Len(blocks[f]) - Len(held[f]) |->
                1 + ((blocks_head[f] + k - 2) % Len(blocks[f]))]
Finished(f) == SubSeq(InTurn(f), 1, Len(blocks[f]) - Len(queued[f]))

InFlight == Full(Contents("r", Finished("r"))) \o Contents("w", queued["w"])

-----------------------------------------------------------------------------
(* A fifo is reconfigured when nothing is on its way through it: what the  *)
(* driver does with data it still has is not the library's.                *)
Quiet == InFlight = << >> /\ filled = 0

Reconfigures(f) ==
  /\ Quiet
  /\ \/ \E n \in BlockCounts :
          \/ Reconfigure(f, n) \/ ReconfigureRing(f, n)
          \/ \E k \in 1 .. n : ReconfigureFails(f, n, k)
     \/ ReconfigureRefused(f)
     \/ dispose(f)
  /\ UNCHANGED << filled, sent, received >>

(* The program that writes.                                                *)
WriterTakes == dequeue("w") /\ UNCHANGED << filled, sent, received >>

WriterFills ==
  /\ filled < Len(held["w"]) /\ sent < Items /\ flushing["w"] = 0
  /\ LET i == held["w"][filled + 1] IN
       blocks' = [blocks EXCEPT !["w"][i].content = sent + 1]
  /\ filled' = filled + 1 /\ sent' = sent + 1
  /\ UNCHANGED << blocks_head, flushing, held, ready, driverVars, idle, reconfigures,
                  received >>

WriterGives ==
  /\ filled > 0 /\ enqueue("w", blocks["w"][Head(held["w"])].content)
  /\ filled' = filled - 1
  /\ UNCHANGED << sent, received >>

WriterFlushes ==
  /\ CallFlush("w") \/ Flush("w") \/ FlushThrows("w")
  /\ UNCHANGED << filled, sent, received >>

(* The program that reads: it looks at what a block holds, and gives the   *)
(* block back to be filled again.                                          *)
ReaderTakes ==
  /\ dequeue("r")
  /\ received' = IF blocks["r"][blocks_head["r"]].content = NoItem THEN received
                                                                   ELSE received + 1
  /\ UNCHANGED << filled, sent >>
ReaderGives == enqueue("r", NoItem) /\ UNCHANGED << filled, sent, received >>

(* The logic.                                                              *)
Transfer ==
  /\ queued["w"] # << >> /\ queued["r"] # << >>
  /\ LET from == Head(queued["w"])  to == Head(queued["r"]) IN
       /\ blocks' = [blocks EXCEPT !["r"][to].content = blocks["w"][from].content]
       /\ queued' = [f \in Fifos |-> Tail(queued[f])]
       /\ done'   = [done EXCEPT !["w"] = @ \cup {from}, !["r"] = @ \cup {to}]
  /\ UNCHANGED << blocks_head, flushing, held, ready, mappings, idle, reconfigures, filled,
                  sent, received >>

Next ==
  \/ \E f \in Fifos : Reconfigures(f)
  \/ WriterTakes \/ WriterFills \/ WriterGives \/ WriterFlushes
  \/ ReaderTakes \/ ReaderGives
  \/ Transfer

Spec == Init /\ [][Next]_loopVars

-----------------------------------------------------------------------------
(* Every variable keeps its type.                                          *)
TypeOK ==
  /\ FifoTypeOK
  /\ filled \in 0 .. Len(held["w"]) /\ sent \in 0 .. Items /\ received \in 0 .. Items

(* The path is a Kahn channel like the queues in memory: what was enqueued *)
(* at one end is dequeued at the other, once and in order, whatever blocks *)
(* the two programs hold and however often flush() throws.                 *)
Channel == INSTANCE Channels WITH
  Queues   <- {"path"},
  Values   <- 1 .. Items,
  Capacity <- [q \in {"path"} |-> 2 * Max(BlockCounts)],
  chan     <- [q \in {"path"} |-> InFlight],
  staged   <- [q \in {"path"} |-> Contents("w", SubSeq(held["w"], 1, filled))],
  seen     <- [q \in {"path"} |-> Full(Contents("r", held["r"]))]
ImplementsChannels == Channel!Spec

(* The hardware works, and the program that reads goes on reading.         *)
FairSpec ==
  /\ Spec /\ WF_loopVars(Transfer)
  /\ WF_loopVars(ReaderTakes) /\ WF_loopVars(ReaderGives)
  /\ WF_loopVars(Flush("w") /\ UNCHANGED << filled, sent, received >>)

(* Everything that was enqueued is received, and flush() comes back.       *)
EverythingArrives ==
  \A k \in 1 .. Items :
    sent - filled >= k ~> received >= k \/ ~ ready["w"] \/ ~ ready["r"]
FlushReturns == flushing["w"] # 0 ~> flushing["w"] = 0 \/ ~ ready["r"]
=============================================================================
