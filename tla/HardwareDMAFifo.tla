-------------------------- MODULE HardwareDMAFifo --------------------------
(***************************************************************************)
(* HardwareDMAFifo (hardware.cpp, hardware.hpp): the blocks of memory a    *)
(* program shares with the driver of a DMA node.  The program dequeues a   *)
(* block, uses it through a memory map, and enqueues it for the hardware.  *)
(* The object hands out its blocks in turn, and remembers in each block    *)
(* whether the driver has it ("state"); the truth is in the driver.        *)
(*                                                                         *)
(* The driver is not part of the repository.  Its ioctls are modelled as   *)
(* hardware.cpp calls them and the tests of testdyplodriver.cpp expect     *)
(* them to answer: it serves the blocks in the order of their enqueueing.  *)
(* What the hardware does with a block is left to the module that extends  *)
(* this one.                                                               *)
(***************************************************************************)
EXTENDS Naturals, SequencesExt

CONSTANTS
  Fifos,          \* the HardwareDMAFifo objects
  BlockCounts,    \* the "count" arguments of reconfigure
  NonBlocking,    \* the fifos opened with O_NONBLOCK
  NoItem,         \* what a block holds that has not been filled
  MaxReconfigures \* bound on the calls of reconfigure, for each fifo

ASSUME FifoAssumption ==
  BlockCounts \subseteq Nat \ {0} /\ NonBlocking \subseteq Fifos /\ MaxReconfigures \in Nat

VARIABLES
  blocks,      \* [Fifos -> Seq(block)]
  blocks_head, \* [Fifos -> index of the block dequeue() returns next]
  flushing,    \* [Fifos -> 0, or where the flush() in progress began]
  held,        \* [Fifos -> Seq(index)]: dequeued and not enqueued again, in order
  ready,       \* [Fifos -> BOOLEAN]: did the last reconfigure succeed?
  queued,      \* [Fifos -> Seq(index)]: what the driver has for the hardware
  done,        \* [Fifos -> SUBSET index]: what the driver can give back
  mappings,    \* [Fifos -> SUBSET index]: the memory maps that exist
  idle,        \* [Fifos -> BOOLEAN]: nothing was enqueued since flush() returned
  reconfigures \* [Fifos -> how often reconfigure was called]

driverVars == << queued, done, mappings >>
fifoVars   == << blocks, blocks_head, flushing, held, ready, driverVars, idle, reconfigures >>

(* data: is the pointer to the memory map set?  state: is the block the    *)
(* driver's?  content: what the memory of the block holds.                 *)
Block(data, state) == [data |-> data, state |-> state, content |-> NoItem]
Indices(f) == 1 .. Len(blocks[f])
After(f, i) == IF i = Len(blocks[f]) THEN 1 ELSE i + 1

FifoInit ==
  /\ blocks = [f \in Fifos |-> << >>] /\ blocks_head = [f \in Fifos |-> 1]
  /\ flushing = [f \in Fifos |-> 0] /\ held = [f \in Fifos |-> << >>]
  /\ ready = [f \in Fifos |-> FALSE] /\ idle = [f \in Fifos |-> FALSE]
  /\ queued = [f \in Fifos |-> << >>] /\ done = [f \in Fifos |-> {}]
  /\ mappings = [f \in Fifos |-> {}] /\ reconfigures = [f \in Fifos |-> 0]

-----------------------------------------------------------------------------
(* reconfigure, dispose.                                                   *)

(* DYPLO_IOCDMABLOCK_FREE, and what DYPLO_IOCDMA_RECONFIGURE does first:   *)
(* the driver forgets the blocks it had.                                   *)
DriverForgets(f) ==
  queued' = [queued EXCEPT ![f] = << >>] /\ done' = [done EXCEPT ![f] = {}]

(* resize(n, ...): the head starts over; blocks that are left keep their   *)
(* state, new ones start with 0.                                           *)
Rewind(f) == blocks_head' = [blocks_head EXCEPT ![f] = 1]

Resized(f, n) ==
  [i \in 1 .. n |-> Block(FALSE, i \in Indices(f) /\ blocks[f][i].state)]

(* unmap()                                                                 *)
Unmapped(f) == [i \in Indices(f) |-> [blocks[f][i] EXCEPT !.data = FALSE]]

(* The client has no block and is in no other call.                        *)
MayReconfigure(f) ==
  /\ held[f] = << >> /\ flushing[f] = 0
  /\ reconfigures[f] < MaxReconfigures
  /\ reconfigures' = [reconfigures EXCEPT ![f] = @ + 1]
  /\ idle' = [idle EXCEPT ![f] = FALSE]
  /\ UNCHANGED << flushing, held >>

(* MODE_COHERENT or MODE_STREAMING: DYPLO_IOCDMABLOCK_QUERY writes the     *)
(* driver's idea of the state into every block.                            *)
Reconfigure(f, n) ==
  /\ MayReconfigure(f) /\ DriverForgets(f)
  /\ blocks'   = [blocks EXCEPT ![f] = [i \in 1 .. n |-> Block(TRUE, FALSE)]]
  /\ mappings' = [mappings EXCEPT ![f] = 1 .. n]
  /\ Rewind(f)
  /\ ready' = [ready EXCEPT ![f] = TRUE]

(* DYPLO_IOCDMA_RECONFIGURE fails, after unmap().                          *)
ReconfigureRefused(f) ==
  /\ MayReconfigure(f)
  /\ blocks'   = [blocks EXCEPT ![f] = Unmapped(f)]
  /\ mappings' = [mappings EXCEPT ![f] = {}]
  /\ ready' = [ready EXCEPT ![f] = FALSE]
  /\ UNCHANGED << blocks_head, queued, done >>

(* As if the catch block did not dispose of what was mapped.               *)
ReconfigureLeaks(f, n, k) ==
  /\ MayReconfigure(f) /\ DriverForgets(f)
  /\ blocks' = [blocks EXCEPT ![f] = Resized(f, n)]
  /\ mappings' = [mappings EXCEPT ![f] = 1 .. k - 1]
  /\ Rewind(f)
  /\ ready' = [ready EXCEPT ![f] = FALSE]

(* The query or the mmap of block k fails: dispose() and throw.            *)
ReconfigureFails(f, n, k) ==
  /\ MayReconfigure(f) /\ DriverForgets(f)
  /\ blocks' = [blocks EXCEPT ![f] =
                  [i \in 1 .. n |-> IF i < k THEN Block(FALSE, FALSE) ELSE Resized(f, n)[i]]]
  /\ mappings' = [mappings EXCEPT ![f] = {}]
  /\ Rewind(f)
  /\ ready' = [ready EXCEPT ![f] = FALSE]

(* MODE_RINGBUFFER (and MODE_STANDALONE): no memory maps, no dequeue.      *)
ReconfigureRing(f, n) ==
  /\ MayReconfigure(f) /\ DriverForgets(f)
  /\ blocks' = [blocks EXCEPT ![f] = Resized(f, n)]
  /\ mappings' = [mappings EXCEPT ![f] = {}]
  /\ Rewind(f)
  /\ ready' = [ready EXCEPT ![f] = FALSE]

dispose(f) ==
  /\ ready[f] /\ held[f] = << >> /\ flushing[f] = 0
  /\ DriverForgets(f)
  /\ blocks'   = [blocks EXCEPT ![f] = Unmapped(f)]
  /\ mappings' = [mappings EXCEPT ![f] = {}]
  /\ ready' = [ready EXCEPT ![f] = FALSE]
  /\ UNCHANGED << blocks_head, flushing, held, idle, reconfigures >>

-----------------------------------------------------------------------------
(* dequeue, enqueue, flush.                                                *)

(* DYPLO_IOCDMABLOCK_DEQUEUE of block i: the driver gives it back once the *)
(* hardware is done with it.                                               *)
DriverReturns(f, i) ==
  /\ i \in done[f]
  /\ done'   = [done EXCEPT ![f] = @ \ {i}]
  /\ blocks' = [blocks EXCEPT ![f][i].state = FALSE]

(* The driver is asked about its own blocks only.                          *)
TakeHead(f) ==
  LET i == blocks_head[f] IN
  /\ IF blocks[f][i].state THEN DriverReturns(f, i) ELSE UNCHANGED << done, blocks >>
  /\ blocks_head' = [blocks_head EXCEPT ![f] = After(f, i)]

(* A dequeue that believes a block is its own while the driver has it.     *)
dequeue_unasked(f) ==
  /\ ready[f] /\ flushing[f] = 0 /\ Len(held[f]) < Len(blocks[f])
  /\ blocks_head' = [blocks_head EXCEPT ![f] = After(f, blocks_head[f])]
  /\ held' = [held EXCEPT ![f] = Append(@, blocks_head[f])]
  /\ UNCHANGED << blocks, flushing, ready, queued, done, mappings, idle, reconfigures >>

(* A dequeue that leaves the driver's blocks to the driver.                *)
dequeue_own(f) ==
  /\ ready[f] /\ flushing[f] = 0 /\ Len(held[f]) < Len(blocks[f])
  /\ ~ blocks[f][blocks_head[f]].state /\ TakeHead(f)
  /\ held' = [held EXCEPT ![f] = Append(@, blocks_head[f])]
  /\ UNCHANGED << flushing, ready, queued, mappings, idle, reconfigures >>

(* The client does not ask for more blocks than there are.  A dequeue that *)
(* would block returns NULL, or waits.                                     *)
dequeue(f) ==
  /\ ready[f] /\ flushing[f] = 0 /\ Len(held[f]) < Len(blocks[f])
  /\ TakeHead(f)
  /\ held' = [held EXCEPT ![f] = Append(@, blocks_head[f])]
  /\ UNCHANGED << flushing, ready, queued, mappings, idle, reconfigures >>

(* The client enqueues in the order in which it dequeued; `item' is what   *)
(* the block holds when the driver gets it.                                *)
enqueue(f, item) ==
  /\ held[f] # << >> /\ flushing[f] = 0
  /\ LET i == Head(held[f]) IN
       /\ blocks' = [blocks EXCEPT ![f][i] = [@ EXCEPT !.state = TRUE, !.content = item]]
       /\ queued' = [queued EXCEPT ![f] = Append(@, i)]
  /\ held' = [held EXCEPT ![f] = Tail(@)]
  /\ idle' = [idle EXCEPT ![f] = FALSE]
  /\ UNCHANGED << blocks_head, flushing, ready, done, mappings, reconfigures >>

(* flush() takes back block after block, from the head to the head.        *)
CallFlush(f) ==
  /\ ready[f] /\ flushing[f] = 0 /\ held[f] = << >>
  /\ flushing' = [flushing EXCEPT ![f] = blocks_head[f]]
  /\ UNCHANGED << blocks, blocks_head, held, ready, driverVars, idle, reconfigures >>

(* A flush() that ends at the first block that is its own.                 *)
FlushUntilOwn(f) ==
  /\ flushing[f] # 0 /\ TakeHead(f)
  /\ LET last == blocks_head'[f] = flushing[f] \/ ~ blocks[f][blocks_head'[f]].state IN
       /\ flushing' = [flushing EXCEPT ![f] = IF last THEN 0 ELSE @]
       /\ idle'     = [idle EXCEPT ![f] = last]
  /\ UNCHANGED << held, ready, queued, mappings, reconfigures >>

(* A flush() that asks the driver about every block.                       *)
FlushAsksAlways(f) ==
  /\ flushing[f] # 0 /\ blocks[f][blocks_head[f]].state /\ TakeHead(f)
  /\ LET last == blocks_head'[f] = flushing[f] IN
       /\ flushing' = [flushing EXCEPT ![f] = IF last THEN 0 ELSE @]
       /\ idle'     = [idle EXCEPT ![f] = last]
  /\ UNCHANGED << held, ready, queued, mappings, reconfigures >>

Flush(f) ==
  /\ flushing[f] # 0 /\ TakeHead(f)
  /\ LET last == blocks_head'[f] = flushing[f] IN
       /\ flushing' = [flushing EXCEPT ![f] = IF last THEN 0 ELSE @]
       /\ idle'     = [idle EXCEPT ![f] = last]
  /\ UNCHANGED << held, ready, queued, mappings, reconfigures >>

(* Without waiting for the driver flush() throws half way, and leaves the  *)
(* head where it is.                                                       *)
FlushThrows(f) ==
  /\ flushing[f] # 0 /\ f \in NonBlocking
  /\ blocks[f][blocks_head[f]].state /\ blocks_head[f] \notin done[f]
  /\ flushing' = [flushing EXCEPT ![f] = 0]
  /\ UNCHANGED << blocks, blocks_head, held, ready, driverVars, idle, reconfigures >>

-----------------------------------------------------------------------------
FifoTypeOK ==
  \A f \in Fifos :
    /\ \A i \in Indices(f) :
         blocks[f][i].data \in BOOLEAN /\ blocks[f][i].state \in BOOLEAN
    /\ blocks_head[f] \in 1 .. Len(blocks[f]) \/ blocks[f] = << >>
    /\ flushing[f] \in {0} \cup Indices(f)
    /\ held[f] \in Seq(Indices(f)) /\ queued[f] \in Seq(Nat) /\ done[f] \subseteq Nat
    /\ ready[f] \in BOOLEAN /\ idle[f] \in BOOLEAN

(* A block is the client's or the driver's, never both: no block is handed *)
(* out twice, and none that the hardware still works on.  dequeue and      *)
(* flush ask the driver only if the state in the block says so; it is      *)
(* true, also after a reconfigure of a fifo that had blocks in the driver. *)
OneOwner ==
  \A f \in Fifos :
    /\ IsInjective(held[f]) /\ IsInjective(queued[f])
    /\ ToSet(held[f]) \cap (ToSet(queued[f]) \cup done[f]) = {}
    /\ ToSet(queued[f]) \cap done[f] = {}
    /\ ready[f] => \A i \in Indices(f) :
         blocks[f][i].state <=> i \in ToSet(queued[f]) \cup done[f]

(* No memory map is forgotten or used after it is gone, however often      *)
(* reconfigure is called and wherever it fails.                            *)
MapsBalanced ==
  \A f \in Fifos :
    /\ mappings[f] = {i \in Indices(f) : blocks[f][i].data}
    /\ ready[f] => mappings[f] = Indices(f)
    /\ ToSet(held[f]) \subseteq mappings[f]

(* "Wait until all blocks have been processed in hardware."                *)
FlushedIsIdle == \A f \in Fifos : idle[f] => queued[f] = << >> /\ done[f] = {}
=============================================================================
