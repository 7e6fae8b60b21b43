------------------------- MODULE DmaLoopback_proofs -------------------------
(***************************************************************************)
(* Proofs about HardwareDMAFifo in the loop of DmaLoopback: for every      *)
(* number of blocks, of items and of reconfigurations, and for blocking    *)
(* and non-blocking fifos, a block has one owner, the memory maps are      *)
(* balanced, and flush() leaves the driver without blocks.                 *)
(*                                                                         *)
(* The argument is about one fifo at a time (Part): the blocks the client  *)
(* holds are those just before the head of the ring, in turn (HeldInv);    *)
(* the driver's blocks are the others whose state is set (OwnerInv); a     *)
(* flush() in progress has taken back all from where it began to the head  *)
(* (FlushInv), so that when it comes round nothing is left.                *)
(*                                                                         *)
(* From there to the promise of the path (PathInv): the blocks of the      *)
(* reader, counted from the oldest it holds, are those that came back, in  *)
(* order, and then those the hardware has (RingInv); the items are in the  *)
(* last of those that came back (Since); and every block the writer filled *)
(* or gave has one (GivenInv).  With that each step is one of Channels.    *)
(***************************************************************************)
EXTENDS DmaLoopback, SequenceTheorems, FiniteSetTheorems, TLAPS

(* The blocks a fifo hands out are those before its head, in turn.         *)
Turn(n, head, count, k) ==
  IF head + k > count + 1 THEN head + k - (count + 1) ELSE n + head + k - (count + 1)

(* Is i one of the places from .. to - 1, counted around the ring?         *)
Between(from, to, i) == IF from <= to THEN from <= i /\ i < to ELSE from <= i \/ i < to

(* Where the head goes next: dequeue() and flush() move it on at each      *)
(* block they take, from the last block back to the first.                 *)
Following(n, head) == IF head = n THEN 1 ELSE head + 1

(* A client that holds no more blocks than there are holds places of the   *)
(* ring, each once, and not the one at the head if it holds fewer:         *)
(* dequeue() hands out no block twice.                                     *)
LEMMA TurnIsPlace ==
  ASSUME NEW n \in Nat, NEW head \in 1 .. n, NEW count \in 0 .. n, NEW k \in 1 .. count
  PROVE  /\ Turn(n, head, count, k) \in 1 .. n
         /\ count < n => Turn(n, head, count, k) # head
         /\ \A l \in 1 .. count : Turn(n, head, count, k) = Turn(n, head, count, l) => k = l
BY DEF Turn

(* dequeue() adds the block at the head as the newest of those held and    *)
(* moves the head on; the others keep their places.                        *)
LEMMA TurnNext ==
  ASSUME NEW n \in Nat, NEW head \in 1 .. n, NEW count \in Nat, count < n
  PROVE  /\ \A k \in 1 .. count :
              Turn(n, Following(n, head), count + 1, k) = Turn(n, head, count, k)
         /\ Turn(n, Following(n, head), count + 1, count + 1) = head
         /\ Following(n, head) \in 1 .. n
BY DEF Turn, Following

(* enqueue() of the oldest block held leaves the head where it is, and the *)
(* others in turn before it.                                               *)
LEMMA TurnTail ==
  ASSUME NEW n \in Nat, NEW head \in 1 .. n, NEW count \in Nat, NEW k \in 1 .. count
  PROVE  Turn(n, head, count, k) = Turn(n, head, count + 1, k + 1)
BY DEF Turn

(* When flush() moves the head on, the places it has passed are those it   *)
(* had passed before and the one it was at; back where it began it has     *)
(* passed them all.                                                        *)
LEMMA RoundTheRing ==
  ASSUME NEW n \in Nat, NEW from \in 1 .. n, NEW head \in 1 .. n, NEW i \in 1 .. n,
         Following(n, head) = from \/ Between(from, Following(n, head), i)
  PROVE  i = head \/ Between(from, head, i)
BY DEF Between, Following

(* What a block may be.                                                    *)
BlockSet == [data : BOOLEAN, state : BOOLEAN, content : {NoItem} \cup 1 .. Items]

(* Writing one block of a fifo: the state or the content that dequeue(),   *)
(* enqueue() and the hardware change.                                      *)
LEMMA PutBlock ==
  ASSUME NEW s \in Seq(BlockSet), NEW i \in 1 .. Len(s), NEW b \in BlockSet,
         NEW t, t = [s EXCEPT ![i] = b]
  PROVE  /\ t \in Seq(BlockSet) /\ Len(t) = Len(s) /\ t[i] = b
         /\ \A j \in 1 .. Len(s) : j # i => t[j] = s[j]
BY ExceptSeq

(* enqueue() puts a block at the end of the driver's queue.                *)
LEMMA AppendedSet ==
  ASSUME NEW s \in Seq(Nat), NEW i \in Nat
  PROVE  /\ ToSet(Append(s, i)) = ToSet(s) \cup {i}
         /\ IsInjective(s) /\ i \notin ToSet(s) => IsInjective(Append(s, i))
<1>1. /\ DOMAIN Append(s, i) = 1 .. Len(s) + 1 /\ DOMAIN s = 1 .. Len(s) /\ Len(s) \in Nat
      /\ \A k \in 1 .. Len(s) : Append(s, i)[k] = s[k]
      /\ Append(s, i)[Len(s) + 1] = i
  OBVIOUS
<1>2. ToSet(Append(s, i)) = ToSet(s) \cup {i}
  BY <1>1 DEF ToSet
<1>3. ASSUME IsInjective(s), i \notin ToSet(s) PROVE IsInjective(Append(s, i))
  BY <1>1, <1>3 DEF ToSet, IsInjective
<1> QED
  BY <1>2, <1>3

(* The hardware takes the block at the head of the driver's queue.         *)
LEMMA TailSet ==
  ASSUME NEW s \in Seq(Nat), s # << >>, IsInjective(s)
  PROVE  /\ Head(s) \in ToSet(s) /\ Head(s) \in Nat
         /\ ToSet(Tail(s)) = ToSet(s) \ {Head(s)} /\ IsInjective(Tail(s)) /\ Tail(s) \in Seq(Nat)
<1>1. /\ Len(s) \in Nat \ {0} /\ DOMAIN s = 1 .. Len(s) /\ Head(s) = s[1] /\ Head(s) \in Nat
      /\ Tail(s) \in Seq(Nat) /\ Len(Tail(s)) = Len(s) - 1 /\ DOMAIN Tail(s) = 1 .. Len(s) - 1
      /\ \A k \in 1 .. Len(s) - 1 : Tail(s)[k] = s[k + 1]
  OBVIOUS
<1>2. IsInjective(Tail(s))
  BY <1>1 DEF IsInjective
<1>3. ASSUME NEW x \in ToSet(Tail(s)) PROVE x \in ToSet(s) \ {Head(s)}
  <2>1. PICK k \in 1 .. Len(s) - 1 : x = s[k + 1]
    BY <1>1 DEF ToSet
  <2>2. 1 \in 1 .. Len(s) /\ k + 1 \in 1 .. Len(s) /\ k + 1 # 1
    BY <1>1, <2>1
  <2>3. x # Head(s)
    BY <1>1, <2>1, <2>2 DEF IsInjective
  <2>4. x \in ToSet(s)
    BY <1>1, <2>1, <2>2 DEF ToSet
  <2> QED
    BY <2>3, <2>4
<1>4. ASSUME NEW x \in ToSet(s) \ {Head(s)} PROVE x \in ToSet(Tail(s))
  <2>1. PICK k \in 1 .. Len(s) : x = s[k] /\ k # 1
    BY <1>1 DEF ToSet
  <2>2. k - 1 \in 1 .. Len(s) - 1 /\ Tail(s)[k - 1] = s[k]
    BY <1>1, <2>1
  <2> QED
    BY <1>1, <2>1, <2>2 DEF ToSet
<1>5. Head(s) \in ToSet(s)
  BY <1>1 DEF ToSet
<1>6. ToSet(Tail(s)) = ToSet(s) \ {Head(s)}
  BY <1>3, <1>4
<1> QED
  BY <1>1, <1>2, <1>5, <1>6

-----------------------------------------------------------------------------
(* The types of the variables of the two fifos.                            *)
TypeInv ==
  /\ blocks \in [Fifos -> Seq(BlockSet)]
  /\ blocks_head \in [Fifos -> Nat] /\ flushing \in [Fifos -> Nat]
  /\ held \in [Fifos -> Seq(Nat)] /\ queued \in [Fifos -> Seq(Nat)]
  /\ done \in [Fifos -> SUBSET Nat] /\ mappings \in [Fifos -> SUBSET Nat]
  /\ ready \in [Fifos -> BOOLEAN] /\ idle \in [Fifos -> BOOLEAN]

(* The client has the blocks before the head, and is in a call only while  *)
(* the fifo is ready.                                                      *)
HeldInv(f) ==
  /\ ready[f] => blocks_head[f] \in Indices(f)
  /\ ready[f] \/ (held[f] = << >> /\ flushing[f] = 0)
  /\ Len(held[f]) <= Len(blocks[f])
  /\ \A k \in 1 .. Len(held[f]) :
       held[f][k] = Turn(Len(blocks[f]), blocks_head[f], Len(held[f]), k)

(* What the driver has.                                                    *)
Owned(f) == ToSet(queued[f]) \cup done[f]

OwnerInv(f) ==
  /\ IsInjective(queued[f]) /\ ToSet(queued[f]) \cap done[f] = {}
  /\ Owned(f) \subseteq Indices(f)
  /\ \A k \in 1 .. Len(held[f]) : held[f][k] \notin Owned(f)
  /\ ready[f] => \A i \in Indices(f) : blocks[f][i].state <=> i \in Owned(f)

(* flush() has taken back the blocks from where it began to the head.      *)
FlushInv(f) ==
  flushing[f] # 0 =>
    /\ held[f] = << >> /\ flushing[f] \in Indices(f)
    /\ \A i \in Indices(f) :
         Between(flushing[f], blocks_head[f], i) => ~ blocks[f][i].state

(* A block has its pointer set where there is a memory map, and a fifo     *)
(* that is ready has one for every block.                                  *)
MapInv(f) ==
  /\ mappings[f] = {i \in Indices(f) : blocks[f][i].data}
  /\ ready[f] => mappings[f] = Indices(f)

(* While nothing was enqueued since flush() returned, the driver has       *)
(* nothing.                                                                *)
IdleInv(f) == idle[f] => queued[f] = << >> /\ done[f] = {}

(* All that must hold of one fifo, and the inductive invariant of them.    *)
Part(f) == HeldInv(f) /\ OwnerInv(f) /\ FlushInv(f) /\ MapInv(f) /\ IdleInv(f)
FifoInv == TypeInv /\ \A f \in Fifos : Part(f)

(* A fifo that a step does not concern.                                    *)
Untouched(f) ==
  UNCHANGED << blocks[f], blocks_head[f], flushing[f], held[f], ready[f], queued[f], done[f],
               mappings[f], idle[f] >>

(* What holds of a fifo depends on that fifo only.                         *)
LEMMA PartKept == ASSUME NEW f \in Fifos, Part(f), Untouched(f) PROVE Part(f)'
BY DEF Part, HeldInv, OwnerInv, Owned, FlushInv, MapInv, IdleInv, Untouched, Indices

(* A step of one fifo keeps the invariant if it keeps its part.            *)
LEMMA OneFifo ==
  ASSUME FifoInv, NEW f \in Fifos, Part(f)', TypeInv',
         \A o \in Fifos : o # f => Untouched(o)
  PROVE  FifoInv'
BY PartKept DEF FifoInv

(* A fifo the driver has no blocks of, and the client neither.             *)
LEMMA StartsOver ==
  ASSUME NEW f \in Fifos, Len(blocks[f])' \in Nat, held'[f] = << >>, flushing'[f] = 0,
         queued'[f] = << >>, done'[f] = {},
         ready'[f] => /\ blocks_head'[f] \in Indices(f)'
                      /\ \A i \in Indices(f)' : ~ blocks'[f][i].state,
         MapInv(f)'
  PROVE  Part(f)'
<1>1. ToSet(<< >>) = {} /\ IsInjective(<< >>)
  BY DEF ToSet, IsInjective
<1>2. Len(held'[f]) = 0
  OBVIOUS
<1> QED
  BY <1>1, <1>2 DEF Part, HeldInv, OwnerInv, Owned, FlushInv, IdleInv

(* The invariant, taken apart for one fifo.                                *)
LEMMA FifoTypes ==
  ASSUME FifoInv, NEW f \in Fifos
  PROVE  /\ Part(f) /\ HeldInv(f) /\ OwnerInv(f) /\ FlushInv(f) /\ MapInv(f) /\ IdleInv(f)
         /\ blocks[f] \in Seq(BlockSet) /\ Len(blocks[f]) \in Nat
         /\ blocks_head[f] \in Nat /\ flushing[f] \in Nat
         /\ held[f] \in Seq(Nat) /\ queued[f] \in Seq(Nat) /\ Len(held[f]) \in Nat
         /\ done[f] \subseteq Nat /\ mappings[f] \subseteq Nat
         /\ ready[f] \in BOOLEAN /\ idle[f] \in BOOLEAN
BY DEF FifoInv, TypeInv, Part

(* The blocks that reconfigure makes.                                      *)
LEMMA BlockIsBlock ==
  ASSUME NEW data \in BOOLEAN, NEW state \in BOOLEAN
  PROVE  /\ Block(data, state) \in BlockSet
         /\ Block(data, state).data = data /\ Block(data, state).state = state
BY DEF Block, BlockSet

(* A function on 1 .. n is a sequence of length n.                         *)
LEMMA FromTo ==
  ASSUME NEW n \in Nat, NEW S, NEW t, t = [i \in 1 .. n |-> t[i]], \A i \in 1 .. n : t[i] \in S
  PROVE  t \in Seq(S) /\ Len(t) = n
<1>1. t \in [1 .. n -> S]
  OBVIOUS
<1> QED
  BY <1>1

(* The ways of reconfigure and dispose.                                    *)
LEMMA ReconfigureStep ==
  ASSUME FifoInv, NEW f \in Fifos, NEW n \in BlockCounts, Reconfigure(f, n)
  PROVE  FifoInv'
<1> DEFINE new == [i \in 1 .. n |-> Block(TRUE, FALSE)]
<1>1. n \in Nat \ {0}
  BY FifoAssumption
<1>2. new \in Seq(BlockSet) /\ Len(new) = n /\ \A i \in 1 .. n : new[i].data /\ ~ new[i].state
  <2>1. ASSUME NEW i \in 1 .. n PROVE new[i] \in BlockSet /\ new[i].data /\ ~ new[i].state
    BY BlockIsBlock
  <2>2. new = [i \in 1 .. n |-> new[i]]
    OBVIOUS
  <2> HIDE DEF new
  <2> QED
    BY <1>1, <2>1, <2>2, FromTo
<1>3. /\ blocks' = [blocks EXCEPT ![f] = new] /\ mappings' = [mappings EXCEPT ![f] = 1 .. n]
      /\ blocks_head' = [blocks_head EXCEPT ![f] = 1] /\ ready' = [ready EXCEPT ![f] = TRUE]
      /\ idle' = [idle EXCEPT ![f] = FALSE] /\ UNCHANGED << flushing, held >>
      /\ queued' = [queued EXCEPT ![f] = << >>] /\ done' = [done EXCEPT ![f] = {}]
      /\ held[f] = << >> /\ flushing[f] = 0
  BY DEF Reconfigure, MayReconfigure, DriverForgets, Rewind
<1> HIDE DEF new
<1>4. TypeInv' /\ \A o \in Fifos : o # f => Untouched(o)
  BY <1>1, <1>2, <1>3 DEF FifoInv, TypeInv, Untouched
<1>5. /\ blocks'[f] = new /\ mappings'[f] = 1 .. n /\ blocks_head'[f] = 1
      /\ queued'[f] = << >> /\ done'[f] = {} /\ held'[f] = << >> /\ flushing'[f] = 0
  BY <1>3 DEF FifoInv, TypeInv
<1>6. MapInv(f)'
  BY <1>1, <1>2, <1>5 DEF MapInv, Indices
<1>7. Part(f)'
  BY <1>1, <1>2, <1>5, <1>6, StartsOver DEF Indices
<1> QED
  BY <1>4, <1>7, OneFifo

(* The fifo is not ready afterwards: its blocks have no memory.            *)
LEMMA NotReady ==
  ASSUME FifoInv, NEW f \in Fifos,
         NEW new \in Seq(BlockSet), \A i \in 1 .. Len(new) : ~ new[i].data,
         blocks' = [blocks EXCEPT ![f] = new], mappings' = [mappings EXCEPT ![f] = {}],
         blocks_head' \in [Fifos -> Nat],
         \A o \in Fifos : o # f => blocks_head'[o] = blocks_head[o],
         idle' \in [Fifos -> BOOLEAN], \A o \in Fifos : o # f => idle'[o] = idle[o],
         ready' = [ready EXCEPT ![f] = FALSE], DriverForgets(f),
         held[f] = << >>, flushing[f] = 0, UNCHANGED << flushing, held >>
  PROVE  FifoInv'
<1>1. TypeInv' /\ \A o \in Fifos : o # f => Untouched(o)
  BY DEF FifoInv, TypeInv, Untouched, DriverForgets
<1>2. /\ blocks'[f] = new /\ mappings'[f] = {} /\ ~ ready'[f]
      /\ queued'[f] = << >> /\ done'[f] = {} /\ held'[f] = << >> /\ flushing'[f] = 0
  BY DEF FifoInv, TypeInv, DriverForgets
<1>3. MapInv(f)' /\ Len(blocks[f])' \in Nat
  BY <1>2 DEF MapInv, Indices
<1>4. Part(f)'
  BY <1>2, <1>3, StartsOver
<1> QED
  BY <1>1, <1>4, OneFifo

(* resize() leaves no block with its pointer set: unmap() came first.      *)
LEMMA ResizedBlocks ==
  ASSUME FifoInv, NEW f \in Fifos, NEW n \in Nat
  PROVE  /\ Resized(f, n) \in Seq(BlockSet) /\ Len(Resized(f, n)) = n
         /\ \A i \in 1 .. n : Resized(f, n)[i] \in BlockSet /\ ~ Resized(f, n)[i].data
<1>1. ASSUME NEW i \in 1 .. n
      PROVE  Resized(f, n)[i] \in BlockSet /\ ~ Resized(f, n)[i].data
  <2> DEFINE st == i \in Indices(f) /\ blocks[f][i].state
  <2>1. st \in BOOLEAN
    OBVIOUS
  <2>2. Resized(f, n)[i] = Block(FALSE, st)
    BY DEF Resized
  <2> HIDE DEF st
  <2> QED
    BY <2>1, <2>2, BlockIsBlock
<1>2. /\ DOMAIN Resized(f, n) = 1 .. n
      /\ Resized(f, n) = [i \in 1 .. n |-> Resized(f, n)[i]]
  BY DEF Resized
<1>3. Resized(f, n) \in Seq(BlockSet) /\ Len(Resized(f, n)) = n
  BY <1>1, <1>2, FromTo
<1> QED
  BY <1>1, <1>2, <1>3

(* unmap() leaves no block with its pointer set.                           *)
LEMMA UnmappedBlocks ==
  ASSUME FifoInv, NEW f \in Fifos
  PROVE  /\ Unmapped(f) \in Seq(BlockSet) /\ Len(Unmapped(f)) = Len(blocks[f])
         /\ \A i \in Indices(f) : ~ Unmapped(f)[i].data
<1>1. ASSUME NEW i \in Indices(f)
      PROVE  Unmapped(f)[i] \in BlockSet /\ ~ Unmapped(f)[i].data
  <2>1. blocks[f][i] \in BlockSet
    BY FifoTypes DEF Indices
  <2> QED
    BY <2>1 DEF Unmapped, BlockSet
<1>2. Len(blocks[f]) \in Nat /\ Indices(f) = 1 .. Len(blocks[f])
  BY FifoTypes DEF Indices
<1>3. /\ DOMAIN Unmapped(f) = 1 .. Len(blocks[f])
      /\ Unmapped(f) = [i \in 1 .. Len(blocks[f]) |-> Unmapped(f)[i]]
  BY <1>2 DEF Unmapped
<1>4. Unmapped(f) \in Seq(BlockSet) /\ Len(Unmapped(f)) = Len(blocks[f])
  BY <1>1, <1>2, <1>3, FromTo
<1> QED
  BY <1>1, <1>2, <1>3, <1>4

(* reconfigure to MODE_RINGBUFFER or MODE_STANDALONE.                      *)
LEMMA ReconfigureRingStep ==
  ASSUME FifoInv, NEW f \in Fifos, NEW n \in BlockCounts, ReconfigureRing(f, n)
  PROVE  FifoInv'
<1>1. n \in Nat /\ blocks_head \in [Fifos -> Nat] /\ idle \in [Fifos -> BOOLEAN]
  BY FifoAssumption DEF FifoInv, TypeInv
<1> QED
  BY <1>1, ResizedBlocks, NotReady DEF ReconfigureRing, MayReconfigure, Rewind

(* reconfigure that fails at block k and disposes of what it had mapped.   *)
LEMMA ReconfigureFailsStep ==
  ASSUME FifoInv, NEW f \in Fifos, NEW n \in BlockCounts, NEW k \in 1 .. n,
         ReconfigureFails(f, n, k)
  PROVE  FifoInv'
<1> DEFINE new == [i \in 1 .. n |-> IF i < k THEN Block(FALSE, FALSE) ELSE Resized(f, n)[i]]
<1>1. n \in Nat /\ blocks_head \in [Fifos -> Nat] /\ idle \in [Fifos -> BOOLEAN]
  BY FifoAssumption DEF FifoInv, TypeInv
<1>2. ASSUME NEW i \in 1 .. n PROVE new[i] \in BlockSet /\ ~ new[i].data
  <2>1. CASE i < k
    BY <2>1, BlockIsBlock
  <2>2. CASE ~ (i < k)
    BY <1>1, <2>2, ResizedBlocks
  <2> QED
    BY <2>1, <2>2
<1>3. new = [i \in 1 .. n |-> new[i]]
  OBVIOUS
<1>4. blocks' = [blocks EXCEPT ![f] = new]
  BY DEF ReconfigureFails
<1> HIDE DEF new
<1>5. new \in Seq(BlockSet) /\ Len(new) = n
  BY <1>1, <1>2, <1>3, FromTo
<1> QED
  BY <1>1, <1>2, <1>4, <1>5, NotReady DEF ReconfigureFails, MayReconfigure, Rewind

(* dispose(): the blocks are freed and unmapped.                           *)
LEMMA DisposeStep ==
  ASSUME FifoInv, NEW f \in Fifos, dispose(f)
  PROVE  FifoInv'
<1>1. blocks_head \in [Fifos -> Nat] /\ idle \in [Fifos -> BOOLEAN]
  BY DEF FifoInv, TypeInv
<1> QED
  BY <1>1, UnmappedBlocks, NotReady DEF dispose, Indices

(* reconfigure that the driver refuses, after unmap(): the blocks the      *)
(* driver still has stay its own.                                          *)
LEMMA ReconfigureRefusedStep ==
  ASSUME FifoInv, NEW f \in Fifos, ReconfigureRefused(f)
  PROVE  FifoInv'
<1> DEFINE new == Unmapped(f)
<1>1. /\ new \in Seq(BlockSet) /\ Len(new) = Len(blocks[f]) /\ \A i \in Indices(f) : ~ new[i].data
  BY UnmappedBlocks
<1>2. /\ blocks' = [blocks EXCEPT ![f] = new] /\ mappings' = [mappings EXCEPT ![f] = {}]
      /\ ready' = [ready EXCEPT ![f] = FALSE] /\ idle' = [idle EXCEPT ![f] = FALSE]
      /\ UNCHANGED << flushing, held, blocks_head, queued, done >>
      /\ held[f] = << >> /\ flushing[f] = 0
  BY DEF ReconfigureRefused, MayReconfigure
<1> HIDE DEF new
<1>3. TypeInv' /\ \A o \in Fifos : o # f => Untouched(o)
  BY <1>1, <1>2 DEF FifoInv, TypeInv, Untouched
<1>4. /\ blocks'[f] = new /\ Indices(f)' = Indices(f) /\ mappings'[f] = {}
      /\ ~ ready'[f] /\ ~ idle'[f]
  BY <1>1, <1>2 DEF FifoInv, TypeInv, Indices
<1>5. MapInv(f)'
  BY <1>1, <1>4 DEF MapInv
<1>6. HeldInv(f)'
  <2>1. Len(held'[f]) = 0
    BY <1>2
  <2> QED
    BY <1>1, <1>2, <1>4, <2>1, FifoTypes DEF HeldInv
<1>7. OwnerInv(f)'
  BY <1>2, <1>4, FifoTypes DEF OwnerInv, Owned
<1>8. FlushInv(f)' /\ IdleInv(f)'
  BY <1>2, <1>4 DEF FlushInv, IdleInv
<1> QED
  BY <1>3, <1>5, <1>6, <1>7, <1>8, OneFifo DEF Part

-----------------------------------------------------------------------------
(* dequeue and flush take back the block at the head: if it was the        *)
(* driver's, the driver had finished it.                                   *)
LEMMA HeadTaken ==
  ASSUME FifoInv, NEW f \in Fifos, ready[f], TakeHead(f)
  PROVE  /\ blocks_head[f] \in Indices(f)
         /\ blocks' \in [Fifos -> Seq(BlockSet)] /\ done' \in [Fifos -> SUBSET Nat]
         /\ blocks_head' \in [Fifos -> Nat]
         /\ \A o \in Fifos : o # f => UNCHANGED << blocks[o], done[o], blocks_head[o] >>
         /\ Indices(f)' = Indices(f) /\ Len(blocks'[f]) = Len(blocks[f])
         /\ \A j \in Indices(f) :
              /\ blocks'[f][j].data = blocks[f][j].data
              /\ blocks'[f][j].state <=> blocks[f][j].state /\ j # blocks_head[f]
         /\ done'[f] = done[f] \ {blocks_head[f]} /\ blocks_head[f] \notin ToSet(queued[f])
         /\ blocks_head'[f] = Following(Len(blocks[f]), blocks_head[f])
<1> DEFINE i == blocks_head[f]  s == blocks[f]  b == [s[i] EXCEPT !.state = FALSE]
<1>1. i \in Indices(f) /\ s \in Seq(BlockSet) /\ Indices(f) = 1 .. Len(s) /\ Len(s) \in Nat
  BY FifoTypes DEF HeldInv, Indices
<1>2. blocks_head' = [blocks_head EXCEPT ![f] = Following(Len(s), i)]
  BY DEF TakeHead, After, Following
<1>3. Following(Len(s), i) \in Nat
  BY <1>1 DEF Following
<1>4. /\ blocks_head' \in [Fifos -> Nat] /\ blocks_head'[f] = Following(Len(s), i)
      /\ \A o \in Fifos : o # f => blocks_head'[o] = blocks_head[o]
  BY <1>2, <1>3 DEF FifoInv, TypeInv
<1>5. s[i].state <=> i \in Owned(f)
  BY <1>1, FifoTypes DEF OwnerInv
<1>6. CASE s[i].state
  <2>1. /\ i \in done[f] /\ done' = [done EXCEPT ![f] = done[f] \ {i}]
        /\ blocks' = [blocks EXCEPT ![f] = [s EXCEPT ![i] = b]]
    <3>1. DriverReturns(f, i)
      BY <1>6 DEF TakeHead
    <3> QED
      BY <3>1 DEF DriverReturns
  <2>2. i \notin ToSet(queued[f])
    BY <2>1, FifoTypes DEF OwnerInv
  <2>3. b \in BlockSet /\ b.data = s[i].data /\ ~ b.state
    <3>1. s[i] \in BlockSet
      BY <1>1
    <3> QED
      BY <3>1 DEF BlockSet
  <2> DEFINE t == [s EXCEPT ![i] = b]
  <2>4. /\ t \in Seq(BlockSet) /\ Len(t) = Len(s) /\ t[i] = b
        /\ \A j \in 1 .. Len(s) : j # i => t[j] = s[j]
    <3> HIDE DEF b, s, i
    <3> QED
      BY <1>1, <2>3, PutBlock
  <2>5. blocks' \in [Fifos -> Seq(BlockSet)] /\ blocks'[f] = t
        /\ \A o \in Fifos : o # f => blocks'[o] = blocks[o]
    <3> HIDE DEF t
    <3> QED
      BY <2>1, <2>4 DEF FifoInv, TypeInv, t
  <2>6. /\ done' \in [Fifos -> SUBSET Nat] /\ done'[f] = done[f] \ {i}
        /\ \A o \in Fifos : o # f => done'[o] = done[o]
    BY <2>1 DEF FifoInv, TypeInv
  <2> HIDE DEF t, b
  <2> QED
    BY <1>1, <1>4, <2>2, <2>3, <2>4, <2>5, <2>6 DEF Indices
<1>7. CASE ~ s[i].state
  <2>1. UNCHANGED << done, blocks >>
    BY <1>7 DEF TakeHead
  <2>2. i \notin ToSet(queued[f]) /\ i \notin done[f]
    BY <1>5, <1>7 DEF Owned
  <2> QED
    BY <1>1, <1>4, <1>7, <2>1, <2>2 DEF FifoInv, TypeInv, Indices
<1> QED
  BY <1>6, <1>7

(* dequeue() hands out the block at the head, which is then no longer the  *)
(* driver's.                                                               *)
LEMMA DequeueStep ==
  ASSUME FifoInv, NEW f \in Fifos, dequeue(f)
  PROVE  FifoInv'
<1> DEFINE i == blocks_head[f]  n == Len(blocks[f])  h == held[f]  c == Len(h)
<1>1. /\ ready[f] /\ flushing[f] = 0 /\ c < n /\ TakeHead(f)
      /\ held' = [held EXCEPT ![f] = Append(h, i)]
      /\ UNCHANGED << flushing, ready, queued, mappings, idle >>
  BY DEF dequeue
<1>2. /\ h \in Seq(Nat) /\ c \in Nat /\ n \in Nat /\ i \in 1 .. n /\ Indices(f) = 1 .. n
      /\ HeldInv(f) /\ OwnerInv(f) /\ MapInv(f) /\ IdleInv(f)
  BY <1>1, FifoTypes, HeadTaken DEF Indices
<1>3. /\ Append(h, i) \in Seq(Nat) /\ Len(Append(h, i)) = c + 1
      /\ Append(h, i)[c + 1] = i /\ \A k \in 1 .. c : Append(h, i)[k] = h[k]
  BY <1>2
<1>4. /\ held' \in [Fifos -> Seq(Nat)] /\ held'[f] = Append(h, i)
      /\ \A o \in Fifos : o # f => held'[o] = held[o]
  BY <1>1, <1>3 DEF FifoInv, TypeInv
<1>5. TypeInv' /\ \A o \in Fifos : o # f => Untouched(o)
  BY <1>1, <1>4, HeadTaken DEF FifoInv, TypeInv, Untouched
<1> HIDE DEF h, i, c
<1>6. HeldInv(f)'
  <2>1. /\ ready'[f] /\ Len(blocks'[f]) = n /\ Indices(f)' = 1 .. n
        /\ blocks_head'[f] = Following(n, i) /\ Len(held'[f]) = c + 1 /\ flushing'[f] = 0
    BY <1>1, <1>2, <1>3, <1>4, HeadTaken DEF i
  <2>2. /\ Following(n, i) \in 1 .. n /\ Turn(n, Following(n, i), c + 1, c + 1) = i
        /\ \A k \in 1 .. c : Turn(n, Following(n, i), c + 1, k) = Turn(n, i, c, k)
    <3>1. n \in Nat /\ i \in 1 .. n /\ c \in Nat /\ c < n
      BY <1>1, <1>2
    <3> HIDE DEF n
    <3> QED
      BY <3>1, TurnNext
  <2>3. \A k \in 1 .. c : h[k] = Turn(n, i, c, k)
    BY <1>2 DEF HeldInv, h, i, c
  <2>4. ASSUME NEW k \in 1 .. c + 1 PROVE held'[f][k] = Turn(n, Following(n, i), c + 1, k)
    <3>1. k \in 1 .. c \/ k = c + 1
      BY <1>2
    <3> QED
      BY <1>3, <1>4, <2>2, <2>3, <3>1
  <2>5. c + 1 <= n
    BY <1>1, <1>2
  <2> QED
    BY <2>1, <2>2, <2>4, <2>5 DEF HeldInv
<1>7. OwnerInv(f)'
  <2>1. /\ Owned(f)' = Owned(f) \ {i} /\ ToSet(queued'[f]) = ToSet(queued[f])
        /\ done'[f] = done[f] \ {i} /\ queued'[f] = queued[f] /\ Indices(f)' = Indices(f)
    BY <1>1, HeadTaken DEF Owned, i
  <2>2. \A k \in 1 .. c : h[k] \notin Owned(f)
    BY <1>2 DEF OwnerInv, h, c
  <2>3. ASSUME NEW k \in 1 .. Len(held'[f]) PROVE held'[f][k] \notin Owned(f)'
    <3>1. k \in 1 .. c \/ k = c + 1
      BY <1>2, <1>3, <1>4
    <3> QED
      BY <1>3, <1>4, <2>1, <2>2, <3>1
  <2>4. \A j \in Indices(f) : blocks'[f][j].state <=> j \in Owned(f)'
    BY <1>1, <1>2, <2>1, HeadTaken DEF OwnerInv, i
  <2> QED
    BY <1>2, <2>1, <2>3, <2>4 DEF OwnerInv
<1>8. FlushInv(f)'
  BY <1>1 DEF FlushInv
<1>9. MapInv(f)'
  BY <1>1, <1>2, HeadTaken DEF MapInv
<1>10. IdleInv(f)'
  <2>1. idle'[f] => queued[f] = << >> /\ done[f] = {} /\ queued'[f] = queued[f]
    BY <1>1, <1>2 DEF IdleInv
  <2>2. done'[f] \subseteq done[f]
    BY <1>1, HeadTaken
  <2> QED
    BY <2>1, <2>2 DEF IdleInv
<1> QED
  BY <1>5, <1>6, <1>7, <1>8, <1>9, <1>10, OneFifo DEF Part

(* enqueue() gives the driver the oldest block the client holds.           *)
LEMMA EnqueueStep ==
  ASSUME FifoInv, NEW f \in Fifos, NEW item \in {NoItem} \cup 1 .. Items, enqueue(f, item)
  PROVE  FifoInv'
<1> DEFINE n == Len(blocks[f])  h == held[f]  c == Len(h)  i == h[1]  s == blocks[f]
           b == [s[i] EXCEPT !.state = TRUE, !.content = item]  t == [s EXCEPT ![i] = b]
<1>1. /\ h # << >> /\ flushing[f] = 0 /\ i = Head(h)
      /\ blocks' = [blocks EXCEPT ![f] = t] /\ queued' = [queued EXCEPT ![f] = Append(queued[f], i)]
      /\ held' = [held EXCEPT ![f] = Tail(h)] /\ idle' = [idle EXCEPT ![f] = FALSE]
      /\ UNCHANGED << blocks_head, flushing, ready, done, mappings >>
  <2>1. h # << >> /\ h \in Seq(Nat)
    BY FifoTypes DEF enqueue
  <2>2. i = Head(h)
    BY <2>1
  <2>3. /\ blocks' = [blocks EXCEPT ![f] = t]
        /\ queued' = [queued EXCEPT ![f] = Append(queued[f], i)]
    <3> HIDE DEF i
    <3> QED
      BY <2>2 DEF enqueue
  <2> QED
    BY <2>1, <2>2, <2>3 DEF enqueue
<1>2. /\ h \in Seq(Nat) /\ c \in Nat \ {0} /\ n \in Nat /\ Indices(f) = 1 .. n /\ ready[f]
      /\ HeldInv(f) /\ OwnerInv(f) /\ MapInv(f) /\ s \in Seq(BlockSet) /\ queued[f] \in Seq(Nat)
      /\ blocks_head[f] \in 1 .. n /\ c <= n
  BY <1>1, FifoTypes DEF Indices, HeldInv
<1>3. /\ Tail(h) \in Seq(Nat) /\ Len(Tail(h)) = c - 1
      /\ \A k \in 1 .. c - 1 : Tail(h)[k] = h[k + 1]
  BY <1>1, <1>2
<1>4. \A k \in 1 .. c : h[k] = Turn(n, blocks_head[f], c, k) /\ h[k] \in 1 .. n
  <2>1. c \in 0 .. n
    BY <1>2
  <2>2. \A k \in 1 .. c : h[k] = Turn(n, blocks_head[f], c, k)
    BY <1>2 DEF HeldInv
  <2>3. n \in Nat /\ blocks_head[f] \in 1 .. n
    BY <1>2
  <2>4. ASSUME NEW k \in 1 .. c PROVE Turn(n, blocks_head[f], c, k) \in 1 .. n
    <3> HIDE DEF c, n
    <3> QED
      BY <2>1, <2>3, TurnIsPlace
  <2> QED
    BY <2>2, <2>4
<1>5. i \in 1 .. n /\ \A k \in 2 .. c : h[k] # i
  <2>1. /\ c \in 0 .. n /\ n \in Nat /\ blocks_head[f] \in 1 .. n
        /\ 1 \in 1 .. c /\ \A k \in 2 .. c : k \in 1 .. c /\ k # 1
    BY <1>2
  <2> HIDE DEF c, n, h
  <2>2. ASSUME NEW k \in 2 .. c
        PROVE  Turn(n, blocks_head[f], c, k) # Turn(n, blocks_head[f], c, 1)
    <3>1. k \in 1 .. c /\ k # 1
      BY <2>1
    <3> QED
      BY <2>1, <3>1, TurnIsPlace
  <2>3. i = Turn(n, blocks_head[f], c, 1) /\ i \in 1 .. n
    BY <1>4, <2>1
  <2> QED
    BY <1>4, <2>1, <2>2, <2>3
<1>6. b \in BlockSet /\ b.data = s[i].data /\ b.state
  <2>1. s[i] \in BlockSet
    BY <1>2, <1>5
  <2> QED
    BY <2>1 DEF BlockSet
<1>7. /\ t \in Seq(BlockSet) /\ Len(t) = n /\ t[i] = b
      /\ \A j \in 1 .. n : j # i => t[j] = s[j]
  <2> HIDE DEF b, s, i
  <2> QED
    BY <1>2, <1>5, <1>6, PutBlock DEF s
<1>8. i \notin Owned(f)
  BY <1>2 DEF OwnerInv
<1>9. /\ ToSet(Append(queued[f], i)) = ToSet(queued[f]) \cup {i}
      /\ IsInjective(Append(queued[f], i))
      /\ Append(queued[f], i) \in Seq(Nat)
  <2>1. i \in Nat
    BY <1>5
  <2> HIDE DEF i
  <2> QED
    BY <1>2, <1>8, <2>1, AppendedSet DEF OwnerInv, Owned
<1> HIDE DEF t, h, i
<1>10. TypeInv' /\ \A o \in Fifos : o # f => Untouched(o)
  BY <1>1, <1>3, <1>7, <1>9 DEF FifoInv, TypeInv, Untouched
<1>11. /\ blocks'[f] = t /\ held'[f] = Tail(h) /\ queued'[f] = Append(queued[f], i)
       /\ idle'[f] = FALSE /\ Indices(f)' = 1 .. n
  BY <1>1, <1>7 DEF FifoInv, TypeInv, Indices
<1>12. HeldInv(f)'
  <2>1. ASSUME NEW k \in 1 .. c - 1 PROVE Tail(h)[k] = Turn(n, blocks_head[f], c - 1, k)
    <3>1. k + 1 \in 1 .. c /\ (c - 1) + 1 = c /\ c - 1 \in Nat
      BY <1>2
    <3>2. Tail(h)[k] = Turn(n, blocks_head[f], c, k + 1)
      BY <1>3, <1>4, <3>1
    <3>3. Turn(n, blocks_head[f], c - 1, k) = Turn(n, blocks_head[f], (c - 1) + 1, k + 1)
      BY <1>2, <3>1, TurnTail
    <3> QED
      BY <3>1, <3>2, <3>3
  <2>2. c - 1 <= n
    BY <1>2
  <2> QED
    BY <1>1, <1>2, <1>3, <1>7, <1>11, <2>1, <2>2 DEF HeldInv
<1>13. OwnerInv(f)'
  <2>1. Owned(f)' = Owned(f) \cup {i} /\ done'[f] = done[f]
    BY <1>1, <1>9, <1>11 DEF Owned
  <2>2. ASSUME NEW k \in 1 .. c - 1 PROVE Tail(h)[k] \notin Owned(f) \cup {i}
    <3>1. k + 1 \in 2 .. c /\ k + 1 \in 1 .. c
      BY <1>2
    <3>2. h[k + 1] \notin Owned(f)
      BY <1>2, <3>1 DEF OwnerInv, h
    <3> QED
      BY <1>3, <1>5, <3>1, <3>2
  <2>3. \A j \in 1 .. n : t[j].state <=> j \in Owned(f) \cup {i}
    BY <1>2, <1>6, <1>7 DEF OwnerInv
  <2>4. ToSet(Append(queued[f], i)) \cap done[f] = {}
    BY <1>2, <1>8, <1>9 DEF OwnerInv, Owned
  <2>5. Owned(f) \cup {i} \subseteq 1 .. n
    BY <1>2, <1>5 DEF OwnerInv
  <2> QED
    BY <1>3, <1>9, <1>11, <2>1, <2>2, <2>3, <2>4, <2>5 DEF OwnerInv
<1>14. FlushInv(f)' /\ IdleInv(f)'
  BY <1>1, <1>11 DEF FlushInv, IdleInv
<1>15. MapInv(f)'
  <2>1. \A j \in 1 .. n : t[j].data = s[j].data
    BY <1>6, <1>7
  <2> QED
    BY <1>1, <1>2, <1>11, <2>1 DEF MapInv
<1> QED
  BY <1>10, <1>12, <1>13, <1>14, <1>15, OneFifo DEF Part

-----------------------------------------------------------------------------
(* flush() begins with nothing taken back.                                 *)
LEMMA CallFlushStep ==
  ASSUME FifoInv, NEW f \in Fifos, CallFlush(f)
  PROVE  FifoInv'
<1>1. /\ ready[f] /\ held[f] = << >> /\ flushing' = [flushing EXCEPT ![f] = blocks_head[f]]
      /\ UNCHANGED << blocks, blocks_head, held, ready, queued, done, mappings, idle >>
  BY DEF CallFlush, driverVars
<1>2. TypeInv' /\ \A o \in Fifos : o # f => Untouched(o)
  BY <1>1, FifoTypes DEF FifoInv, TypeInv, Untouched
<1>3. blocks_head[f] \in Indices(f) /\ flushing'[f] = blocks_head[f] /\ Indices(f)' = Indices(f)
  BY <1>1, FifoTypes DEF HeldInv, FifoInv, TypeInv, Indices
<1>4. HeldInv(f)' /\ OwnerInv(f)' /\ MapInv(f)' /\ IdleInv(f)'
  BY <1>1, <1>3, FifoTypes DEF HeldInv, OwnerInv, Owned, MapInv, IdleInv
<1>5. FlushInv(f)'
  <2>1. ~ \E i \in Indices(f) : Between(blocks_head[f], blocks_head[f], i)
    <3>1. blocks_head[f] \in Nat /\ \A i \in Indices(f) : i \in Nat
      BY FifoTypes DEF Indices
    <3> QED
      BY <3>1 DEF Between
  <2> QED
    BY <1>1, <1>3, <2>1 DEF FlushInv
<1> QED
  BY <1>2, <1>4, <1>5, OneFifo DEF Part

(* flush() goes once around: when it is back where it began, the driver    *)
(* has nothing left.                                                       *)
LEMMA FlushStep ==
  ASSUME FifoInv, NEW f \in Fifos, Flush(f)
  PROVE  FifoInv'
<1> DEFINE n == Len(blocks[f])  from == flushing[f]  head == blocks_head[f]
           last == blocks_head'[f] = from
<1>1. /\ from # 0 /\ TakeHead(f)
      /\ flushing' = [flushing EXCEPT ![f] = IF last THEN 0 ELSE from]
      /\ idle' = [idle EXCEPT ![f] = last]
      /\ UNCHANGED << held, ready, queued, mappings >>
  BY DEF Flush
<1>2. /\ ready[f] /\ held[f] = << >> /\ from \in Indices(f) /\ n \in Nat /\ Indices(f) = 1 .. n
      /\ HeldInv(f) /\ OwnerInv(f) /\ MapInv(f) /\ FlushInv(f)
      /\ \A i \in Indices(f) : Between(from, head, i) => ~ blocks[f][i].state
  BY <1>1, FifoTypes DEF HeldInv, FlushInv, Indices
<1>3. /\ head \in 1 .. n /\ Following(n, head) \in 1 .. n /\ blocks_head'[f] = Following(n, head)
  BY <1>1, <1>2, HeadTaken DEF Following
<1>4. TypeInv' /\ \A o \in Fifos : o # f => Untouched(o)
  <2>1. last \in BOOLEAN /\ (IF last THEN 0 ELSE from) \in Nat
    BY <1>2
  <2>2. /\ idle' \in [Fifos -> BOOLEAN] /\ flushing' \in [Fifos -> Nat]
        /\ \A o \in Fifos : o # f => idle'[o] = idle[o] /\ flushing'[o] = flushing[o]
    <3> HIDE DEF last, from
    <3> QED
      BY <1>1, <2>1 DEF FifoInv, TypeInv
  <2>3. TypeInv'
    <3> HIDE DEF last, from
    <3> QED
      BY <1>1, <1>2, <2>2, HeadTaken DEF FifoInv, TypeInv
  <2>4. ASSUME NEW o \in Fifos, o # f PROVE Untouched(o)
    <3> HIDE DEF last, from
    <3> QED
      BY <1>1, <1>2, <2>2, <2>4, HeadTaken DEF Untouched
  <2> QED
    BY <2>3, <2>4
<1>5. /\ idle'[f] <=> last
      /\ flushing'[f] = IF last THEN 0 ELSE from
  <2> HIDE DEF last, from
  <2> QED
    BY <1>1 DEF FifoInv, TypeInv
<1>6. /\ Owned(f)' = Owned(f) \ {head} /\ done'[f] = done[f] \ {head}
      /\ Indices(f)' = 1 .. n /\ Len(blocks'[f]) = n
      /\ \A i \in 1 .. n : blocks'[f][i].state <=> blocks[f][i].state /\ i # head
  BY <1>1, <1>2, HeadTaken DEF Owned
<1>7. OwnerInv(f)'
  BY <1>1, <1>2, <1>6, HeadTaken DEF OwnerInv
<1>8. HeldInv(f)'
  BY <1>1, <1>2, <1>3, <1>6 DEF HeldInv, Indices
<1>9. MapInv(f)'
  BY <1>1, <1>2, HeadTaken DEF MapInv
<1>10. ASSUME NEW i \in 1 .. n, last \/ Between(from, Following(n, head), i)
       PROVE  ~ blocks'[f][i].state
  <2>1. i = head \/ Between(from, head, i)
    BY <1>2, <1>3, <1>10, RoundTheRing
  <2> QED
    BY <1>2, <1>6, <2>1
<1>11. FlushInv(f)'
  BY <1>1, <1>2, <1>3, <1>5, <1>6, <1>10 DEF FlushInv
<1>12. IdleInv(f)'
  <2> SUFFICES ASSUME last PROVE queued'[f] = << >> /\ done'[f] = {}
    BY <1>5 DEF IdleInv
  <2>1. Owned(f)' = {}
    BY <1>1, <1>2, <1>6, <1>7, <1>10 DEF OwnerInv
  <2>2. queued[f] \in Seq(Nat) /\ ToSet(queued[f]) = {} /\ done'[f] = {}
    BY <1>1, <2>1, FifoTypes DEF Owned
  <2>3. ~ 1 \in DOMAIN queued[f]
    BY <2>2 DEF ToSet
  <2>4. queued[f] = << >>
    BY <2>2, <2>3
  <2> QED
    BY <1>1, <2>2, <2>4
<1> QED
  BY <1>4, <1>7, <1>8, <1>9, <1>11, <1>12, OneFifo DEF Part

(* flush() of a fifo opened with O_NONBLOCK throws at a block the hardware *)
(* still has, and leaves the head there.                                   *)
LEMMA FlushThrowsStep ==
  ASSUME FifoInv, NEW f \in Fifos, FlushThrows(f)
  PROVE  FifoInv'
<1>1. /\ flushing' = [flushing EXCEPT ![f] = 0]
      /\ UNCHANGED << blocks, blocks_head, held, ready, queued, done, mappings, idle >>
  BY DEF FlushThrows, driverVars
<1>2. TypeInv' /\ \A o \in Fifos : o # f => Untouched(o)
  BY <1>1 DEF FifoInv, TypeInv, Untouched
<1>3. flushing'[f] = 0 /\ Indices(f)' = Indices(f)
  BY <1>1 DEF FifoInv, TypeInv, Indices
<1>4. Part(f)'
  BY <1>1, <1>3, FifoTypes DEF Part, HeldInv, OwnerInv, Owned, MapInv, IdleInv, FlushInv
<1> QED
  BY <1>2, <1>4, OneFifo

(* A step that changes what a block holds, or moves it from the hardware   *)
(* to the blocks the driver can give back.                                 *)
LEMMA PartServed ==
  ASSUME FifoInv, NEW f \in Fifos, Indices(f)' = Indices(f), Len(blocks'[f]) = Len(blocks[f]),
         \A i \in Indices(f) : /\ blocks'[f][i].data = blocks[f][i].data
                               /\ blocks'[f][i].state = blocks[f][i].state,
         UNCHANGED << blocks_head, flushing, held, ready, mappings, idle >>,
         \/ UNCHANGED << queued[f], done[f] >>
         \/ /\ queued[f] # << >> /\ queued'[f] = Tail(queued[f])
            /\ done'[f] = done[f] \cup {Head(queued[f])}
  PROVE  Part(f)'
<1>1. HeldInv(f)' /\ FlushInv(f)' /\ MapInv(f)'
  <2>1. HeldInv(f)'
    BY FifoTypes DEF HeldInv
  <2>2. FlushInv(f)'
    BY FifoTypes DEF FlushInv
  <2>3. MapInv(f)'
    BY FifoTypes DEF MapInv
  <2> QED
    BY <2>1, <2>2, <2>3
<1>2. ASSUME Owned(f)' = Owned(f), IsInjective(queued'[f]), ToSet(queued'[f]) \cap done'[f] = {}
      PROVE  OwnerInv(f)'
  <2>1. Owned(f)' \subseteq Indices(f)'
    BY <1>2, FifoTypes DEF OwnerInv
  <2>2. \A k \in 1 .. Len(held'[f]) : held'[f][k] \notin Owned(f)'
    BY <1>2, FifoTypes DEF OwnerInv
  <2>3. ready'[f] => \A i \in Indices(f)' : blocks'[f][i].state <=> i \in Owned(f)'
    BY <1>2, FifoTypes DEF OwnerInv
  <2> QED
    BY <1>2, <2>1, <2>2, <2>3 DEF OwnerInv
<1>3. CASE UNCHANGED << queued[f], done[f] >>
  <2>1. Owned(f)' = Owned(f) /\ queued'[f] = queued[f] /\ done'[f] = done[f]
    BY <1>3 DEF Owned
  <2>2. IsInjective(queued'[f]) /\ ToSet(queued'[f]) \cap done'[f] = {}
    BY <2>1, FifoTypes DEF OwnerInv
  <2>3. IdleInv(f)'
    BY <2>1, FifoTypes DEF IdleInv
  <2> QED
    BY <1>1, <1>2, <2>1, <2>2, <2>3 DEF Part
<1>4. CASE /\ queued[f] # << >> /\ queued'[f] = Tail(queued[f])
           /\ done'[f] = done[f] \cup {Head(queued[f])}
  <2>1. /\ Head(queued[f]) \in ToSet(queued[f]) /\ IsInjective(queued'[f])
        /\ ToSet(queued'[f]) = ToSet(queued[f]) \ {Head(queued[f])}
    BY <1>4, FifoTypes, TailSet DEF OwnerInv
  <2>2. Owned(f)' = Owned(f)
    BY <1>4, <2>1 DEF Owned
  <2>3. ToSet(queued'[f]) \cap done'[f] = {}
    <3>1. ToSet(queued[f]) \cap done[f] = {}
      BY FifoTypes DEF OwnerInv
    <3> QED
      BY <1>4, <2>1, <3>1
  <2>4. IdleInv(f)'
    BY <1>4, FifoTypes DEF IdleInv
  <2> QED
    BY <1>1, <1>2, <2>1, <2>2, <2>3, <2>4 DEF Part
<1> QED
  BY <1>3, <1>4

(* A block of f gets a content.                                            *)
LEMMA Filled ==
  ASSUME FifoInv, NEW f \in Fifos, NEW i \in Indices(f), NEW item \in {NoItem} \cup 1 .. Items,
         blocks' = [blocks EXCEPT ![f][i].content = item]
  PROVE  /\ blocks' \in [Fifos -> Seq(BlockSet)]
         /\ \A o \in Fifos :
              /\ Indices(o)' = Indices(o) /\ Len(blocks'[o]) = Len(blocks[o])
              /\ \A j \in Indices(o) : /\ blocks'[o][j].data = blocks[o][j].data
                                       /\ blocks'[o][j].state = blocks[o][j].state
         /\ \A o \in Fifos : o # f => blocks'[o] = blocks[o]
<1> DEFINE s == blocks[f]  b == [s[i] EXCEPT !.content = item]  t == [s EXCEPT ![i] = b]
<1>1. s \in Seq(BlockSet) /\ Indices(f) = 1 .. Len(s) /\ s[i] \in BlockSet
  BY FifoTypes DEF Indices
<1>2. b \in BlockSet /\ b.data = s[i].data /\ b.state = s[i].state
  BY <1>1 DEF BlockSet
<1>3. blocks' = [blocks EXCEPT ![f] = t]
  OBVIOUS
<1>4. /\ t \in Seq(BlockSet) /\ Len(t) = Len(s) /\ t[i] = b
      /\ \A j \in 1 .. Len(s) : j # i => t[j] = s[j]
  <2> HIDE DEF b, s
  <2> QED
    BY <1>1, <1>2, PutBlock DEF s
<1> HIDE DEF t, b
<1>5. blocks' \in [Fifos -> Seq(BlockSet)] /\ blocks'[f] = t
      /\ \A o \in Fifos : o # f => blocks'[o] = blocks[o]
  BY <1>3, <1>4 DEF FifoInv, TypeInv
<1> QED
  BY <1>1, <1>2, <1>4, <1>5 DEF Indices

(* The bounds of the items, and the blocks of the writer.                  *)
LoopInv == FifoInv /\ filled \in Nat /\ sent \in 0 .. Items

(* A client that has a block has it mapped, and in the fifo.               *)
LEMMA HeldIsPlace ==
  ASSUME FifoInv, NEW f \in Fifos, NEW k \in 1 .. Len(held[f])
  PROVE  ready[f] /\ held[f][k] \in Indices(f)
<1> DEFINE n == Len(blocks[f])  c == Len(held[f])
<1>1. n \in Nat /\ c \in Nat /\ held[f] \in Seq(Nat) /\ c <= n
  BY FifoTypes DEF HeldInv
<1>2. ready[f] /\ blocks_head[f] \in 1 .. n /\ held[f][k] = Turn(n, blocks_head[f], c, k)
  BY <1>1, FifoTypes DEF HeldInv, Indices
<1>3. c \in 0 .. n
  BY <1>1
<1>4. Turn(n, blocks_head[f], c, k) \in 1 .. n
  <2> HIDE DEF n, c
  <2> QED
    BY <1>1, <1>2, <1>3, TurnIsPlace DEF c
<1> QED
  BY <1>2, <1>4 DEF Indices

(* No block is handed out twice.                                           *)
LEMMA HeldOnce ==
  ASSUME FifoInv, NEW f \in Fifos
  PROVE  IsInjective(held[f])
<1> DEFINE n == Len(blocks[f])  c == Len(held[f])  head == blocks_head[f]
<1>1. DOMAIN held[f] = 1 .. c
  <2>1. held[f] \in Seq(Nat)
    BY FifoTypes
  <2> QED
    BY <2>1
<1> SUFFICES ASSUME NEW k \in 1 .. c, NEW l \in 1 .. c, held[f][k] = held[f][l]
             PROVE  k = l
  <2> HIDE DEF c
  <2> QED
    BY <1>1 DEF IsInjective
<1>2. HeldInv(f)
  BY FifoTypes
<1>3. n \in Nat /\ c \in 0 .. n /\ head \in 1 .. n
  BY <1>2, FifoTypes, HeldIsPlace DEF HeldInv, Indices
<1>4. Turn(n, head, c, k) = Turn(n, head, c, l)
  BY <1>2 DEF HeldInv
<1> HIDE DEF n, c, head
<1> QED
  BY <1>3, <1>4, TurnIsPlace

(* The program fills a block it holds.                                     *)
LEMMA WriterFillsStep ==
  ASSUME LoopInv, WriterFills
  PROVE  LoopInv'
<1> DEFINE i == held["w"][filled + 1]
<1>1. "w" \in Fifos /\ Items \in Nat
  BY LoopbackAssumption
<1>2. /\ filled < Len(held["w"]) /\ sent < Items /\ filled \in Nat /\ sent \in 0 .. Items
      /\ blocks' = [blocks EXCEPT !["w"][i].content = sent + 1]
      /\ filled' = filled + 1 /\ sent' = sent + 1
      /\ UNCHANGED << blocks_head, flushing, held, ready, queued, done, mappings, idle >>
  BY DEF WriterFills, LoopInv, driverVars
<1>3. i \in Indices("w")
  <2>1. Len(held["w"]) \in Nat
    BY <1>1, FifoTypes DEF LoopInv
  <2>2. filled + 1 \in 1 .. Len(held["w"])
    BY <1>2, <2>1
  <2> QED
    BY <1>1, <2>2, HeldIsPlace DEF LoopInv
<1>4. sent + 1 \in {NoItem} \cup 1 .. Items
  BY <1>1, <1>2
<1> HIDE DEF i
<1>5. \A f \in Fifos : Part(f)'
  BY <1>1, <1>2, <1>3, <1>4, Filled, PartServed DEF LoopInv
<1>6. TypeInv'
  BY <1>1, <1>2, <1>3, <1>4, Filled DEF LoopInv, FifoInv, TypeInv
<1> QED
  BY <1>1, <1>2, <1>5, <1>6 DEF LoopInv, FifoInv

(* The logic takes a block of each fifo and hands both back to the driver, *)
(* the one of the reader filled.                                           *)
LEMMA TransferStep ==
  ASSUME LoopInv, Transfer
  PROVE  LoopInv'
<1> DEFINE from == Head(queued["w"])  to == Head(queued["r"])  item == blocks["w"][from].content
<1>1. "w" \in Fifos /\ "r" \in Fifos /\ Fifos = {"w", "r"} /\ FifoInv
  BY LoopbackAssumption DEF LoopInv
<1>2. /\ queued["w"] # << >> /\ queued["r"] # << >>
      /\ blocks' = [blocks EXCEPT !["r"][to].content = item]
      /\ queued' = [f \in Fifos |-> Tail(queued[f])]
      /\ done' = [done EXCEPT !["w"] = @ \cup {from}, !["r"] = @ \cup {to}]
      /\ UNCHANGED << blocks_head, flushing, held, ready, mappings, idle, filled, sent >>
  BY DEF Transfer
<1>3. \A f \in Fifos : /\ Head(queued[f]) \in Indices(f) /\ Head(queued[f]) \in Nat
                       /\ Tail(queued[f]) \in Seq(Nat)
  BY <1>1, <1>2, FifoTypes, TailSet DEF OwnerInv, Owned
<1>4. item \in {NoItem} \cup 1 .. Items
  <2>1. blocks["w"] \in Seq(BlockSet) /\ from \in 1 .. Len(blocks["w"])
    BY <1>1, <1>3, FifoTypes DEF Indices
  <2>2. blocks["w"][from] \in BlockSet
    <3> HIDE DEF from
    <3> QED
      BY <2>1
  <2> QED
    BY <2>2 DEF BlockSet
<1>5. /\ done' \in [Fifos -> SUBSET Nat] /\ queued' \in [Fifos -> Seq(Nat)]
      /\ \A f \in Fifos : /\ done'[f] = done[f] \cup {Head(queued[f])}
                          /\ queued'[f] = Tail(queued[f]) /\ queued[f] # << >>
  <2>1. queued' \in [Fifos -> Seq(Nat)]
    BY <1>2, <1>3
  <2>2. done \in [Fifos -> SUBSET Nat] /\ from \in Nat /\ to \in Nat
    BY <1>1, <1>3 DEF FifoInv, TypeInv
  <2>3. done'["w"] = done["w"] \cup {from} /\ done'["r"] = done["r"] \cup {to}
    BY <1>1, <1>2, <2>2
  <2>4. done' \in [Fifos -> SUBSET Nat]
    BY <1>1, <1>2, <2>2
  <2> QED
    BY <1>1, <1>2, <2>1, <2>3, <2>4
<1> HIDE DEF item
<1>6. \A f \in Fifos : Part(f)'
  BY <1>1, <1>2, <1>3, <1>4, <1>5, Filled, PartServed
<1>7. TypeInv'
  BY <1>1, <1>2, <1>3, <1>4, <1>5, Filled DEF FifoInv, TypeInv
<1> QED
  BY <1>2, <1>6, <1>7 DEF LoopInv, FifoInv

(* The program enqueues the oldest block it filled.                        *)
LEMMA WriterGivesStep ==
  ASSUME LoopInv, WriterGives
  PROVE  LoopInv'
<1>1. "w" \in Fifos /\ FifoInv /\ filled \in Nat
  BY LoopbackAssumption DEF LoopInv
<1>2. held["w"] # << >> /\ filled > 0 /\ filled' = filled - 1 /\ sent' = sent
  BY DEF WriterGives, enqueue
<1> DEFINE i == Head(held["w"])  item == blocks["w"][i].content
<1>3. i \in Indices("w")
  <2>1. 1 \in 1 .. Len(held["w"]) /\ i = held["w"][1]
    BY <1>1, <1>2, FifoTypes
  <2> QED
    BY <1>1, <2>1, HeldIsPlace
<1>4. item \in {NoItem} \cup 1 .. Items
  <2>1. blocks["w"] \in Seq(BlockSet) /\ i \in 1 .. Len(blocks["w"])
    BY <1>1, <1>3, FifoTypes DEF Indices
  <2>2. blocks["w"][i] \in BlockSet
    <3> HIDE DEF i
    <3> QED
      BY <2>1
  <2> QED
    BY <2>2 DEF BlockSet
<1>5. enqueue("w", item)
  BY DEF WriterGives
<1> HIDE DEF item
<1> QED
  BY <1>1, <1>2, <1>4, <1>5, EnqueueStep DEF LoopInv

(* Every step of the two programs, of the driver and of the logic keeps    *)
(* the invariant.                                                          *)
LEMMA LoopNext ==
  ASSUME LoopInv, [Next]_loopVars
  PROVE  LoopInv'
<1>1. FifoInv /\ "w" \in Fifos /\ "r" \in Fifos
  BY LoopbackAssumption DEF LoopInv
<1>2. CASE UNCHANGED loopVars
  <2>1. /\ UNCHANGED << blocks, blocks_head, flushing, held, ready, queued, done, mappings, idle >>
        /\ UNCHANGED << filled, sent >>
    BY <1>2 DEF loopVars, fifoVars, driverVars
  <2>2. TypeInv' /\ \A f \in Fifos : Untouched(f)
    BY <1>1, <2>1 DEF FifoInv, TypeInv, Untouched
  <2>3. \A f \in Fifos : Part(f)'
    BY <1>1, <2>2, PartKept DEF FifoInv
  <2> QED
    BY <2>1, <2>2, <2>3 DEF LoopInv, FifoInv
<1>3. ASSUME NEW f \in Fifos, Reconfigures(f) PROVE LoopInv'
  BY <1>1, <1>3, ReconfigureStep, ReconfigureRingStep, ReconfigureFailsStep,
     ReconfigureRefusedStep, DisposeStep DEF Reconfigures, LoopInv
<1>4. CASE WriterTakes \/ ReaderTakes
  BY <1>1, <1>4, DequeueStep DEF WriterTakes, ReaderTakes, LoopInv
<1>5. CASE WriterFlushes
  BY <1>1, <1>5, CallFlushStep, FlushStep, FlushThrowsStep DEF WriterFlushes, LoopInv
<1>6. CASE ReaderGives
  BY <1>1, <1>6, EnqueueStep DEF ReaderGives, LoopInv
<1> QED
  BY <1>2, <1>3, <1>4, <1>5, <1>6, WriterFillsStep, WriterGivesStep, TransferStep DEF Next

(* It holds when the fifos are opened.                                     *)
LEMMA LoopInit == Init => LoopInv
<1> SUFFICES ASSUME Init PROVE LoopInv
  OBVIOUS
<1>1. TypeInv /\ filled \in Nat /\ sent \in 0 .. Items
  BY LoopbackAssumption DEF Init, FifoInit, TypeInv
<1>2. ASSUME NEW f \in Fifos PROVE Part(f)
  <2>1. ToSet(<< >>) = {} /\ IsInjective(<< >>) /\ Len(<< >>) = 0
    BY DEF ToSet, IsInjective
  <2>2. /\ blocks[f] = << >> /\ held[f] = << >> /\ queued[f] = << >> /\ done[f] = {}
        /\ mappings[f] = {} /\ flushing[f] = 0 /\ ~ ready[f] /\ ~ idle[f]
    BY DEF Init, FifoInit
  <2>3. Indices(f) = {}
    BY <2>1, <2>2 DEF Indices
  <2> QED
    BY <2>1, <2>2, <2>3 DEF Part, HeldInv, OwnerInv, Owned, FlushInv, MapInv, IdleInv
<1> QED
  BY <1>1, <1>2 DEF LoopInv, FifoInv

(* The inductive invariant holds of the loop.                              *)
LEMMA LoopInvariant == Spec => []LoopInv
BY LoopInit, LoopNext, PTL DEF Spec

(* However the calls of dequeue(), enqueue(), flush() and reconfigure()    *)
(* and the transfers of the logic interleave, and wherever flush() or      *)
(* reconfigure() throws, no block is handed out twice, none is handed out  *)
(* that the hardware works on, and the state kept in each block says       *)
(* whether the driver has it (HardwareDMAFifo::dequeue, enqueue, flush).   *)
THEOREM BlocksHaveOneOwner == Spec => []OneOwner
<1>1. ASSUME LoopInv, NEW f \in Fifos
      PROVE  /\ IsInjective(held[f]) /\ IsInjective(queued[f])
             /\ ToSet(held[f]) \cap (ToSet(queued[f]) \cup done[f]) = {}
             /\ ToSet(queued[f]) \cap done[f] = {}
             /\ ready[f] => \A i \in Indices(f) :
                  blocks[f][i].state <=> i \in ToSet(queued[f]) \cup done[f]
  <2>1. OwnerInv(f) /\ HeldInv(f) /\ held[f] \in Seq(Nat)
    BY <1>1, FifoTypes DEF LoopInv
  <2>2. IsInjective(held[f])
    BY <1>1, HeldOnce DEF LoopInv
  <2>3. ToSet(held[f]) \cap Owned(f) = {}
    BY <2>1 DEF OwnerInv, ToSet
  <2> QED
    BY <2>1, <2>2, <2>3 DEF OwnerInv, Owned
<1>2. LoopInv => OneOwner
  BY <1>1 DEF OneOwner
<1> QED
  BY <1>2, LoopInvariant, PTL

(* The memory maps are those of the blocks whose pointer is set, all of    *)
(* them while the fifo is ready, and every block a client holds is mapped: *)
(* reconfigure() and dispose() leak none and leave none in use             *)
(* (HardwareDMAFifo::unmap, dispose, reconfigure).                         *)
THEOREM MapsStayBalanced == Spec => []MapsBalanced
<1>1. ASSUME LoopInv, NEW f \in Fifos
      PROVE  /\ mappings[f] = {i \in Indices(f) : blocks[f][i].data}
             /\ ready[f] => mappings[f] = Indices(f)
             /\ ToSet(held[f]) \subseteq mappings[f]
  <2>1. MapInv(f) /\ held[f] \in Seq(Nat)
    BY <1>1, FifoTypes DEF LoopInv
  <2>2. \A k \in 1 .. Len(held[f]) : held[f][k] \in mappings[f]
    BY <1>1, <2>1, HeldIsPlace DEF LoopInv, MapInv
  <2> QED
    BY <2>1, <2>2 DEF MapInv, ToSet
<1>2. LoopInv => MapsBalanced
  BY <1>1 DEF MapsBalanced
<1> QED
  BY <1>2, LoopInvariant, PTL

(* After flush() has returned, and until the next enqueue, the driver has  *)
(* no block: "Wait until all blocks have been processed in hardware"       *)
(* (HardwareDMAFifo::flush).                                               *)
THEOREM FlushLeavesIdle == Spec => []FlushedIsIdle
<1>1. LoopInv => FlushedIsIdle
  BY DEF LoopInv, FifoInv, Part, IdleInv, FlushedIsIdle
<1> QED
  BY <1>1, LoopInvariant, PTL
-----------------------------------------------------------------------------
(* The path as a channel.  The blocks of the reader are counted from the   *)
(* oldest it holds, around the ring to the last one it enqueued: first     *)
(* those that came back from the hardware, then those the hardware has.    *)
Place(n, head, count, k) ==
  IF Turn(n, head, count, k) > n THEN Turn(n, head, count, k) - n ELSE Turn(n, head, count, k)

(* Every block has one place in the count.                                 *)
LEMMA PlaceIsPlace ==
  ASSUME NEW n \in Nat, NEW head \in 1 .. n, NEW count \in 0 .. n, NEW k \in 1 .. n
  PROVE  /\ Place(n, head, count, k) \in 1 .. n
         /\ \A l \in 1 .. n : Place(n, head, count, k) = Place(n, head, count, l) => k = l
BY DEF Place, Turn

(* dequeue() leaves the count as it is, and takes the next block in it.    *)
LEMMA PlaceNext ==
  ASSUME NEW n \in Nat, NEW head \in 1 .. n, NEW count \in Nat, count < n
  PROVE  /\ \A k \in 1 .. n :
              Place(n, Following(n, head), count + 1, k) = Place(n, head, count, k)
         /\ Place(n, head, count, count + 1) = head
         /\ Following(n, head) \in 1 .. n
BY DEF Place, Turn, Following

(* enqueue() moves the oldest block to the end of the count.               *)
LEMMA PlaceTail ==
  ASSUME NEW n \in Nat, NEW head \in 1 .. n, NEW count \in 1 .. n
  PROVE  /\ \A k \in 1 .. n - 1 :
              Place(n, head, count - 1, k) = Place(n, head, count, k + 1)
         /\ Place(n, head, count - 1, n) = Place(n, head, count, 1)
         /\ \A k \in 1 .. count : Place(n, head, count, k) = Turn(n, head, count, k)
BY DEF Place, Turn

(* Around the ring once.                                                   *)
LEMMA Around ==
  ASSUME NEW n \in Nat \ {0}, NEW m \in Nat, m < 2 * n
  PROVE  m % n = IF m < n THEN m ELSE m - n
<1> DEFINE d == m \div n  r == m % n
<1>1. CASE m < n
  BY <1>1
<1>2. CASE m >= n
  <2>1. d \in Nat
    OBVIOUS
  <2>2. r \in 0 .. n - 1
    OBVIOUS
  <2>3. m = n * d + r
    OBVIOUS
  <2> HIDE DEF d, r
  <2>4. d # 0
    BY <1>2, <2>1, <2>2, <2>3
  <2>5. d < 2
    <3> SUFFICES ASSUME d >= 2 PROVE FALSE
      BY <2>1
    <3>1. n * d >= n * 2
      BY <2>1
    <3> QED
      BY <2>1, <2>2, <2>3, <3>1
  <2>6. d = 1
    BY <2>1, <2>4, <2>5
  <2>7. r = m - n
    BY <2>2, <2>3, <2>6
  <2> QED
    BY <1>2, <2>7 DEF r
<1> QED
  BY <1>1, <1>2

(* The blocks in turn are those of the count.                              *)
LEMMA InTurnIs ==
  ASSUME NEW n \in Nat, NEW head \in Nat, n = 0 \/ head \in 1 .. n,
         NEW h \in Seq(Nat), Len(h) <= n,
         \A k \in 1 .. Len(h) : h[k] = Turn(n, head, Len(h), k)
  PROVE  h \o [k \in 1 .. n - Len(h) |-> 1 + ((head + k - 2) % n)]
           = [t \in 1 .. n |-> Place(n, head, Len(h), t)]
<1> DEFINE c == Len(h)  g == [k \in 1 .. n - c |-> 1 + ((head + k - 2) % n)]
           p == [t \in 1 .. n |-> Place(n, head, c, t)]
<1>1. c \in 0 .. n
  OBVIOUS
<1> HIDE DEF c
<1>2. ASSUME NEW k \in 1 .. n - c
      PROVE  1 + ((head + k - 2) % n) = Place(n, head, c, c + k) /\ c + k \in 1 .. n
  <2>1. n # 0 /\ head \in 1 .. n /\ head + k - 2 < 2 * n /\ head + k - 2 \in Nat /\ c + k \in 1 .. n
    <3>1. n # 0 /\ c + k \in 1 .. n /\ k \in 1 .. n
      BY <1>1
    <3>2. head \in 1 .. n
      BY <3>1
    <3> QED
      BY <3>1, <3>2
  <2>2. (head + k - 2) % n = IF head + k - 2 < n THEN head + k - 2 ELSE head + k - 2 - n
    <3> DEFINE m == head + k - 2
    <3>1. m \in Nat /\ m < 2 * n /\ n \in Nat \ {0}
      BY <2>1
    <3> HIDE DEF m
    <3>2. m % n = IF m < n THEN m ELSE m - n
      BY <3>1, Around
    <3> QED
      BY <3>2 DEF m
  <2>3. Turn(n, head, c, c + k) = head + k - 1
    BY <1>1, <2>1 DEF Turn
  <2> QED
    BY <2>1, <2>2, <2>3 DEF Place
<1>3. ASSUME NEW t \in 1 .. n PROVE Place(n, head, c, t) \in Nat
  <2>1. head \in 1 .. n
    BY <1>3
  <2>2. Place(n, head, c, t) \in 1 .. n
    BY <1>1, <2>1, PlaceIsPlace
  <2> QED
    BY <2>2
<1>4. g \in Seq(Nat) /\ Len(g) = n - c /\ \A k \in 1 .. n - c : g[k] = Place(n, head, c, c + k)
  <2>1. \A k \in 1 .. n - c : g[k] = Place(n, head, c, c + k) /\ g[k] \in Nat
    BY <1>2, <1>3
  <2>2. g = [k \in 1 .. n - c |-> g[k]] /\ n - c \in Nat
    BY <1>1
  <2> HIDE DEF g
  <2> QED
    BY <2>1, <2>2, FromTo
<1> HIDE DEF g
<1> DEFINE s == h \o g
<1>5. s \in Seq(Nat) /\ Len(s) = n /\ \A t \in 1 .. n : s[t] = Place(n, head, c, t)
  <2>1. /\ s \in Seq(Nat) /\ Len(s) = c + (n - c) /\ \A t \in 1 .. c : s[t] = h[t]
        /\ \A k \in 1 .. n - c : s[c + k] = g[k]
    <3>1. g \in Seq(Nat) /\ Len(g) = n - c
      BY <1>4
    <3>2. Len(h) = c
      BY DEF c
    <3>3. /\ s \in Seq(Nat) /\ Len(s) = Len(h) + Len(g)
          /\ \A t \in 1 .. Len(h) + Len(g) : s[t] = IF t <= Len(h) THEN h[t] ELSE g[t - Len(h)]
      BY <3>1, ConcatProperties
    <3> HIDE DEF s
    <3>4. \A t \in 1 .. c : t \in 1 .. c + (n - c) /\ t <= c
      BY <1>1
    <3>5. \A k \in 1 .. n - c : /\ c + k \in 1 .. c + (n - c) /\ ~ c + k <= c
                                /\ (c + k) - c = k
      BY <1>1
    <3>6. Len(s) = c + (n - c)
      BY <3>1, <3>2, <3>3
    <3>7. \A t \in 1 .. c : s[t] = h[t]
      BY <3>1, <3>2, <3>3, <3>4
    <3>8. \A k \in 1 .. n - c : s[c + k] = g[k]
      BY <3>1, <3>2, <3>3, <3>5
    <3> QED
      BY <3>3, <3>6, <3>7, <3>8
  <2> HIDE DEF s
  <2>2. ASSUME NEW t \in 1 .. n PROVE s[t] = Place(n, head, c, t)
    <3>1. CASE t <= c
      <4>1. t \in 1 .. c /\ head \in 1 .. n
        BY <1>1, <3>1
      <4>2. s[t] = Turn(n, head, c, t)
        BY <2>1, <4>1 DEF c
      <4>3. ~ Turn(n, head, c, t) > n
        BY <1>1, <4>1 DEF Turn
      <4> QED
        BY <4>2, <4>3 DEF Place
    <3>2. CASE ~ t <= c
      <4>1. t - c \in 1 .. n - c /\ c + (t - c) = t
        BY <1>1, <3>2
      <4> QED
        BY <1>4, <2>1, <4>1
    <3> QED
      BY <3>1, <3>2
  <2>3. c + (n - c) = n
    BY <1>1
  <2> QED
    BY <2>1, <2>2, <2>3
<1>6. s = [t \in 1 .. n |-> s[t]]
  <2> HIDE DEF s
  <2> QED
    BY <1>5
<1> QED
  BY <1>5, <1>6 DEF c, g

(* Where the empty ones of some contents end.                              *)
LEMMA FullIs ==
  ASSUME NEW S, NEW s \in Seq(S), NEW lo \in 0 .. Len(s),
         \A k \in 1 .. Len(s) : s[k] # NoItem <=> lo < k
  PROVE  Full(s) = [j \in 1 .. Len(s) - lo |-> s[lo + j]]
<1> DEFINE m == Len(s)
<1>1. m \in Nat
  OBVIOUS
<1> HIDE DEF m
<1> DEFINE Ends(n) == (\A k \in 1 .. n : s[k] = NoItem) /\ (n < m => s[n + 1] # NoItem)
<1>2. lo \in 0 .. m /\ Ends(lo)
  BY <1>1 DEF m
<1>3. ASSUME NEW n \in 0 .. m, Ends(n) PROVE n = lo
  <2>1. ~ n < lo
    <3> SUFFICES ASSUME n < lo PROVE FALSE
      OBVIOUS
    <3>1. n + 1 \in 1 .. m /\ ~ lo < n + 1 /\ n < m
      BY <1>1, <1>2
    <3> QED
      BY <1>3, <3>1 DEF m
  <2>2. ~ lo < n
    <3> SUFFICES ASSUME lo < n PROVE FALSE
      OBVIOUS
    <3>1. lo + 1 \in 1 .. n /\ lo + 1 \in 1 .. m /\ lo < lo + 1
      BY <1>1, <1>2
    <3> QED
      BY <1>3, <3>1 DEF m
  <2> QED
    BY <1>2, <2>1, <2>2
<1>4. Empties(s) = CHOOSE n \in 0 .. m : Ends(n)
  BY DEF Empties, m
<1> HIDE DEF Ends
<1>5. Empties(s) = lo
  BY <1>2, <1>3, <1>4
<1>6. Full(s) = SubSeq(s, lo + 1, m)
  BY <1>5 DEF Full, m
<1> DEFINE l == m - lo  u == SubSeq(s, lo + 1, m)
<1>7. lo + 1 \in 1 .. m + 1 /\ l \in Nat /\ lo \in Nat
  BY <1>1, <1>2
<1>8. u = [j \in 1 .. l |-> s[lo + j]]
  <2> DEFINE a == lo + 1
  <2>1. a \in 1 .. m + 1 /\ m \in 0 .. m
    BY <1>1, <1>7
  <2>2. /\ SubSeq(s, a, m) \in Seq(S)
        /\ Len(SubSeq(s, a, m)) = IF a <= m THEN m - a + 1 ELSE 0
        /\ \A i \in 1 .. m - a + 1 : SubSeq(s, a, m)[i] = s[a + i - 1]
    <3> HIDE DEF a
    <3> QED
      BY <2>1, SubSeqProperties DEF m
  <2>3. Len(u) = l /\ \A j \in 1 .. l : a + j - 1 = lo + j /\ j \in 1 .. m - a + 1
    BY <1>7, <2>1, <2>2
  <2> HIDE DEF a
  <2>4. u \in Seq(S) /\ \A j \in 1 .. l : u[j] = s[lo + j]
    BY <2>2, <2>3 DEF a
  <2> HIDE DEF l, u
  <2>5. u = [j \in 1 .. l |-> u[j]]
    BY <2>3, <2>4
  <2> QED
    BY <2>4, <2>5
<1> QED
  BY <1>6, <1>8 DEF m

(* What the blocks at some indices hold.                                   *)
Read(b, indices) == [k \in DOMAIN indices |-> b[indices[k]].content]

(* The blocks of a ring in the count, and what those after lo hold.        *)
Ring(n, head, h) == h \o [k \in 1 .. n - Len(h) |-> 1 + ((head + k - 2) % n)]
Came(n, head, count, b, lo, to) ==
  [j \in 1 .. to - lo |-> b[Place(n, head, count, lo + j)].content]
InRing(n, head, h) == \A k \in 1 .. Len(h) : h[k] = Turn(n, head, Len(h), k)
HoldSome(n, head, count, b, S) == \A t \in 1 .. n : b[Place(n, head, count, t)].content \in S
HoldFrom(n, head, count, b, lo, to) ==
  \A t \in 1 .. n : b[Place(n, head, count, t)].content # NoItem <=> lo < t /\ t <= to

(* What is on its way to the reader, and what it has looked at: the blocks *)
(* from the first that is not empty to the last that came back, and to the *)
(* last it holds.                                                          *)
LEMMA ArrivedIs ==
  ASSUME NEW n \in Nat, NEW head \in Nat, n = 0 \/ head \in 1 .. n,
         NEW h \in Seq(Nat), Len(h) <= n, InRing(n, head, h),
         NEW to \in Nat, to <= n, Len(h) <= to, NEW lo \in 0 .. to, NEW b, NEW S,
         HoldSome(n, head, Len(h), b, S), HoldFrom(n, head, Len(h), b, lo, to)
  PROVE  /\ Full(Read(b, SubSeq(Ring(n, head, h), 1, to))) = Came(n, head, Len(h), b, lo, to)
         /\ Full(Read(b, h))
              = Came(n, head, Len(h), b, lo, IF lo < Len(h) THEN Len(h) ELSE lo)
<1> DEFINE c == Len(h)  p == [t \in 1 .. n |-> Place(n, head, c, t)]  q == SubSeq(p, 1, to)
           Item(t) == b[Place(n, head, c, t)].content
<1>1. c \in Nat /\ c <= n /\ c <= to
  OBVIOUS
<1>2. Ring(n, head, h) = p
  BY InTurnIs DEF Ring, InRing
<1>3. \A t \in 1 .. n : Item(t) \in S /\ (Item(t) # NoItem <=> lo < t /\ t <= to)
  BY DEF HoldSome, HoldFrom
<1>4. \A k \in 1 .. c : h[k] = Place(n, head, c, k)
  <2>1. ASSUME NEW k \in 1 .. c PROVE h[k] = Place(n, head, c, k)
    <3>1. c \in 1 .. n /\ head \in 1 .. n
      BY <1>1
    <3>2. h[k] = Turn(n, head, c, k)
      BY DEF InRing
    <3> HIDE DEF c
    <3> QED
      BY <3>1, <3>2, PlaceTail
  <2> QED
    BY <2>1
<1>5. q = [t \in 1 .. to |-> Place(n, head, c, t)]
  <2>1. p \in Seq(Nat) /\ Len(p) = n /\ \A t \in 1 .. n : p[t] = Place(n, head, c, t)
    <3>1. \A t \in 1 .. n : Place(n, head, c, t) \in Nat
      <4>1. ASSUME NEW t \in 1 .. n PROVE Place(n, head, c, t) \in 1 .. n
        <5>1. head \in 1 .. n /\ c \in 0 .. n
          BY <1>1
        <5> HIDE DEF c
        <5> QED
          BY <5>1, PlaceIsPlace
      <4> QED
        BY <4>1
    <3>2. \A t \in 1 .. n : p[t] = Place(n, head, c, t) /\ p[t] \in Nat
      BY <3>1
    <3>3. p = [t \in 1 .. n |-> p[t]]
      OBVIOUS
    <3> HIDE DEF p
    <3> QED
      BY <3>2, <3>3, FromTo
  <2> HIDE DEF p
  <2>2. /\ q \in Seq(Nat) /\ Len(q) = to /\ \A t \in 1 .. to : q[t] = p[t]
    BY <2>1
  <2> HIDE DEF q
  <2>3. q = [t \in 1 .. to |-> q[t]]
    BY <2>2
  <2>4. \A t \in 1 .. to : q[t] = Place(n, head, c, t)
    BY <2>1, <2>2
  <2> QED
    BY <2>3, <2>4
<1>6. ASSUME NEW s, NEW m \in 0 .. to, s = [t \in 1 .. m |-> Item(t)]
      PROVE  Full(s) = [j \in 1 .. (IF lo < m THEN m ELSE lo) - lo |-> Item(lo + j)]
  <2> DEFINE l == IF lo < m THEN lo ELSE m
  <2>1. \A t \in 1 .. m : t \in 1 .. n /\ s[t] = Item(t)
    BY <1>6
  <2>2. s = [t \in 1 .. m |-> s[t]] /\ \A t \in 1 .. m : s[t] \in S
    BY <1>3, <1>6, <2>1
  <2>3. s \in Seq(S) /\ Len(s) = m
    BY <2>2, FromTo
  <2>4. l \in 0 .. m /\ \A t \in 1 .. m : s[t] # NoItem <=> l < t
    <3>1. \A t \in 1 .. m : t <= to /\ (s[t] # NoItem <=> lo < t)
      <4> HIDE DEF Item
      <4> QED
        BY <1>3, <2>1
    <3> QED
      BY <3>1
  <2>5. Full(s) = [j \in 1 .. m - l |-> s[l + j]]
    <3> HIDE DEF l
    <3> QED
      BY <2>3, <2>4, FullIs
  <2> HIDE DEF Item
  <2>6. CASE lo < m
    <3>1. \A j \in 1 .. m - lo : s[lo + j] = Item(lo + j)
      BY <2>1, <2>6
    <3> QED
      BY <2>5, <2>6, <3>1
  <2>7. CASE ~ lo < m
    <3>1. 1 .. m - l = {} /\ 1 .. lo - lo = {}
      BY <2>7
    <3>2. m - l = m - m /\ (IF lo < m THEN m ELSE lo) - lo = lo - lo
      BY <2>7
    <3>3. 1 .. m - l = 1 .. (IF lo < m THEN m ELSE lo) - lo
      BY <3>1, <3>2
    <3>4. [j \in 1 .. m - l |-> s[l + j]]
            = [j \in 1 .. (IF lo < m THEN m ELSE lo) - lo |-> Item(lo + j)]
      BY <3>1, <3>3
    <3> QED
      BY <2>5, <3>4
  <2> QED
    BY <2>6, <2>7
<1>7. Read(b, q) = [t \in 1 .. to |-> Item(t)]
  BY <1>5 DEF Read
<1>8. Read(b, h) = [t \in 1 .. c |-> Item(t)]
  <2>1. DOMAIN h = 1 .. c
    OBVIOUS
  <2> QED
    BY <1>4, <2>1 DEF Read
<1>9. (IF lo < to THEN to ELSE lo) = to
  OBVIOUS
<1>10. Full(Read(b, q)) = [j \in 1 .. to - lo |-> Item(lo + j)]
  <2>1. to \in 0 .. to
    OBVIOUS
  <2> HIDE DEF Item, q
  <2>2. Full(Read(b, q)) = [j \in 1 .. (IF lo < to THEN to ELSE lo) - lo |-> Item(lo + j)]
    BY <1>6, <1>7, <2>1
  <2> QED
    BY <1>9, <2>2
<1>11. Full(Read(b, h)) = [j \in 1 .. (IF lo < c THEN c ELSE lo) - lo |-> Item(lo + j)]
  <2>1. c \in 0 .. to
    BY <1>1
  <2> HIDE DEF Item, c
  <2> QED
    BY <1>6, <1>8, <2>1
<1>12. /\ Came(n, head, c, b, lo, to) = [j \in 1 .. to - lo |-> Item(lo + j)]
       /\ Came(n, head, c, b, lo, IF lo < c THEN c ELSE lo)
            = [j \in 1 .. (IF lo < c THEN c ELSE lo) - lo |-> Item(lo + j)]
  BY DEF Came
<1> HIDE DEF q
<1> QED
  BY <1>2, <1>10, <1>11, <1>12 DEF q
-----------------------------------------------------------------------------
(* The reader's fifo.  Of its blocks, counted as above, the first Served   *)
(* are not with the hardware.                                              *)
Size == Len(blocks["r"])
Served == Size - Len(queued["r"])
Holds(t) == blocks["r"][Place(Size, blocks_head["r"], Len(held["r"]), t)].content

(* The items are in the blocks after lo, up to the last that came back.    *)
Since(lo) ==
  /\ lo \in 0 .. Served
  /\ \A t \in 1 .. Size : Holds(t) # NoItem <=> lo < t /\ t <= Served

(* The hardware has the last blocks of the count, in order, and those the  *)
(* client holds are not among them.                                        *)
RingInv ==
  /\ Size = 0 \/ blocks_head["r"] \in 1 .. Size
  /\ Len(held["r"]) + Len(queued["r"]) <= Size
  /\ \A k \in 1 .. Len(queued["r"]) :
       queued["r"][k] = Place(Size, blocks_head["r"], Len(held["r"]), Served + k)

(* Every block the writer filled or enqueued has an item.                  *)
GivenInv ==
  /\ filled <= Len(held["w"])
  /\ \A k \in 1 .. filled : blocks["w"][held["w"][k]].content \in 1 .. Items
  /\ \A k \in 1 .. Len(queued["w"]) : blocks["w"][queued["w"][k]].content \in 1 .. Items

(* A fifo has as many blocks as some reconfigure asked for, or none yet.   *)
SizeInv == \A f \in Fifos : Len(blocks[f]) \in BlockCounts \cup {0}

PathInv == LoopInv /\ SizeInv /\ RingInv /\ GivenInv /\ \E lo \in Nat : Since(lo)

(* The three sequences of the channel, block by block.                     *)
Arrived(lo, to) == [j \in 1 .. to - lo |-> Holds(lo + j)]
Given == [k \in 1 .. Len(queued["w"]) |-> blocks["w"][queued["w"][k]].content]
Staged == [k \in 1 .. filled |-> blocks["w"][held["w"][k]].content]
Looked(lo) == IF lo < Len(held["r"]) THEN Len(held["r"]) ELSE lo

(* The types of what they are made of.                                     *)
LEMMA PathTypes ==
  ASSUME LoopInv, RingInv, GivenInv
  PROVE  /\ FifoInv /\ Fifos = {"w", "r"} /\ "w" \in Fifos /\ "r" \in Fifos
         /\ Items \in Nat /\ NoItem \notin 1 .. Items
         /\ Size \in Nat /\ blocks["r"] \in Seq(BlockSet) /\ blocks["w"] \in Seq(BlockSet)
         /\ blocks_head["r"] \in Nat /\ held["r"] \in Seq(Nat) /\ queued["r"] \in Seq(Nat)
         /\ held["w"] \in Seq(Nat) /\ queued["w"] \in Seq(Nat) /\ filled \in Nat
         /\ Len(held["r"]) \in Nat /\ Len(queued["r"]) \in Nat /\ Len(held["w"]) \in Nat
         /\ Len(queued["w"]) \in Nat
         /\ Served \in Nat /\ Served <= Size /\ Len(held["r"]) <= Served
         /\ Size = 0 \/ blocks_head["r"] \in 1 .. Size
         /\ \A k \in 1 .. Len(held["r"]) :
              held["r"][k] = Turn(Size, blocks_head["r"], Len(held["r"]), k)
         /\ \A t \in 1 .. Size :
              /\ Place(Size, blocks_head["r"], Len(held["r"]), t) \in 1 .. Size
              /\ Holds(t) \in {NoItem} \cup 1 .. Items
<1>1. /\ FifoInv /\ Fifos = {"w", "r"} /\ Items \in Nat /\ NoItem \notin 1 .. Items
      /\ filled \in Nat
  BY LoopbackAssumption DEF LoopInv
<1>2. /\ "r" \in Fifos /\ "w" \in Fifos
  BY <1>1
<1>3. /\ Size \in Nat /\ blocks["r"] \in Seq(BlockSet) /\ blocks["w"] \in Seq(BlockSet)
      /\ blocks_head["r"] \in Nat /\ held["r"] \in Seq(Nat) /\ queued["r"] \in Seq(Nat)
      /\ held["w"] \in Seq(Nat) /\ queued["w"] \in Seq(Nat) /\ HeldInv("r")
  BY <1>1, <1>2, FifoTypes DEF Size
<1>4. /\ Len(held["r"]) \in Nat /\ Len(queued["r"]) \in Nat /\ Len(held["w"]) \in Nat
      /\ Len(queued["w"]) \in Nat
  BY <1>3
<1>5. Served \in Nat /\ Served <= Size /\ Len(held["r"]) <= Served
  <2> DEFINE c == Len(held["r"])  e == Len(queued["r"])
  <2>1. c + e <= Size /\ c \in Nat /\ e \in Nat /\ Size \in Nat /\ Served = Size - e
    BY <1>3, <1>4 DEF RingInv, Served
  <2> HIDE DEF c, e
  <2>2. Served \in Nat /\ Served <= Size /\ c <= Served
    BY <2>1
  <2> QED
    BY <2>2 DEF c
<1>6. \A k \in 1 .. Len(held["r"]) :
        held["r"][k] = Turn(Size, blocks_head["r"], Len(held["r"]), k)
  BY <1>3 DEF HeldInv, Size
<1>7. Size = 0 \/ blocks_head["r"] \in 1 .. Size
  BY DEF RingInv
<1>8. ASSUME NEW t \in 1 .. Size
      PROVE  /\ Place(Size, blocks_head["r"], Len(held["r"]), t) \in 1 .. Size
             /\ Holds(t) \in {NoItem} \cup 1 .. Items
  <2> DEFINE i == Place(Size, blocks_head["r"], Len(held["r"]), t)
  <2>1. Len(held["r"]) \in 0 .. Size /\ blocks_head["r"] \in 1 .. Size
    BY <1>3, <1>4, <1>5, <1>7
  <2>2. i \in 1 .. Size
    BY <1>3, <2>1, PlaceIsPlace
  <2> HIDE DEF i
  <2>3. blocks["r"][i] \in BlockSet
    BY <1>3, <2>2 DEF Size
  <2>4. blocks["r"][i].content \in {NoItem} \cup 1 .. Items
    BY <2>3 DEF BlockSet
  <2> QED
    BY <2>2, <2>4 DEF Holds, i
<1> QED
  BY <1>1, <1>2, <1>3, <1>4, <1>5, <1>6, <1>7, <1>8

LEMMA ContentsAre ==
  ASSUME LoopInv, RingInv, GivenInv, NEW lo \in Nat, Since(lo)
  PROVE  /\ InFlight = Arrived(lo, Served) \o Given
         /\ Contents("w", SubSeq(held["w"], 1, filled)) = Staged
         /\ Full(Contents("r", held["r"])) = Arrived(lo, Looked(lo))
<1> DEFINE n == Size  head == blocks_head["r"]  h == held["r"]  to == Served  b == blocks["r"]
           S == {NoItem} \cup 1 .. Items
<1>1. /\ n \in Nat /\ head \in Nat /\ (n = 0 \/ head \in 1 .. n) /\ h \in Seq(Nat)
      /\ Len(h) \in Nat /\ Len(h) <= n /\ to \in Nat /\ to <= n /\ Len(h) <= to /\ lo \in 0 .. to
      /\ InRing(n, head, h)
  BY PathTypes DEF Since, InRing
<1>2. HoldSome(n, head, Len(h), b, S) /\ HoldFrom(n, head, Len(h), b, lo, to)
  BY PathTypes DEF Since, Holds, HoldSome, HoldFrom
<1>3. /\ Contents("r", Finished("r"))
           = Read(b, SubSeq(Ring(n, head, h), 1, to))
      /\ Contents("r", held["r"]) = Read(b, h)
  BY DEF Contents, Finished, InTurn, Ring, Read, Size, Served
<1>4. /\ Arrived(lo, Served) = Came(n, head, Len(h), b, lo, to)
      /\ Arrived(lo, Looked(lo))
           = Came(n, head, Len(h), b, lo, IF lo < Len(h) THEN Len(h) ELSE lo)
  BY DEF Arrived, Looked, Holds, Came
<1>5. /\ Full(Contents("r", Finished("r"))) = Arrived(lo, Served)
      /\ Full(Contents("r", held["r"])) = Arrived(lo, Looked(lo))
  <2> HIDE DEF n, head, h, to, b, S
  <2>1. /\ Full(Read(b, SubSeq(Ring(n, head, h), 1, to))) = Came(n, head, Len(h), b, lo, to)
        /\ Full(Read(b, h))
             = Came(n, head, Len(h), b, lo, IF lo < Len(h) THEN Len(h) ELSE lo)
    BY <1>1, <1>2, ArrivedIs
  <2> QED
    BY <1>3, <1>4, <2>1
<1>6. Contents("w", queued["w"]) = Given
  <2>1. DOMAIN queued["w"] = 1 .. Len(queued["w"])
    BY PathTypes
  <2> QED
    BY <2>1 DEF Contents, Given
<1>7. Contents("w", SubSeq(held["w"], 1, filled)) = Staged
  <2> DEFINE s == held["w"]  u == SubSeq(s, 1, filled)
  <2>1. s \in Seq(Nat) /\ filled \in Nat /\ filled <= Len(s) /\ Len(s) \in Nat
    BY PathTypes DEF GivenInv
  <2> HIDE DEF s
  <2>2. DOMAIN u = 1 .. filled /\ \A k \in 1 .. filled : u[k] = s[k]
    BY <2>1
  <2> QED
    BY <2>2 DEF Contents, Staged, s
<1> QED
  BY <1>5, <1>6, <1>7 DEF InFlight

(* The same after a step: what holds in every state holds in the next.     *)
ContentsHold ==
  LoopInv /\ RingInv /\ GivenInv =>
    \A lo \in Nat : Since(lo) =>
      /\ InFlight = Arrived(lo, Served) \o Given
      /\ Contents("w", SubSeq(held["w"], 1, filled)) = Staged
      /\ Full(Contents("r", held["r"])) = Arrived(lo, Looked(lo))
TypesHold ==
  LoopInv /\ RingInv /\ GivenInv =>
    /\ Size \in Nat /\ Served \in Nat /\ Served <= Size /\ Len(held["r"]) \in Nat
    /\ Len(held["r"]) <= Served /\ Len(queued["w"]) \in Nat /\ filled \in Nat

LEMMA AlwaysHold == ContentsHold /\ TypesHold
<1>1. ContentsHold
  BY ContentsAre DEF ContentsHold
<1>2. TypesHold
  <2> SUFFICES ASSUME LoopInv, RingInv, GivenInv
               PROVE  /\ Size \in Nat /\ Served \in Nat /\ Served <= Size
                      /\ Len(held["r"]) \in Nat /\ Len(held["r"]) <= Served
                      /\ Len(queued["w"]) \in Nat /\ filled \in Nat
    BY DEF TypesHold
  <2> QED
    BY PathTypes
<1> QED
  BY <1>1, <1>2

LEMMA ThenHold == ContentsHold' /\ TypesHold'
BY AlwaysHold, PTL

LEMMA ContentsAfter ==
  ASSUME LoopInv', RingInv', GivenInv'
  PROVE  /\ \A lo \in Nat : Since(lo)' =>
              /\ InFlight' = Arrived(lo, Served)' \o Given'
              /\ Contents("w", SubSeq(held["w"], 1, filled))' = Staged'
              /\ Full(Contents("r", held["r"]))' = Arrived(lo, Looked(lo))'
         /\ Size' \in Nat /\ Served' \in Nat /\ Served' <= Size' /\ Len(held["r"])' \in Nat
         /\ Len(held["r"])' <= Served' /\ Len(queued["w"])' \in Nat /\ filled' \in Nat
BY ThenHold DEF ContentsHold, TypesHold

-----------------------------------------------------------------------------
(* Steps of the channel, in terms of its three sequences.                  *)
Prepared == Contents("w", SubSeq(held["w"], 1, filled))
Seen == Full(Contents("r", held["r"]))

LEMMA Stutters ==
  ASSUME UNCHANGED << InFlight, Prepared, Seen >>
  PROVE  UNCHANGED Channel!chanVars
BY DEF Channel!chanVars, Prepared, Seen

LEMMA Prepares ==
  ASSUME NEW v \in 1 .. Items, Len(InFlight) + Len(Prepared) < 2 * Max(BlockCounts),
         Prepared' = Append(Prepared, v), UNCHANGED << InFlight, Seen >>
  PROVE  Channel!Next
<1>1. Channel!Prepare("path", v)
  BY DEF Channel!Prepare, Prepared, Seen
<1> QED
  BY <1>1 DEF Channel!Next

LEMMA Commits ==
  ASSUME 1 \in 0 .. 2 * Max(BlockCounts), 1 <= Len(Prepared),
         InFlight' = InFlight \o SubSeq(Prepared, 1, 1),
         Prepared' = SubSeq(Prepared, 2, Len(Prepared)), UNCHANGED Seen
  PROVE  Channel!Next
<1>1. Channel!Commit("path", 1)
  <2>1. 1 + 1 = 2
    OBVIOUS
  <2> QED
    BY <2>1 DEF Channel!Commit, Prepared, Seen
<1> QED
  BY <1>1 DEF Channel!Next

LEMMA Looks ==
  ASSUME Len(Seen) < Len(InFlight), Seen' = Append(Seen, InFlight[Len(Seen) + 1]),
         UNCHANGED << InFlight, Prepared >>
  PROVE  Channel!Next
<1>1. Channel!Look("path")
  BY DEF Channel!Look, Prepared, Seen
<1> QED
  BY <1>1 DEF Channel!Next

LEMMA Consumes ==
  ASSUME 1 \in 0 .. 2 * Max(BlockCounts), 1 <= Len(InFlight),
         InFlight' = SubSeq(InFlight, 2, Len(InFlight)), Seen' = SubSeq(Seen, 2, Len(Seen)),
         UNCHANGED Prepared
  PROVE  Channel!Next
<1>1. Channel!Consume("path", 1)
  <2>1. 1 + 1 = 2
    OBVIOUS
  <2> QED
    BY <2>1 DEF Channel!Consume, Prepared, Seen
<1> QED
  BY <1>1 DEF Channel!Next
-----------------------------------------------------------------------------
(* What a step leaves alone.                                               *)
LEMMA ReaderAlone ==
  ASSUME RingInv, UNCHANGED << blocks["r"], blocks_head["r"], held["r"], queued["r"] >>
  PROVE  /\ RingInv'
         /\ \A lo \in Nat : /\ Since(lo) => Since(lo)'
                            /\ Arrived(lo, Served)' = Arrived(lo, Served)
                            /\ Arrived(lo, Looked(lo))' = Arrived(lo, Looked(lo))
<1>1. Size' = Size /\ Served' = Served
  BY DEF Size, Served
<1>2. \A t : Holds(t)' = Holds(t)
  BY <1>1 DEF Holds
<1>3. RingInv'
  BY <1>1 DEF RingInv
<1>4. ASSUME NEW lo \in Nat
      PROVE  /\ Since(lo) => Since(lo)'
             /\ Arrived(lo, Served)' = Arrived(lo, Served)
             /\ Arrived(lo, Looked(lo))' = Arrived(lo, Looked(lo))
  <2>1. Since(lo) => Since(lo)'
    BY <1>1, <1>2 DEF Since
  <2>2. Looked(lo)' = Looked(lo)
    BY DEF Looked
  <2>3. Arrived(lo, Served)' = Arrived(lo, Served)
    BY <1>1, <1>2 DEF Arrived
  <2>4. Arrived(lo, Looked(lo))' = Arrived(lo, Looked(lo))
    BY <1>2, <2>2 DEF Arrived
  <2> QED
    BY <2>1, <2>3, <2>4
<1> QED
  BY <1>3, <1>4

(* The blocks of the writer are its own or the driver's.                   *)
LEMMA WriterPlaces ==
  ASSUME LoopInv, GivenInv
  PROVE  /\ Indices("w") = 1 .. Len(blocks["w"]) /\ Len(blocks["w"]) \in Nat
         /\ \A k \in 1 .. Len(held["w"]) :
              held["w"][k] \in Indices("w") /\ held["w"][k] \notin ToSet(queued["w"])
         /\ \A k \in 1 .. filled : k \in 1 .. Len(held["w"])
         /\ \A k \in 1 .. Len(queued["w"]) :
              queued["w"][k] \in Indices("w") /\ queued["w"][k] \in ToSet(queued["w"])
<1>1. /\ FifoInv /\ "w" \in Fifos /\ filled \in Nat /\ filled <= Len(held["w"])
      /\ Len(held["w"]) \in Nat /\ queued["w"] \in Seq(Nat) /\ Len(blocks["w"]) \in Nat
  BY LoopbackAssumption, FifoTypes DEF LoopInv, GivenInv
<1>2. OwnerInv("w")
  BY <1>1, FifoTypes
<1>3. \A k \in 1 .. filled : k \in 1 .. Len(held["w"])
  BY <1>1
<1>4. DOMAIN queued["w"] = 1 .. Len(queued["w"])
  BY <1>1
<1>5. \A k \in 1 .. Len(queued["w"]) : queued["w"][k] \in ToSet(queued["w"])
  BY <1>4 DEF ToSet
<1>6. \A k \in 1 .. Len(queued["w"]) : queued["w"][k] \in Indices("w")
  BY <1>2, <1>5 DEF OwnerInv, Owned
<1>7. \A k \in 1 .. Len(held["w"]) :
        held["w"][k] \in Indices("w") /\ held["w"][k] \notin ToSet(queued["w"])
  BY <1>1, <1>2, HeldIsPlace DEF OwnerInv, Owned
<1> QED
  BY <1>1, <1>3, <1>5, <1>6, <1>7 DEF Indices

LEMMA WriterAlone ==
  ASSUME LoopInv, GivenInv, filled' = filled, filled <= Len(held'["w"]),
         \A k \in 1 .. filled : held'["w"][k] = held["w"][k], queued'["w"] = queued["w"],
         \A i \in Indices("w") : blocks'["w"][i].content = blocks["w"][i].content
  PROVE  GivenInv' /\ Given' = Given /\ Staged' = Staged
<1>1. \A k \in 1 .. filled :
        blocks'["w"][held'["w"][k]].content = blocks["w"][held["w"][k]].content
  BY WriterPlaces
<1>2. \A k \in 1 .. Len(queued["w"]) :
        blocks'["w"][queued'["w"][k]].content = blocks["w"][queued["w"][k]].content
  BY WriterPlaces
<1>3. Given' = Given
  BY <1>2 DEF Given
<1>4. Staged' = Staged
  BY <1>1 DEF Staged
<1>5. GivenInv'
  BY <1>1, <1>2 DEF GivenInv
<1> QED
  BY <1>3, <1>4, <1>5

(* A step that changes none of the three sequences.                        *)
LEMMA PathStutters ==
  ASSUME PathInv, LoopInv', RingInv', GivenInv', NEW lo \in Nat, Since(lo),
         NEW after \in Nat, Since(after)',
         Arrived(after, Served)' = Arrived(lo, Served),
         Arrived(after, Looked(after))' = Arrived(lo, Looked(lo)),
         Given' = Given, Staged' = Staged
  PROVE  UNCHANGED Channel!chanVars
<1>1. /\ InFlight = Arrived(lo, Served) \o Given /\ Prepared = Staged
      /\ Seen = Arrived(lo, Looked(lo))
  BY ContentsAre DEF PathInv, Prepared, Seen
<1>2. /\ InFlight' = Arrived(after, Served)' \o Given' /\ Prepared' = Staged'
      /\ Seen' = Arrived(after, Looked(after))'
  BY ContentsAfter DEF Prepared, Seen
<1> QED
  BY <1>1, <1>2, Stutters

(* dequeue and flush change no content.                                    *)
LEMMA HeadContent ==
  ASSUME FifoInv, NEW f \in Fifos, ready[f], TakeHead(f)
  PROVE  \A j \in Indices(f) : blocks'[f][j].content = blocks[f][j].content
<1> DEFINE i == blocks_head[f]  s == blocks[f]  b == [s[i] EXCEPT !.state = FALSE]
           t == [s EXCEPT ![i] = b]
<1>1. i \in Indices(f) /\ s \in Seq(BlockSet) /\ Indices(f) = 1 .. Len(s)
  BY FifoTypes DEF HeldInv, Indices
<1>2. blocks' = blocks \/ blocks' = [blocks EXCEPT ![f] = t]
  BY DEF TakeHead, DriverReturns
<1>3. b \in BlockSet /\ b.content = s[i].content
  <2>1. s[i] \in BlockSet
    BY <1>1
  <2> QED
    BY <2>1 DEF BlockSet
<1>4. t[i] = b /\ \A j \in Indices(f) : j # i => t[j] = s[j]
  <2> HIDE DEF b, s, i
  <2> QED
    BY <1>1, <1>3, PutBlock
<1>5. blocks' = blocks \/ blocks'[f] = t
  <2> HIDE DEF t
  <2> QED
    BY <1>2 DEF FifoInv, TypeInv
<1> HIDE DEF t, b
<1> QED
  BY <1>3, <1>4, <1>5
-----------------------------------------------------------------------------
(* The steps of the writer that are none of the channel.                   *)
LEMMA WriterSide ==
  ASSUME PathInv, LoopInv', SizeInv',
         UNCHANGED << blocks["r"], blocks_head["r"], held["r"], queued["r"] >>,
         filled' = filled, filled <= Len(held'["w"]),
         \A k \in 1 .. filled : held'["w"][k] = held["w"][k], queued'["w"] = queued["w"],
         \A i \in Indices("w") : blocks'["w"][i].content = blocks["w"][i].content
  PROVE  PathInv' /\ UNCHANGED Channel!chanVars
<1>1. PICK lo \in Nat : Since(lo)
  BY DEF PathInv
<1>2. /\ RingInv' /\ Since(lo)' /\ Arrived(lo, Served)' = Arrived(lo, Served)
      /\ Arrived(lo, Looked(lo))' = Arrived(lo, Looked(lo))
  BY <1>1, ReaderAlone DEF PathInv
<1>3. GivenInv' /\ Given' = Given /\ Staged' = Staged
  BY WriterAlone DEF PathInv
<1>4. UNCHANGED Channel!chanVars
  BY <1>1, <1>2, <1>3, PathStutters
<1> QED
  BY <1>2, <1>3, <1>4 DEF PathInv

LEMMA WriterTakesPath ==
  ASSUME PathInv, LoopInv', WriterTakes
  PROVE  PathInv' /\ UNCHANGED Channel!chanVars
<1>1. /\ FifoInv /\ "w" \in Fifos /\ "r" \in Fifos /\ Fifos = {"w", "r"}
      /\ held["w"] \in Seq(Nat) /\ Len(held["w"]) \in Nat /\ held["w"] = held["w"]
      /\ filled \in Nat /\ filled <= Len(held["w"])
  BY PathTypes DEF PathInv, GivenInv
<1>2. /\ ready["w"] /\ TakeHead("w") /\ UNCHANGED << queued, filled >>
      /\ held' = [held EXCEPT !["w"] = Append(held["w"], blocks_head["w"])]
  BY DEF WriterTakes, dequeue
<1>3. /\ UNCHANGED << blocks["r"], blocks_head["r"] >> /\ Len(blocks'["w"]) = Len(blocks["w"])
      /\ blocks_head["w"] \in Indices("w")
      /\ \A i \in Indices("w") : blocks'["w"][i].content = blocks["w"][i].content
  BY <1>1, <1>2, HeadTaken, HeadContent
<1>4. held'["r"] = held["r"] /\ held'["w"] = Append(held["w"], blocks_head["w"])
  BY <1>1, <1>2 DEF FifoInv, TypeInv
<1>5. SizeInv'
  BY <1>1, <1>3 DEF PathInv, SizeInv
<1>6. filled <= Len(held'["w"]) /\ \A k \in 1 .. filled : held'["w"][k] = held["w"][k]
  <2> DEFINE s == held["w"]  i == blocks_head["w"]
  <2>1. s \in Seq(Nat) /\ i \in Nat
    BY <1>1, <1>3, FifoTypes
  <2> HIDE DEF s, i
  <2>2. Len(Append(s, i)) = Len(s) + 1 /\ \A k \in 1 .. Len(s) : Append(s, i)[k] = s[k]
    BY <2>1
  <2>3. Len(s) \in Nat /\ filled <= Len(s) /\ filled <= Len(s) + 1
    BY <1>1 DEF s
  <2>4. \A k \in 1 .. filled : k \in 1 .. Len(s)
    BY <1>1, <2>3
  <2> QED
    BY <1>4, <2>2, <2>3, <2>4 DEF s, i
<1> QED
  BY <1>2, <1>3, <1>4, <1>5, <1>6, WriterSide

LEMMA WriterFlushesPath ==
  ASSUME PathInv, LoopInv', WriterFlushes
  PROVE  PathInv' /\ UNCHANGED Channel!chanVars
<1>1. /\ FifoInv /\ "w" \in Fifos /\ "r" \in Fifos /\ Fifos = {"w", "r"}
      /\ filled \in Nat /\ filled <= Len(held["w"])
  BY PathTypes DEF PathInv, GivenInv
<1>2. UNCHANGED << queued, filled, held >>
  BY DEF WriterFlushes, CallFlush, Flush, FlushThrows, driverVars
<1>3. /\ UNCHANGED << blocks["r"], blocks_head["r"] >> /\ Len(blocks'["w"]) = Len(blocks["w"])
      /\ \A i \in Indices("w") : blocks'["w"][i].content = blocks["w"][i].content
  <2>1. CASE CallFlush("w") \/ FlushThrows("w")
    BY <2>1 DEF CallFlush, FlushThrows
  <2>2. CASE Flush("w")
    <3>1. ready["w"] /\ TakeHead("w")
      BY <1>1, <2>2, FifoTypes DEF Flush, HeldInv
    <3> QED
      BY <1>1, <3>1, HeadTaken, HeadContent
  <2> QED
    BY <2>1, <2>2 DEF WriterFlushes
<1>4. SizeInv'
  BY <1>1, <1>3 DEF PathInv, SizeInv
<1> QED
  BY <1>1, <1>2, <1>3, <1>4, WriterSide
-----------------------------------------------------------------------------
(* What the three sequences are made of.                                   *)
LEMMA SequencesAre ==
  ASSUME LoopInv, RingInv, GivenInv, NEW lo \in Nat, Since(lo)
  PROVE  /\ lo <= Served /\ Looked(lo) \in Nat /\ lo <= Looked(lo) /\ Looked(lo) <= Served
         /\ Arrived(lo, Served) \in Seq(1 .. Items) /\ Len(Arrived(lo, Served)) = Served - lo
         /\ Arrived(lo, Looked(lo)) \in Seq(1 .. Items)
         /\ Len(Arrived(lo, Looked(lo))) = Looked(lo) - lo
         /\ \A j \in 1 .. Served - lo : Arrived(lo, Served)[j] = Holds(lo + j)
         /\ \A j \in 1 .. Looked(lo) - lo : Arrived(lo, Looked(lo))[j] = Holds(lo + j)
         /\ Given \in Seq(1 .. Items) /\ Len(Given) = Len(queued["w"])
         /\ Staged \in Seq(1 .. Items) /\ Len(Staged) = filled
<1>1. /\ lo \in 0 .. Served /\ Served \in Nat /\ Served <= Size /\ Size \in Nat
      /\ Len(held["r"]) \in Nat /\ Len(held["r"]) <= Served
      /\ Len(queued["w"]) \in Nat /\ filled \in Nat
  BY PathTypes DEF Since
<1>2. Looked(lo) \in Nat /\ lo <= Looked(lo) /\ Looked(lo) <= Served /\ lo <= Served
  BY <1>1 DEF Looked
<1>3. \A t \in 1 .. Size : lo < t /\ t <= Served => Holds(t) \in 1 .. Items
  BY PathTypes DEF Since
<1>4. ASSUME NEW to \in Nat, to <= Served, lo <= to
      PROVE  /\ Arrived(lo, to) \in Seq(1 .. Items) /\ Len(Arrived(lo, to)) = to - lo
             /\ \A j \in 1 .. to - lo : Arrived(lo, to)[j] = Holds(lo + j)
  <2> DEFINE s == Arrived(lo, to)  n == to - lo
  <2>1. n \in Nat
    BY <1>4
  <2>2. s = [j \in 1 .. n |-> Holds(lo + j)]
    BY DEF Arrived
  <2>3. \A j \in 1 .. n : lo + j \in 1 .. Size /\ lo < lo + j /\ lo + j <= Served
    BY <1>1, <1>4
  <2> HIDE DEF s, n
  <2>4. s = [j \in 1 .. n |-> s[j]] /\ \A j \in 1 .. n : s[j] = Holds(lo + j)
    BY <2>2
  <2>5. \A j \in 1 .. n : s[j] \in 1 .. Items
    BY <1>3, <2>3, <2>4
  <2>6. s \in Seq(1 .. Items) /\ Len(s) = n
    BY <2>1, <2>4, <2>5, FromTo
  <2> QED
    BY <2>4, <2>6 DEF s, n
<1>5. Given \in Seq(1 .. Items) /\ Len(Given) = Len(queued["w"])
  <2> DEFINE n == Len(queued["w"])
  <2>1. Given = [k \in 1 .. n |-> Given[k]] /\ \A k \in 1 .. n : Given[k] \in 1 .. Items
    BY DEF Given, GivenInv
  <2> QED
    BY <1>1, <2>1, FromTo
<1>6. Staged \in Seq(1 .. Items) /\ Len(Staged) = filled
  <2>1. Staged = [k \in 1 .. filled |-> Staged[k]]
        /\ \A k \in 1 .. filled : Staged[k] \in 1 .. Items
    BY DEF Staged, GivenInv
  <2> QED
    BY <1>1, <2>1, FromTo
<1>7. /\ Arrived(lo, Served) \in Seq(1 .. Items) /\ Len(Arrived(lo, Served)) = Served - lo
      /\ \A j \in 1 .. Served - lo : Arrived(lo, Served)[j] = Holds(lo + j)
  <2>1. Served <= Served
    BY <1>1
  <2> QED
    BY <1>1, <1>2, <1>4, <2>1
<1>8. /\ Arrived(lo, Looked(lo)) \in Seq(1 .. Items)
      /\ Len(Arrived(lo, Looked(lo))) = Looked(lo) - lo
      /\ \A j \in 1 .. Looked(lo) - lo : Arrived(lo, Looked(lo))[j] = Holds(lo + j)
  BY <1>2, <1>4
<1> QED
  BY <1>2, <1>5, <1>6, <1>7, <1>8

(* While nothing is on its way every block of the reader is empty.         *)
LEMMA QuietIs ==
  ASSUME LoopInv, RingInv, GivenInv, NEW lo \in Nat, Since(lo), Quiet
  PROVE  /\ lo = Served /\ queued["w"] = << >> /\ filled = 0
         /\ \A t \in 1 .. Size : Holds(t) = NoItem
<1> DEFINE a == Arrived(lo, Served)  g == Given
<1>1. a \o g = << >> /\ filled = 0
  BY ContentsAre DEF Quiet
<1>2. /\ a \in Seq(1 .. Items) /\ g \in Seq(1 .. Items) /\ Len(a) = Served - lo
      /\ Len(g) = Len(queued["w"]) /\ lo <= Served
  BY SequencesAre
<1> HIDE DEF a, g
<1>3. Len(a) = 0 /\ Len(g) = 0
  <2>1. Len(a \o g) = Len(a) + Len(g) /\ Len(a) \in Nat /\ Len(g) \in Nat
    BY <1>2
  <2>2. Len(a \o g) = 0
    BY <1>1
  <2> QED
    BY <2>1, <2>2
<1>4. lo = Served
  <2>1. Served \in Nat /\ Served - lo = 0
    BY <1>2, <1>3, PathTypes
  <2> QED
    BY <2>1
<1>5. queued["w"] = << >>
  <2>1. queued["w"] \in Seq(Nat) /\ Len(queued["w"]) = 0
    BY <1>2, <1>3, PathTypes
  <2> QED
    BY <2>1
<1>6. \A t \in 1 .. Size : Holds(t) = NoItem
  <2>1. \A t \in 1 .. Size : ~ (lo < t /\ t <= Served)
    BY <1>4, PathTypes
  <2> QED
    BY <2>1 DEF Since
<1> QED
  BY <1>1, <1>4, <1>5, <1>6

(* A sequence of nothing.                                                  *)
LEMMA NothingIn ==
  ASSUME NEW n, n = 0, NEW t, t = [j \in 1 .. n |-> t[j]]
  PROVE  t = << >>
<1>1. t = [j \in 1 .. 0 |-> t[j]] /\ (\A j \in 1 .. 0 : t[j] \in {}) /\ 0 \in Nat
  OBVIOUS
<1>2. t \in Seq({}) /\ Len(t) = 0
  BY <1>1, FromTo
<1> QED
  BY <1>2

(* What reconfigure and dispose do to the blocks of one fifo: they are new *)
(* and empty, or those there were.                                         *)
LEMMA Reconfigured ==
  ASSUME FifoInv, NEW f \in Fifos, Reconfigures(f)
  PROVE  /\ Quiet /\ held[f] = << >> /\ held' = held /\ filled' = filled
         /\ \A o \in Fifos : o # f => UNCHANGED << blocks[o], blocks_head[o], queued[o] >>
         /\ \/ /\ queued'[f] = << >> /\ blocks_head'[f] = 1
               /\ Len(blocks'[f]) \in BlockCounts
               /\ \A i \in 1 .. Len(blocks'[f]) : blocks'[f][i].content = NoItem
            \/ /\ Len(blocks'[f]) = Len(blocks[f]) /\ blocks_head'[f] = blocks_head[f]
               /\ \A i \in Indices(f) : blocks'[f][i].content = blocks[f][i].content
               /\ queued'[f] = << >> \/ queued'[f] = queued[f]
<1> DEFINE New(n, new) == /\ n \in BlockCounts /\ blocks' = [blocks EXCEPT ![f] = new]
                          /\ new = [i \in 1 .. n |-> new[i]]
                          /\ \A i \in 1 .. n : new[i].content = NoItem
                          /\ DriverForgets(f) /\ Rewind(f)
<1>1. Quiet /\ held[f] = << >> /\ held' = held /\ filled' = filled
  BY DEF Reconfigures, Reconfigure, ReconfigureRing, ReconfigureFails, ReconfigureRefused,
         dispose, MayReconfigure
<1>2. \A d, s : Block(d, s).content = NoItem
  BY DEF Block
<1>3. ASSUME NEW n, NEW new, New(n, new)
      PROVE  /\ queued'[f] = << >> /\ blocks_head'[f] = 1
             /\ Len(blocks'[f]) \in BlockCounts
             /\ \A i \in 1 .. Len(blocks'[f]) : blocks'[f][i].content = NoItem
             /\ \A o \in Fifos : o # f => UNCHANGED << blocks[o], blocks_head[o], queued[o] >>
  <2>1. n \in Nat
    BY <1>3, FifoAssumption
  <2>2. Len(new) = n
    <3> DEFINE S == {new[i] : i \in 1 .. n}
    <3>1. \A i \in 1 .. n : new[i] \in S
      OBVIOUS
    <3> HIDE DEF S
    <3> QED
      BY <1>3, <2>1, <3>1, FromTo
  <2>3. /\ blocks'[f] = new /\ queued'[f] = << >> /\ blocks_head'[f] = 1
        /\ \A o \in Fifos : o # f => UNCHANGED << blocks[o], blocks_head[o], queued[o] >>
    BY <1>3 DEF FifoInv, TypeInv, DriverForgets, Rewind
  <2> QED
    BY <1>3, <2>2, <2>3
<1>4. ASSUME NEW n \in BlockCounts, Reconfigure(f, n)
      PROVE  New(n, [i \in 1 .. n |-> Block(TRUE, FALSE)])
  BY <1>2, <1>4 DEF Reconfigure
<1>5. ASSUME NEW n \in BlockCounts, ReconfigureRing(f, n)
      PROVE  New(n, Resized(f, n))
  <2>1. Resized(f, n) = [i \in 1 .. n |-> Resized(f, n)[i]]
        /\ \A i \in 1 .. n : Resized(f, n)[i].content = NoItem
    BY <1>2 DEF Resized
  <2> QED
    BY <1>5, <2>1 DEF ReconfigureRing
<1>6. ASSUME NEW n \in BlockCounts, NEW k \in 1 .. n, ReconfigureFails(f, n, k)
      PROVE  \E new : New(n, new)
  <2> DEFINE new == [i \in 1 .. n |-> IF i < k THEN Block(FALSE, FALSE) ELSE Resized(f, n)[i]]
  <2>1. \A i \in 1 .. n : Resized(f, n)[i].content = NoItem
    BY <1>2 DEF Resized
  <2>2. \A i \in 1 .. n : new[i].content = NoItem
    BY <1>2, <2>1
  <2>3. New(n, new)
    BY <1>6, <2>2 DEF ReconfigureFails
  <2> QED
    BY <2>3
<1>7. ASSUME ReconfigureRefused(f) \/ dispose(f)
      PROVE  /\ Len(blocks'[f]) = Len(blocks[f]) /\ blocks_head'[f] = blocks_head[f]
             /\ \A i \in Indices(f) : blocks'[f][i].content = blocks[f][i].content
             /\ queued'[f] = << >> \/ queued'[f] = queued[f]
             /\ \A o \in Fifos : o # f => UNCHANGED << blocks[o], blocks_head[o], queued[o] >>
  <2>1. /\ blocks' = [blocks EXCEPT ![f] = Unmapped(f)] /\ blocks_head' = blocks_head
        /\ queued' = queued \/ queued' = [queued EXCEPT ![f] = << >>]
    BY <1>7 DEF ReconfigureRefused, dispose, DriverForgets
  <2>2. /\ blocks'[f] = Unmapped(f) /\ (queued'[f] = << >> \/ queued'[f] = queued[f])
        /\ \A o \in Fifos : o # f => UNCHANGED << blocks[o], blocks_head[o], queued[o] >>
    BY <2>1 DEF FifoInv, TypeInv
  <2>3. \A i \in Indices(f) : Unmapped(f)[i].content = blocks[f][i].content
    <3>1. ASSUME NEW i \in Indices(f) PROVE Unmapped(f)[i].content = blocks[f][i].content
      <4>1. blocks[f][i] \in BlockSet
        BY FifoTypes DEF Indices
      <4> QED
        BY <4>1 DEF Unmapped, BlockSet
    <3> QED
      BY <3>1
  <2> QED
    BY <2>1, <2>2, <2>3, UnmappedBlocks
<1> HIDE DEF New
<1>8. CASE \E n \in BlockCounts : \/ Reconfigure(f, n) \/ ReconfigureRing(f, n)
                                  \/ \E k \in 1 .. n : ReconfigureFails(f, n, k)
  <2>1. \E n, new : New(n, new)
    BY <1>4, <1>5, <1>6, <1>8
  <2> QED
    BY <1>1, <1>3, <2>1
<1> QED
  BY <1>1, <1>7, <1>8 DEF Reconfigures
LEMMA SizesKept ==
  ASSUME PathInv, NEW f \in Fifos, Reconfigures(f)
  PROVE  SizeInv'
<1> SUFFICES ASSUME NEW o \in Fifos PROVE Len(blocks'[o]) \in BlockCounts \cup {0}
  BY DEF SizeInv
<1>1. FifoInv /\ Len(blocks[o]) \in BlockCounts \cup {0}
  BY DEF PathInv, SizeInv, LoopInv
<1>2. CASE o # f
  BY <1>1, <1>2, Reconfigured
<1>3. CASE o = f
  BY <1>1, <1>3, Reconfigured
<1> QED
  BY <1>2, <1>3

(* The writer's fifo is reconfigured while it has nothing to send.         *)
LEMMA WriterReconfiguredPath ==
  ASSUME PathInv, LoopInv', Reconfigures("w")
  PROVE  PathInv' /\ UNCHANGED Channel!chanVars
<1>1. FifoInv /\ "w" \in Fifos /\ "r" \in Fifos /\ Len(held["w"]) \in Nat
  BY PathTypes DEF PathInv
<1>2. PICK lo \in Nat : Since(lo)
  BY DEF PathInv
<1>3. /\ Quiet /\ held' = held /\ filled' = filled
      /\ UNCHANGED << blocks["r"], blocks_head["r"], queued["r"] >>
      /\ queued'["w"] = << >> \/ queued'["w"] = queued["w"]
  BY <1>1, Reconfigured
<1>4. queued["w"] = << >> /\ queued'["w"] = << >> /\ filled = 0 /\ filled' = 0
  BY <1>2, <1>3, QuietIs DEF PathInv
<1>5. Len(queued["w"]) = 0 /\ Len(queued'["w"]) = 0
  BY <1>4
<1>6. Given = << >> /\ Given' = << >>
  <2>1. /\ Given = [k \in 1 .. Len(queued["w"]) |-> Given[k]]
        /\ Given' = [k \in 1 .. Len(queued'["w"]) |-> Given'[k]]
    BY DEF Given
  <2> QED
    BY <1>5, <2>1, NothingIn
<1>7. Staged = << >> /\ Staged' = << >>
  <2>1. /\ Staged = [k \in 1 .. filled |-> Staged[k]]
        /\ Staged' = [k \in 1 .. filled' |-> Staged'[k]]
    BY DEF Staged
  <2> QED
    BY <1>4, <2>1, NothingIn
<1>8. GivenInv'
  BY <1>1, <1>3, <1>4, <1>5 DEF GivenInv
<1>9. /\ RingInv' /\ Since(lo)' /\ Arrived(lo, Served)' = Arrived(lo, Served)
      /\ Arrived(lo, Looked(lo))' = Arrived(lo, Looked(lo))
  <2>1. held'["r"] = held["r"]
    BY <1>3
  <2> QED
    BY <1>2, <1>3, <2>1, ReaderAlone DEF PathInv
<1>10. UNCHANGED Channel!chanVars
  BY <1>2, <1>6, <1>7, <1>8, <1>9, PathStutters
<1> QED
  BY <1>1, <1>8, <1>9, <1>10, SizesKept DEF PathInv

(* The reader's fifo is reconfigured while nothing is on its way.          *)
LEMMA ReaderReconfiguredPath ==
  ASSUME PathInv, LoopInv', Reconfigures("r")
  PROVE  PathInv' /\ UNCHANGED Channel!chanVars
<1>1. /\ FifoInv /\ "w" \in Fifos /\ "r" \in Fifos /\ Size \in Nat /\ Served \in Nat
      /\ Len(queued["r"]) \in Nat /\ filled \in Nat /\ filled <= Len(held["w"])
      /\ blocks["r"] \in Seq(BlockSet)
  BY PathTypes DEF PathInv, GivenInv
<1>2. PICK lo \in Nat : Since(lo)
  BY DEF PathInv
<1>3. /\ Quiet /\ held["r"] = << >> /\ held' = held /\ filled' = filled
      /\ UNCHANGED << blocks["w"], queued["w"] >>
  BY <1>1, Reconfigured
<1>4. lo = Served /\ \A t \in 1 .. Size : Holds(t) = NoItem
  BY <1>2, <1>3, QuietIs DEF PathInv
<1>5. Len(held["r"]) = 0 /\ Len(held'["r"]) = 0
  BY <1>3
<1>6. /\ RingInv' /\ Size' \in Nat /\ Served' \in Nat
      /\ \A t \in 1 .. Size' : Holds(t)' = NoItem
  <2>1. CASE /\ queued'["r"] = << >> /\ blocks_head'["r"] = 1 /\ Len(blocks'["r"]) \in BlockCounts
             /\ \A i \in 1 .. Len(blocks'["r"]) : blocks'["r"][i].content = NoItem
    <3>1. Len(queued'["r"]) = 0 /\ Size' \in Nat \ {0} /\ Served' = Size' /\ 1 \in 1 .. Size'
      <4>1. Len(queued'["r"]) = 0
        BY <2>1
      <4>2. Size' \in Nat \ {0}
        BY <2>1, FifoAssumption DEF Size
      <4>3. Served' = Size' - Len(queued'["r"])
        BY DEF Served
      <4>4. 1 \in 1 .. Size' /\ Size' - 0 = Size'
        <5>1. \A x \in Nat \ {0} : 1 \in 1 .. x /\ x - 0 = x
          OBVIOUS
        <5> QED
          BY <4>2, <5>1
      <4> QED
        BY <4>1, <4>2, <4>3, <4>4
    <3>2. RingInv'
      BY <1>5, <2>1, <3>1 DEF RingInv
    <3>3. ASSUME NEW t \in 1 .. Size' PROVE Holds(t)' = NoItem
      <4> DEFINE i == Place(Size', 1, 0, t)
      <4>1. i \in 1 .. Size'
        <5>1. 0 \in 0 .. Size'
          BY <3>1
        <5> QED
          BY <3>1, <5>1, PlaceIsPlace
      <4>2. Holds(t)' = blocks'["r"][i].content
        BY <1>5, <2>1 DEF Holds
      <4> HIDE DEF i
      <4> QED
        BY <2>1, <4>1, <4>2 DEF Size
    <3> QED
      BY <3>1, <3>2, <3>3
  <2>2. CASE /\ Len(blocks'["r"]) = Len(blocks["r"]) /\ blocks_head'["r"] = blocks_head["r"]
             /\ \A i \in Indices("r") : blocks'["r"][i].content = blocks["r"][i].content
             /\ queued'["r"] = << >> \/ queued'["r"] = queued["r"]
    <3>1. Size' = Size
      BY <2>2 DEF Size
    <3>2. \A t \in 1 .. Size : Holds(t)' = Holds(t)
      <4>1. \A t \in 1 .. Size :
              Place(Size, blocks_head["r"], Len(held["r"]), t) \in Indices("r")
        BY PathTypes DEF PathInv, Indices, Size
      <4> QED
        BY <1>3, <2>2, <3>1, <4>1 DEF Holds
    <3>3. CASE queued'["r"] = queued["r"]
      <4>1. Served' = Served
        BY <3>1, <3>3 DEF Served
      <4>2. RingInv'
        BY <1>3, <2>2, <3>1, <3>3, <4>1 DEF PathInv, RingInv
      <4> QED
        BY <1>1, <1>4, <3>1, <3>2, <4>1, <4>2
    <3>4. CASE queued'["r"] = << >>
      <4>1. Len(queued'["r"]) = 0
        BY <3>4
      <4>2. Served' = Size
        BY <1>1, <3>1, <4>1 DEF Served
      <4>3. RingInv'
        BY <1>1, <1>5, <2>2, <3>1, <4>1 DEF PathInv, RingInv
      <4> QED
        BY <1>1, <1>4, <3>1, <3>2, <4>2, <4>3
    <3> QED
      BY <2>2, <3>3, <3>4
  <2> QED
    BY <1>1, <2>1, <2>2, Reconfigured
<1>7. PICK after \in Nat : after = Served'
  BY <1>6
<1>8. Since(after)'
  <2>1. after \in 0 .. Served' /\ \A t \in 1 .. Size' : ~ (after < t /\ t <= Served')
    BY <1>6, <1>7
  <2> QED
    BY <1>6, <2>1 DEF Since
<1>9. /\ Arrived(lo, Served) = << >> /\ Arrived(lo, Looked(lo)) = << >>
      /\ Arrived(after, Served)' = << >> /\ Arrived(after, Looked(after))' = << >>
  <2>1. Looked(lo) = lo /\ Looked(after)' = after
    BY <1>2, <1>5, <1>7 DEF Looked
  <2>2. Served - lo = 0 /\ Looked(lo) - lo = 0 /\ Served' - after = 0 /\ Looked(after)' - after = 0
    <3>1. \A x \in Nat : x - x = 0
      OBVIOUS
    <3> QED
      BY <1>2, <1>4, <1>7, <2>1, <3>1
  <2> DEFINE a == Arrived(lo, Served)  s == Arrived(lo, Looked(lo))
             b == Arrived(after, Served)'  u == Arrived(after, Looked(after))'
  <2>3. /\ a = [j \in 1 .. Served - lo |-> a[j]]
        /\ s = [j \in 1 .. Looked(lo) - lo |-> s[j]]
        /\ b = [j \in 1 .. Served' - after |-> b[j]]
        /\ u = [j \in 1 .. Looked(after)' - after |-> u[j]]
    BY DEF Arrived
  <2> HIDE DEF a, s, b, u
  <2>4. a = << >> /\ s = << >> /\ b = << >> /\ u = << >>
    BY <2>2, <2>3, NothingIn
  <2> QED
    BY <2>4 DEF a, s, b, u
<1>10. GivenInv' /\ Given' = Given /\ Staged' = Staged
  BY <1>1, <1>3, WriterAlone DEF PathInv
<1>11. UNCHANGED Channel!chanVars
  BY <1>2, <1>6, <1>8, <1>9, <1>10, PathStutters
<1> QED
  BY <1>1, <1>6, <1>8, <1>10, <1>11, SizesKept DEF PathInv
-----------------------------------------------------------------------------
(* How sequences grow, shrink and move by one element.                     *)
LEMMA AppendIs ==
  ASSUME NEW S, NEW s \in Seq(S), NEW x \in S, NEW t \in Seq(S), Len(t) = Len(s) + 1,
         \A k \in 1 .. Len(s) : t[k] = s[k], t[Len(s) + 1] = x
  PROVE  t = Append(s, x)
<1>1. /\ Append(s, x) \in Seq(S) /\ Len(Append(s, x)) = Len(t) /\ Len(s) \in Nat
      /\ \A k \in 1 .. Len(s) : Append(s, x)[k] = s[k]
      /\ Append(s, x)[Len(s) + 1] = x
  BY AppendProperties
<1>2. ASSUME NEW k \in 1 .. Len(t) PROVE t[k] = Append(s, x)[k]
  <2>1. k \in 1 .. Len(s) \/ k = Len(s) + 1
    BY <1>1
  <2> QED
    BY <1>1, <2>1
<1> QED
  BY <1>1, <1>2, SeqEqual

LEMMA RestIs ==
  ASSUME NEW S, NEW s \in Seq(S), Len(s) >= 1, NEW t \in Seq(S), Len(t) = Len(s) - 1,
         \A k \in 1 .. Len(t) : t[k] = s[k + 1]
  PROVE  t = SubSeq(s, 2, Len(s)) /\ t = Tail(s)
<1>1. s # << >>
  OBVIOUS
<1>2. /\ Tail(s) \in Seq(S) /\ Len(Tail(s)) = Len(t)
      /\ \A k \in 1 .. Len(t) : Tail(s)[k] = s[k + 1]
  BY <1>1, HeadTailProperties
<1>3. t = Tail(s)
  BY <1>2, SeqEqual
<1> QED
  BY <1>1, <1>3, TailIsSubSeq

LEMMA CommitOne ==
  ASSUME NEW S, NEW a \in Seq(S), NEW g \in Seq(S), NEW s \in Seq(S), Len(s) >= 1
  PROVE  a \o Append(g, s[1]) = (a \o g) \o SubSeq(s, 1, 1)
<1>1. s[1] \in S /\ 1 \in 1 .. Len(s)
  OBVIOUS
<1>2. SubSeq(s, 1, 1) = << s[1] >>
  <2> DEFINE u == SubSeq(s, 1, 1)  v == << s[1] >>
  <2>1. u \in Seq(S) /\ Len(u) = 1 /\ u[1] = s[1]
    BY <1>1
  <2>2. v \in Seq(S) /\ Len(v) = 1 /\ v[1] = s[1]
    BY <1>1
  <2> HIDE DEF u, v
  <2>3. \A k \in 1 .. Len(u) : u[k] = v[k]
    BY <2>1, <2>2
  <2>4. u = v
    BY <2>1, <2>2, <2>3, SeqEqual
  <2> QED
    BY <2>4 DEF u, v
<1>3. Append(g, s[1]) = g \o << s[1] >> /\ << s[1] >> \in Seq(S)
  BY <1>1, AppendIsConcat
<1> QED
  BY <1>2, <1>3, ConcatAssociative

LEMMA ConsumeOne ==
  ASSUME NEW S, NEW a \in Seq(S), NEW g \in Seq(S), Len(a) >= 1
  PROVE  SubSeq(a \o g, 2, Len(a \o g)) = SubSeq(a, 2, Len(a)) \o g
<1> DEFINE b == Tail(a)  t == b \o g  s == a \o g
<1>1. a # << >> /\ Len(a) \in Nat /\ Len(g) \in Nat
  OBVIOUS
<1>2. /\ b = SubSeq(a, 2, Len(a)) /\ b \in Seq(S) /\ Len(b) = Len(a) - 1
      /\ \A k \in 1 .. Len(b) : b[k] = a[k + 1]
  BY <1>1, HeadTailProperties, TailIsSubSeq
<1> HIDE DEF b
<1>3. /\ s \in Seq(S) /\ Len(s) = Len(a) + Len(g)
      /\ \A k \in 1 .. Len(a) + Len(g) : s[k] = IF k <= Len(a) THEN a[k] ELSE g[k - Len(a)]
  BY ConcatProperties
<1>4. /\ t \in Seq(S) /\ Len(t) = Len(b) + Len(g)
      /\ \A k \in 1 .. Len(b) + Len(g) : t[k] = IF k <= Len(b) THEN b[k] ELSE g[k - Len(b)]
  BY <1>2, ConcatProperties
<1> HIDE DEF s, t
<1>5. Len(t) = Len(s) - 1 /\ Len(s) >= 1
  BY <1>1, <1>2, <1>3, <1>4
<1>6. ASSUME NEW k \in 1 .. Len(t) PROVE t[k] = s[k + 1]
  <2> DEFINE m == Len(a)  n == Len(g)
  <2>1. /\ m \in Nat /\ n \in Nat /\ m >= 1 /\ Len(b) = m - 1 /\ Len(t) = m - 1 + n
        /\ k \in 1 .. m - 1 + n /\ k \in 1 .. Len(b) + n
    BY <1>1, <1>2, <1>4
  <2>2. k + 1 \in 1 .. m + n
    BY <2>1
  <2>3. CASE k <= Len(b)
    <3>1. k \in 1 .. Len(b) /\ k + 1 <= m
      BY <2>1, <2>3
    <3> QED
      BY <1>2, <1>3, <1>4, <2>1, <2>2, <2>3, <3>1
  <2>4. CASE ~ k <= Len(b)
    <3>1. ~ k + 1 <= m /\ k + 1 - m = k - Len(b)
      BY <2>1, <2>4
    <3>2. s[k + 1] = g[k + 1 - m]
      BY <1>3, <2>2, <3>1
    <3>3. t[k] = g[k - Len(b)]
      BY <1>4, <2>1, <2>4
    <3> QED
      BY <3>1, <3>2, <3>3
  <2> QED
    BY <2>3, <2>4
<1>7. t = SubSeq(s, 2, Len(s))
  BY <1>3, <1>4, <1>5, <1>6, RestIs
<1> QED
  BY <1>2, <1>7 DEF s, t

LEMMA MoveOne ==
  ASSUME NEW S, NEW a \in Seq(S), NEW g \in Seq(S), Len(g) >= 1
  PROVE  Append(a, g[1]) \o Tail(g) = a \o g
<1>1. g # << >> /\ g[1] \in S
  OBVIOUS
<1>2. /\ Append(a, g[1]) = a \o << g[1] >> /\ << g[1] >> \in Seq(S) /\ Tail(g) \in Seq(S)
  BY <1>1, AppendIsConcat, HeadTailProperties
<1>3. g = << g[1] >> \o Tail(g)
  <2> DEFINE u == << g[1] >>  v == Tail(g)  t == u \o v
  <2>1. /\ u \in Seq(S) /\ Len(u) = 1 /\ u[1] = g[1] /\ v \in Seq(S) /\ Len(v) = Len(g) - 1
        /\ \A k \in 1 .. Len(v) : v[k] = g[k + 1]
    BY <1>1, <1>2, HeadTailProperties
  <2> HIDE DEF u, v
  <2>2. /\ t \in Seq(S) /\ Len(t) = Len(u) + Len(v)
        /\ \A k \in 1 .. Len(u) + Len(v) : t[k] = IF k <= Len(u) THEN u[k] ELSE v[k - Len(u)]
    <3>1. u \in Seq(S) /\ v \in Seq(S)
      BY <2>1
    <3> QED
      BY <3>1, ConcatProperties
  <2> HIDE DEF t
  <2>3. Len(g) \in Nat /\ Len(t) = Len(g)
    BY <2>1, <2>2
  <2>4. ASSUME NEW k \in 1 .. Len(g) PROVE g[k] = t[k]
    <3>1. k \in 1 .. 1 + Len(v) /\ (k = 1 \/ (~ k <= 1 /\ k - 1 \in 1 .. Len(v) /\ (k - 1) + 1 = k))
      BY <2>1, <2>3
    <3> QED
      BY <2>1, <2>2, <3>1
  <2>5. g = t
    BY <2>2, <2>3, <2>4, SeqEqual
  <2> QED
    BY <2>5 DEF t, u, v
<1> QED
  BY <1>2, <1>3, ConcatAssociative

(* No sequence without repetition is longer than what it is made of.       *)
LEMMA NoMoreThan ==
  ASSUME NEW n \in Nat, NEW s \in Seq(1 .. n), IsInjective(s)
  PROVE  Len(s) <= n
<1>1. ASSUME NEW m \in Nat PROVE IsFiniteSet(1 .. m) /\ Cardinality(1 .. m) = m
  <2>1. m \in Int /\ 1 \in Int /\ (IF 1 > m THEN 0 ELSE m - 1 + 1) = m
    OBVIOUS
  <2>2. IsFiniteSet(1 .. m) /\ Cardinality(1 .. m) = IF 1 > m THEN 0 ELSE m - 1 + 1
    BY <2>1, FS_Interval, Zenon
  <2> QED
    BY <2>1, <2>2
<1>2. s \in [1 .. Len(s) -> 1 .. n] /\ Len(s) \in Nat
  OBVIOUS
<1>3. s \in Injection(1 .. Len(s), 1 .. n)
  BY <1>2 DEF IsInjective, Injection
<1>4. IsFiniteSet(1 .. n) /\ Cardinality(1 .. n) = n /\ Cardinality(1 .. Len(s)) = Len(s)
  BY <1>1, <1>2
<1> QED
  BY <1>3, <1>4, FS_Injection

(* The program that writes and the hardware have no more blocks of a fifo  *)
(* than there are.                                                         *)
LEMMA WriterRoom ==
  ASSUME LoopInv, GivenInv
  PROVE  Len(held["w"]) + Len(queued["w"]) <= Len(blocks["w"])
<1> DEFINE h == held["w"]  q == queued["w"]  n == Len(blocks["w"])  s == h \o q
<1>1. FifoInv /\ "w" \in Fifos
  BY LoopbackAssumption DEF LoopInv
<1>2. /\ h \in Seq(Nat) /\ q \in Seq(Nat) /\ IsInjective(h) /\ IsInjective(q) /\ n \in Nat
  BY <1>1, FifoTypes, HeldOnce DEF OwnerInv
<1>3. /\ \A k \in 1 .. Len(h) : h[k] \in 1 .. n /\ h[k] \notin ToSet(q)
      /\ \A k \in 1 .. Len(q) : q[k] \in 1 .. n /\ q[k] \in ToSet(q)
  BY WriterPlaces
<1> HIDE DEF h, q, n
<1>4. /\ s \in Seq(Nat) /\ Len(s) = Len(h) + Len(q) /\ Len(h) \in Nat /\ Len(q) \in Nat
      /\ DOMAIN s = 1 .. Len(h) + Len(q) /\ DOMAIN h = 1 .. Len(h) /\ DOMAIN q = 1 .. Len(q)
      /\ \A k \in 1 .. Len(h) + Len(q) : s[k] = IF k <= Len(h) THEN h[k] ELSE q[k - Len(h)]
  BY <1>2, ConcatProperties
<1> HIDE DEF s
<1>5. ASSUME NEW k \in 1 .. Len(s)
      PROVE  \/ k \in 1 .. Len(h) /\ s[k] = h[k]
             \/ k - Len(h) \in 1 .. Len(q) /\ s[k] = q[k - Len(h)]
  BY <1>4
<1>6. \A k \in 1 .. Len(s) : s[k] \in 1 .. n
  BY <1>3, <1>5
<1>7. IsInjective(s)
  <2> SUFFICES ASSUME NEW k \in 1 .. Len(s), NEW l \in 1 .. Len(s), s[k] = s[l]
               PROVE  k = l
    BY <1>4 DEF IsInjective
  <2>1. CASE k \in 1 .. Len(h) /\ s[k] = h[k]
    <3>1. l \in 1 .. Len(h) /\ s[l] = h[l]
      BY <1>3, <1>5, <2>1
    <3> QED
      BY <1>2, <1>4, <2>1, <3>1 DEF IsInjective
  <2>2. CASE k - Len(h) \in 1 .. Len(q) /\ s[k] = q[k - Len(h)]
    <3>1. l - Len(h) \in 1 .. Len(q) /\ s[l] = q[l - Len(h)]
      BY <1>3, <1>5, <2>2
    <3>2. k - Len(h) = l - Len(h)
      BY <1>2, <1>4, <2>2, <3>1 DEF IsInjective
    <3> QED
      BY <1>4, <3>2
  <2> QED
    BY <1>5, <2>1, <2>2
<1>8. s \in Seq(1 .. n) /\ Len(s) \in Nat
  <2>1. s = [k \in 1 .. Len(s) |-> s[k]] /\ Len(s) \in Nat
    BY <1>4
  <2> QED
    BY <1>6, <2>1, FromTo
<1>9. Len(s) <= n
  BY <1>2, <1>7, <1>8, NoMoreThan
<1> QED
  BY <1>4, <1>9 DEF h, q, n

(* A fifo has no more blocks than the most reconfigure asks for.           *)
LEMMA MostBlocks ==
  ASSUME SizeInv
  PROVE  /\ Max(BlockCounts) \in Nat \ {0}
         /\ \A o \in Fifos : Len(blocks[o]) \in Nat /\ Len(blocks[o]) <= Max(BlockCounts)
<1>1. BlockCounts \subseteq Nat \ {0}
  BY FifoAssumption
<1>2. PICK most \in BlockCounts : \A n \in BlockCounts : n <= most
  BY LoopbackAssumption
<1>3. Max(BlockCounts) \in BlockCounts /\ \A n \in BlockCounts : Max(BlockCounts) >= n
  <2>1. \A n \in BlockCounts : most >= n
    BY <1>1, <1>2
  <2> QED
    BY <1>2, <2>1 DEF Max
<1>4. Max(BlockCounts) \in Nat \ {0}
  BY <1>1, <1>3
<1>5. ASSUME NEW o \in Fifos
      PROVE  Len(blocks[o]) \in Nat /\ Len(blocks[o]) <= Max(BlockCounts)
  <2>1. Len(blocks[o]) \in BlockCounts \/ Len(blocks[o]) = 0
    BY DEF SizeInv
  <2> QED
    BY <1>1, <1>3, <1>4, <2>1
<1> QED
  BY <1>4, <1>5
-----------------------------------------------------------------------------
(* A block of f gets a content, the others keep theirs.                    *)
LEMMA FilledContent ==
  ASSUME FifoInv, NEW f \in Fifos, NEW i \in Indices(f), NEW item \in {NoItem} \cup 1 .. Items,
         blocks' = [blocks EXCEPT ![f][i].content = item]
  PROVE  /\ blocks'[f][i].content = item
         /\ \A j \in Indices(f) : j # i => blocks'[f][j].content = blocks[f][j].content
<1> DEFINE s == blocks[f]  b == [s[i] EXCEPT !.content = item]  t == [s EXCEPT ![i] = b]
<1>1. s \in Seq(BlockSet) /\ Indices(f) = 1 .. Len(s) /\ s[i] \in BlockSet
  BY FifoTypes DEF Indices
<1>2. b \in BlockSet /\ b.content = item
  BY <1>1 DEF BlockSet
<1>3. blocks' = [blocks EXCEPT ![f] = t]
  OBVIOUS
<1>4. t[i] = b /\ \A j \in 1 .. Len(s) : j # i => t[j] = s[j]
  <2> HIDE DEF b, s
  <2> QED
    BY <1>1, <1>2, PutBlock DEF s
<1> HIDE DEF t, b
<1>5. blocks'[f] = t
  BY <1>3 DEF FifoInv, TypeInv
<1> QED
  BY <1>1, <1>2, <1>4, <1>5

(* What the writer fills in is prepared: it is in the last block filled,   *)
(* and there is room for it on the path.                                   *)
LEMMA WriterFillsPath ==
  ASSUME PathInv, LoopInv', WriterFills
  PROVE  PathInv' /\ Channel!Next
<1> DEFINE h == held["w"]  i == h[filled + 1]  item == sent + 1
<1>1. /\ FifoInv /\ "w" \in Fifos /\ "r" \in Fifos /\ Fifos = {"w", "r"} /\ Items \in Nat
      /\ filled \in Nat /\ sent \in Nat /\ Len(h) \in Nat /\ NoItem \notin 1 .. Items
  BY PathTypes DEF PathInv, LoopInv
<1>2. /\ filled < Len(h) /\ sent < Items
      /\ blocks' = [blocks EXCEPT !["w"][i].content = item]
      /\ filled' = filled + 1
      /\ UNCHANGED << blocks_head, held, queued >>
  BY DEF WriterFills, driverVars
<1>3. item \in 1 .. Items /\ filled + 1 \in 1 .. Len(h)
  BY <1>1, <1>2
<1>4. i \in Indices("w")
  BY <1>1, <1>3, HeldIsPlace
<1> HIDE DEF item
<1>5. /\ blocks'["w"][i].content = item /\ blocks'["r"] = blocks["r"]
      /\ \A j \in Indices("w") : j # i => blocks'["w"][j].content = blocks["w"][j].content
      /\ \A o \in Fifos : Len(blocks'[o]) = Len(blocks[o])
  <2>1. item \in {NoItem} \cup 1 .. Items
    BY <1>3
  <2> HIDE DEF i
  <2>2. /\ blocks'["w"][i].content = item
        /\ \A j \in Indices("w") : j # i => blocks'["w"][j].content = blocks["w"][j].content
    BY <1>1, <1>2, <1>4, <2>1, FilledContent
  <2>3. blocks'["r"] = blocks["r"] /\ \A o \in Fifos : Len(blocks'[o]) = Len(blocks[o])
    BY <1>1, <1>2, <1>4, <2>1, Filled
  <2> QED
    BY <2>2, <2>3
<1>6. \A k \in 1 .. filled : h[k] \in Indices("w") /\ h[k] # i
  <2>1. \A k \in 1 .. filled : k \in 1 .. Len(h) /\ k # filled + 1
    BY <1>1, <1>2
  <2>2. IsInjective(h) /\ DOMAIN h = 1 .. Len(h)
    BY <1>1, HeldOnce, FifoTypes
  <2>3. \A k \in 1 .. filled : h[k] # i
    BY <1>3, <2>1, <2>2 DEF IsInjective
  <2> QED
    BY <2>1, <2>3, WriterPlaces DEF PathInv
<1>7. \A k \in 1 .. Len(queued["w"]) : queued["w"][k] \in Indices("w") /\ queued["w"][k] # i
  BY <1>3, WriterPlaces DEF PathInv
<1> HIDE DEF i
<1>8. /\ \A k \in 1 .. filled : blocks'["w"][h[k]].content = blocks["w"][h[k]].content
      /\ \A k \in 1 .. Len(queued["w"]) :
           blocks'["w"][queued["w"][k]].content = blocks["w"][queued["w"][k]].content
  BY <1>5, <1>6, <1>7
<1>9. GivenInv'
  <2>1. filled + 1 <= Len(h)
    BY <1>1, <1>2
  <2>2. ASSUME NEW k \in 1 .. filled + 1 PROVE blocks'["w"][h[k]].content \in 1 .. Items
    <3>1. k \in 1 .. filled \/ k = filled + 1
      BY <1>1
    <3>2. CASE k \in 1 .. filled
      BY <1>8, <3>2 DEF PathInv, GivenInv
    <3>3. CASE k = filled + 1
      BY <1>3, <1>5, <3>3 DEF i
    <3> QED
      BY <3>1, <3>2, <3>3
  <2>3. \A k \in 1 .. Len(queued["w"]) : blocks'["w"][queued["w"][k]].content \in 1 .. Items
    BY <1>8 DEF PathInv, GivenInv
  <2> QED
    BY <1>2, <2>1, <2>2, <2>3 DEF GivenInv
<1>10. Given' = Given
  BY <1>2, <1>8 DEF Given
<1>11. PICK lo \in Nat : Since(lo)
  BY DEF PathInv
<1>12. /\ RingInv' /\ Since(lo)' /\ Arrived(lo, Served)' = Arrived(lo, Served)
       /\ Arrived(lo, Looked(lo))' = Arrived(lo, Looked(lo))
  BY <1>2, <1>5, <1>11, ReaderAlone DEF PathInv
<1>13. SizeInv'
  BY <1>5 DEF PathInv, SizeInv
<1>14. /\ Staged \in Seq(1 .. Items) /\ Len(Staged) = filled
       /\ Len(Given) = Len(queued["w"]) /\ Given \in Seq(1 .. Items)
       /\ Arrived(lo, Served) \in Seq(1 .. Items) /\ Len(Arrived(lo, Served)) = Served - lo
       /\ lo <= Served
  BY <1>11, SequencesAre DEF PathInv
<1>15. Staged' = Append(Staged, item)
  <2> DEFINE s == Staged  t == Staged'
  <2>1. t = [k \in 1 .. filled + 1 |-> blocks'["w"][h[k]].content]
    BY <1>2 DEF Staged
  <2>2. s = [k \in 1 .. filled |-> blocks["w"][h[k]].content]
    BY DEF Staged
  <2>3. \A k \in 1 .. filled : k \in 1 .. filled + 1
    BY <1>1
  <2>4. filled + 1 \in 1 .. filled + 1 /\ filled + 1 \in Nat
    BY <1>1
  <2> HIDE DEF s, t
  <2>5. \A k \in 1 .. filled : t[k] = s[k]
    BY <1>8, <2>1, <2>2, <2>3
  <2>6. t[filled + 1] = item
    BY <1>5, <2>1, <2>4 DEF i
  <2>7. \A k \in 1 .. filled + 1 : t[k] \in 1 .. Items
    <3>1. \A k \in 1 .. filled : t[k] \in 1 .. Items
      <4>1. \A k \in 1 .. filled : Staged[k] \in 1 .. Items
        BY <1>14, ElementOfSeq
      <4> QED
        BY <2>5, <4>1 DEF s
    <3>2. \A k \in 1 .. filled + 1 : k \in 1 .. filled \/ k = filled + 1
      BY <1>1
    <3> QED
      BY <1>3, <2>6, <3>1, <3>2
  <2>8. t \in Seq(1 .. Items) /\ Len(t) = filled + 1
    <3>1. t = [k \in 1 .. filled + 1 |-> t[k]]
      BY <2>1
    <3> QED
      BY <2>4, <2>7, <3>1, FromTo
  <2>9. s \in Seq(1 .. Items) /\ Len(s) = filled
    BY <1>14 DEF s
  <2>10. t = Append(s, item)
    BY <1>3, <2>5, <2>6, <2>8, <2>9, AppendIs
  <2> QED
    BY <2>10 DEF s, t
<1>16. Len(InFlight) + Len(Prepared) < 2 * Max(BlockCounts)
  <2> DEFINE most == Max(BlockCounts)  a == Len(Arrived(lo, Served))  g == Len(Given)
  <2>1. Len(InFlight) = a + g /\ Len(Prepared) = filled
    <3>1. InFlight = Arrived(lo, Served) \o Given /\ Prepared = Staged
      BY <1>11, ContentsAre DEF PathInv, Prepared
    <3> QED
      BY <1>14, <3>1, ConcatProperties
  <2>2. most \in Nat /\ Size <= most /\ Len(blocks["w"]) <= most /\ Len(blocks["w"]) \in Nat
    BY <1>1, MostBlocks DEF PathInv, Size
  <2>3. a <= Size /\ a \in Nat /\ Size \in Nat
    <3>1. Served \in Nat /\ Served <= Size /\ Size \in Nat /\ a = Served - lo /\ lo <= Served
      BY <1>14, PathTypes DEF PathInv
    <3> HIDE DEF a
    <3> QED
      BY <3>1
  <2>4. Len(h) + g <= Len(blocks["w"]) /\ g \in Nat
    BY <1>14, WriterRoom, PathTypes DEF PathInv
  <2> HIDE DEF most, a, g, h
  <2>5. a + g + filled < 2 * most
    BY <1>1, <1>2, <2>2, <2>3, <2>4
  <2> QED
    BY <2>1, <2>5 DEF most
<1>17. /\ InFlight = Arrived(lo, Served) \o Given /\ Prepared = Staged
       /\ Seen = Arrived(lo, Looked(lo))
  BY <1>11, ContentsAre DEF PathInv, Prepared, Seen
<1>18. /\ InFlight' = Arrived(lo, Served)' \o Given' /\ Prepared' = Staged'
       /\ Seen' = Arrived(lo, Looked(lo))'
  BY <1>9, <1>12, ContentsAfter DEF Prepared, Seen
<1>19. Channel!Next
  BY <1>3, <1>10, <1>12, <1>15, <1>16, <1>17, <1>18, Prepares
<1> QED
  BY <1>9, <1>12, <1>13, <1>19 DEF PathInv

(* enqueue() changes the content of the block it gives the driver only.    *)
LEMMA EnqueueContent ==
  ASSUME FifoInv, NEW f \in Fifos, NEW item \in {NoItem} \cup 1 .. Items, enqueue(f, item)
  PROVE  /\ Len(held[f]) >= 1 /\ 1 \in 1 .. Len(held[f]) /\ held[f][1] \in Indices(f)
         /\ held[f] # << >> /\ blocks_head' = blocks_head
         /\ blocks'[f][held[f][1]].content = item
         /\ \A j \in Indices(f) :
              j # held[f][1] => blocks'[f][j].content = blocks[f][j].content
         /\ \A o \in Fifos : Len(blocks'[o]) = Len(blocks[o])
         /\ \A o \in Fifos : o # f => UNCHANGED << blocks[o], held[o], queued[o] >>
         /\ held'[f] = Tail(held[f]) /\ queued'[f] = Append(queued[f], held[f][1])
<1> DEFINE h == held[f]  i == h[1]  s == blocks[f]
           b == [s[i] EXCEPT !.state = TRUE, !.content = item]  t == [s EXCEPT ![i] = b]
<1>1. h # << >> /\ h \in Seq(Nat) /\ i = Head(h) /\ Len(h) >= 1 /\ 1 \in 1 .. Len(h)
  <2>1. h # << >> /\ h \in Seq(Nat)
    BY FifoTypes DEF enqueue
  <2> QED
    BY <2>1
<1>2. i \in Indices(f)
  BY <1>1, HeldIsPlace
<1>3. /\ blocks' = [blocks EXCEPT ![f] = t] /\ queued' = [queued EXCEPT ![f] = Append(queued[f], i)]
      /\ held' = [held EXCEPT ![f] = Tail(h)] /\ blocks_head' = blocks_head
  <2> HIDE DEF i
  <2> QED
    BY <1>1 DEF enqueue
<1>4. s \in Seq(BlockSet) /\ Indices(f) = 1 .. Len(s) /\ i \in 1 .. Len(s) /\ s[i] \in BlockSet
  BY <1>2, FifoTypes DEF Indices
<1>5. b \in BlockSet /\ b.content = item
  BY <1>4 DEF BlockSet
<1>6. Len(t) = Len(s) /\ t[i] = b /\ \A j \in 1 .. Len(s) : j # i => t[j] = s[j]
  <2> HIDE DEF b, s, i
  <2> QED
    BY <1>4, <1>5, PutBlock DEF s
<1> HIDE DEF t, b, i
<1>7. /\ blocks'[f] = t /\ held'[f] = Tail(h) /\ queued'[f] = Append(queued[f], i)
      /\ \A o \in Fifos : o # f => UNCHANGED << blocks[o], held[o], queued[o] >>
  BY <1>3 DEF FifoInv, TypeInv
<1>8. \A o \in Fifos : Len(blocks'[o]) = Len(blocks[o])
  BY <1>6, <1>7
<1> QED
  BY <1>1, <1>2, <1>3, <1>4, <1>5, <1>6, <1>7, <1>8 DEF i

(* The oldest block filled goes to the hardware: what it holds is          *)
(* committed.                                                              *)
LEMMA WriterGivesPath ==
  ASSUME PathInv, LoopInv', WriterGives
  PROVE  PathInv' /\ Channel!Next
<1> DEFINE h == held["w"]  i == h[1]  item == blocks["w"][i].content  q == queued["w"]
           l == Len(q)
<1>1. /\ FifoInv /\ "w" \in Fifos /\ "r" \in Fifos /\ Fifos = {"w", "r"} /\ Items \in Nat
      /\ filled \in Nat /\ Len(h) \in Nat /\ h \in Seq(Nat) /\ q \in Seq(Nat) /\ l \in Nat
      /\ filled <= Len(h)
  BY PathTypes DEF PathInv, GivenInv
<1>2. /\ filled > 0 /\ filled' = filled - 1 /\ h # << >>
      /\ enqueue("w", blocks["w"][Head(h)].content)
  BY DEF WriterGives, enqueue
<1>3. enqueue("w", item) /\ item \in 1 .. Items /\ 1 \in 1 .. filled
  <2>1. i = Head(h) /\ 1 \in 1 .. filled
    BY <1>1, <1>2
  <2> QED
    BY <1>2, <2>1 DEF PathInv, GivenInv
<1> HIDE DEF item
<1>4. /\ i \in Indices("w") /\ blocks_head' = blocks_head
      /\ blocks'["w"][i].content = item
      /\ \A j \in Indices("w") : j # i => blocks'["w"][j].content = blocks["w"][j].content
      /\ \A o \in Fifos : Len(blocks'[o]) = Len(blocks[o])
      /\ UNCHANGED << blocks["r"], held["r"], queued["r"] >>
      /\ held'["w"] = Tail(h) /\ queued'["w"] = Append(q, i)
  <2>1. item \in {NoItem} \cup 1 .. Items
    BY <1>3
  <2> QED
    BY <1>1, <1>3, <2>1, EnqueueContent
<1>5. \A j \in Indices("w") : blocks'["w"][j].content = blocks["w"][j].content
  BY <1>4 DEF item
<1>6. /\ Len(Tail(h)) = Len(h) - 1 /\ \A k \in 1 .. Len(h) - 1 : Tail(h)[k] = h[k + 1]
      /\ Len(Append(q, i)) = l + 1 /\ Append(q, i)[l + 1] = i
      /\ \A k \in 1 .. l : Append(q, i)[k] = q[k]
  <2>1. i \in Nat
    BY <1>4 DEF Indices
  <2> HIDE DEF i, h, q
  <2> QED
    BY <1>1, <1>2, <2>1, HeadTailProperties, AppendProperties
<1>7. /\ \A k \in 1 .. filled - 1 :
           blocks'["w"][held'["w"][k]].content = blocks["w"][h[k + 1]].content
      /\ \A k \in 1 .. l : blocks'["w"][queued'["w"][k]].content = blocks["w"][q[k]].content
      /\ blocks'["w"][queued'["w"][l + 1]].content = item
  <2>1. \A k \in 1 .. filled - 1 : k \in 1 .. Len(h) - 1 /\ k + 1 \in 1 .. Len(h)
    BY <1>1
  <2>2. \A k \in 1 .. Len(h) : h[k] \in Indices("w")
    BY WriterPlaces DEF PathInv
  <2>3. \A k \in 1 .. l : q[k] \in Indices("w")
    BY WriterPlaces DEF PathInv
  <2> HIDE DEF h, q, l, i
  <2>4. \A k \in 1 .. filled - 1 :
          blocks'["w"][held'["w"][k]].content = blocks["w"][h[k + 1]].content
    BY <1>4, <1>5, <1>6, <2>1, <2>2
  <2>5. \A k \in 1 .. l : blocks'["w"][queued'["w"][k]].content = blocks["w"][q[k]].content
    BY <1>4, <1>5, <1>6, <2>3
  <2> QED
    BY <1>4, <1>6, <2>4, <2>5
<1>8. filled' \in Nat /\ filled' <= Len(held'["w"])
  BY <1>1, <1>2, <1>4, <1>6
<1>9. /\ \A k \in 1 .. filled - 1 : k + 1 \in 1 .. filled
      /\ \A k \in 1 .. l + 1 : k \in 1 .. l \/ k = l + 1
      /\ filled - 1 \in Nat /\ l + 1 \in Nat /\ l + 1 \in 1 .. l + 1
      /\ \A k \in 1 .. l : k \in 1 .. l + 1
  BY <1>1, <1>2
<1>10. Len(queued'["w"]) = l + 1
  BY <1>4, <1>6
<1> HIDE DEF h, q, l, i
<1>11. GivenInv'
  <2>1. \A k \in 1 .. filled - 1 : blocks'["w"][held'["w"][k]].content \in 1 .. Items
    BY <1>7, <1>9 DEF PathInv, GivenInv, h
  <2>2. \A k \in 1 .. l + 1 : blocks'["w"][queued'["w"][k]].content \in 1 .. Items
    <3>1. \A k \in 1 .. l : blocks'["w"][queued'["w"][k]].content \in 1 .. Items
      BY <1>7 DEF PathInv, GivenInv, q, l
    <3> QED
      BY <1>3, <1>7, <1>9, <3>1
  <2> QED
    BY <1>2, <1>8, <1>10, <2>1, <2>2 DEF GivenInv
<1>12. PICK lo \in Nat : Since(lo)
  BY DEF PathInv
<1>13. /\ RingInv' /\ Since(lo)' /\ Arrived(lo, Served)' = Arrived(lo, Served)
       /\ Arrived(lo, Looked(lo))' = Arrived(lo, Looked(lo))
  <2>1. blocks_head'["r"] = blocks_head["r"]
    BY <1>4
  <2> QED
    BY <1>4, <1>12, <2>1, ReaderAlone DEF PathInv
<1>14. SizeInv'
  BY <1>4 DEF PathInv, SizeInv
<1> DEFINE a == Arrived(lo, Served)  g == Given  s == Staged
<1>15. /\ s \in Seq(1 .. Items) /\ Len(s) = filled /\ g \in Seq(1 .. Items) /\ Len(g) = l
       /\ a \in Seq(1 .. Items)
  BY <1>12, SequencesAre DEF PathInv, q, l
<1>16. /\ \A k \in 1 .. filled : s[k] = blocks["w"][h[k]].content
       /\ \A k \in 1 .. l : g[k] = blocks["w"][q[k]].content
       /\ s[1] = item
  <2>1. \A k \in 1 .. filled : s[k] = blocks["w"][h[k]].content
    BY DEF Staged, h
  <2>2. \A k \in 1 .. l : g[k] = blocks["w"][q[k]].content
    BY DEF Given, q, l
  <2> HIDE DEF s
  <2> QED
    BY <1>3, <2>1, <2>2 DEF item, i
<1>17. Given' = Append(g, s[1])
  <2> DEFINE t == Given'
  <2>1. t = [k \in 1 .. l + 1 |-> blocks'["w"][queued'["w"][k]].content]
    BY <1>10 DEF Given
  <2> HIDE DEF t, g, s
  <2>2. t = [k \in 1 .. l + 1 |-> t[k]] /\ t[l + 1] = item /\ \A k \in 1 .. l : t[k] = g[k]
    BY <1>7, <1>9, <1>16, <2>1
  <2>3. \A k \in 1 .. l : g[k] \in 1 .. Items
    BY <1>15, ElementOfSeq
  <2>4. \A k \in 1 .. l + 1 : t[k] \in 1 .. Items
    BY <1>3, <1>9, <2>2, <2>3
  <2>5. t \in Seq(1 .. Items) /\ Len(t) = l + 1
    BY <1>9, <2>2, <2>4, FromTo
  <2> QED
    BY <1>3, <1>15, <1>16, <2>2, <2>5, AppendIs DEF t
<1>18. Staged' = SubSeq(s, 2, Len(s))
  <2> DEFINE t == Staged'
  <2>1. t = [k \in 1 .. filled - 1 |-> blocks'["w"][held'["w"][k]].content]
    BY <1>2 DEF Staged
  <2> HIDE DEF t, s
  <2>2. /\ t = [k \in 1 .. filled - 1 |-> t[k]]
        /\ \A k \in 1 .. filled - 1 : t[k] = s[k + 1]
    BY <1>7, <1>9, <1>16, <2>1
  <2>3. \A k \in 1 .. filled : s[k] \in 1 .. Items
    BY <1>15, ElementOfSeq
  <2>4. t \in Seq(1 .. Items) /\ Len(t) = filled - 1
    BY <1>9, <2>2, <2>3, FromTo
  <2>5. Len(s) >= 1 /\ Len(t) = Len(s) - 1
    BY <1>1, <1>2, <1>15, <2>4
  <2>6. \A k \in 1 .. Len(t) : t[k] = s[k + 1]
    BY <2>2, <2>4
  <2>7. s \in Seq(1 .. Items)
    BY <1>15
  <2>8. t = SubSeq(s, 2, Len(s))
    BY <2>4, <2>5, <2>6, <2>7, RestIs
  <2> QED
    BY <2>8 DEF t
<1>19. 1 \in 0 .. 2 * Max(BlockCounts) /\ 1 <= Len(s)
  <2>1. Max(BlockCounts) \in Nat \ {0}
    BY MostBlocks DEF PathInv
  <2> HIDE DEF s
  <2> QED
    BY <1>1, <1>2, <1>15, <2>1
<1>20. InFlight = a \o g /\ Prepared = s /\ Seen = Arrived(lo, Looked(lo))
  BY <1>12, ContentsAre DEF PathInv, Prepared, Seen
<1>21. /\ InFlight' = Arrived(lo, Served)' \o Given' /\ Prepared' = Staged'
       /\ Seen' = Arrived(lo, Looked(lo))'
  BY <1>11, <1>13, ContentsAfter DEF Prepared, Seen
<1>22. a \o Append(g, s[1]) = (a \o g) \o SubSeq(s, 1, 1)
  <2> HIDE DEF a, g, s
  <2>1. Len(s) >= 1
    BY <1>1, <1>2, <1>15
  <2> QED
    BY <1>15, <2>1, CommitOne
<1>23. Channel!Next
  <2>1. InFlight' = InFlight \o SubSeq(Prepared, 1, 1)
    BY <1>13, <1>17, <1>20, <1>21, <1>22
  <2>2. Prepared' = SubSeq(Prepared, 2, Len(Prepared)) /\ Seen' = Seen
    BY <1>13, <1>18, <1>20, <1>21
  <2> QED
    BY <1>19, <1>20, <2>1, <2>2, Commits
<1> QED
  BY <1>11, <1>13, <1>14, <1>23 DEF PathInv
-----------------------------------------------------------------------------
(* dequeue() of the reader: it looks at the next item, if the block has    *)
(* one.                                                                    *)
LEMMA ReaderTakesPath ==
  ASSUME PathInv, LoopInv', ReaderTakes
  PROVE  PathInv' /\ (Channel!Next \/ UNCHANGED Channel!chanVars)
<1> DEFINE n == Size  h == held["r"]  c == Len(h)  head == blocks_head["r"]  q == queued["r"]
           e == Len(q)  v == Served
<1>1. /\ FifoInv /\ "w" \in Fifos /\ "r" \in Fifos /\ Fifos = {"w", "r"}
      /\ n \in Nat /\ c \in Nat /\ e \in Nat /\ v \in Nat /\ v <= n /\ c <= v
      /\ h \in Seq(Nat) /\ q \in Seq(Nat) /\ v = n - e
      /\ filled \in Nat /\ filled <= Len(held["w"]) /\ Indices("r") = 1 .. n
  BY PathTypes DEF PathInv, GivenInv, Served, Indices, Size
<1>2. /\ ready["r"] /\ c < n /\ TakeHead("r") /\ filled' = filled /\ queued' = queued
      /\ held' = [held EXCEPT !["r"] = Append(h, head)]
  BY DEF ReaderTakes, dequeue, Size
<1>3. /\ head \in 1 .. n /\ Len(blocks'["r"]) = n /\ blocks_head'["r"] = Following(n, head)
      /\ head \notin ToSet(q) /\ UNCHANGED << blocks["w"] >>
      /\ \A i \in 1 .. n : blocks'["r"][i].content = blocks["r"][i].content
  BY <1>1, <1>2, HeadTaken, HeadContent DEF Size
<1>4. /\ held'["r"] = Append(h, head) /\ held'["w"] = held["w"]
  BY <1>1, <1>2 DEF FifoInv, TypeInv
<1>5. Len(held'["r"]) = c + 1
  <2>1. head \in Nat
    BY <1>3
  <2> HIDE DEF h, head
  <2> QED
    BY <1>1, <1>4, <2>1, AppendProperties
<1>6. /\ \A t \in 1 .. n : /\ Place(n, Following(n, head), c + 1, t) = Place(n, head, c, t)
                           /\ Place(n, head, c, t) \in 1 .. n
      /\ Place(n, head, c, c + 1) = head /\ Following(n, head) \in 1 .. n
  <2>1. \A t \in 1 .. n : Place(n, head, c, t) \in 1 .. n
    BY PathTypes DEF PathInv
  <2>2. n \in Nat /\ head \in 1 .. n /\ c \in Nat /\ c < n
    BY <1>1, <1>2, <1>3
  <2> HIDE DEF n, c, head
  <2>3. /\ \A t \in 1 .. n : Place(n, Following(n, head), c + 1, t) = Place(n, head, c, t)
        /\ Place(n, head, c, c + 1) = head /\ Following(n, head) \in 1 .. n
    BY <2>2, PlaceNext
  <2> QED
    BY <2>1, <2>3
<1>7. Size' = n /\ Served' = v
  BY <1>2, <1>3 DEF Size, Served
<1>8. \A t \in 1 .. n : Holds(t)' = Holds(t)
  <2>1. ASSUME NEW t \in 1 .. n PROVE Holds(t)' = Holds(t)
    <3>1. Holds(t)' = blocks'["r"][Place(n, Following(n, head), c + 1, t)].content
      BY <1>3, <1>5, <1>7 DEF Holds
    <3>2. Holds(t) = blocks["r"][Place(n, head, c, t)].content
      BY DEF Holds
    <3> HIDE DEF n, c, head
    <3> QED
      BY <1>3, <1>6, <3>1, <3>2
  <2> QED
    BY <2>1
<1>9. \A k \in 1 .. e : q[k] = Place(n, head, c, v + k)
  BY DEF PathInv, RingInv
<1>10. Len(queued'["r"]) = e /\ queued'["r"] = q
  BY <1>2
<1> HIDE DEF n, h, c, head, q, e, v
<1>11. c + 1 <= v
  <2> SUFFICES ASSUME v < c + 1 PROVE FALSE
    BY <1>1
  <2> DEFINE k == c + 1 - v
  <2>1. k \in 1 .. e /\ v + k = c + 1
    BY <1>1, <1>2
  <2>2. q[k] = head
    <3> HIDE DEF k
    <3> QED
      BY <1>6, <1>9, <2>1
  <2>3. q[k] \in ToSet(q)
    <3>1. DOMAIN q = 1 .. e
      BY <1>1 DEF e
    <3> HIDE DEF k
    <3> QED
      BY <2>1, <3>1 DEF ToSet
  <2> QED
    BY <1>3, <2>2, <2>3
<1>12. RingInv'
  <2>1. c + 1 + e <= n /\ \A k \in 1 .. e : v + k \in 1 .. n
    BY <1>1, <1>11
  <2>2. \A k \in 1 .. e : q[k] = Place(n, Following(n, head), c + 1, v + k)
    BY <1>6, <1>9, <2>1
  <2> QED
    BY <1>3, <1>5, <1>6, <1>7, <1>10, <2>1, <2>2 DEF RingInv
<1>13. PICK lo \in Nat : Since(lo)
  BY DEF PathInv
<1>14. Since(lo)'
  BY <1>7, <1>8, <1>13 DEF Since, n, v
<1>15. lo <= v /\ \A t \in 1 .. n : lo < t /\ t <= v => Holds(t) \in 1 .. Items
  <2>1. lo <= v
    BY <1>1, <1>13 DEF Since, v
  <2>2. \A t \in 1 .. n : Holds(t) \in {NoItem} \cup 1 .. Items
    BY PathTypes DEF PathInv, n
  <2>3. \A t \in 1 .. n : Holds(t) # NoItem <=> lo < t /\ t <= v
    BY <1>13 DEF Since, n, v
  <2> QED
    BY <2>1, <2>2, <2>3
<1>16. Arrived(lo, Served)' = Arrived(lo, Served)
  <2>1. /\ Arrived(lo, Served)' = [j \in 1 .. v - lo |-> Holds(lo + j)']
        /\ Arrived(lo, Served) = [j \in 1 .. v - lo |-> Holds(lo + j)]
    BY <1>7 DEF Arrived, v
  <2>2. \A j \in 1 .. v - lo : lo + j \in 1 .. n
    BY <1>1, <1>15
  <2> QED
    BY <1>8, <2>1, <2>2
<1>17. GivenInv' /\ Given' = Given /\ Staged' = Staged
  BY <1>1, <1>2, <1>3, <1>4, WriterAlone DEF PathInv
<1>18. SizeInv'
  BY <1>1, <1>3 DEF PathInv, SizeInv, n, Size
<1>19. PathInv'
  BY <1>12, <1>14, <1>17, <1>18 DEF PathInv
<1>20. CASE c + 1 <= lo
  <2>1. Looked(lo) = lo /\ Looked(lo)' = lo
    <3>1. ~ lo < c /\ ~ lo < c + 1
      BY <1>1, <1>20
    <3> QED
      BY <1>5, <3>1 DEF Looked, c, h
  <2>2. lo - lo = 0
    OBVIOUS
  <2> DEFINE s == Arrived(lo, Looked(lo))  t == Arrived(lo, Looked(lo))'
  <2>3. s = [j \in 1 .. lo - lo |-> s[j]] /\ t = [j \in 1 .. lo - lo |-> t[j]]
    BY <2>1 DEF Arrived
  <2> HIDE DEF s, t
  <2>4. s = << >> /\ t = << >>
    BY <2>2, <2>3, NothingIn
  <2>5. Arrived(lo, Looked(lo))' = Arrived(lo, Looked(lo))
    BY <2>4 DEF s, t
  <2> QED
    BY <1>12, <1>13, <1>14, <1>16, <1>17, <1>19, <2>5, PathStutters
<1>21. CASE ~ c + 1 <= lo
  <2> DEFINE s == Arrived(lo, Looked(lo))  t == Arrived(lo, Looked(lo))'  a == Arrived(lo, Served)
             m == c - lo
  <2>1. Looked(lo) = c /\ Looked(lo)' = c + 1 /\ m \in Nat
    <3>1. lo < c + 1 /\ (~ lo < c => lo = c) /\ m \in Nat
      BY <1>1, <1>21
    <3> QED
      BY <1>5, <3>1 DEF Looked, c, h
  <2>2. /\ s \in Seq(1 .. Items) /\ Len(s) = m /\ \A j \in 1 .. m : s[j] = Holds(lo + j)
        /\ a \in Seq(1 .. Items) /\ Len(a) = v - lo
        /\ \A j \in 1 .. v - lo : a[j] = Holds(lo + j)
        /\ Given \in Seq(1 .. Items)
    BY <1>13, <2>1, SequencesAre DEF PathInv, v
  <2>3. t = [j \in 1 .. (c + 1) - lo |-> Holds(lo + j)']
    BY <2>1 DEF Arrived
  <2>4. /\ (c + 1) - lo = m + 1 /\ lo + (m + 1) = c + 1 /\ m + 1 \in 1 .. v - lo /\ v - lo \in Nat
        /\ m + 1 \in 1 .. m + 1 /\ m + 1 \in Nat
        /\ \A j \in 1 .. m + 1 : lo + j \in 1 .. n /\ lo < lo + j /\ lo + j <= v
        /\ \A j \in 1 .. m : j \in 1 .. m + 1
    BY <1>1, <1>11, <1>15, <1>21
  <2> HIDE DEF s, t, a, m
  <2>5. /\ t = [j \in 1 .. m + 1 |-> t[j]] /\ \A j \in 1 .. m + 1 : t[j] = Holds(lo + j)
    BY <1>8, <2>3, <2>4
  <2>6. \A j \in 1 .. m + 1 : t[j] \in 1 .. Items
    BY <1>15, <2>4, <2>5
  <2>7. t \in Seq(1 .. Items) /\ Len(t) = m + 1
    BY <2>4, <2>5, <2>6, FromTo
  <2>8. a[m + 1] = t[m + 1] /\ a[m + 1] \in 1 .. Items
    BY <2>2, <2>4, <2>5, <2>6
  <2>9. t = Append(s, a[m + 1])
    <3>1. \A j \in 1 .. Len(s) : t[j] = s[j]
      BY <2>2, <2>4, <2>5
    <3> QED
      BY <2>2, <2>7, <2>8, <3>1, AppendIs
  <2>10. InFlight = a \o Given /\ Seen = s /\ Prepared = Staged
    BY <1>13, ContentsAre DEF PathInv, Prepared, Seen, a, s
  <2>11. InFlight' = Arrived(lo, Served)' \o Given' /\ Prepared' = Staged' /\ Seen' = t
    BY <1>12, <1>14, <1>17, ContentsAfter DEF Prepared, Seen, t
  <2>12. Len(InFlight) = (v - lo) + Len(Given) /\ InFlight[m + 1] = a[m + 1]
    <3> DEFINE g == Given  f == InFlight
    <3>1. /\ g \in Seq(1 .. Items) /\ Len(g) \in Nat /\ f = a \o g
      BY <2>2, <2>10
    <3> HIDE DEF g, f
    <3>2. /\ Len(f) = Len(a) + Len(g)
          /\ \A k \in 1 .. Len(a) + Len(g) : f[k] = IF k <= Len(a) THEN a[k] ELSE g[k - Len(a)]
      BY <2>2, <3>1, ConcatProperties
    <3>3. m + 1 \in 1 .. Len(a) + Len(g) /\ m + 1 <= Len(a)
      BY <2>2, <2>4, <3>1
    <3> QED
      BY <2>2, <3>2, <3>3 DEF g, f
  <2>13. Len(Seen) = m /\ m < Len(InFlight)
    <3>1. Len(Given) \in Nat
      BY <2>2
    <3> QED
      BY <2>1, <2>2, <2>4, <2>10, <2>12, <3>1 DEF m
  <2>14. Seen' = Append(Seen, InFlight[Len(Seen) + 1])
    BY <2>9, <2>10, <2>11, <2>12, <2>13
  <2>15. UNCHANGED << InFlight, Prepared >>
    BY <1>16, <1>17, <2>10, <2>11 DEF a
  <2>16. Channel!Next
    BY <2>13, <2>14, <2>15, Looks
  <2> QED
    BY <1>19, <2>16
<1> QED
  BY <1>20, <1>21

(* enqueue() of the reader: the oldest block goes to the end of the count, *)
(* emptied; if it had an item that item is consumed.                       *)
LEMMA ReaderGivesPath ==
  ASSUME PathInv, LoopInv', ReaderGives
  PROVE  PathInv' /\ (Channel!Next \/ UNCHANGED Channel!chanVars)
<1> DEFINE n == Size  h == held["r"]  c == Len(h)  head == blocks_head["r"]  q == queued["r"]
           e == Len(q)  v == Served  i == h[1]
<1>1. /\ FifoInv /\ "w" \in Fifos /\ "r" \in Fifos /\ Fifos = {"w", "r"}
      /\ n \in Nat /\ c \in Nat /\ e \in Nat /\ v \in Nat /\ v <= n /\ c <= v
      /\ h \in Seq(Nat) /\ q \in Seq(Nat) /\ v = n - e
      /\ filled \in Nat /\ filled <= Len(held["w"]) /\ Indices("r") = 1 .. n
  BY PathTypes DEF PathInv, GivenInv, Served, Indices, Size
<1>2. /\ filled' = filled /\ c >= 1 /\ i \in 1 .. n /\ h # << >> /\ blocks_head' = blocks_head
      /\ blocks'["r"][i].content = NoItem
      /\ \A j \in 1 .. n : j # i => blocks'["r"][j].content = blocks["r"][j].content
      /\ \A o \in Fifos : Len(blocks'[o]) = Len(blocks[o])
      /\ UNCHANGED << blocks["w"], held["w"], queued["w"] >>
      /\ held'["r"] = Tail(h) /\ queued'["r"] = Append(q, i)
  <2>1. enqueue("r", NoItem) /\ filled' = filled
    BY DEF ReaderGives
  <2>2. NoItem \in {NoItem} \cup 1 .. Items
    OBVIOUS
  <2> QED
    BY <1>1, <2>1, <2>2, EnqueueContent
<1>3. /\ Len(held'["r"]) = c - 1 /\ Len(queued'["r"]) = e + 1 /\ queued'["r"][e + 1] = i
      /\ \A k \in 1 .. e : queued'["r"][k] = q[k]
  <2>1. i \in Nat
    BY <1>2
  <2> HIDE DEF i, h, q
  <2> QED
    BY <1>1, <1>2, <2>1, HeadTailProperties, AppendProperties
<1>4. head \in 1 .. n /\ c \in 1 .. n
  <2>1. n = 0 \/ head \in 1 .. n
    BY PathTypes DEF PathInv
  <2> HIDE DEF n, c, head, v
  <2> QED
    BY <1>1, <1>2, <2>1
<1>5. /\ \A k \in 1 .. n - 1 : Place(n, head, c - 1, k) = Place(n, head, c, k + 1)
      /\ Place(n, head, c - 1, n) = i
      /\ \A k \in 1 .. n - 1 : Place(n, head, c, k + 1) \in 1 .. n /\ Place(n, head, c, k + 1) # i
  <2>1. \A k \in 1 .. c : h[k] = Turn(n, head, c, k)
    BY PathTypes DEF PathInv
  <2> HIDE DEF n, c, head, h
  <2>2. /\ \A k \in 1 .. n - 1 : Place(n, head, c - 1, k) = Place(n, head, c, k + 1)
        /\ Place(n, head, c - 1, n) = Place(n, head, c, 1)
        /\ \A k \in 1 .. c : Place(n, head, c, k) = Turn(n, head, c, k)
    BY <1>1, <1>4, PlaceTail
  <2>3. 1 \in 1 .. c /\ 1 \in 1 .. n /\ c \in 0 .. n
    BY <1>1, <1>4
  <2>4. i = Place(n, head, c, 1)
    BY <2>1, <2>2, <2>3
  <2>5. ASSUME NEW k \in 1 .. n - 1
        PROVE  Place(n, head, c, k + 1) \in 1 .. n /\ Place(n, head, c, k + 1) # i
    <3>1. k + 1 \in 1 .. n /\ k + 1 # 1
      BY <1>1
    <3>2. /\ Place(n, head, c, k + 1) \in 1 .. n
          /\ \A l \in 1 .. n : Place(n, head, c, k + 1) = Place(n, head, c, l) => k + 1 = l
      BY <1>1, <1>4, <2>3, <3>1, PlaceIsPlace
    <3> QED
      BY <2>3, <2>4, <3>1, <3>2
  <2> QED
    BY <2>2, <2>4, <2>5
<1>6. Size' = n /\ Served' = v - 1
  <2>1. Size' = n
    BY <1>1, <1>2 DEF Size
  <2>2. Served' = n - (e + 1)
    BY <1>3, <2>1 DEF Served
  <2>3. \A x \in Nat, y \in Nat : x - (y + 1) = (x - y) - 1
    OBVIOUS
  <2>4. n - (e + 1) = (n - e) - 1
    <3> HIDE DEF n, e
    <3> QED
      BY <1>1, <2>3
  <2> QED
    BY <1>1, <2>1, <2>2, <2>4
<1>7. /\ \A t \in 1 .. n : t = n => Holds(t)' = NoItem
      /\ \A t \in 1 .. n - 1 : Holds(t)' = Holds(t + 1)
  <2>1. \A t : Holds(t)' = blocks'["r"][Place(n, head, c - 1, t)].content
    BY <1>2, <1>3, <1>6 DEF Holds
  <2>2. \A t : Holds(t) = blocks["r"][Place(n, head, c, t)].content
    BY DEF Holds
  <2> HIDE DEF n, c, head, i
  <2>3. ASSUME NEW t \in 1 .. n - 1 PROVE Holds(t)' = Holds(t + 1)
    <3>1. Holds(t)' = blocks'["r"][Place(n, head, c, t + 1)].content
      BY <1>5, <2>1
    <3> QED
      BY <1>2, <1>5, <2>2, <3>1
  <2>4. \A t \in 1 .. n : t = n => Holds(t)' = NoItem
    BY <1>2, <1>5, <2>1
  <2> QED
    BY <2>3, <2>4
<1>8. \A k \in 1 .. e : q[k] = Place(n, head, c, v + k)
  BY DEF PathInv, RingInv
<1>9. blocks_head'["r"] = head
  BY <1>2
<1> HIDE DEF n, h, c, head, q, e, v, i
<1>10. RingInv'
  <2>1. (c - 1) + (e + 1) <= n
    BY <1>1, <1>4
  <2>2. ASSUME NEW k \in 1 .. e + 1
        PROVE  queued'["r"][k] = Place(n, head, c - 1, (v - 1) + k)
    <3>1. CASE k = e + 1
      <4>1. (v - 1) + k = n
        BY <1>1, <3>1
      <4> QED
        BY <1>3, <1>5, <3>1, <4>1
    <3>2. CASE k # e + 1
      <4>1. k \in 1 .. e
        BY <1>1, <3>2
      <4>2. v >= 1 /\ v + e = n
        BY <1>1, <1>2
      <4>3. (v - 1) + k \in 1 .. n - 1 /\ ((v - 1) + k) + 1 = v + k
        BY <1>1, <4>1, <4>2
      <4> QED
        BY <1>3, <1>5, <1>8, <4>1, <4>3
    <3> QED
      BY <3>1, <3>2
  <2> QED
    BY <1>3, <1>4, <1>6, <1>9, <2>1, <2>2 DEF RingInv
<1>11. PICK lo \in Nat : Since(lo)
  BY DEF PathInv
<1>12. PICK after \in Nat : after = IF lo = 0 THEN 0 ELSE lo - 1
  <2>1. (IF lo = 0 THEN 0 ELSE lo - 1) \in Nat
    OBVIOUS
  <2> QED
    BY <2>1
<1>13. lo <= v /\ \A t \in 1 .. n : Holds(t) # NoItem <=> lo < t /\ t <= v
  BY <1>1, <1>11 DEF Since, n, v
<1>14. Since(after)'
  <2>1. after \in 0 .. v - 1
    BY <1>1, <1>2, <1>12, <1>13
  <2>2. ASSUME NEW t \in 1 .. n
        PROVE  Holds(t)' # NoItem <=> after < t /\ t <= v - 1
    <3>1. CASE t = n
      <4>1. ~ t <= v - 1
        BY <1>1, <3>1
      <4> QED
        BY <1>7, <3>1, <4>1
    <3>2. CASE t # n
      <4>1. t \in 1 .. n - 1 /\ t + 1 \in 1 .. n
        BY <1>1, <3>2
      <4>2. Holds(t)' = Holds(t + 1) /\ (Holds(t + 1) # NoItem <=> lo < t + 1 /\ t + 1 <= v)
        BY <1>7, <1>13, <4>1
      <4>3. (lo < t + 1 /\ t + 1 <= v) <=> (after < t /\ t <= v - 1)
        BY <1>1, <1>12
      <4> QED
        BY <4>2, <4>3
    <3> QED
      BY <3>1, <3>2
  <2> QED
    BY <1>6, <2>1, <2>2 DEF Since
<1>15. GivenInv' /\ Given' = Given /\ Staged' = Staged
  BY <1>1, <1>2, WriterAlone DEF PathInv
<1>16. SizeInv'
  BY <1>2 DEF PathInv, SizeInv
<1>17. PathInv'
  BY <1>10, <1>14, <1>15, <1>16 DEF PathInv
<1>18. CASE lo # 0
  <2>1. after = lo - 1 /\ (v - 1) - after = v - lo
    BY <1>1, <1>12, <1>18
  <2>2. Looked(after)' = Looked(lo) - 1 /\ Looked(lo) \in Nat /\ Looked(lo) <= v
    <3>1. (IF after < c - 1 THEN c - 1 ELSE after) = (IF lo < c THEN c ELSE lo) - 1
      BY <1>1, <2>1
    <3>2. (IF lo < c THEN c ELSE lo) \in Nat /\ (IF lo < c THEN c ELSE lo) <= v
      BY <1>1, <1>13
    <3>3. Looked(after)' = (IF after < c - 1 THEN c - 1 ELSE after)
      BY <1>3 DEF Looked
    <3>4. Looked(lo) = (IF lo < c THEN c ELSE lo)
      BY DEF Looked, c, h
    <3> QED
      BY <3>1, <3>2, <3>3, <3>4
  <2>3. ASSUME NEW to \in Nat, to <= v
        PROVE  [j \in 1 .. (to - 1) - after |-> Holds(after + j)'] = [j \in 1 .. to - lo |-> Holds(lo + j)]
    <3>1. (to - 1) - after = to - lo
      BY <2>1
    <3>2. \A j \in 1 .. to - lo : after + j \in 1 .. n - 1 /\ (after + j) + 1 = lo + j
      BY <1>1, <1>18, <2>1, <2>3
    <3>3. \A j \in 1 .. to - lo : Holds(after + j)' = Holds(lo + j)
      BY <1>7, <3>2
    <3> QED
      BY <3>1, <3>3
  <2>4. Arrived(after, Served)' = Arrived(lo, Served)
    <3>1. Arrived(after, Served)' = [j \in 1 .. (v - 1) - after |-> Holds(after + j)']
      BY <1>6 DEF Arrived
    <3>2. Arrived(lo, Served) = [j \in 1 .. v - lo |-> Holds(lo + j)]
      BY DEF Arrived, v
    <3>3. v \in Nat /\ v <= v
      BY <1>1
    <3> QED
      BY <2>3, <3>1, <3>2, <3>3
  <2>5. Arrived(after, Looked(after))' = Arrived(lo, Looked(lo))
    <3> DEFINE l == Looked(lo)
    <3>1. Arrived(after, Looked(after))' = [j \in 1 .. (l - 1) - after |-> Holds(after + j)']
      BY <2>2 DEF Arrived
    <3>2. Arrived(lo, Looked(lo)) = [j \in 1 .. l - lo |-> Holds(lo + j)]
      BY DEF Arrived
    <3> HIDE DEF l
    <3>3. l \in Nat /\ l <= v
      BY <2>2 DEF l
    <3> QED
      BY <2>3, <3>1, <3>2, <3>3
  <2>6. UNCHANGED Channel!chanVars
    BY <1>10, <1>11, <1>14, <1>15, <2>4, <2>5, PathStutters
  <2> QED
    BY <1>17, <2>6
<1>19. CASE lo = 0
  <2> DEFINE a == Arrived(lo, Served)  s == Arrived(lo, Looked(lo))  g == Given
             b == Arrived(after, Served)'  t == Arrived(after, Looked(after))'
  <2>1. after = 0 /\ (v - 1) - after = v - 1 /\ v - lo = v /\ c - lo = c
    BY <1>1, <1>12, <1>19
  <2>2. Looked(after)' = c - 1 /\ Looked(lo) = c
    <3>1. (IF 0 < c - 1 THEN c - 1 ELSE 0) = c - 1 /\ 0 < c
      BY <1>1, <1>2
    <3>2. Looked(after)' = (IF after < c - 1 THEN c - 1 ELSE after)
      BY <1>3 DEF Looked
    <3>3. Looked(lo) = (IF lo < c THEN c ELSE lo)
      BY DEF Looked, c, h
    <3> QED
      BY <1>19, <2>1, <3>1, <3>2, <3>3
  <2>3. /\ a \in Seq(1 .. Items) /\ Len(a) = v /\ \A j \in 1 .. v : a[j] = Holds(lo + j)
        /\ s \in Seq(1 .. Items) /\ Len(s) = c /\ \A j \in 1 .. c : s[j] = Holds(lo + j)
        /\ g \in Seq(1 .. Items)
    BY <1>11, <2>1, <2>2, SequencesAre DEF PathInv, v
  <2>4. /\ b = [j \in 1 .. v - 1 |-> Holds(after + j)']
        /\ t = [j \in 1 .. (c - 1) - after |-> Holds(after + j)']
    BY <1>6, <2>1, <2>2 DEF Arrived
  <2>5. /\ (c - 1) - after = c - 1 /\ v - 1 \in Nat /\ c - 1 \in Nat /\ v >= 1
        /\ \A j \in 1 .. v - 1 : /\ after + j \in 1 .. n - 1 /\ (after + j) + 1 = lo + (j + 1)
                                 /\ j + 1 \in 1 .. v
        /\ \A j \in 1 .. c - 1 : j \in 1 .. v - 1 /\ j + 1 \in 1 .. c
    BY <1>1, <1>2, <1>19, <2>1
  <2>6. \A j \in 1 .. v - 1 : Holds(after + j)' = Holds(lo + (j + 1))
    BY <1>7, <2>5
  <2> HIDE DEF a, s, g, b, t
  <2>7. /\ b = [j \in 1 .. v - 1 |-> b[j]] /\ \A j \in 1 .. v - 1 : b[j] = a[j + 1]
        /\ t = [j \in 1 .. c - 1 |-> t[j]] /\ \A j \in 1 .. c - 1 : t[j] = s[j + 1]
    BY <2>3, <2>4, <2>5, <2>6
  <2>8. /\ \A j \in 1 .. v : a[j] \in 1 .. Items
        /\ \A j \in 1 .. c : s[j] \in 1 .. Items
    BY <2>3, ElementOfSeq
  <2>9. /\ \A j \in 1 .. v - 1 : b[j] \in 1 .. Items
        /\ \A j \in 1 .. c - 1 : t[j] \in 1 .. Items
    BY <2>5, <2>7, <2>8
  <2>10. b \in Seq(1 .. Items) /\ Len(b) = v - 1
    BY <2>5, <2>7, <2>9, FromTo
  <2>11. t \in Seq(1 .. Items) /\ Len(t) = c - 1
    BY <2>5, <2>7, <2>9, FromTo
  <2>12. b = SubSeq(a, 2, Len(a))
    <3>1. Len(a) >= 1 /\ Len(b) = Len(a) - 1 /\ \A j \in 1 .. Len(b) : b[j] = a[j + 1]
      BY <2>3, <2>5, <2>7, <2>10
    <3> QED
      BY <2>3, <2>10, <3>1, RestIs
  <2>13. t = SubSeq(s, 2, Len(s))
    <3>1. Len(s) >= 1 /\ Len(t) = Len(s) - 1 /\ \A j \in 1 .. Len(t) : t[j] = s[j + 1]
      BY <1>2, <2>3, <2>7, <2>11
    <3> QED
      BY <2>3, <2>11, <3>1, RestIs
  <2>14. InFlight = a \o g /\ Seen = s /\ Prepared = Staged
    BY <1>11, ContentsAre DEF PathInv, Prepared, Seen, a, s, g
  <2>15. InFlight' = b \o Given' /\ Prepared' = Staged' /\ Seen' = t
    BY <1>10, <1>14, <1>15, ContentsAfter DEF Prepared, Seen, b, t
  <2>16. InFlight' = SubSeq(InFlight, 2, Len(InFlight))
    <3>1. SubSeq(a \o g, 2, Len(a \o g)) = SubSeq(a, 2, Len(a)) \o g
      BY <2>3, <2>5, ConsumeOne
    <3> QED
      BY <1>15, <2>12, <2>14, <2>15, <3>1 DEF g
  <2>17. 1 <= Len(InFlight)
    <3>1. a \in Seq(1 .. Items) /\ g \in Seq(1 .. Items)
      BY <2>3
    <3>2. Len(a \o g) = Len(a) + Len(g) /\ Len(g) \in Nat
      BY <3>1
    <3> QED
      BY <1>1, <2>3, <2>5, <2>14, <3>2
  <2>18. 1 \in 0 .. 2 * Max(BlockCounts)
    <3>1. Max(BlockCounts) \in Nat \ {0}
      BY MostBlocks DEF PathInv
    <3> QED
      BY <3>1
  <2>19. Channel!Next
    BY <1>15, <2>13, <2>14, <2>15, <2>16, <2>17, <2>18, Consumes
  <2> QED
    BY <1>17, <2>19
<1> QED
  BY <1>17, <1>18, <1>19

(* The logic moves the oldest item given to the first block the hardware   *)
(* has: what is on its way stays the same sequence.                        *)
LEMMA TransferPath ==
  ASSUME PathInv, LoopInv', Transfer
  PROVE  PathInv' /\ UNCHANGED Channel!chanVars
<1> DEFINE n == Size  h == held["r"]  c == Len(h)  head == blocks_head["r"]  q == queued["r"]
           e == Len(q)  v == Served  to == q[1]  w == queued["w"]  l == Len(w)  from == w[1]
           item == blocks["w"][from].content
<1>1. /\ FifoInv /\ "w" \in Fifos /\ "r" \in Fifos /\ Fifos = {"w", "r"}
      /\ n \in Nat /\ c \in Nat /\ e \in Nat /\ v \in Nat /\ v <= n /\ c <= v
      /\ q \in Seq(Nat) /\ v = n - e /\ w \in Seq(Nat) /\ l \in Nat
      /\ filled \in Nat /\ filled <= Len(held["w"]) /\ Indices("r") = 1 .. n
      /\ NoItem \notin 1 .. Items
  BY PathTypes DEF PathInv, GivenInv, Served, Indices, Size
<1>2. /\ w # << >> /\ q # << >> /\ Head(q) = to /\ Head(w) = from
      /\ blocks' = [blocks EXCEPT !["r"][to].content = item]
      /\ queued'["w"] = Tail(w) /\ queued'["r"] = Tail(q)
      /\ UNCHANGED << blocks_head, held, filled >>
  <2>1. w # << >> /\ q # << >>
    BY DEF Transfer
  <2>2. Head(q) = to /\ Head(w) = from
    <3> HIDE DEF q, w
    <3> QED
      BY <1>1, <2>1
  <2> HIDE DEF to, from
  <2> QED
    BY <1>1, <2>1, <2>2 DEF Transfer
<1>3. /\ l >= 1 /\ Len(Tail(w)) = l - 1 /\ \A k \in 1 .. l - 1 : Tail(w)[k] = w[k + 1]
  <2> HIDE DEF w
  <2> QED
    BY <1>1, <1>2, HeadTailProperties
<1>4. /\ e >= 1 /\ Len(Tail(q)) = e - 1 /\ \A k \in 1 .. e - 1 : Tail(q)[k] = q[k + 1]
  <2> HIDE DEF q
  <2> QED
    BY <1>1, <1>2, HeadTailProperties
<1>5. item \in 1 .. Items /\ \A k \in 1 .. l : blocks["w"][w[k]].content \in 1 .. Items
  <2>1. \A k \in 1 .. l : blocks["w"][w[k]].content \in 1 .. Items
    BY DEF PathInv, GivenInv
  <2>2. 1 \in 1 .. l
    BY <1>1, <1>3
  <2> QED
    BY <2>1, <2>2
<1>6. \A k \in 1 .. e : q[k] = Place(n, head, c, v + k)
  BY DEF PathInv, RingInv
<1>7. head \in 1 .. n /\ c \in 0 .. n /\ v + 1 \in 1 .. n /\ 1 \in 1 .. e
  <2>1. n = 0 \/ head \in 1 .. n
    BY PathTypes DEF PathInv
  <2> HIDE DEF n, c, head, v, e
  <2> QED
    BY <1>1, <1>4, <2>1
<1> HIDE DEF item
<1>8. /\ to = Place(n, head, c, v + 1) /\ to \in 1 .. n
      /\ \A t \in 1 .. n : /\ Place(n, head, c, t) \in 1 .. n
                           /\ t # v + 1 => Place(n, head, c, t) # to
  <2> HIDE DEF n, c, head, v, e, q
  <2>1. to = Place(n, head, c, v + 1)
    BY <1>6, <1>7
  <2>2. ASSUME NEW t \in 1 .. n
        PROVE  /\ Place(n, head, c, t) \in 1 .. n
               /\ \A u \in 1 .. n : Place(n, head, c, t) = Place(n, head, c, u) => t = u
    BY <1>1, <1>7, PlaceIsPlace
  <2> QED
    BY <1>7, <2>1, <2>2
<1>9. /\ blocks'["r"][to].content = item /\ blocks'["w"] = blocks["w"]
      /\ \A j \in 1 .. n : j # to => blocks'["r"][j].content = blocks["r"][j].content
      /\ \A o \in Fifos : Len(blocks'[o]) = Len(blocks[o])
  <2>1. item \in {NoItem} \cup 1 .. Items /\ to \in Indices("r")
    BY <1>1, <1>5, <1>8
  <2> HIDE DEF to, n
  <2>2. /\ blocks'["r"][to].content = item
        /\ \A j \in Indices("r") : j # to => blocks'["r"][j].content = blocks["r"][j].content
    BY <1>1, <1>2, <2>1, FilledContent
  <2>3. blocks'["w"] = blocks["w"] /\ \A o \in Fifos : Len(blocks'[o]) = Len(blocks[o])
    BY <1>1, <1>2, <2>1, Filled
  <2> QED
    BY <1>1, <2>2, <2>3
<1>10. Size' = n /\ Served' = v + 1 /\ Len(held'["r"]) = c /\ blocks_head'["r"] = head
  <2>1. Size' = n
    BY <1>1, <1>9 DEF Size
  <2>2. Served' = n - (e - 1)
    BY <1>2, <1>4, <2>1 DEF Served
  <2>3. \A x \in Nat, y \in Nat : x - (y - 1) = (x - y) + 1
    OBVIOUS
  <2>4. n - (e - 1) = (n - e) + 1
    <3> HIDE DEF n, e
    <3> QED
      BY <1>1, <2>3
  <2> QED
    BY <1>1, <1>2, <2>1, <2>2, <2>4
<1>11. \A t \in 1 .. n : IF t = v + 1 THEN Holds(t)' = item ELSE Holds(t)' = Holds(t)
  <2>1. \A t : Holds(t)' = blocks'["r"][Place(n, head, c, t)].content
    BY <1>10 DEF Holds
  <2>2. \A t : Holds(t) = blocks["r"][Place(n, head, c, t)].content
    BY DEF Holds
  <2> HIDE DEF n, c, head, v, to
  <2> QED
    BY <1>8, <1>9, <2>1, <2>2
<1>12. SizeInv'
  BY <1>9 DEF PathInv, SizeInv
<1> HIDE DEF n, h, c, head, q, e, v, to, w, l
<1>13. RingInv'
  <2>1. c + (e - 1) <= n
    BY <1>1, <1>4
  <2>2. ASSUME NEW k \in 1 .. e - 1 PROVE Tail(q)[k] = Place(n, head, c, (v + 1) + k)
    <3>1. k + 1 \in 1 .. e /\ v + (k + 1) = (v + 1) + k
      BY <1>1
    <3> QED
      BY <1>4, <1>6, <3>1
  <2> QED
    BY <1>2, <1>4, <1>7, <1>10, <2>1, <2>2 DEF RingInv
<1>14. PICK lo \in Nat : Since(lo)
  BY DEF PathInv
<1>15. lo <= v /\ \A t \in 1 .. n : Holds(t) # NoItem <=> lo < t /\ t <= v
  BY <1>1, <1>14 DEF Since, n, v
<1>16. Since(lo)'
  <2>1. lo \in 0 .. v + 1
    BY <1>1, <1>15
  <2>2. ASSUME NEW t \in 1 .. n PROVE Holds(t)' # NoItem <=> lo < t /\ t <= v + 1
    <3>1. CASE t = v + 1
      <4>1. Holds(t)' # NoItem
        BY <1>1, <1>5, <1>11, <3>1
      <4>2. lo < t /\ t <= v + 1
        BY <1>1, <1>15, <3>1
      <4> QED
        BY <4>1, <4>2
    <3>2. CASE t # v + 1
      <4>1. Holds(t)' = Holds(t)
        BY <1>11, <3>2
      <4>2. t <= v <=> t <= v + 1
        BY <1>1, <3>2
      <4> QED
        BY <1>15, <4>1, <4>2
    <3> QED
      BY <3>1, <3>2
  <2> QED
    BY <1>10, <2>1, <2>2 DEF Since
<1>17. \A k \in 1 .. l - 1 : blocks'["w"][queued'["w"][k]].content = blocks["w"][w[k + 1]].content
  BY <1>2, <1>3, <1>9
<1>18. GivenInv'
  <2>1. \A k \in 1 .. l - 1 : k + 1 \in 1 .. l
    BY <1>1
  <2>2. \A k \in 1 .. l - 1 : blocks'["w"][queued'["w"][k]].content \in 1 .. Items
    BY <1>5, <1>17, <2>1
  <2>3. Len(queued'["w"]) = l - 1
    BY <1>2, <1>3
  <2>4. \A k \in 1 .. filled : blocks'["w"][held'["w"][k]].content \in 1 .. Items
    BY <1>2, <1>9 DEF PathInv, GivenInv
  <2>5. filled' = filled /\ filled <= Len(held'["w"])
    BY <1>1, <1>2
  <2> QED
    BY <2>2, <2>3, <2>4, <2>5 DEF GivenInv
<1>19. Staged' = Staged
  BY <1>2, <1>9 DEF Staged
<1> DEFINE a == Arrived(lo, Served)  b == Arrived(lo, Served)'  g == Given  f == Given'
           s == Arrived(lo, Looked(lo))
<1>20. /\ a \in Seq(1 .. Items) /\ Len(a) = v - lo /\ \A j \in 1 .. v - lo : a[j] = Holds(lo + j)
       /\ g \in Seq(1 .. Items) /\ Len(g) = l /\ Looked(lo) \in Nat /\ Looked(lo) <= v
  BY <1>14, SequencesAre DEF PathInv, v, w, l
<1>21. \A k \in 1 .. l : g[k] = blocks["w"][w[k]].content
  BY DEF Given, w, l
<1>22. f = Tail(g)
  <2>1. f = [k \in 1 .. l - 1 |-> blocks'["w"][queued'["w"][k]].content]
    BY <1>2, <1>3 DEF Given
  <2> HIDE DEF f, g
  <2>2. \A k \in 1 .. l - 1 : k + 1 \in 1 .. l
    BY <1>1
  <2>3. f = [k \in 1 .. l - 1 |-> f[k]] /\ \A k \in 1 .. l - 1 : f[k] = g[k + 1]
    BY <1>17, <1>21, <2>1, <2>2
  <2>4. \A k \in 1 .. l : g[k] \in 1 .. Items
    BY <1>20, ElementOfSeq
  <2>5. l - 1 \in Nat
    BY <1>1, <1>3
  <2>6. \A k \in 1 .. l - 1 : f[k] \in 1 .. Items
    BY <2>2, <2>3, <2>4
  <2>7. f \in Seq(1 .. Items) /\ Len(f) = l - 1
    BY <2>3, <2>5, <2>6, FromTo
  <2>8. Len(g) >= 1 /\ Len(f) = Len(g) - 1 /\ \A k \in 1 .. Len(f) : f[k] = g[k + 1]
    BY <1>3, <1>20, <2>3, <2>7
  <2> QED
    BY <1>20, <2>7, <2>8, RestIs
<1>23. b = Append(a, g[1])
  <2>1. b = [j \in 1 .. (v + 1) - lo |-> Holds(lo + j)']
    BY <1>10 DEF Arrived
  <2>2. g[1] = item
    <3>1. 1 \in 1 .. l
      BY <1>1, <1>3
    <3> HIDE DEF g
    <3> QED
      BY <1>21, <3>1 DEF item, from, w
  <2> DEFINE m == v - lo
  <2>3. /\ m \in Nat /\ (v + 1) - lo = m + 1 /\ m + 1 \in Nat /\ lo + (m + 1) = v + 1
        /\ \A j \in 1 .. m + 1 : j \in 1 .. m \/ j = m + 1
        /\ \A j \in 1 .. m : lo + j \in 1 .. n /\ lo + j # v + 1 /\ j \in 1 .. m + 1
        /\ m + 1 \in 1 .. m + 1
    BY <1>1, <1>7, <1>15
  <2>4. Len(a) = m /\ \A j \in 1 .. m : a[j] = Holds(lo + j)
    BY <1>20
  <2> HIDE DEF a, b, g, m
  <2>5. b = [j \in 1 .. m + 1 |-> b[j]] /\ \A j \in 1 .. m + 1 : b[j] = Holds(lo + j)'
    BY <2>1, <2>3
  <2>6. \A j \in 1 .. m : b[j] = a[j]
    BY <1>11, <2>3, <2>4, <2>5
  <2>7. b[m + 1] = item
    BY <1>7, <1>11, <2>3, <2>5
  <2>8. \A j \in 1 .. m : a[j] \in 1 .. Items
    BY <1>20, <2>4, ElementOfSeq
  <2>9. \A j \in 1 .. m + 1 : b[j] \in 1 .. Items
    BY <1>5, <2>3, <2>6, <2>7, <2>8
  <2>10. b \in Seq(1 .. Items) /\ Len(b) = m + 1
    BY <2>3, <2>5, <2>9, FromTo
  <2>11. Len(b) = Len(a) + 1 /\ (\A j \in 1 .. Len(a) : b[j] = a[j]) /\ b[Len(a) + 1] = item
    BY <2>4, <2>6, <2>7, <2>10
  <2> QED
    BY <1>5, <1>20, <2>2, <2>10, <2>11, AppendIs
<1>24. Arrived(lo, Looked(lo))' = s
  <2> DEFINE x == Looked(lo)
  <2>1. Looked(lo)' = x
    BY <1>2 DEF Looked
  <2>2. /\ Arrived(lo, Looked(lo))' = [j \in 1 .. x - lo |-> Holds(lo + j)']
        /\ s = [j \in 1 .. x - lo |-> Holds(lo + j)]
    BY <2>1 DEF Arrived
  <2> HIDE DEF x, s
  <2>3. \A j \in 1 .. x - lo : lo + j \in 1 .. n /\ lo + j # v + 1
    BY <1>1, <1>20 DEF x
  <2>4. \A j \in 1 .. x - lo : Holds(lo + j)' = Holds(lo + j)
    BY <1>11, <2>3
  <2> QED
    BY <2>2, <2>4
<1>25. InFlight = a \o g /\ Prepared = Staged /\ Seen = s
  BY <1>14, ContentsAre DEF PathInv, Prepared, Seen
<1>26. InFlight' = b \o f /\ Prepared' = Staged' /\ Seen' = Arrived(lo, Looked(lo))'
  BY <1>13, <1>16, <1>18, ContentsAfter DEF Prepared, Seen
<1>27. b \o f = a \o g
  <2> HIDE DEF a, b, f, g
  <2>1. Len(g) >= 1
    BY <1>3, <1>20
  <2>2. Append(a, g[1]) \o Tail(g) = a \o g
    BY <1>20, <2>1, MoveOne
  <2> QED
    BY <1>22, <1>23, <2>2
<1>28. UNCHANGED Channel!chanVars
  BY <1>19, <1>24, <1>25, <1>26, <1>27, Stutters
<1> QED
  BY <1>12, <1>13, <1>14, <1>16, <1>18, <1>28 DEF PathInv
-----------------------------------------------------------------------------
(* The path starts empty.                                                  *)
LEMMA PathInit == Init => PathInv /\ Channel!Init
<1> SUFFICES ASSUME Init PROVE PathInv /\ Channel!Init
  OBVIOUS
<1>1. LoopInv /\ "w" \in Fifos /\ "r" \in Fifos
  BY LoopInit, LoopbackAssumption
<1>2. /\ \A f \in Fifos : blocks[f] = << >> /\ held[f] = << >> /\ queued[f] = << >>
      /\ filled = 0 /\ Len(<< >>) = 0
  BY DEF Init, FifoInit
<1>3. Size = 0 /\ Served = 0 /\ Len(queued["r"]) = 0 /\ Len(held["r"]) = 0
  BY <1>1, <1>2 DEF Size, Served
<1>4. SizeInv
  BY <1>2 DEF SizeInv
<1>5. RingInv
  BY <1>3 DEF RingInv
<1>6. GivenInv
  BY <1>1, <1>2 DEF GivenInv
<1>7. Since(0)
  BY <1>3 DEF Since
<1>8. PathInv
  BY <1>1, <1>4, <1>5, <1>6, <1>7 DEF PathInv
<1>9. /\ InFlight = Arrived(0, Served) \o Given /\ Prepared = Staged
      /\ Seen = Arrived(0, Looked(0))
  BY <1>1, <1>5, <1>6, <1>7, ContentsAre DEF Prepared, Seen
<1>10. Looked(0) = 0
  BY <1>3 DEF Looked
<1>11. Arrived(0, Served) = << >> /\ Arrived(0, Looked(0)) = << >> /\ Given = << >> /\ Staged = << >>
  <2>1. 0 - 0 = 0 /\ Len(queued["w"]) = 0
    BY <1>1, <1>2
  <2>2. Arrived(0, Served) = << >> /\ Arrived(0, Looked(0)) = << >>
    BY <1>3, <1>10, <2>1 DEF Arrived
  <2>3. Given = << >> /\ Staged = << >>
    BY <1>2, <2>1 DEF Given, Staged
  <2> QED
    BY <2>2, <2>3
<1>12. InFlight = << >> /\ Prepared = << >> /\ Seen = << >>
  <2>1. << >> \o << >> = << >>
    OBVIOUS
  <2> QED
    BY <1>9, <1>11, <2>1
<1>13. Channel!Init
  BY <1>12 DEF Channel!Init, Prepared, Seen
<1> QED
  BY <1>8, <1>13

(* Every step of the program and of the logic is one of the channel, or    *)
(* leaves it alone.                                                        *)
LEMMA PathNext ==
  ASSUME PathInv, [Next]_loopVars
  PROVE  PathInv' /\ [Channel!Next]_(Channel!chanVars)
<1>1. LoopInv' /\ Fifos = {"w", "r"}
  BY LoopNext, LoopbackAssumption DEF PathInv
<1>2. CASE UNCHANGED loopVars
  <2>1. /\ UNCHANGED << blocks["r"], blocks_head["r"], held["r"], queued["r"] >>
        /\ UNCHANGED << filled, held["w"], queued["w"], blocks["w"], blocks >>
    BY <1>2 DEF loopVars, fifoVars, driverVars
  <2>2. SizeInv'
    BY <2>1 DEF PathInv, SizeInv
  <2>3. filled <= Len(held'["w"])
    BY <2>1 DEF PathInv, GivenInv
  <2> QED
    BY <1>1, <2>1, <2>2, <2>3, WriterSide
<1>3. ASSUME NEW f \in Fifos, Reconfigures(f) PROVE PathInv' /\ UNCHANGED Channel!chanVars
  <2>1. f = "w" \/ f = "r"
    BY <1>1
  <2>2. CASE f = "w"
    BY <1>1, <1>3, <2>2, WriterReconfiguredPath
  <2>3. CASE f = "r"
    BY <1>1, <1>3, <2>3, ReaderReconfiguredPath
  <2> QED
    BY <2>1, <2>2, <2>3
<1>4. CASE WriterTakes
  BY <1>1, <1>4, WriterTakesPath
<1>5. CASE WriterFills
  BY <1>1, <1>5, WriterFillsPath
<1>6. CASE WriterGives
  BY <1>1, <1>6, WriterGivesPath
<1>7. CASE WriterFlushes
  BY <1>1, <1>7, WriterFlushesPath
<1>8. CASE ReaderTakes
  BY <1>1, <1>8, ReaderTakesPath
<1>9. CASE ReaderGives
  BY <1>1, <1>9, ReaderGivesPath
<1>10. CASE Transfer
  BY <1>1, <1>10, TransferPath
<1> QED
  BY <1>2, <1>3, <1>4, <1>5, <1>6, <1>7, <1>8, <1>9, <1>10 DEF Next

(* Two DMA fifos and the logic between them keep the promise of the queues *)
(* in memory: every item the program enqueues at one end is dequeued at    *)
(* the other, once and in order, whatever blocks the two programs hold,    *)
(* and although reconfigure(), dispose() and flush() throw blocks away or  *)
(* leave with an exception (HardwareDMAFifo::dequeue, enqueue, flush,      *)
(* reconfigure).                                                           *)
THEOREM LoopImplementsChannels == Spec => ImplementsChannels
<1> QED
  BY PathInit, PathNext, PTL DEF Spec, ImplementsChannels, Channel!Spec
=============================================================================
