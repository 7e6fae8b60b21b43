----------------------------- MODULE DyploLogic -----------------------------
(***************************************************************************)
(* What programs do with the fifos of the driver (HardwareFifo), with the  *)
(* routes between them (HardwareControl) and with the nodes in the logic   *)
(* (HardwareConfig).  Each method is one ioctl, read() or write(); what    *)
(* the driver and the logic make of it is not in the repository, and is    *)
(* modelled from what testdyplodriver.cpp and testdyplostress.cpp expect   *)
(* of it.                                                                  *)
(*                                                                         *)
(* Data is counted in words, numbered in the order they are written.  A    *)
(* word carries the user signal it was written with and the sum of what    *)
(* the adders on its way have added to it.                                 *)
(***************************************************************************)
EXTENDS HardwareContext, Sequences, FiniteSets

CONSTANTS
  Ports,      \* the ports of the nodes in the logic, << node, port >>
  Capacity,   \* [kind of device, or "port" -> how many words it holds]
  Treshold,   \* the treshold of the DMA nodes
  MaxWords    \* bound on the words a test node generates

ASSUME LogicAssumption ==
  /\ Treshold \in Nat \ {0} /\ MaxWords \in Nat
  /\ \A k \in DOMAIN Capacity : Capacity[k] \in Nat \ {0}

VARIABLE logic

Ends    == Nodes \cup Ports
NoRoute == << "none", 0 >>

LogicInit ==
  logic = [routes      |-> [e \in Ends |-> NoRoute],
           fifo        |-> [e \in Ends |-> << >>],
           nonblocking |-> {},                       \* the O_NONBLOCK flags
           signal      |-> [e \in Ends |-> 0],       \* of the words to write
           read_signal |-> [e \in Ends |-> 0],       \* of the words being read
           treshold    |-> [e \in Ends |-> Treshold],
           primed      |-> {},                       \* DMA nodes that started reading
           adds        |-> [e \in Ends |-> 0],
           enabled     |-> {e[1] : e \in Ports},
           running     |-> {},                       \* test nodes that generate data
           error       |-> FALSE,                    \* the flag of a test node
           written     |-> 0, got |-> {}, discarded |-> {}]

-----------------------------------------------------------------------------
(* Routes: every source has one destination, a new route replaces the old  *)
(* one (and as if routeAddSingle took the one end for the other).          *)
IsSource(e) == e \in Ports \/ e[1] \in {"w", "dw"}
IsSink(e)   == e \in Ports \/ e[1] \in {"r", "dr"}

addRoute_swapped(src, dst) ==
  logic' = IF IsSource(dst) /\ IsSink(src)
             THEN [logic EXCEPT !.routes[dst] = src] ELSE logic
addRoute(src, dst) ==
  logic' = IF IsSource(src) /\ IsSink(dst)
             THEN [logic EXCEPT !.routes[src] = dst] ELSE logic

routeDelete(node) ==
  logic' = [logic EXCEPT !.routes =
              [e \in Ends |-> IF node \in {e[1], @[e][1]} THEN NoRoute ELSE @[e]]]
routeDeleteAll == logic' = [logic EXCEPT !.routes = [e \in Ends |-> NoRoute]]
Routes == {r \in Ends \X Ends : logic.routes[r[1]] = r[2]}

-----------------------------------------------------------------------------
(* The logic moves the words, one at a time.  A DMA node takes none before *)
(* a poll or a read has started its data pump.                             *)
Started(e) == e[1] = "dr" => e \in logic.primed
StartPump(e) == logic' = [logic EXCEPT !.primed = @ \cup {e}]

Room(e) == Capacity[IF e \in Ports THEN "port" ELSE e[1]] - Len(logic.fifo[e])

CanMove(e) ==
  LET to == logic.routes[e] IN
  /\ to # NoRoute /\ logic.fifo[e] # << >> /\ Room(to) > 0 /\ Started(to)
  /\ to \in Ports => to[1] \in logic.enabled

Move(e) ==
  /\ CanMove(e)
  /\ LET to   == logic.routes[e]
         word == [Head(logic.fifo[e]) EXCEPT !.sum = @ + logic.adds[to]]
     IN logic' = [logic EXCEPT !.fifo = [@ EXCEPT ![e] = Tail(@), ![to] = Append(@, word)]]

Settled == \A e \in Ends : ~ CanMove(e)

-----------------------------------------------------------------------------
(* write(), by the word.                                                   *)
Write(e) ==
  /\ Room(e) > 0
  /\ logic' = [logic EXCEPT
                 !.fifo[e] = Append(@, [n |-> logic.written + 1, signal |-> logic.signal[e],
                                        sum |-> 0]),
                 !.written = @ + 1]

(* How many words at the head of the fifo have signal s.                   *)
Run(e, s) ==
  LET q == logic.fifo[e] IN
  Cardinality({k \in DOMAIN q : \A j \in 1 .. k : q[j].signal = s})

(* A DMA node has data when its treshold is reached or the signal changes, *)
(* a CPU fifo as soon as there is a word.                                  *)
Ready(e) ==
  /\ logic.fifo[e] # << >>
  /\ e[1] = "dr" =>
       LET run == Run(e, Head(logic.fifo[e]).signal) IN
       run >= logic.treshold[e] \/ run < Len(logic.fifo[e])

Take(e, k) ==
  LET q == logic.fifo[e] IN
  logic' = [logic EXCEPT
              !.fifo[e] = SubSeq(q, k + 1, Len(q)),
              !.got = @ \cup {q[j].n : j \in 1 .. k},
              !.read_signal[e] = q[1].signal]

(* read(): words of one signal.  A CPU fifo returns when the next word has *)
(* another signal than the last one; it is the signal of the NEXT read.    *)
SignalChanges(e) ==
  /\ e[1] = "r" /\ logic.fifo[e] # << >> /\ Head(logic.fifo[e]).signal # logic.read_signal[e]
TakeSignal(e) ==
  logic' = [logic EXCEPT !.read_signal[e] = Head(logic.fifo[e]).signal]
Readable(e, count) ==
  LET run == Run(e, Head(logic.fifo[e]).signal) IN
  IF e[1] = "r" THEN 1 ELSE IF count < run THEN count ELSE run

(* What the words say at the end of their way: the next numbers, and the   *)
(* sum of what the adders add.                                             *)
Arrive(e, k, sum) ==
  \A j \in 1 .. k :
    /\ logic.fifo[e][j].n = Cardinality(logic.got \cup logic.discarded) + j
    /\ logic.fifo[e][j].sum = sum

-----------------------------------------------------------------------------
(* The other methods of HardwareFifo, HardwareConfig and of the test node. *)
reset(e) ==
  logic' = [logic EXCEPT !.fifo[e] = << >>, !.primed = @ \ {e},
                         !.discarded = @ \cup {w.n : w \in {logic.fifo[e][j] :
                                                             j \in DOMAIN logic.fifo[e]}}]
setUserSignal(e, s) == logic' = [logic EXCEPT !.signal[e] = s]
getUserSignal(e) == IF IsSink(e) THEN logic.read_signal[e] ELSE logic.signal[e]
setDataTreshold(e, n) ==
  logic' = IF e \in logic.primed THEN logic ELSE [logic EXCEPT !.treshold[e] = n]
fcntl_set_flag(e) == logic' = [logic EXCEPT !.nonblocking = @ \cup {e}]
enableNode(node, on) ==
  logic' = [logic EXCEPT !.enabled = IF on THEN @ \cup {node} ELSE @ \ {node}]
Configure(node, blob) ==
  logic' = [logic EXCEPT !.adds =
              [e \in Ends |-> IF e[1] = node THEN blob[e[2] + 1] ELSE @[e]]]
StartStop(node, on) ==
  logic' = [logic EXCEPT !.running = IF on THEN @ \cup {node} ELSE @ \ {node}]

(* A test node that runs sends numbers, and compares what it receives.     *)
Generate(e) ==
  /\ e[1] \in logic.running /\ e \in Ports /\ logic.written < MaxWords
  /\ Write(e)
Compare(e) ==
  /\ e[1] = "checker" /\ logic.fifo[e] # << >>
  /\ logic' = [logic EXCEPT !.fifo[e] = Tail(@), !.got = @ \cup {Head(logic.fifo[e]).n},
                            !.error = @ \/ ~ Arrive(e, 1, 0)]
=============================================================================
