------------------------------ MODULE Channels ------------------------------
(***************************************************************************)
(* What a queue promises its two clients, whatever memory it keeps the     *)
(* elements in and however it makes a client wait: a Kahn channel, a       *)
(* bounded first-in first-out sequence.                                    *)
(*                                                                         *)
(* The producer prepares elements in memory the queue lends it and commits *)
(* a prefix of what it prepared; the consumer looks at committed elements  *)
(* in order, in place, and consumes a prefix of the channel.               *)
(***************************************************************************)
EXTENDS Naturals, Sequences

CONSTANTS Queues, Capacity, Values

VARIABLES
  chan,      \* [Queues -> Seq(Values)], committed and not consumed
  staged,    \* [Queues -> Seq(Values)], prepared by the producer, not committed
  seen       \* [Queues -> Seq(Values)], looked at by the consumer, not consumed

chanVars == << chan, staged, seen >>

Init ==
  /\ chan   = [q \in Queues |-> << >>]
  /\ staged = [q \in Queues |-> << >>]
  /\ seen   = [q \in Queues |-> << >>]

Prepare(q, v) ==
  /\ Len(chan[q]) + Len(staged[q]) < Capacity[q]
  /\ staged' = [staged EXCEPT ![q] = Append(@, v)]
  /\ UNCHANGED << chan, seen >>

Commit(q, c) ==
  /\ c <= Len(staged[q])
  /\ chan' = [chan EXCEPT ![q] = @ \o SubSeq(staged[q], 1, c)]
  /\ staged' = [staged EXCEPT ![q] = SubSeq(@, c + 1, Len(@))]
  /\ UNCHANGED seen

Look(q) ==
  /\ Len(seen[q]) < Len(chan[q])
  /\ seen' = [seen EXCEPT ![q] = Append(@, chan[q][Len(@) + 1])]
  /\ UNCHANGED << chan, staged >>

Consume(q, c) ==
  /\ c <= Len(chan[q])
  /\ chan' = [chan EXCEPT ![q] = SubSeq(@, c + 1, Len(@))]
  /\ seen' = [seen EXCEPT ![q] = SubSeq(@, c + 1, Len(@))]
  /\ UNCHANGED staged

(* A client that asks for memory again drops what it did not commit, or    *)
(* starts over at the oldest element.                                      *)
Redo(q) ==
  /\ \/ staged' = [staged EXCEPT ![q] = << >>] /\ UNCHANGED seen
     \/ seen'   = [seen   EXCEPT ![q] = << >>] /\ UNCHANGED staged
  /\ UNCHANGED chan

(* Only an explicit clear() of a queue nobody is using loses elements.     *)
Empty(q) ==
  /\ staged[q] = << >> /\ seen[q] = << >>
  /\ chan' = [chan EXCEPT ![q] = << >>]
  /\ UNCHANGED << staged, seen >>

Next ==
  \E q \in Queues :
    \/ \E v \in Values : Prepare(q, v)
    \/ \E c \in 0 .. Capacity[q] : Commit(q, c) \/ Consume(q, c)
    \/ Look(q)
    \/ Redo(q)
    \/ Empty(q)

Spec == Init /\ [][Next]_chanVars
=============================================================================
