------------------------ MODULE CooperativePipeline ------------------------
(***************************************************************************)
(* A chain of CooperativeProcess objects (cooperativeprocess.hpp,          *)
(* cooperativescheduler.hpp): process p of 1 .. N reads queue p - 1 and    *)
(* writes queue p.  Queues 0 .. N - 1 have a CooperativeScheduler: their   *)
(* trigger_not_empty and wait_until_not_full call process_one of the next  *)
(* process, so one call of push_one runs the whole chain on one stack.     *)
(* The last queue has a scheduler that makes the caller wait for another   *)
(* thread (PthreadScheduler), or throws (NoopScheduler): both are tried.   *)
(*                                                                         *)
(* Queue p always calls process p + 1, so the actors on the stack are      *)
(* among 0 .. active - 1, in this order: actor 0 is the caller of          *)
(* push_one, and a resume_write of queue q starts above process q, so that *)
(* actor q is its caller and the actors below have no frame ("outside").   *)
(* An element is the number of the push it was made from.                  *)
(* FixedMemoryQueue shows that a ring is a FIFO channel; the contents of a *)
(* queue are a sequence here, with the place of the oldest element.        *)
(***************************************************************************)
EXTENDS RingArithmetic, SequencesExt

CONSTANTS
  N,              \* the number of processes
  Capacity,       \* [0 .. N -> positive number]
  Blocksize,      \* [1 .. N -> positive number]
  Items,          \* bound on the calls of push_one
  MaxInterrupts,  \* bound on the calls of interrupt_write
  MaxReceived     \* [BOOLEAN -> bound on the elements popped]: an exception may
                  \* double some, and there is no end to exceptions if nobody waits

Queues    == 0 .. N
Processes == 1 .. N

ASSUME PipelineAssumption ==
  /\ N \in Nat \ {0} /\ {Items, MaxInterrupts} \subseteq Nat
  /\ MaxReceived \in [BOOLEAN -> Nat]
  /\ Capacity \in [Queues -> Nat \ {0}]
  /\ Blocksize \in [Processes -> Nat \ {0}]

VARIABLES
  outputWaits,   \* has the last queue a PthreadScheduler?
  fifo,          \* [Queues -> sequence of elements]
  m_last,        \* [Queues -> place of the oldest element in the ring]
  active,        \* how many actors are on the stack
  pc,            \* [Queues -> where the actor that writes the queue is]
  interrupted,   \* m_interrupted_not_full of the last queue
  sent,          \* how many elements were pushed
  received,      \* the elements popped from the last queue
  thrown,        \* has an exception ever reached the caller of push_one?
  interrupts     \* how often interrupt_write was called

vars == << outputWaits, fifo, m_last, active, pc, interrupted, sent, received, thrown,
           interrupts >>

m_size(q)    == Len(fifo[q])
m_first(q)   == Wrap(Capacity[q], m_last[q] + m_size(q))
available(q) == Capacity[q] - m_size(q)
Count(a)     == IF a = 0 THEN 1 ELSE Blocksize[a]

(* Actor a is on top of the stack, at this place of its code.              *)
At(a, place) == active = a + 1 /\ pc[a] = place

Init ==
  /\ outputWaits \in BOOLEAN
  /\ fifo   = [q \in Queues |-> << >>]
  /\ m_last = [q \in Queues |-> 0]
  /\ active = 0
  /\ pc     = [a \in Queues |-> "outside"]
  /\ interrupted = FALSE /\ interrupts = 0
  /\ sent = 0 /\ received = << >> /\ thrown = FALSE

-----------------------------------------------------------------------------
(* Actor a goes on at a place, and calls process_one of the next process.  *)
GoTo(a, place) == pc' = [pc EXCEPT ![a] = place] /\ UNCHANGED active
GoToAndCall(a, place) ==
  /\ pc' = [pc EXCEPT ![a] = place, ![a + 1] = "begin_read"]
  /\ active' = active + 1

ReadOffered(p) ==
  ReadRoom(Capacity[p - 1], m_first(p - 1), m_last[p - 1], m_size(p - 1))

(* The comparison with blocksize off by one.                               *)
BeginReadTooFew(p) ==
  /\ At(p, "begin_read")
  /\ IF ReadOffered(p) <= Blocksize[p]
     THEN pc' = [pc EXCEPT ![p] = "outside"] /\ active' = active - 1
     ELSE GoTo(p, "begin_write")
  /\ UNCHANGED << outputWaits, fifo, m_last, interrupted, sent, received, thrown, interrupts >>

(* process_one: begin_read(src, 0) never waits; without a whole block the  *)
(* process returns to the queue that called it.                            *)
BeginRead(p) ==
  /\ At(p, "begin_read")
  /\ IF ReadOffered(p) < Blocksize[p]
     THEN pc' = [pc EXCEPT ![p] = "outside"] /\ active' = active - 1
     ELSE GoTo(p, "begin_write")
  /\ UNCHANGED << outputWaits, fifo, m_last, interrupted, sent, received, thrown, interrupts >>

(* begin_write finds room, or lets the next process run and looks again.   *)
BeginWriteReturns(a) ==
  /\ At(a, "begin_write") /\ available(a) >= Count(a)
  /\ GoTo(a, "end_write")
  /\ UNCHANGED << outputWaits, fifo, m_last, interrupted, sent, received, thrown, interrupts >>

BeginWriteRunsNext(a) ==
  /\ At(a, "begin_write") /\ available(a) < Count(a) /\ a < N
  /\ GoToAndCall(a, "begin_write")
  /\ UNCHANGED << outputWaits, fifo, m_last, interrupted, sent, received, thrown, interrupts >>

(* As if the process had handed its block back before it had room.         *)
BeginWriteThrowsAfterRead ==
  /\ At(N, "begin_write") /\ available(N) < Count(N)
  /\ outputWaits => interrupted
  /\ active' = 0 /\ pc' = [a \in Queues |-> "outside"]
  /\ thrown' = TRUE
  /\ fifo'   = [fifo EXCEPT ![N - 1] = SubSeq(@, Blocksize[N] + 1, Len(@))]
  /\ m_last' = [m_last EXCEPT ![N - 1] = Increment(Capacity[N - 1], @, Blocksize[N])]
  /\ UNCHANGED << outputWaits, interrupted, sent, received, interrupts >>

(* The last queue makes its writer wait until the other thread made room;  *)
(* if it is interrupted, or cannot wait, the exception unwinds the stack:  *)
(* nothing on it catches.                                                  *)
BeginWriteThrows ==
  /\ At(N, "begin_write") /\ available(N) < Count(N)
  /\ outputWaits => interrupted
  /\ active' = 0 /\ pc' = [a \in Queues |-> "outside"]
  /\ thrown' = TRUE
  /\ UNCHANGED << outputWaits, fifo, m_last, interrupted, sent, received, interrupts >>

(* The block function and end_write, which runs the next process before it *)
(* returns; push_one is done then, a process has its end_read to do.       *)
Made(a) == IF a = 0 THEN << sent + 1 >> ELSE SubSeq(fifo[a - 1], 1, Blocksize[a])

EndWrite(a) ==
  /\ At(a, "end_write")
  /\ fifo' = [fifo EXCEPT ![a] = @ \o Made(a)]
  /\ sent' = IF a = 0 THEN sent + 1 ELSE sent
  /\ LET next == IF a = 0 THEN "return" ELSE "end_read" IN
     IF a < N THEN GoToAndCall(a, next) ELSE GoTo(a, next)
  /\ UNCHANGED << outputWaits, m_last, interrupted, received, thrown, interrupts >>

(* An end_read that hands back one element of the block.                   *)
EndReadOfOne(p) ==
  /\ At(p, "end_read")
  /\ fifo'   = [fifo EXCEPT ![p - 1] = SubSeq(@, 2, Len(@))]
  /\ m_last' = [m_last EXCEPT ![p - 1] = Increment(Capacity[p - 1], @, 1)]
  /\ GoTo(p, "begin_read")
  /\ UNCHANGED << outputWaits, interrupted, sent, received, thrown, interrupts >>

EndRead(p) ==
  /\ At(p, "end_read")
  /\ fifo'   = [fifo EXCEPT ![p - 1] = SubSeq(@, Blocksize[p] + 1, Len(@))]
  /\ m_last' = [m_last EXCEPT ![p - 1] = Increment(Capacity[p - 1], @, Blocksize[p])]
  /\ GoTo(p, "begin_read")
  /\ UNCHANGED << outputWaits, interrupted, sent, received, thrown, interrupts >>

Return(a) ==
  /\ At(a, "return")
  /\ pc' = [pc EXCEPT ![a] = "outside"] /\ active' = 0
  /\ UNCHANGED << outputWaits, fifo, m_last, interrupted, sent, received, thrown, interrupts >>

StackNext ==
  \/ \E p \in Processes : BeginRead(p) \/ EndRead(p)
  \/ \E a \in Queues :
       BeginWriteReturns(a) \/ BeginWriteRunsNext(a) \/ EndWrite(a) \/ Return(a)
  \/ BeginWriteThrows

-----------------------------------------------------------------------------
(* The caller: push_one, or resume_write of a cooperative queue, which     *)
(* runs the process that reads it.                                         *)
push_one ==
  /\ active = 0 /\ sent < Items
  /\ active' = 1 /\ pc' = [pc EXCEPT ![0] = "begin_write"]
  /\ UNCHANGED << outputWaits, fifo, m_last, interrupted, sent, received, thrown, interrupts >>

resume_write(q) ==
  /\ active = 0
  /\ active' = q + 2 /\ pc' = [pc EXCEPT ![q] = "return", ![q + 1] = "begin_read"]
  /\ UNCHANGED << outputWaits, fifo, m_last, interrupted, sent, received, thrown, interrupts >>

(* interrupt_write on any queue is passed on, process by process, to the   *)
(* last one.  It is not passed back by resume_write: the user resumes the  *)
(* last queue itself.                                                      *)
interrupt_write ==
  /\ outputWaits /\ interrupts < MaxInterrupts
  /\ interrupted' = TRUE /\ interrupts' = interrupts + 1
  /\ UNCHANGED << outputWaits, fifo, m_last, active, pc, sent, received, thrown >>

resume_output ==
  /\ interrupted /\ interrupted' = FALSE
  /\ UNCHANGED << outputWaits, fifo, m_last, active, pc, sent, received, thrown, interrupts >>

(* The other thread takes an element from the last queue; with a scheduler *)
(* that cannot wait there is no other thread, and the caller pops itself.  *)
pop_one ==
  /\ m_size(N) > 0 /\ Len(received) < MaxReceived[outputWaits]
  /\ outputWaits \/ active = 0
  /\ received' = Append(received, fifo[N][1])
  /\ fifo'   = [fifo EXCEPT ![N] = Tail(@)]
  /\ m_last' = [m_last EXCEPT ![N] = Increment(Capacity[N], @, 1)]
  /\ UNCHANGED << outputWaits, active, pc, interrupted, sent, thrown, interrupts >>

Next ==
  \/ StackNext
  \/ push_one
  \/ \E q \in 0 .. N - 1 : resume_write(q)
  \/ interrupt_write \/ resume_output
  \/ pop_one

Spec == Init /\ [][Next]_vars

-----------------------------------------------------------------------------
TypeOK ==
  /\ outputWaits \in BOOLEAN
  /\ fifo \in [Queues -> Seq(1 .. Items)]
  /\ \A q \in Queues : m_size(q) <= Capacity[q] /\ m_last[q] \in 0 .. Capacity[q] - 1
  /\ active \in 0 .. N + 1
  /\ pc \in [Queues -> {"outside", "begin_read", "begin_write", "end_write",
                        "end_read", "return"}]
  /\ interrupted \in BOOLEAN /\ thrown \in BOOLEAN
  /\ sent \in 0 .. Items /\ received \in Seq(1 .. Items)
  /\ interrupts \in 0 .. MaxInterrupts

(* What waits in a queue.  A block whose result has been committed is      *)
(* about to leave its input.                                               *)
Pending(q) ==
  IF q < N /\ pc[q + 1] = "end_read"
  THEN SubSeq(fifo[q], Blocksize[q + 1] + 1, m_size(q)) ELSE fifo[q]

(* The chain from its beginning to its end, where what was received is:    *)
(* parts 0 .. N + 1; and all that is in part q and beyond.                 *)
Parts == [q \in 0 .. N + 1 |-> IF q = N + 1 THEN received ELSE Pending(q)]
Beyond(parts, q) == UNION {ToSet(parts[r]) : r \in q .. N + 1}

(* Each of the elements 1 .. n is in one place, and behind the later ones. *)
OnceInOrder(parts, n) ==
  /\ Beyond(parts, 0) = 1 .. n
  /\ \A q \in 0 .. N + 1 : \A i \in DOMAIN parts[q] :
       /\ \A x \in Beyond(parts, q + 1) : x < parts[q][i]
       /\ \A j \in 1 .. i - 1 : parts[q][j] < parts[q][i]

(* Each of them is somewhere, and no element is there before all those     *)
(* that were pushed before it.                                             *)
NoneMissing(parts, n) ==
  /\ Beyond(parts, 0) = 1 .. n
  /\ \A q \in 0 .. N + 1 : \A i \in DOMAIN parts[q] : \A x \in 1 .. parts[q][i] - 1 :
       x \in Beyond(parts, q + 1) \/ \E j \in 1 .. i - 1 : parts[q][j] = x

(* As long as no exception crossed the stack, every element goes through   *)
(* once and in order, however the calls nest.                              *)
ExactlyOnce == ~ thrown => OnceInOrder(Parts, sent)

(* An exception may leave a block both in the input and in the output of a *)
(* process, which processes it again.  But nothing is ever lost: what is   *)
(* new in the chain comes in order and without gaps.                       *)
NothingLost == NoneMissing(Parts, sent)

(* process_one does not look at what begin_write returns: the memory it is *)
(* lent must hold a block without wrapping.                                *)
GrantHoldsBlock ==
  \A p \in Processes : pc[p] = "end_write" =>
    WriteRoom(Capacity[p], m_first(p), m_last[p], m_size(p)) >= Blocksize[p]

(* The stack runs, the other thread takes what there is, and the caller    *)
(* does not call resume_write for ever instead of pushing.                 *)
FairSpec == Spec /\ WF_vars(StackNext) /\ WF_vars(pop_one) /\ SF_vars(push_one)

(* push_one returns: begin_write, which runs the next process until there  *)
(* is room, does not spin for ever.                                        *)
CallsReturn == active > 0 ~> active = 0

(* No element is left behind in the chain: what the last push completes    *)
(* runs through to the end.  (With a scheduler that cannot wait it is the  *)
(* caller who has to make room.)                                           *)
EverythingArrives == outputWaits ~> thrown \/ Len(received) = Items

(* A caller that withdraws its interrupts, pushes again what push_one      *)
(* threw for, and calls resume_write after an exception.                   *)
Recovering ==
  WF_vars(resume_output) /\ \A q \in 0 .. N - 1 : SF_vars(resume_write(q))

(* Whatever was thrown on the way, everything is pushed in the end and     *)
(* runs through; less than a block may stay in front of a process, for     *)
(* what an exception doubled shifts the boundaries of the blocks.          *)
Drained ==
  /\ sent = Items /\ m_size(N) = 0
  /\ \A p \in Processes : m_size(p - 1) < Blocksize[p]
ChainDrains == Recovering => <>[](outputWaits => Drained)
=============================================================================
