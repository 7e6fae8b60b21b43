------------------------- MODULE NetworkCorrectness -------------------------
(***************************************************************************)
(* What a network of threaded processes guarantees to the threads at its   *)
(* two ends and to the user who stops and restarts its processes.          *)
(***************************************************************************)
EXTENDS ThreadedProcess, QueueCorrectness

-----------------------------------------------------------------------------
(* How many elements were put into queue q and how many were taken from    *)
(* it.  Between its end_write and its end_read a process has passed a      *)
(* block on that is still in its input.                                    *)
Put(q)   == IF q = 0 THEN sent ELSE done[q]
Taken(q) ==
  IF q = N THEN Len(received)
  ELSE IF pc[q + 1] = "end_read" THEN done[q + 1] - Blocksize[q + 1]
  ELSE done[q + 1]

(* The i-th element put into queue q went through q processes.             *)
Travelled(q, i) == (i + q * Raise) % Modulus

(* Whenever and however often processes are terminated and started again,  *)
(* whatever the thread was doing: every queue holds exactly the elements   *)
(* that were put in and not taken out, and what comes out of the network   *)
(* is what went in, in order, processed once by every process.             *)
ExactlyOnce ==
  /\ \A q \in Queues :
       Contents(q) = [i \in 1 .. Put(q) - Taken(q) |-> Travelled(q, Taken(q) + i)]
  /\ received = [i \in 1 .. Len(received) |-> Travelled(N, i)]

(* The two assertions of StaticProcessor::process: a grant has room for a  *)
(* block, so ProcessBlockFunction stays inside it.                         *)
GrantHoldsBlock ==
  \A p \in Processes :
    /\ pc[p] = "write"   => reader[In(p)].room >= Blocksize[p]
    /\ pc[p] = "process" => writer[Out(p)].room >= Blocksize[p]

(* terminate() has joined the thread: no thread of a stopped process is    *)
(* inside a call on a queue, asleep in it, or holds memory it has written  *)
(* to.  The queues may be destroyed or given to another process.           *)
StoppedIsGone ==
  \A p \in Processes : ~ (input[p] /\ output[p]) =>
    /\ pc[p] = "none"
    /\ reader[In(p)].at # "begin" /\ "reader" \notin m_condition_not_empty[In(p)]
    /\ writer[Out(p)].at # "begin" /\ "writer" \notin m_condition_not_full[Out(p)]
    /\ staged[Out(p)] = << >>

(* "External interrupt does not kill internal process": a thread ends only *)
(* because its own process is being terminated, whatever is interrupted at *)
(* the ends of the network and in the processes next to it.                *)
EndsOnlyWhenTerminated ==
  \A p \in Processes :
    ResumeFirst /\ pc[p] = "exited" => user[p] \in {"interrupt_write", "join"}

-----------------------------------------------------------------------------
(* Threads that are not asleep are run; the outside threads go on pushing  *)
(* and popping; the user finishes a terminate() it began, and starts again *)
(* what it stopped.                                                        *)
NetworkFairness ==
  /\ \A p \in Processes :
       /\ WF_networkVars(ThreadNext(p))
       /\ WF_networkVars(terminate_interrupt_write(p))
       /\ WF_networkVars(terminate_join(p))
       /\ WF_networkVars(resume(p))
       /\ WF_networkVars(set_input(p))
       /\ WF_networkVars(set_output(p))
  /\ WF_networkVars(push_one)
  /\ WF_networkVars(pop_one)
  /\ WF_networkVars(ResumeEnds)

FairNetworkSpec == NetworkSpec /\ NetworkFairness

(* No interleaving of the threads, interrupts and restarts leaves them all *)
(* waiting for each other: everything the source has to push comes out.    *)
EverythingArrives == <>(Len(received) = Items)

(* terminate() returns: the thread it joins gets out of whatever call it   *)
(* is in.  The flags are looked at before sleeping only, so this needs the *)
(* input to run dry some time or the output to fill up.                    *)
TerminateReturns ==
  \A p \in Processes : user[p] # "outside" ~> user[p] = "outside"
=============================================================================
