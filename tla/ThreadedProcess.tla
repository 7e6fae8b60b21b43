--------------------------- MODULE ThreadedProcess ---------------------------
(***************************************************************************)
(* A network of ThreadedProcess objects (threadedprocess.hpp, thread.hpp): *)
(* process p of 1 .. N reads queue p - 1 and writes queue p, and runs      *)
(* StaticProcessor::process in a thread of its own.  One outside thread    *)
(* pushes elements into queue 0, another pops them from queue N, and the   *)
(* user of the network stops processes and starts them again.              *)
(*                                                                         *)
(* The threads meet in the queues only.  Each of their calls is the action *)
(* of FixedMemoryQueue that models it, together with where the call leaves *)
(* the thread that makes it.                                               *)
(***************************************************************************)
EXTENDS FixedMemoryQueue, Integers

CONSTANTS
  N,              \* the number of processes
  Blocksize,      \* [1 .. N -> positive number], a template parameter
  Modulus,        \* elements are unsigned integers, they wrap around here
  Raise,          \* ProcessBlockFunction adds it to every element
  Items,          \* the elements pushed are 1 .. Items
  MaxDisturbances, \* bound on the terminate() calls and the interrupts of the
                  \* outside threads, together
  ResumeFirst     \* does the user call resume_ before it starts a process again?

Processes == 1 .. N

ASSUME NetworkAssumption ==
  /\ N \in Nat /\ Queues = 0 .. N
  /\ Blocksize \in [Processes -> Nat \ {0}]
  /\ Modulus \in Nat \ {0} /\ Values = 0 .. Modulus - 1
  /\ Items \in 0 .. Modulus - 1 /\ Raise \in Nat
  /\ {1} \cup {Blocksize[p] : p \in Processes} \subseteq Counts

VARIABLES
  pc,            \* [Processes -> where the thread of the process is]
  input, output, \* [Processes -> BOOLEAN], is the pointer set?
  user,          \* [Processes -> where the user is in the process's terminate()]
  done,          \* [Processes -> how many elements its threads have written]
  source,        \* where push_one is
  sent,          \* how many elements were pushed
  sink,          \* where pop_one is
  received,      \* the elements popped
  terminates, interrupts     \* counters for the bounds

processVars == << pc, input, output, user, done, terminates >>
outsideVars == << source, sent, sink, received, interrupts >>
networkVars == << queueVars, processVars, outsideVars >>

In(p)  == p - 1
Out(p) == p

(* The bound on what comes from the user and from outside.                 *)
MayDisturb == terminates + interrupts < MaxDisturbances

ProcessBlockFunction(v) == (v + Raise) % Modulus

NetworkInit ==
  /\ Init
  /\ pc     = [p \in Processes |-> "none"]
  /\ input  = [p \in Processes |-> FALSE]
  /\ output = [p \in Processes |-> FALSE]
  /\ user   = [p \in Processes |-> "outside"]
  /\ done   = [p \in Processes |-> 0]
  /\ source = "outside" /\ sent = 0
  /\ sink   = "outside" /\ received = << >>
  /\ terminates = 0 /\ interrupts = 0

-----------------------------------------------------------------------------
(* The thread of a process: StaticProcessor::process.                      *)

GoTo(p, place, count) ==
  /\ pc'   = [pc EXCEPT ![p] = place]
  /\ done' = [done EXCEPT ![p] = @ + count]
  /\ UNCHANGED << input, output, user, terminates, outsideVars >>

(* A begin_ call returns, sleeps, or throws the InterruptedException that  *)
(* ends process().                                                         *)
AfterBegin(p, client, next) ==
  CASE client.at = "holding" -> next
    [] client.at = "begin"   -> pc[p]
    [] client.at = "outside" -> "exited"

ReadBlock(p) ==
  /\ pc[p] = "read" /\ CallBeginRead(In(p), Blocksize[p])
  /\ GoTo(p, "reading", 0)

Reading(p) ==
  /\ pc[p] = "reading" /\ BeginRead(In(p))
  /\ GoTo(p, AfterBegin(p, reader'[In(p)], "write"), 0)

WriteBlock(p) ==
  /\ pc[p] = "write" /\ CallBeginWrite(Out(p), Blocksize[p])
  /\ GoTo(p, "writing", 0)

Writing(p) ==
  /\ pc[p] = "writing" /\ BeginWrite(Out(p))
  /\ GoTo(p, AfterBegin(p, writer'[Out(p)], "process"), 0)

(* ProcessBlockFunction reads an element of its source block and stores    *)
(* what it makes of it in its destination block, element by element.       *)
ProcessLoad(p) ==
  /\ pc[p] = "process"
  /\ Len(seen[In(p)]) = Len(staged[Out(p)]) /\ Len(seen[In(p)]) < Blocksize[p]
  /\ Load(In(p))
  /\ GoTo(p, "process", 0)

ProcessStore(p) ==
  LET n == Len(staged[Out(p)]) IN
  /\ pc[p] = "process" /\ n < Len(seen[In(p)])
  /\ Store(Out(p), ProcessBlockFunction(seen[In(p)][n + 1]))
  /\ GoTo(p, "process", 0)

EndBlockWrite(p) ==
  /\ pc[p] = "process" /\ Len(staged[Out(p)]) = Blocksize[p]
  /\ EndWrite(Out(p), Blocksize[p])
  /\ GoTo(p, "end_read", Blocksize[p])

(* A process that hands back one element of the block it took.             *)
EndReadOfOne(p) ==
  /\ pc[p] = "end_read" /\ EndRead(In(p), 1)
  /\ GoTo(p, "read", 0)

EndBlockRead(p) ==
  /\ pc[p] = "end_read" /\ EndRead(In(p), Blocksize[p])
  /\ GoTo(p, "read", 0)

ThreadNext(p) ==
  \/ ReadBlock(p)   \/ Reading(p)
  \/ WriteBlock(p)  \/ Writing(p)
  \/ ProcessLoad(p) \/ ProcessStore(p)
  \/ EndBlockWrite(p) \/ EndBlockRead(p)

-----------------------------------------------------------------------------
(* The user of a process: set_input, set_output, terminate, and the        *)
(* resume_ calls on its queues.  set_input and set_output are for a        *)
(* process that has none: a second start() would lose the first thread.    *)

Resumed(p) == ~ m_interrupted_not_empty[In(p)] /\ ~ m_interrupted_not_full[Out(p)]

Start(p, in, out) ==
  pc' = [pc EXCEPT ![p] = IF in /\ out THEN "read" ELSE pc[p]]

set_input(p) ==
  /\ user[p] = "outside" /\ ~ input[p]
  /\ ResumeFirst => Resumed(p)
  /\ input' = [input EXCEPT ![p] = TRUE]
  /\ Start(p, TRUE, output[p])
  /\ UNCHANGED << output, user, done, terminates, outsideVars, queueVars >>

set_output(p) ==
  /\ user[p] = "outside" /\ ~ output[p]
  /\ ResumeFirst => Resumed(p)
  /\ output' = [output EXCEPT ![p] = TRUE]
  /\ Start(p, input[p], TRUE)
  /\ UNCHANGED << input, user, done, terminates, outsideVars, queueVars >>

(* terminate() of a process that is not running forgets its queues.        *)
terminate_idle(p) ==
  /\ user[p] = "outside" /\ MayDisturb
  /\ input[p] # output[p]
  /\ input'  = [input EXCEPT ![p] = FALSE]
  /\ output' = [output EXCEPT ![p] = FALSE]
  /\ terminates' = terminates + 1
  /\ UNCHANGED << pc, user, done, outsideVars, queueVars >>

(* A terminate() that interrupts the output only.                          *)
terminate_output_only(p) ==
  /\ user[p] = "outside" /\ MayDisturb
  /\ input[p] /\ output[p]
  /\ user' = [user EXCEPT ![p] = "interrupt_write"]
  /\ terminates' = terminates + 1
  /\ UNCHANGED << pc, input, output, done, outsideVars, queueVars >>

(* terminate() of a running process: input->interrupt_read(), then         *)
(* output->interrupt_write(), then join().                                 *)
terminate(p) ==
  /\ user[p] = "outside" /\ MayDisturb
  /\ input[p] /\ output[p]
  /\ interrupt_not_empty(In(p))
  /\ UNCHANGED << ringVars, writerVars, readerVars, draining >>
  /\ user' = [user EXCEPT ![p] = "interrupt_write"]
  /\ terminates' = terminates + 1
  /\ UNCHANGED << pc, input, output, done, outsideVars >>

(* A terminate() that interrupts the next process instead of its own.      *)
terminate_interrupt_next(p) ==
  /\ user[p] = "interrupt_write"
  /\ interrupt_not_empty(Out(p))
  /\ UNCHANGED << ringVars, writerVars, readerVars, draining >>
  /\ user' = [user EXCEPT ![p] = "join"]
  /\ UNCHANGED << pc, input, output, done, terminates, outsideVars >>

terminate_interrupt_write(p) ==
  /\ user[p] = "interrupt_write"
  /\ interrupt_not_full(Out(p))
  /\ UNCHANGED << ringVars, writerVars, readerVars, draining >>
  /\ user' = [user EXCEPT ![p] = "join"]
  /\ UNCHANGED << pc, input, output, done, terminates, outsideVars >>

(* A terminate() that does not wait for the thread.                        *)
terminate_detaches(p) ==
  /\ user[p] = "join"
  /\ pc'     = [pc EXCEPT ![p] = "none"]
  /\ user'   = [user EXCEPT ![p] = "outside"]
  /\ input'  = [input EXCEPT ![p] = FALSE]
  /\ output' = [output EXCEPT ![p] = FALSE]
  /\ UNCHANGED << done, terminates, outsideVars, queueVars >>

terminate_join(p) ==
  /\ user[p] = "join" /\ pc[p] = "exited"
  /\ pc'     = [pc EXCEPT ![p] = "none"]
  /\ user'   = [user EXCEPT ![p] = "outside"]
  /\ input'  = [input EXCEPT ![p] = FALSE]
  /\ output' = [output EXCEPT ![p] = FALSE]
  /\ UNCHANGED << done, terminates, outsideVars, queueVars >>

resume(p) ==
  /\ user[p] = "outside" /\ ~ (input[p] /\ output[p])
  /\ \/ m_interrupted_not_empty[In(p)] /\ resume_not_empty(In(p))
     \/ m_interrupted_not_full[Out(p)] /\ resume_not_full(Out(p))
  /\ UNCHANGED << ringVars, writerVars, readerVars, draining,
                  processVars, outsideVars >>

UserNext(p) ==
  \/ set_input(p) \/ set_output(p)
  \/ terminate_idle(p)
  \/ terminate(p) \/ terminate_interrupt_write(p) \/ terminate_join(p)
  \/ resume(p)

-----------------------------------------------------------------------------
(* The outside threads: push_one into queue 0, pop_one from queue N, and   *)
(* interrupt_write and interrupt_read at these ends of the network.  The   *)
(* thread whose call throws tries again.                                   *)

SourceGoes(place, count) ==
  /\ source' = place /\ sent' = count
  /\ UNCHANGED << sink, received, interrupts, processVars >>

push_one ==
  \/ /\ source = "outside" /\ sent < Items /\ CallBeginWrite(0, 1)
     /\ SourceGoes("begin", sent)
  \/ /\ source = "begin" /\ BeginWrite(0)
     /\ SourceGoes(writer'[0].at, sent)
  \/ /\ source = "holding" /\ staged[0] = << >> /\ Store(0, sent + 1)
     /\ SourceGoes("holding", sent)
  \/ /\ source = "holding" /\ staged[0] # << >> /\ EndWrite(0, 1)
     /\ SourceGoes("outside", sent + 1)

SinkGoes(place, elements) ==
  /\ sink' = place /\ received' = elements
  /\ UNCHANGED << source, sent, interrupts, processVars >>

pop_one ==
  \/ /\ sink = "outside" /\ CallBeginRead(N, 1)
     /\ SinkGoes("begin", received)
  \/ /\ sink = "begin" /\ BeginRead(N)
     /\ SinkGoes(reader'[N].at, received)
  \/ /\ sink = "holding" /\ seen[N] = << >> /\ Load(N)
     /\ SinkGoes("holding", received)
  \/ /\ sink = "holding" /\ seen[N] # << >> /\ EndRead(N, 1)
     /\ SinkGoes("outside", Append(received, seen[N][1]))

InterruptEnds ==
  /\ MayDisturb
  /\ \/ interrupt_not_full(0) \/ interrupt_not_empty(N)
  /\ interrupts' = interrupts + 1
  /\ UNCHANGED << ringVars, writerVars, readerVars, draining, processVars,
                  source, sent, sink, received >>

ResumeEnds ==
  /\ \/ m_interrupted_not_full[0]  /\ resume_not_full(0)
     \/ m_interrupted_not_empty[N] /\ resume_not_empty(N)
  /\ UNCHANGED << ringVars, writerVars, readerVars, draining, processVars,
                  outsideVars >>

SleeperWakes ==
  /\ \E q \in Queues : Wakeup(q)
  /\ UNCHANGED << processVars, outsideVars >>

NetworkNext ==
  \/ \E p \in Processes : ThreadNext(p) \/ UserNext(p)
  \/ push_one \/ pop_one
  \/ InterruptEnds \/ ResumeEnds
  \/ SleeperWakes

NetworkSpec == NetworkInit /\ [][NetworkNext]_networkVars
=============================================================================
