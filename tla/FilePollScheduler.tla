------------------------- MODULE FilePollScheduler -------------------------
(***************************************************************************)
(* The scheduler of the queues that sit on a file handle (filequeue.cpp).  *)
(* It waits in poll() and can be interrupted through a pipe of its own     *)
(* (m_internal_pipe): interrupt() sets a flag and then writes a byte,      *)
(* reset() reads the bytes away and then clears the flag.  There is no     *)
(* lock: every access to the flag and every system call is a step of its   *)
(* own, and several queues may share one scheduler.                        *)
(***************************************************************************)
EXTENDS Integers, FiniteSets

CONSTANTS
  Controllers,     \* the threads that call interrupt()
  DrainSize,       \* sizeof(dummy) in reset()
  MaxInterrupts,   \* bound on the calls of interrupt()
  MaxResets        \* bound on the calls of reset()

ASSUME SchedulerAssumption ==
  /\ DrainSize \in Nat \ {0} /\ {MaxInterrupts, MaxResets} \subseteq Nat

VARIABLES
  m_interrupted,
  internal_bytes,  \* how many bytes m_internal_pipe holds
  interrupting,    \* the threads in interrupt() that have set the flag only
  resetting,       \* where reset() is: "no", "draining", "drained"
  interrupts, resets,  \* how often they were called
  told             \* what the users of the scheduler may rely on, see below

pollVars == << m_interrupted, internal_bytes, interrupting, resetting, interrupts,
               resets, told >>

SchedulerInit ==
  /\ m_interrupted = FALSE /\ internal_bytes = 0
  /\ interrupting = {} /\ resetting = "no" /\ interrupts = 0 /\ resets = 0
  /\ told = "reset"

(***************************************************************************)
(* told is "interrupted" once an interrupt() returned that no reset() can  *)
(* have swallowed, until the next reset() begins; it is "reset" once a     *)
(* reset() returned that no interrupt() overlapped, until the next         *)
(* interrupt() begins.  It only records; no step depends on it.            *)
(***************************************************************************)
interrupt_sets_flag(c) ==
  /\ c \notin interrupting /\ interrupts < MaxInterrupts
  /\ m_interrupted' = TRUE
  /\ interrupting' = interrupting \cup {c} /\ interrupts' = interrupts + 1
  /\ told' = IF told = "interrupted" THEN told ELSE "unknown"
  /\ UNCHANGED << internal_bytes, resetting, resets >>

(* An interrupt() that forgets to write the byte.                          *)
interrupt_writes_nothing(c) ==
  /\ c \in interrupting
  /\ interrupting' = interrupting \ {c}
  /\ told' = IF resetting = "draining" THEN "unknown" ELSE "interrupted"
  /\ UNCHANGED << m_interrupted, internal_bytes, resetting, interrupts, resets >>

interrupt_writes(c) ==
  /\ c \in interrupting
  /\ internal_bytes' = internal_bytes + 1
  /\ interrupting' = interrupting \ {c}
  /\ told' = IF resetting = "draining" THEN "unknown" ELSE "interrupted"
  /\ UNCHANGED << m_interrupted, resetting, interrupts, resets >>

reset_begins ==
  /\ resetting = "no" /\ resets < MaxResets
  /\ resetting' = "draining" /\ resets' = resets + 1
  /\ told' = IF interrupting = {} THEN "resetting" ELSE "unknown"
  /\ UNCHANGED << m_interrupted, internal_bytes, interrupting, interrupts >>

(* A reset() that reads once.                                              *)
reset_reads_once ==
  /\ resetting = "draining"
  /\ internal_bytes' = IF internal_bytes > DrainSize THEN internal_bytes - DrainSize ELSE 0
  /\ resetting' = "drained"
  /\ UNCHANGED << m_interrupted, interrupting, interrupts, resets, told >>

(* One read() of reset(): the loop ends with the first that is not full.   *)
reset_reads ==
  /\ resetting = "draining"
  /\ \/ /\ internal_bytes >= DrainSize
        /\ internal_bytes' = internal_bytes - DrainSize
        /\ UNCHANGED resetting
     \/ /\ internal_bytes < DrainSize
        /\ internal_bytes' = 0 /\ resetting' = "drained"
  /\ UNCHANGED << m_interrupted, interrupting, interrupts, resets, told >>

reset_clears ==
  /\ resetting = "drained"
  /\ m_interrupted' = FALSE /\ resetting' = "no"
  /\ told' = IF told = "resetting" THEN "reset" ELSE told
  /\ UNCHANGED << internal_bytes, interrupting, interrupts, resets >>

ControlSteps ==
  \/ \E c \in Controllers : interrupt_writes(c)
  \/ reset_reads \/ reset_clears

SchedulerNext ==
  \/ \E c \in Controllers : interrupt_sets_flag(c)
  \/ reset_begins
  \/ ControlSteps

(***************************************************************************)
(* wait_readable and wait_writeable look at the flag, and then sleep in    *)
(* poll() until the file is ready or the internal pipe holds a byte; a     *)
(* byte counts even if the file is ready too.                              *)
(***************************************************************************)
wait_throws     == m_interrupted
poll_throws     == internal_bytes > 0
poll_returns(ready) == ready /\ internal_bytes = 0
=============================================================================
