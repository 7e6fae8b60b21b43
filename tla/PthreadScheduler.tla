-------------------------- MODULE PthreadScheduler --------------------------
(***************************************************************************)
(* The scheduler that lets the two ends of a queue live in different       *)
(* threads (pthreadscheduler.cpp, condition.hpp).  There is one scheduler  *)
(* in every queue, so its state is a function of the queue.                *)
(*                                                                         *)
(* The wait_, trigger_, interrupt_ and resume_ methods "are to be called   *)
(* with the lock held".  Every method of a queue holds the mutex from its  *)
(* first statement to its last (ScopedLock), except while it sleeps in     *)
(* pthread_cond_wait, so what runs between two points where the mutex is   *)
(* released is one step here and the mutex itself is not a variable.       *)
(*                                                                         *)
(* A condition variable is the set of the threads asleep in it.  A thread  *)
(* that is removed from the set has been woken: it competes for the mutex  *)
(* and then re-evaluates the condition of the while loop it sits in.       *)
(***************************************************************************)
EXTENDS Naturals

CONSTANT Queues

VARIABLES
  m_condition_not_full,     \* [Queues -> SUBSET thread], asleep until "not full"
  m_condition_not_empty,    \* [Queues -> SUBSET thread], asleep until "not empty"
  m_interrupted_not_full,   \* [Queues -> BOOLEAN]
  m_interrupted_not_empty   \* [Queues -> BOOLEAN]

schedulerVars == << m_condition_not_full, m_condition_not_empty,
                    m_interrupted_not_full, m_interrupted_not_empty >>

SchedulerInit ==
  /\ m_condition_not_full    = [q \in Queues |-> {}]
  /\ m_condition_not_empty   = [q \in Queues |-> {}]
  /\ m_interrupted_not_full  = [q \in Queues |-> FALSE]
  /\ m_interrupted_not_empty = [q \in Queues |-> FALSE]

(* pthread_cond_signal: what can be left asleep.  One sleeper wakes, the   *)
(* code has no say in which; without a sleeper the signal is lost.         *)
Signalled(asleep) ==
  IF asleep = {} THEN {{}} ELSE {asleep \ {t} : t \in asleep}

(***************************************************************************)
(* The methods.  Each says what it does to the scheduler only; a queue     *)
(* method conjoins it with its own effect.                                 *)
(***************************************************************************)
trigger_not_full(q) ==
  /\ \E asleep \in Signalled(m_condition_not_full[q]) :
       m_condition_not_full' = [m_condition_not_full EXCEPT ![q] = asleep]
  /\ UNCHANGED << m_condition_not_empty, m_interrupted_not_full,
                  m_interrupted_not_empty >>

trigger_not_empty(q) ==
  /\ \E asleep \in Signalled(m_condition_not_empty[q]) :
       m_condition_not_empty' = [m_condition_not_empty EXCEPT ![q] = asleep]
  /\ UNCHANGED << m_condition_not_full, m_interrupted_not_full,
                  m_interrupted_not_empty >>

(* wait_until_* either throws InterruptedException or falls asleep.  The   *)
(* flag is looked at before sleeping only: a woken thread returns to its   *)
(* while loop and comes here again if it still has to wait.                *)
wait_until_not_full_sleeps(q, t) ==
  /\ ~ m_interrupted_not_full[q]
  /\ m_condition_not_full' = [m_condition_not_full EXCEPT ![q] = @ \cup {t}]
  /\ UNCHANGED << m_condition_not_empty, m_interrupted_not_full,
                  m_interrupted_not_empty >>

wait_until_not_full_throws(q) ==
  /\ m_interrupted_not_full[q]
  /\ UNCHANGED schedulerVars

wait_until_not_empty_sleeps(q, t) ==
  /\ ~ m_interrupted_not_empty[q]
  /\ m_condition_not_empty' = [m_condition_not_empty EXCEPT ![q] = @ \cup {t}]
  /\ UNCHANGED << m_condition_not_full, m_interrupted_not_full,
                  m_interrupted_not_empty >>

wait_until_not_empty_throws(q) ==
  /\ m_interrupted_not_empty[q]
  /\ UNCHANGED schedulerVars

(* interrupt_* and resume_* set or clear the flag, then signal.            *)
set_not_full(q, flag) ==
  /\ m_interrupted_not_full' = [m_interrupted_not_full EXCEPT ![q] = flag]
  /\ \E asleep \in Signalled(m_condition_not_full[q]) :
       m_condition_not_full' = [m_condition_not_full EXCEPT ![q] = asleep]
  /\ UNCHANGED << m_condition_not_empty, m_interrupted_not_empty >>

set_not_empty(q, flag) ==
  /\ m_interrupted_not_empty' = [m_interrupted_not_empty EXCEPT ![q] = flag]
  /\ \E asleep \in Signalled(m_condition_not_empty[q]) :
       m_condition_not_empty' = [m_condition_not_empty EXCEPT ![q] = asleep]
  /\ UNCHANGED << m_condition_not_full, m_interrupted_not_full >>

(* An interrupt that sets the flag and lets the sleeper sleep.             *)
interrupt_not_full_unsignalled(q) ==
  /\ m_interrupted_not_full' = [m_interrupted_not_full EXCEPT ![q] = TRUE]
  /\ UNCHANGED << m_condition_not_full, m_condition_not_empty,
                  m_interrupted_not_empty >>

interrupt_not_full(q)  == set_not_full(q, TRUE)
interrupt_not_empty(q) == set_not_empty(q, TRUE)
resume_not_full(q)     == set_not_full(q, FALSE)
resume_not_empty(q)    == set_not_empty(q, FALSE)

(* POSIX lets pthread_cond_wait return without a signal.                   *)
SpuriousWakeup(q) ==
  \/ /\ \E t \in m_condition_not_full[q] :
          m_condition_not_full' = [m_condition_not_full EXCEPT ![q] = @ \ {t}]
     /\ UNCHANGED << m_condition_not_empty, m_interrupted_not_full,
                     m_interrupted_not_empty >>
  \/ /\ \E t \in m_condition_not_empty[q] :
          m_condition_not_empty' = [m_condition_not_empty EXCEPT ![q] = @ \ {t}]
     /\ UNCHANGED << m_condition_not_full, m_interrupted_not_full,
                     m_interrupted_not_empty >>
=============================================================================
