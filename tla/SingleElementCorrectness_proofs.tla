------------------- MODULE SingleElementCorrectness_proofs -------------------
(***************************************************************************)
(* Proofs about the queue of one slot, for every number of queues and      *)
(* every set of elements.                                                  *)
(***************************************************************************)
EXTENDS SingleElementCorrectness, TLAPS

(* Who sleeps is in a call that waits, so a queue nobody is using has no   *)
(* sleepers.                                                               *)
SleepInv(q) ==
  /\ \A t \in m_condition_not_full[q] :
       t \in draining[q] \/ (t = "writer" /\ writer[q] = "begin")
  /\ m_condition_not_empty[q] # {} => reader[q] = "begin"

SingleInv == TypeOK /\ SlotOwned /\ \A q \in Queues : SleepInv(q)

(* A signal leaves nobody asleep who was not.                              *)
LEMMA SignalKeeps ==
  ASSUME NEW S, NEW asleep \in Signalled(S)
  PROVE  asleep \subseteq S
BY DEF Signalled

(* It wakes the only sleeper.                                              *)
LEMMA SignalWakesOne ==
  ASSUME NEW t, NEW S, S \subseteq {t}, NEW asleep \in Signalled(S)
  PROVE  asleep = {}
BY DEF Signalled

(* An interrupt leaves nobody asleep who was not.                          *)
LEMMA ControlKeeps ==
  ASSUME TypeOK, NEW q \in Queues, Control(q)
  PROVE  /\ m_condition_not_full'  \in [Queues -> SUBSET (Drainers \cup {"writer"})]
         /\ m_condition_not_empty' \in [Queues -> SUBSET {"reader"}]
         /\ \A p \in Queues : /\ m_condition_not_full'[p] \subseteq m_condition_not_full[p]
                              /\ m_condition_not_empty'[p] \subseteq m_condition_not_empty[p]
<1>1. CASE interrupt_not_empty(q)
  <2>1. PICK asleep \in Signalled(m_condition_not_empty[q]) :
          m_condition_not_empty' = [m_condition_not_empty EXCEPT ![q] = asleep]
    BY <1>1 DEF interrupt_not_empty, set_not_empty
  <2>2. asleep \subseteq m_condition_not_empty[q]
    BY <2>1, SignalKeeps
  <2> QED
    BY <1>1, <2>1, <2>2 DEF interrupt_not_empty, set_not_empty, TypeOK
<1>2. CASE interrupt_not_full(q)
  <2>1. PICK asleep \in Signalled(m_condition_not_full[q]) :
          m_condition_not_full' = [m_condition_not_full EXCEPT ![q] = asleep]
    BY <1>2 DEF interrupt_not_full, set_not_full
  <2>2. asleep \subseteq m_condition_not_full[q]
    BY <2>1, SignalKeeps
  <2> QED
    BY <1>2, <2>1, <2>2 DEF interrupt_not_full, set_not_full, TypeOK
<1> QED
  BY <1>1, <1>2 DEF Control

(* A spurious wakeup too.                                                  *)
LEMMA WakeupKeeps ==
  ASSUME TypeOK, NEW q \in Queues, Wakeup(q), NEW p \in Queues
  PROVE  /\ m_condition_not_full'[p] \subseteq m_condition_not_full[p]
         /\ m_condition_not_empty'[p] \subseteq m_condition_not_empty[p]
BY DEF Wakeup, SpuriousWakeup, TypeOK

(* The empty sequence, for what a client drops.                            *)
LEMMA EmptySeq == << >> \in Seq(Values)
OBVIOUS

-----------------------------------------------------------------------------
(* The slots are empty and nobody is in a call.                            *)
LEMMA InitSingle == Init => SingleInv
BY DEF Init, SchedulerInit, SingleInv, TypeOK, SlotOwned, SlotInv, SleepInv, Places

(* The types: the calls of the writer, of the reader, and of the others.   *)
LEMMA WriterTypes ==
  ASSUME TypeOK, NEW q \in Queues, WriterNext(q)
  PROVE  TypeOK'
<1>1. CASE CallBeginWrite(q) \/ TryBeginWrite(q) \/ EndWriteNothing(q)
  <2>1. writer' \in [Queues -> Places]
    BY <1>1 DEF CallBeginWrite, TryBeginWrite, EndWriteNothing, WriterAt, TypeOK, Places
  <2>2. staged' \in [Queues -> Seq(Values)]
    BY <1>1, EmptySeq DEF CallBeginWrite, TryBeginWrite, EndWriteNothing, TypeOK
  <2>3. UNCHANGED << m_full, m_buffer, reader, seen, draining, schedulerVars >>
    BY <1>1 DEF CallBeginWrite, TryBeginWrite, EndWriteNothing
  <2> QED
    BY <2>1, <2>2, <2>3 DEF TypeOK, schedulerVars
<1>2. CASE BeginWrite(q)
  <2>1. writer' \in [Queues -> Places]
    <3>1. UNCHANGED writer \/ WriterAt(q, "holding") \/ WriterAt(q, "outside")
      BY <1>2 DEF BeginWrite
    <3> QED
      BY <3>1 DEF WriterAt, TypeOK, Places
  <2>2. m_condition_not_full' \in [Queues -> SUBSET (Drainers \cup {"writer"})]
    <3>1. m_condition_not_full \in [Queues -> SUBSET (Drainers \cup {"writer"})]
      BY DEF TypeOK
    <3>2. \/ UNCHANGED m_condition_not_full
          \/ m_condition_not_full' = [m_condition_not_full EXCEPT ![q] = @ \cup {"writer"}]
      BY <1>2 DEF BeginWrite, schedulerVars, wait_until_not_full_sleeps,
                  wait_until_not_full_throws
    <3> QED
      BY <3>1, <3>2
  <2>3. UNCHANGED << m_full, m_buffer, reader, staged, seen, draining, m_condition_not_empty,
                     m_interrupted_not_full, m_interrupted_not_empty >>
    BY <1>2 DEF BeginWrite, schedulerVars, wait_until_not_full_sleeps,
                wait_until_not_full_throws
  <2> QED
    BY <2>1, <2>2, <2>3 DEF TypeOK
<1>3. CASE \E v \in Values : Store(q, v)
  BY <1>3 DEF Store, TypeOK, schedulerVars
<1>4. CASE EndWrite(q)
  <2>1. PICK asleep \in Signalled(m_condition_not_empty[q]) :
          m_condition_not_empty' = [m_condition_not_empty EXCEPT ![q] = asleep]
    BY <1>4 DEF EndWrite, trigger_not_empty
  <2>2. asleep \subseteq m_condition_not_empty[q]
    BY <2>1, SignalKeeps
  <2>3. m_condition_not_empty' \in [Queues -> SUBSET {"reader"}]
    BY <2>1, <2>2 DEF TypeOK
  <2> QED
    BY <1>4, <2>3 DEF EndWrite, trigger_not_empty, WriterAt, TypeOK, Places
<1> QED
  BY <1>1, <1>2, <1>3, <1>4 DEF WriterNext

(* The reader and the types.                                               *)
LEMMA ReaderTypes ==
  ASSUME TypeOK, \A p \in Queues : SlotInv(p), NEW q \in Queues, ReaderNext(q)
  PROVE  TypeOK'
<1>1. CASE CallBeginRead(q) \/ TryBeginRead(q) \/ EndReadNothing(q)
  <2>1. reader' \in [Queues -> Places]
    BY <1>1 DEF CallBeginRead, TryBeginRead, EndReadNothing, ReaderAt, TypeOK, Places
  <2>2. seen' \in [Queues -> Seq(Values)]
    BY <1>1, EmptySeq DEF CallBeginRead, TryBeginRead, EndReadNothing, TypeOK
  <2>3. UNCHANGED << m_full, m_buffer, writer, staged, draining, schedulerVars >>
    BY <1>1 DEF CallBeginRead, TryBeginRead, EndReadNothing
  <2> QED
    BY <2>1, <2>2, <2>3 DEF TypeOK, schedulerVars
<1>2. CASE BeginRead(q)
  <2>1. reader' \in [Queues -> Places]
    <3>1. UNCHANGED reader \/ ReaderAt(q, "holding") \/ ReaderAt(q, "outside")
      BY <1>2 DEF BeginRead
    <3> QED
      BY <3>1 DEF ReaderAt, TypeOK, Places
  <2>2. m_condition_not_empty' \in [Queues -> SUBSET {"reader"}]
    <3>1. \/ UNCHANGED m_condition_not_empty
          \/ m_condition_not_empty' = [m_condition_not_empty EXCEPT ![q] = @ \cup {"reader"}]
      BY <1>2 DEF BeginRead, schedulerVars, wait_until_not_empty_sleeps,
                  wait_until_not_empty_throws
    <3>2. m_condition_not_empty \in [Queues -> SUBSET {"reader"}]
      BY DEF TypeOK
    <3> QED
      BY <3>1, <3>2
  <2>3. UNCHANGED << m_full, m_buffer, writer, staged, seen, draining, m_condition_not_full,
                     m_interrupted_not_full, m_interrupted_not_empty >>
    BY <1>2 DEF BeginRead, schedulerVars, wait_until_not_empty_sleeps,
                wait_until_not_empty_throws
  <2> QED
    BY <2>1, <2>2, <2>3 DEF TypeOK
<1>3. CASE Load(q)
  <2>1. m_buffer[q] \in Values
    BY <1>3 DEF Load, SlotInv
  <2> QED
    BY <1>3, <2>1 DEF Load, TypeOK, schedulerVars
<1>4. CASE EndRead(q)
  <2>1. PICK asleep \in Signalled(m_condition_not_full[q]) :
          m_condition_not_full' = [m_condition_not_full EXCEPT ![q] = asleep]
    BY <1>4 DEF EndRead, trigger_not_full
  <2>2. asleep \subseteq m_condition_not_full[q]
    BY <2>1, SignalKeeps
  <2>3. m_condition_not_full' \in [Queues -> SUBSET (Drainers \cup {"writer"})]
    BY <2>1, <2>2 DEF TypeOK
  <2> QED
    BY <1>4, <2>3 DEF EndRead, trigger_not_full, ReaderAt, TypeOK, Places
<1> QED
  BY <1>1, <1>2, <1>3, <1>4 DEF ReaderNext

(* clear(), wait_empty, interrupts and the types.                          *)
LEMMA OtherTypes ==
  ASSUME TypeOK, NEW q \in Queues, OtherNext(q)
  PROVE  TypeOK'
<1>1. CASE \E t \in Drainers : CallWaitEmpty(q, t)
  BY <1>1 DEF CallWaitEmpty, TypeOK, schedulerVars
<1>2. CASE \E t \in Drainers : WaitEmpty(q, t)
  <2>1. PICK t \in Drainers : WaitEmpty(q, t)
    BY <1>2
  <2>2. draining' \in [Queues -> SUBSET Drainers]
    <3>1. draining \in [Queues -> SUBSET Drainers]
      BY DEF TypeOK
    <3>2. UNCHANGED draining \/ draining' = [draining EXCEPT ![q] = @ \ {t}]
      BY <2>1 DEF WaitEmpty
    <3> QED
      BY <3>1, <3>2
  <2>3. \/ UNCHANGED m_condition_not_full
        \/ m_condition_not_full' = [m_condition_not_full EXCEPT ![q] = @ \cup {t}]
    BY <2>1 DEF WaitEmpty, schedulerVars, wait_until_not_full_sleeps,
                wait_until_not_full_throws
  <2>4. m_condition_not_full' \in [Queues -> SUBSET (Drainers \cup {"writer"})]
    <3>1. /\ t \in Drainers
          /\ m_condition_not_full \in [Queues -> SUBSET (Drainers \cup {"writer"})]
      BY <2>1 DEF TypeOK
    <3>2. m_condition_not_full[q] \cup {t} \in SUBSET (Drainers \cup {"writer"})
      BY <3>1
    <3> QED
      BY <2>3, <3>1, <3>2
  <2>5. UNCHANGED << m_full, m_buffer, writer, reader, staged, seen, m_condition_not_empty,
                     m_interrupted_not_full, m_interrupted_not_empty >>
    BY <2>1 DEF WaitEmpty, schedulerVars, wait_until_not_full_sleeps,
                wait_until_not_full_throws
  <2> QED
    BY <2>2, <2>4, <2>5 DEF TypeOK
<1>3. CASE Control(q)
  <2>1. /\ m_condition_not_full' \in [Queues -> SUBSET (Drainers \cup {"writer"})]
        /\ m_condition_not_empty' \in [Queues -> SUBSET {"reader"}]
    BY <1>3, ControlKeeps DEF TypeOK
  <2>2. /\ m_interrupted_not_full' \in [Queues -> BOOLEAN]
        /\ m_interrupted_not_empty' \in [Queues -> BOOLEAN]
    BY <1>3 DEF Control, interrupt_not_full, interrupt_not_empty, set_not_full,
                set_not_empty, TypeOK
  <2> QED
    BY <1>3, <2>1, <2>2 DEF Control, TypeOK
<1>4. CASE Clear(q)
  BY <1>4 DEF Clear, TypeOK, schedulerVars
<1>5. CASE Wakeup(q)
  BY <1>5 DEF Wakeup, SpuriousWakeup, TypeOK
<1> QED
  BY <1>1, <1>2, <1>3, <1>4, <1>5 DEF OtherNext

-----------------------------------------------------------------------------
(* A step at queue q keeps what is said of q, and leaves the others alone. *)
LEMMA WriterSlots ==
  ASSUME TypeOK, NEW q \in Queues, WriterNext(q), NEW p \in Queues, SlotInv(p)
  PROVE  SlotInv(p)'
<1>1. CASE CallBeginWrite(q) \/ TryBeginWrite(q) \/ EndWriteNothing(q)
  BY <1>1 DEF CallBeginWrite, TryBeginWrite, EndWriteNothing, WriterAt, TypeOK, SlotInv
<1>2. CASE BeginWrite(q)
  BY <1>2 DEF BeginWrite, WriterAt, TypeOK, SlotInv
<1>3. CASE \E v \in Values : Store(q, v)
  BY <1>3 DEF Store, TypeOK, SlotInv
<1>4. CASE EndWrite(q)
  BY <1>4 DEF EndWrite, WriterAt, TypeOK, SlotInv
<1> QED
  BY <1>1, <1>2, <1>3, <1>4 DEF WriterNext

(* The reader and the slot.                                                *)
LEMMA ReaderSlots ==
  ASSUME TypeOK, NEW q \in Queues, ReaderNext(q), NEW p \in Queues, SlotInv(p)
  PROVE  SlotInv(p)'
<1>1. CASE CallBeginRead(q) \/ TryBeginRead(q) \/ EndReadNothing(q)
  BY <1>1 DEF CallBeginRead, TryBeginRead, EndReadNothing, ReaderAt, TypeOK, SlotInv
<1>2. CASE BeginRead(q)
  BY <1>2 DEF BeginRead, ReaderAt, TypeOK, SlotInv
<1>3. CASE Load(q)
  BY <1>3 DEF Load, TypeOK, SlotInv
<1>4. CASE EndRead(q)
  BY <1>4 DEF EndRead, ReaderAt, TypeOK, SlotInv
<1> QED
  BY <1>1, <1>2, <1>3, <1>4 DEF ReaderNext

(* clear(), wait_empty, interrupts and the slot.                           *)
LEMMA OtherSlots ==
  ASSUME TypeOK, NEW q \in Queues, OtherNext(q), NEW p \in Queues, SlotInv(p)
  PROVE  SlotInv(p)'
<1>1. CASE Clear(q)
  BY <1>1 DEF Clear, TypeOK, SlotInv
<1>2. CASE ~ Clear(q)
  <2>1. UNCHANGED << m_full, m_buffer, writer, reader, staged, seen >>
    BY <1>2 DEF OtherNext, CallWaitEmpty, WaitEmpty, Control, Wakeup
  <2> QED
    BY <2>1 DEF SlotInv
<1> QED
  BY <1>1, <1>2

(* A sleeper stays in its call until it is woken.                          *)
LEMMA WriterSleep ==
  ASSUME TypeOK, NEW q \in Queues, WriterNext(q), NEW p \in Queues, SleepInv(p)
  PROVE  SleepInv(p)'
<1>1. CASE CallBeginWrite(q) \/ TryBeginWrite(q) \/ EndWriteNothing(q)
           \/ \E v \in Values : Store(q, v)
  BY <1>1 DEF CallBeginWrite, TryBeginWrite, EndWriteNothing, Store, WriterAt, TypeOK,
              SleepInv, schedulerVars
<1>2. CASE BeginWrite(q)
  <2>1. /\ writer[q] = "begin" /\ "writer" \notin m_condition_not_full[q]
        /\ UNCHANGED << reader, draining, m_condition_not_empty >>
    BY <1>2 DEF BeginWrite, schedulerVars, wait_until_not_full_sleeps,
                wait_until_not_full_throws
  <2>2. CASE UNCHANGED m_condition_not_full
    <3>1. \A o \in Queues : o # q => writer'[o] = writer[o]
      BY <1>2 DEF BeginWrite, WriterAt, TypeOK
    <3> QED
      BY <2>1, <2>2, <3>1 DEF SleepInv
  <2>3. CASE /\ m_condition_not_full' = [m_condition_not_full EXCEPT ![q] = @ \cup {"writer"}]
             /\ UNCHANGED writer
    BY <2>1, <2>3 DEF TypeOK, SleepInv
  <2> QED
    BY <1>2, <2>2, <2>3 DEF BeginWrite, schedulerVars, wait_until_not_full_sleeps,
                            wait_until_not_full_throws
<1>3. CASE EndWrite(q)
  <2>1. PICK asleep \in Signalled(m_condition_not_empty[q]) :
          m_condition_not_empty' = [m_condition_not_empty EXCEPT ![q] = asleep]
    BY <1>3 DEF EndWrite, trigger_not_empty
  <2>2. asleep \subseteq m_condition_not_empty[q]
    BY <2>1, SignalKeeps
  <2> QED
    BY <1>3, <2>1, <2>2 DEF EndWrite, trigger_not_empty, WriterAt, TypeOK, SleepInv
<1> QED
  BY <1>1, <1>2, <1>3 DEF WriterNext

(* The reader and the sleepers.                                            *)
LEMMA ReaderSleep ==
  ASSUME TypeOK, NEW q \in Queues, ReaderNext(q), NEW p \in Queues, SleepInv(p)
  PROVE  SleepInv(p)'
<1>1. CASE CallBeginRead(q) \/ TryBeginRead(q) \/ EndReadNothing(q) \/ Load(q)
  BY <1>1 DEF CallBeginRead, TryBeginRead, EndReadNothing, Load, ReaderAt, TypeOK,
              SleepInv, schedulerVars
<1>2. CASE BeginRead(q)
  <2>1. /\ reader[q] = "begin" /\ "reader" \notin m_condition_not_empty[q]
        /\ UNCHANGED << writer, draining, m_condition_not_full >>
    BY <1>2 DEF BeginRead, schedulerVars, wait_until_not_empty_sleeps,
                wait_until_not_empty_throws
  <2>2. CASE UNCHANGED m_condition_not_empty
    <3>1. \A o \in Queues : o # q => reader'[o] = reader[o]
      BY <1>2 DEF BeginRead, ReaderAt, TypeOK
    <3>2. m_condition_not_empty[q] = {}
      BY <2>1 DEF TypeOK
    <3> QED
      BY <2>1, <2>2, <3>1, <3>2 DEF SleepInv
  <2>3. CASE /\ m_condition_not_empty' = [m_condition_not_empty EXCEPT ![q] = @ \cup {"reader"}]
             /\ UNCHANGED reader
    BY <2>1, <2>3 DEF TypeOK, SleepInv
  <2> QED
    BY <1>2, <2>2, <2>3 DEF BeginRead, schedulerVars, wait_until_not_empty_sleeps,
                            wait_until_not_empty_throws
<1>3. CASE EndRead(q)
  <2>1. PICK asleep \in Signalled(m_condition_not_full[q]) :
          m_condition_not_full' = [m_condition_not_full EXCEPT ![q] = asleep]
    BY <1>3 DEF EndRead, trigger_not_full
  <2>2. asleep \subseteq m_condition_not_full[q]
    BY <2>1, SignalKeeps
  <2> QED
    BY <1>3, <2>1, <2>2 DEF EndRead, trigger_not_full, ReaderAt, TypeOK, SleepInv
<1> QED
  BY <1>1, <1>2, <1>3 DEF ReaderNext

(* clear(), wait_empty, interrupts and the sleepers.                       *)
LEMMA OtherSleep ==
  ASSUME TypeOK, NEW q \in Queues, OtherNext(q), NEW p \in Queues, SleepInv(p)
  PROVE  SleepInv(p)'
<1>1. CASE \E t \in Drainers : CallWaitEmpty(q, t)
  BY <1>1 DEF CallWaitEmpty, TypeOK, SleepInv, schedulerVars
<1>2. CASE \E t \in Drainers : WaitEmpty(q, t)
  <2>1. PICK t \in Drainers : WaitEmpty(q, t)
    BY <1>2
  <2>2. /\ t \in draining[q] \ m_condition_not_full[q]
        /\ UNCHANGED << writer, reader, m_condition_not_empty >>
    BY <2>1 DEF WaitEmpty, schedulerVars, wait_until_not_full_sleeps,
                wait_until_not_full_throws
  <2>3. CASE /\ UNCHANGED m_condition_not_full
             /\ draining' = [draining EXCEPT ![q] = @ \ {t}]
    BY <2>2, <2>3 DEF TypeOK, SleepInv
  <2>4. CASE /\ m_condition_not_full' = [m_condition_not_full EXCEPT ![q] = @ \cup {t}]
             /\ UNCHANGED draining
    BY <2>2, <2>4 DEF TypeOK, SleepInv
  <2> QED
    BY <2>1, <2>3, <2>4 DEF WaitEmpty, schedulerVars, wait_until_not_full_sleeps,
                            wait_until_not_full_throws
<1>3. CASE Control(q)
  BY <1>3, ControlKeeps DEF Control, SleepInv
<1>4. CASE Clear(q)
  BY <1>4 DEF Clear, SleepInv, schedulerVars
<1>5. CASE Wakeup(q)
  <2>1. /\ m_condition_not_full'[p] \subseteq m_condition_not_full[p]
        /\ m_condition_not_empty'[p] \subseteq m_condition_not_empty[p]
    BY <1>5, WakeupKeeps
  <2> QED
    BY <1>5, <2>1 DEF Wakeup, SleepInv
<1> QED
  BY <1>1, <1>2, <1>3, <1>4, <1>5 DEF OtherNext

-----------------------------------------------------------------------------
(* Every step keeps SingleInv.                                             *)
LEMMA NextSingle == SingleInv /\ [Next]_singleVars => SingleInv'
<1> SUFFICES ASSUME SingleInv, [Next]_singleVars PROVE SingleInv'
  OBVIOUS
<1>1. TypeOK /\ \A p \in Queues : SlotInv(p) /\ SleepInv(p)
  BY DEF SingleInv, SlotOwned
<1>2. ASSUME NEW q \in Queues, WriterNext(q) \/ ReaderNext(q) \/ OtherNext(q)
      PROVE  TypeOK' /\ \A p \in Queues : SlotInv(p)' /\ SleepInv(p)'
  BY <1>1, <1>2, WriterTypes, ReaderTypes, OtherTypes, WriterSlots, ReaderSlots, OtherSlots,
     WriterSleep, ReaderSleep, OtherSleep
<1>3. CASE UNCHANGED singleVars
  BY <1>1, <1>3 DEF singleVars, schedulerVars, SingleInv, TypeOK, SlotOwned, SlotInv, SleepInv
<1> QED
  BY <1>2, <1>3 DEF Next, SingleInv, SlotOwned

(* m_full says whose the slot is, although neither client holds the lock   *)
(* while it uses it.                                                       *)
THEOREM SlotIsOwned == Spec => [](TypeOK /\ SlotOwned)
<1>1. SingleInv => TypeOK /\ SlotOwned
  BY DEF SingleInv
<1> QED
  BY InitSingle, NextSingle, <1>1, PTL DEF Spec

-----------------------------------------------------------------------------
(* NoLostWakeup, at one queue.                                             *)
Awake(q) ==
  /\ m_condition_not_full[q] # {}  => m_full[q] /\ ~ m_interrupted_not_full[q]
  /\ m_condition_not_empty[q] # {} => ~ m_full[q] /\ ~ m_interrupted_not_empty[q]

(* end_write signals the reader, which is the only sleeper there.          *)
LEMMA WriterWakes ==
  ASSUME SingleInv, NEW q \in Queues, WriterNext(q), NEW p \in Queues, Awake(p)
  PROVE  Awake(p)'
<1>t. TypeOK
  BY DEF SingleInv
<1>1. CASE CallBeginWrite(q) \/ TryBeginWrite(q) \/ EndWriteNothing(q)
           \/ \E v \in Values : Store(q, v)
  BY <1>1 DEF CallBeginWrite, TryBeginWrite, EndWriteNothing, Store, Awake, schedulerVars
<1>2. CASE BeginWrite(q)
  <2>1. UNCHANGED << m_full, m_condition_not_empty, m_interrupted_not_full,
                     m_interrupted_not_empty >>
    BY <1>2 DEF BeginWrite, schedulerVars, wait_until_not_full_sleeps,
                wait_until_not_full_throws
  <2>2. CASE UNCHANGED m_condition_not_full
    BY <2>1, <2>2 DEF Awake
  <2>3. CASE /\ m_full[q] /\ ~ m_interrupted_not_full[q]
             /\ m_condition_not_full' = [m_condition_not_full EXCEPT ![q] = @ \cup {"writer"}]
    BY <1>t, <2>1, <2>3 DEF TypeOK, Awake
  <2> QED
    BY <1>2, <2>2, <2>3 DEF BeginWrite, schedulerVars, wait_until_not_full_sleeps,
                            wait_until_not_full_throws
<1>3. CASE EndWrite(q)
  <2>1. PICK asleep \in Signalled(m_condition_not_empty[q]) :
          m_condition_not_empty' = [m_condition_not_empty EXCEPT ![q] = asleep]
    BY <1>3 DEF EndWrite, trigger_not_empty
  <2>2. m_condition_not_empty[q] \subseteq {"reader"}
    BY <1>t DEF TypeOK
  <2>3. asleep = {}
    BY <2>1, <2>2, SignalWakesOne
  <2>4. UNCHANGED << m_condition_not_full, m_interrupted_not_full, m_interrupted_not_empty >>
    BY <1>3 DEF EndWrite, trigger_not_empty
  <2>5. writer[q] = "holding" /\ m_full' = [m_full EXCEPT ![q] = TRUE]
    BY <1>3 DEF EndWrite
  <2> QED
    BY <1>t, <2>1, <2>3, <2>4, <2>5 DEF TypeOK, Awake
<1> QED
  BY <1>1, <1>2, <1>3 DEF WriterNext

(* end_read signals the writer, the only sleeper if nobody else drains.    *)
LEMMA ReaderWakes ==
  ASSUME SingleInv, Drainers \subseteq {"writer"},
         NEW q \in Queues, ReaderNext(q), NEW p \in Queues, Awake(p)
  PROVE  Awake(p)'
<1>t. TypeOK
  BY DEF SingleInv
<1>1. CASE CallBeginRead(q) \/ TryBeginRead(q) \/ EndReadNothing(q) \/ Load(q)
  BY <1>1 DEF CallBeginRead, TryBeginRead, EndReadNothing, Load, Awake, schedulerVars
<1>2. CASE BeginRead(q)
  <2>1. UNCHANGED << m_full, m_condition_not_full, m_interrupted_not_full,
                     m_interrupted_not_empty >>
    BY <1>2 DEF BeginRead, schedulerVars, wait_until_not_empty_sleeps,
                wait_until_not_empty_throws
  <2>2. CASE UNCHANGED m_condition_not_empty
    BY <2>1, <2>2 DEF Awake
  <2>3. CASE /\ ~ m_full[q] /\ ~ m_interrupted_not_empty[q]
             /\ m_condition_not_empty' = [m_condition_not_empty EXCEPT ![q] = @ \cup {"reader"}]
    BY <1>t, <2>1, <2>3 DEF TypeOK, Awake
  <2> QED
    BY <1>2, <2>2, <2>3 DEF BeginRead, schedulerVars, wait_until_not_empty_sleeps,
                            wait_until_not_empty_throws
<1>3. CASE EndRead(q)
  <2>1. PICK asleep \in Signalled(m_condition_not_full[q]) :
          m_condition_not_full' = [m_condition_not_full EXCEPT ![q] = asleep]
    BY <1>3 DEF EndRead, trigger_not_full
  <2>2. m_condition_not_full[q] \subseteq {"writer"}
    BY <1>t DEF TypeOK
  <2>3. asleep = {}
    BY <2>1, <2>2, SignalWakesOne
  <2>4. UNCHANGED << m_condition_not_empty, m_interrupted_not_full, m_interrupted_not_empty >>
    BY <1>3 DEF EndRead, trigger_not_full
  <2>5. reader[q] = "holding" /\ m_full' = [m_full EXCEPT ![q] = FALSE]
    BY <1>3 DEF EndRead
  <2>6. m_full[q]
    BY <2>5 DEF SingleInv, SlotOwned, SlotInv
  <2> QED
    BY <1>t, <2>1, <2>3, <2>4, <2>5, <2>6 DEF TypeOK, Awake
<1> QED
  BY <1>1, <1>2, <1>3 DEF ReaderNext

(* An interrupt signals who it is meant for; clear() has no sleepers.      *)
LEMMA OtherWakes ==
  ASSUME SingleInv, Drainers \subseteq {"writer"},
         NEW q \in Queues, OtherNext(q), NEW p \in Queues, Awake(p)
  PROVE  Awake(p)'
<1>t. TypeOK
  BY DEF SingleInv
<1>1. CASE \E t \in Drainers : CallWaitEmpty(q, t)
  BY <1>1 DEF CallWaitEmpty, Awake, schedulerVars
<1>2. CASE \E t \in Drainers : WaitEmpty(q, t)
  <2>1. PICK t \in Drainers : WaitEmpty(q, t)
    BY <1>2
  <2>2. UNCHANGED << m_full, m_condition_not_empty, m_interrupted_not_full,
                     m_interrupted_not_empty >>
    BY <2>1 DEF WaitEmpty, schedulerVars, wait_until_not_full_sleeps,
                wait_until_not_full_throws
  <2>3. CASE UNCHANGED m_condition_not_full
    BY <2>2, <2>3 DEF Awake
  <2>4. CASE /\ m_full[q] /\ ~ m_interrupted_not_full[q]
             /\ m_condition_not_full' = [m_condition_not_full EXCEPT ![q] = @ \cup {t}]
    BY <1>t, <2>2, <2>4 DEF TypeOK, Awake
  <2> QED
    BY <2>1, <2>3, <2>4 DEF WaitEmpty, schedulerVars, wait_until_not_full_sleeps,
                            wait_until_not_full_throws
<1>3. CASE Control(q)
  <2>1. CASE interrupt_not_empty(q)
    <3>1. PICK asleep \in Signalled(m_condition_not_empty[q]) :
            m_condition_not_empty' = [m_condition_not_empty EXCEPT ![q] = asleep]
      BY <2>1 DEF interrupt_not_empty, set_not_empty
    <3>2. m_condition_not_empty[q] \subseteq {"reader"}
      BY <1>t DEF TypeOK
    <3>3. asleep = {}
      BY <3>1, <3>2, SignalWakesOne
    <3> QED
      BY <1>t, <1>3, <2>1, <3>1, <3>3
         DEF Control, interrupt_not_empty, set_not_empty, TypeOK, Awake
  <2>2. CASE interrupt_not_full(q)
    <3>1. PICK asleep \in Signalled(m_condition_not_full[q]) :
            m_condition_not_full' = [m_condition_not_full EXCEPT ![q] = asleep]
      BY <2>2 DEF interrupt_not_full, set_not_full
    <3>2. m_condition_not_full[q] \subseteq {"writer"}
      BY <1>t DEF TypeOK
    <3>3. asleep = {}
      BY <3>1, <3>2, SignalWakesOne
    <3> QED
      BY <1>t, <1>3, <2>2, <3>1, <3>3
         DEF Control, interrupt_not_full, set_not_full, TypeOK, Awake
  <2> QED
    BY <1>3, <2>1, <2>2 DEF Control
<1>4. CASE Clear(q)
  <2>1. m_condition_not_full[q] = {}
    BY <1>4 DEF Clear, SingleInv, SleepInv
  <2> QED
    BY <1>t, <1>4, <2>1 DEF Clear, schedulerVars, TypeOK, Awake
<1>5. CASE Wakeup(q)
  <2>1. /\ m_condition_not_full'[p] \subseteq m_condition_not_full[p]
        /\ m_condition_not_empty'[p] \subseteq m_condition_not_empty[p]
    BY <1>t, <1>5, WakeupKeeps
  <2>2. UNCHANGED << m_full, m_interrupted_not_full, m_interrupted_not_empty >>
    BY <1>5 DEF Wakeup, SpuriousWakeup
  <2> QED
    BY <2>1, <2>2 DEF Awake
<1> QED
  BY <1>1, <1>2, <1>3, <1>4, <1>5 DEF OtherNext

(* Nobody sleeps once what it waits for is there or it was interrupted, as *)
(* long as only the writer itself calls wait_empty: then each condition    *)
(* variable has at most one sleeper, which the next signal wakes.          *)
THEOREM SingleLosesNoWakeup ==
  ASSUME Drainers \subseteq {"writer"}
  PROVE  Spec => []NoLostWakeup
<1>1. NoLostWakeup <=> \A q \in Queues : Awake(q)
  BY DEF NoLostWakeup, Awake
<1>2. Init => NoLostWakeup
  BY DEF Init, SchedulerInit, NoLostWakeup
<1>3. SingleInv /\ NoLostWakeup /\ [Next]_singleVars => NoLostWakeup'
  <2>1. ASSUME SingleInv, NoLostWakeup, Next PROVE NoLostWakeup'
    <3>1. \A q \in Queues : Awake(q)'
      BY <1>1, <2>1, WriterWakes, ReaderWakes, OtherWakes DEF Next
    <3> QED
      BY <3>1 DEF NoLostWakeup, Awake
  <2>2. ASSUME NoLostWakeup, UNCHANGED singleVars PROVE NoLostWakeup'
    BY <2>2 DEF singleVars, schedulerVars, NoLostWakeup
  <2> QED
    BY <2>1, <2>2
<1> QED
  BY InitSingle, NextSingle, <1>2, <1>3, PTL DEF Spec

-----------------------------------------------------------------------------
(* The slot is a channel that holds one element or none.                   *)
Chan == [q \in Queues |-> Contents(q)]

(* What leaves the slot and the flag alone leaves the channel alone.       *)
LEMMA ChanKept ==
  ASSUME UNCHANGED << m_full, m_buffer >>
  PROVE  UNCHANGED Chan
BY DEF Chan, Contents

(* What the writer stores is not in the channel: the slot is its own.      *)
LEMMA StorePrepares ==
  ASSUME SingleInv, NEW q \in Queues, NEW v \in Values, Store(q, v)
  PROVE  Channel!Prepare(q, v)
<1>1. ~ m_full[q] /\ staged[q] = << >>
  BY DEF Store, SingleInv, SlotOwned, SlotInv
<1>2. Chan[q] = << >>
  BY <1>1 DEF Chan, Contents
<1>3. UNCHANGED Chan
  BY <1>1 DEF Store, Chan, Contents, SingleInv, TypeOK
<1>4. staged' = [staged EXCEPT ![q] = Append(staged[q], v)] /\ UNCHANGED seen
  BY <1>1 DEF Store
<1> QED
  BY <1>1, <1>2, <1>3, <1>4 DEF Channel!Prepare, Chan

(* end_write commits what is in the slot.                                  *)
LEMMA EndWriteCommits ==
  ASSUME SingleInv, NEW q \in Queues, EndWrite(q)
  PROVE  Channel!Commit(q, 1)
<1>1. /\ writer[q] = "holding" /\ ~ m_full[q] /\ staged[q] = << m_buffer[q] >>
      /\ m_full' = [m_full EXCEPT ![q] = TRUE] /\ staged' = [staged EXCEPT ![q] = << >>]
      /\ UNCHANGED << m_buffer, seen >>
  BY DEF EndWrite, SingleInv, SlotOwned, SlotInv
<1>2. Chan[q] = << >>
  BY <1>1 DEF Chan, Contents
<1>3. Chan' = [Chan EXCEPT ![q] = << m_buffer[q] >>]
  BY <1>1 DEF Chan, Contents, SingleInv, TypeOK
<1>4. << m_buffer[q] >> = Chan[q] \o SubSeq(staged[q], 1, 1)
  BY <1>1, <1>2
<1>5. << >> = SubSeq(staged[q], 1 + 1, Len(staged[q])) /\ 1 <= Len(staged[q])
  BY <1>1
<1>6. staged' = [staged EXCEPT ![q] = SubSeq(staged[q], 1 + 1, Len(staged[q]))]
  BY <1>1, <1>5
<1> QED
  BY <1>1, <1>3, <1>4, <1>5, <1>6 DEF Channel!Commit, Chan

(* The reader sees the element of the channel.                             *)
LEMMA LoadLooks ==
  ASSUME SingleInv, NEW q \in Queues, Load(q)
  PROVE  Channel!Look(q)
<1>1. /\ m_full[q] /\ seen[q] = << >> /\ seen' = [seen EXCEPT ![q] = << m_buffer[q] >>]
      /\ UNCHANGED << m_full, m_buffer, staged >>
  BY DEF Load, SingleInv, SlotOwned, SlotInv
<1>2. Chan[q] = << m_buffer[q] >> /\ UNCHANGED Chan
  BY <1>1, ChanKept DEF Chan, Contents
<1>3. Len(seen[q]) = 0 /\ Len(Chan[q]) = 1 /\ Chan[q][Len(seen[q]) + 1] = m_buffer[q]
  BY <1>1, <1>2
<1>4. Append(seen[q], m_buffer[q]) = << m_buffer[q] >>
  BY <1>1
<1>5. seen' = [seen EXCEPT ![q] = Append(seen[q], Chan[q][Len(seen[q]) + 1])]
  BY <1>1, <1>3, <1>4
<1>6. Len(seen[q]) < Len(Chan[q])
  BY <1>3
<1> QED
  BY <1>1, <1>2, <1>5, <1>6 DEF Channel!Look, Chan

(* end_read consumes it, whether the reader looked at it or not.           *)
LEMMA EndReadConsumes ==
  ASSUME SingleInv, NEW q \in Queues, EndRead(q)
  PROVE  Channel!Consume(q, 1)
<1>1. /\ m_full[q] /\ m_full' = [m_full EXCEPT ![q] = FALSE]
      /\ seen' = [seen EXCEPT ![q] = << >>] /\ UNCHANGED << m_buffer, staged >>
      /\ seen[q] = << >> \/ seen[q] = << m_buffer[q] >>
  BY DEF EndRead, SingleInv, SlotOwned, SlotInv
<1>2. Chan[q] = << m_buffer[q] >>
  BY <1>1 DEF Chan, Contents
<1>3. Chan' = [Chan EXCEPT ![q] = << >>]
  BY <1>1 DEF Chan, Contents, SingleInv, TypeOK
<1>4. << >> = SubSeq(Chan[q], 1 + 1, Len(Chan[q])) /\ 1 <= Len(Chan[q])
  BY <1>2
<1>5. << >> = SubSeq(seen[q], 1 + 1, Len(seen[q]))
  <2>1. CASE seen[q] = << >>
    BY <2>1
  <2>2. CASE seen[q] = << m_buffer[q] >>
    BY <2>2
  <2> QED
    BY <1>1, <2>1, <2>2
<1>6. /\ Chan' = [Chan EXCEPT ![q] = SubSeq(Chan[q], 1 + 1, Len(Chan[q]))]
      /\ seen' = [seen EXCEPT ![q] = SubSeq(seen[q], 1 + 1, Len(seen[q]))]
  BY <1>1, <1>3, <1>4, <1>5
<1> QED
  BY <1>1, <1>4, <1>6 DEF Channel!Consume, Chan

(* A client that asks again, or hands back nothing, starts over.           *)
LEMMA CallsRedo ==
  ASSUME NEW q \in Queues,
         \/ CallBeginWrite(q) \/ TryBeginWrite(q) \/ EndWriteNothing(q)
         \/ CallBeginRead(q) \/ TryBeginRead(q) \/ EndReadNothing(q)
  PROVE  Channel!Redo(q)
<1>1. UNCHANGED Chan
  BY ChanKept DEF CallBeginWrite, TryBeginWrite, EndWriteNothing, CallBeginRead,
                  TryBeginRead, EndReadNothing
<1>2. \/ staged' = [staged EXCEPT ![q] = << >>] /\ UNCHANGED seen
      \/ seen' = [seen EXCEPT ![q] = << >>] /\ UNCHANGED staged
  BY DEF CallBeginWrite, TryBeginWrite, EndWriteNothing, CallBeginRead, TryBeginRead,
         EndReadNothing
<1> QED
  BY <1>1, <1>2 DEF Channel!Redo, Chan

(* clear() is for a queue nobody is using.                                 *)
LEMMA ClearEmpties ==
  ASSUME SingleInv, NEW q \in Queues, Clear(q)
  PROVE  Channel!Empty(q)
<1>1. staged[q] = << >> /\ seen[q] = << >>
  BY DEF Clear, SingleInv, SlotOwned, SlotInv
<1>2. Chan' = [Chan EXCEPT ![q] = << >>] /\ UNCHANGED << staged, seen >>
  BY DEF Clear, Chan, Contents, SingleInv, TypeOK
<1> QED
  BY <1>1, <1>2 DEF Channel!Empty, Chan

-----------------------------------------------------------------------------
(* An empty slot is an empty channel.                                      *)
LEMMA InitMaps == Init => Channel!Init
BY DEF Init, Channel!Init, Contents

(* Every step of a queue is a step of its channel, or none.                *)
LEMMA NextMaps == SingleInv /\ [Next]_singleVars => [Channel!Next]_(Channel!chanVars)
<1> SUFFICES ASSUME SingleInv, [Next]_singleVars
             PROVE  Channel!Next \/ UNCHANGED Channel!chanVars
  OBVIOUS
<1>s. ASSUME UNCHANGED << m_full, m_buffer, staged, seen >> PROVE UNCHANGED Channel!chanVars
  BY <1>s, ChanKept DEF Channel!chanVars, Chan
<1>1. ASSUME NEW q \in Queues, WriterNext(q)
      PROVE  Channel!Next \/ UNCHANGED Channel!chanVars
  <2>1. CASE CallBeginWrite(q) \/ TryBeginWrite(q) \/ EndWriteNothing(q)
    BY <2>1, CallsRedo DEF Channel!Next
  <2>2. CASE BeginWrite(q)
    BY <2>2, <1>s DEF BeginWrite
  <2>3. CASE \E v \in Values : Store(q, v)
    BY <2>3, StorePrepares DEF Channel!Next
  <2>4. CASE EndWrite(q)
    BY <2>4, EndWriteCommits DEF Channel!Next
  <2> QED
    BY <1>1, <2>1, <2>2, <2>3, <2>4 DEF WriterNext
<1>2. ASSUME NEW q \in Queues, ReaderNext(q)
      PROVE  Channel!Next \/ UNCHANGED Channel!chanVars
  <2>1. CASE CallBeginRead(q) \/ TryBeginRead(q) \/ EndReadNothing(q)
    BY <2>1, CallsRedo DEF Channel!Next
  <2>2. CASE BeginRead(q)
    BY <2>2, <1>s DEF BeginRead
  <2>3. CASE Load(q)
    BY <2>3, LoadLooks DEF Channel!Next
  <2>4. CASE EndRead(q)
    BY <2>4, EndReadConsumes DEF Channel!Next
  <2> QED
    BY <1>2, <2>1, <2>2, <2>3, <2>4 DEF ReaderNext
<1>3. ASSUME NEW q \in Queues, OtherNext(q)
      PROVE  Channel!Next \/ UNCHANGED Channel!chanVars
  <2>1. CASE Clear(q)
    BY <2>1, ClearEmpties DEF Channel!Next
  <2>2. CASE ~ Clear(q)
    BY <1>3, <2>2, <1>s DEF OtherNext, CallWaitEmpty, WaitEmpty, Control, Wakeup
  <2> QED
    BY <2>1, <2>2
<1>4. CASE UNCHANGED singleVars
  BY <1>4, <1>s DEF singleVars
<1> QED
  BY <1>1, <1>2, <1>3, <1>4 DEF Next

(* A slot and a flag are a channel of capacity 1: nothing is lost, doubled *)
(* or seen before it is committed, whichever calls are interrupted.        *)
THEOREM SingleImplementsChannels == Spec => ImplementsChannels
<1> QED
  BY InitSingle, NextSingle, InitMaps, NextMaps, PTL
     DEF Spec, ImplementsChannels, Channel!Spec
=============================================================================
