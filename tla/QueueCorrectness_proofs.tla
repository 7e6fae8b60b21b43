----------------------- MODULE QueueCorrectness_proofs -----------------------
(***************************************************************************)
(* Proofs, for every number of queues, every capacity and every set of     *)
(* elements, of the invariants of QueueCorrectness.                        *)
(***************************************************************************)
EXTENDS QueueCorrectness, SequenceTheorems, TLAPS

-----------------------------------------------------------------------------
(* The index arithmetic of the ring.                                       *)

(* increment(m_first, count): the pointer keeps pointing behind the        *)
(* newest element.                                                         *)
LEMMA IncrementFirst ==
  ASSUME NEW cap \in Nat \ {0}, NEW last \in Nat, NEW size \in Nat, NEW c \in Nat,
         last < cap, size + c <= cap, Wrap(cap, last + size) + c <= cap
  PROVE  Increment(cap, Wrap(cap, last + size), c) = Wrap(cap, last + (size + c))
BY DEF Increment, Wrap

(* increment(m_last, count): taking elements away does not move the place  *)
(* behind the newest element, and the i-th oldest of those that are left   *)
(* was the i + c-th oldest.                                                *)
LEMMA IncrementLast ==
  ASSUME NEW cap \in Nat \ {0}, NEW last \in Nat, NEW c \in Nat,
         last < cap, last + c <= cap,
         NEW i \in Nat, i + c <= cap
  PROVE  /\ Increment(cap, last, c) \in Nat /\ Increment(cap, last, c) < cap
         /\ Wrap(cap, Increment(cap, last, c) + i) = Wrap(cap, last + (i + c))
BY DEF Increment, Wrap


-----------------------------------------------------------------------------
(* Steps of the scheduler.                                                 *)

(* A signal wakes somebody who sleeps, or nobody.                          *)
LEMMA SignalWakes ==
  ASSUME NEW asleep, NEW left \in Signalled(asleep)
  PROVE  left \subseteq asleep
BY DEF Signalled

(* Every method of the scheduler but wait_until_ leaves the sleepers of    *)
(* the other queues alone and puts nobody to sleep.                        *)
SleepersKept(q) ==
  /\ m_condition_not_full'  \in [Queues -> SUBSET (Drainers \cup {"writer"})]
  /\ m_condition_not_empty' \in [Queues -> SUBSET {"reader"}]
  /\ \A p \in Queues :
       /\ m_condition_not_full'[p]  \subseteq m_condition_not_full[p]
       /\ m_condition_not_empty'[p] \subseteq m_condition_not_empty[p]

(* trigger_ puts nobody to sleep and leaves the flags alone.               *)
LEMMA TriggerKeeps ==
  ASSUME TypeOK, NEW q \in Queues, trigger_not_full(q) \/ trigger_not_empty(q)
  PROVE  /\ SleepersKept(q)
         /\ UNCHANGED << m_interrupted_not_full, m_interrupted_not_empty >>
BY SignalWakes DEF TypeOK, trigger_not_full, trigger_not_empty, SleepersKept

-----------------------------------------------------------------------------
Inv == TypeOK /\ QueueInv

(* What the invariant says of one queue.                                   *)
LEMMA AtOneQueue ==
  ASSUME Inv, NEW q \in Queues
  PROVE  /\ Capacity[q] \in Nat \ {0}
         /\ m_first[q] \in Nat /\ m_last[q] \in Nat /\ m_size[q] \in Nat
         /\ m_first[q] < Capacity[q] /\ m_last[q] < Capacity[q]
         /\ m_size[q] <= Capacity[q]
         /\ m_buff[q] \in [Slots(q) -> Values \cup {Junk}]
         /\ writer[q] \in Client /\ staged[q] \in Seq(Values)
         /\ reader[q] \in Client /\ seen[q] \in Seq(Values)
         /\ RingInv(q) /\ CommittedInv(q)
         /\ WriterInv(q) /\ ReaderInv(q) /\ SleepInv(q)
<1>1. Capacity[q] \in Nat \ {0}
  BY CapacityAssumption
<1>2. /\ m_first[q] \in Nat /\ m_last[q] \in Nat /\ m_size[q] \in Nat
      /\ m_first[q] < Capacity[q] /\ m_last[q] < Capacity[q]
      /\ m_size[q] <= Capacity[q]
      /\ m_buff[q] \in [Slots(q) -> Values \cup {Junk}]
      /\ writer[q] \in Client /\ staged[q] \in Seq(Values)
      /\ reader[q] \in Client /\ seen[q] \in Seq(Values)
  BY DEF Inv, TypeOK
<1>3. /\ RingInv(q) /\ CommittedInv(q)
      /\ WriterInv(q) /\ ReaderInv(q) /\ SleepInv(q)
  BY DEF Inv, QueueInv
<1> QED
  BY <1>1, <1>2, <1>3

(* A step that leaves the ring alone leaves alone what the invariant says  *)
(* of it, and of a client the step does not concern.                       *)
LEMMA RingKept ==
  ASSUME Inv, UNCHANGED ringVars
  PROVE  \A p \in Queues : RingInv(p)' /\ CommittedInv(p)'
BY AtOneQueue DEF ringVars, RingInv, CommittedInv, SlotOf

(* What the invariant says of the writer stays true when neither the ring  *)
(* nor the writer moves.                                                   *)
LEMMA WriterKept ==
  ASSUME Inv, UNCHANGED ringVars, UNCHANGED writerVars
  PROVE  \A p \in Queues : WriterInv(p)'
BY AtOneQueue DEF ringVars, writerVars, WriterInv, available

(* The same for the reader.                                                *)
LEMMA ReaderKept ==
  ASSUME Inv, UNCHANGED ringVars, UNCHANGED readerVars
  PROVE  \A p \in Queues : ReaderInv(p)'
BY AtOneQueue DEF ringVars, readerVars, ReaderInv

(* end_write: the grant of the writer becomes committed elements.          *)
LEMMA EndWriteStep ==
  ASSUME Inv, NEW q \in Queues, NEW c \in 0 .. Capacity[q], EndWrite(q, c)
  PROVE  Inv'
<1> DEFINE cap == Capacity[q]  first == m_first[q]  last == m_last[q]
           size == m_size[q]   w == writer[q]
<1>1. /\ cap \in Nat \ {0} /\ first \in Nat /\ last \in Nat /\ size \in Nat
      /\ first < cap /\ last < cap /\ size <= cap
      /\ c \in Nat
  BY AtOneQueue
<1>inv. /\ w \in Client /\ staged[q] \in Seq(Values) /\ w.at = "holding"
      /\ RingInv(q) /\ CommittedInv(q) /\ WriterInv(q) /\ SleepInv(q)
  BY AtOneQueue DEF EndWrite
<1>2. /\ w.room \in Nat /\ w.buf \in Nat /\ Len(staged[q]) \in Nat
      /\ c <= Len(staged[q])
  BY <1>inv DEF EndWrite, Client
<1>3. /\ w.buf = first /\ w.buf + w.room <= cap /\ w.room <= cap - size
      /\ Len(staged[q]) <= w.room
  BY <1>inv DEF WriterInv, available
<1>data. \A i \in 1 .. Len(staged[q]) : m_buff[q][w.buf + (i - 1)] = staged[q][i]
  BY <1>inv DEF WriterInv
<1>4. first + c <= cap /\ size + c <= cap
  BY SMTT(60), <1>1, <1>2, <1>3
<1>5. Increment(cap, first, c) = Wrap(cap, last + (size + c))
  <2>1. first = Wrap(cap, last + size)
    BY <1>inv DEF RingInv
  <2>2. Wrap(cap, last + size) + c <= cap
    BY <1>4, <2>1
  <2> HIDE DEF cap, first, last, size
  <2>3. Increment(cap, Wrap(cap, last + size), c) = Wrap(cap, last + (size + c))
    BY ZenonT(60), <1>1, <1>4, <2>2, IncrementFirst
  <2> QED
    BY <2>1, <2>3
<1>6. /\ m_first' = [m_first EXCEPT ![q] = Increment(cap, first, c)]
      /\ m_size' = [m_size EXCEPT ![q] = size + c]
      /\ writer' = [writer EXCEPT ![q] = Remainder(w, c)]
      /\ staged' = [staged EXCEPT ![q] = SubSeq(staged[q], c + 1, Len(staged[q]))]
      /\ UNCHANGED << m_buff, m_last, reader, seen, draining >>
  BY DEF EndWrite, readerVars
<1>7. /\ m_first'[q] = Increment(cap, first, c) /\ m_size'[q] = size + c
      /\ writer'[q] = Remainder(w, c)
      /\ staged'[q] = SubSeq(staged[q], c + 1, Len(staged[q]))
      /\ \A p \in Queues : p # q =>
           /\ m_first'[p] = m_first[p] /\ m_size'[p] = m_size[p]
           /\ writer'[p] = writer[p] /\ staged'[p] = staged[p]
  BY <1>6 DEF Inv, TypeOK
<1>8. SleepersKept(q) /\ UNCHANGED << m_interrupted_not_full, m_interrupted_not_empty >>
  BY TriggerKeeps DEF Inv, EndWrite
<1>len. Len(staged'[q]) = Len(staged[q]) - c
  BY <1>inv, <1>1, <1>2, <1>7
<1>9. /\ staged'[q] \in Seq(Values) /\ Len(staged'[q]) = Len(staged[q]) - c
      /\ \A i \in 1 .. Len(staged[q]) - c : staged'[q][i] = staged[q][c + i]
  BY <1>inv, <1>1, <1>2, <1>7
<1>10. TypeOK'
  <2>1. Remainder(w, c) \in Client
    BY <1>2, <1>3 DEF Remainder, Client, Outside, Holding
  <2>2. Increment(cap, first, c) \in Nat /\ Increment(cap, first, c) < cap
    <3> HIDE DEF cap, first
    <3> QED BY <1>1, <1>4 DEF Increment
  <2>3. /\ m_first' \in [Queues -> Nat] /\ \A p \in Queues : m_first'[p] < Capacity[p]
        /\ m_size' \in [Queues -> Nat] /\ \A p \in Queues : m_size'[p] <= Capacity[p]
    <3> DEFINE newFirst == Increment(cap, first, c)  newSize == size + c
    <3>1. newFirst \in Nat /\ newFirst < Capacity[q]
      BY <2>2
    <3>2. newSize \in Nat /\ newSize <= Capacity[q]
      BY <1>1, <1>4
    <3>3. m_first' = [m_first EXCEPT ![q] = newFirst] /\ m_size' = [m_size EXCEPT ![q] = newSize]
      BY <1>6
    <3> HIDE DEF newFirst, newSize
    <3> QED
      BY <3>1, <3>2, <3>3 DEF Inv, TypeOK
  <2>4. writer' \in [Queues -> Client] /\ staged' \in [Queues -> Seq(Values)]
    BY <2>1, <1>6, <1>7, <1>9 DEF Inv, TypeOK
  <2> QED
    BY <1>6, <1>8, <2>3, <2>4 DEF Inv, TypeOK, SleepersKept, Slots
<1>11. \A p \in Queues : RingInv(p)'
  BY <1>5, <1>6, <1>7, AtOneQueue DEF RingInv
<1>12. \A p \in Queues : CommittedInv(p)'
  <2>1. ASSUME NEW p \in Queues, p # q PROVE CommittedInv(p)'
    BY <2>1, <1>6, <1>7, AtOneQueue DEF CommittedInv, SlotOf
  <2>2. ASSUME NEW i \in 1 .. size + c
        PROVE  m_buff[q][Wrap(cap, last + (i - 1))] \in Values
    <3>1. CASE i <= size
      BY <3>1, <1>1, <1>inv DEF CommittedInv, SlotOf
    <3>2. CASE i > size
      <4>1. PICK k \in 0 .. c - 1 : i - 1 = size + k
        <5>1. i - 1 - size \in 0 .. c - 1 /\ i - 1 = size + (i - 1 - size)
          BY <3>2, <1>1
        <5> QED BY <5>1
      <4>2. size + k < cap /\ first + k < cap /\ k \in Nat
        <5> HIDE DEF cap, first, size
        <5> QED BY <1>1, <1>4
      <4>3. Wrap(cap, last + (i - 1)) = first + k
        <5>1. first = Wrap(cap, last + size)
          BY <1>inv DEF RingInv
        <5>2. Wrap(cap, last + size) + k < cap
          BY <4>2, <5>1
        <5> HIDE DEF cap, first, last, size
        <5>3. Wrap(cap, last + (size + k)) = Wrap(cap, last + size) + k
          BY <1>1, <4>2, <5>2 DEF Wrap
        <5> QED
          BY <4>1, <5>1, <5>3
      <4>4. staged[q][k + 1] \in Values /\ m_buff[q][first + k] = staged[q][k + 1]
        <5>1. k + 1 \in 1 .. Len(staged[q]) /\ (k + 1) - 1 = k
          BY <1>1, <1>2
        <5> QED
          BY <5>1, <1>inv, <1>3, <1>data
      <4> QED
        BY <4>3, <4>4
    <3> QED
      BY <3>1, <3>2, <1>1, <1>2
  <2>3. CommittedInv(q)'
    BY <2>2, <1>6, <1>7 DEF CommittedInv, SlotOf
  <2> QED
    BY <2>1, <2>3
<1>13. \A p \in Queues : WriterInv(p)'
  <2>1. ASSUME NEW p \in Queues, p # q PROVE WriterInv(p)'
    BY <2>1, <1>6, <1>7, AtOneQueue DEF WriterInv, available
  <2>2. WriterInv(q)'
    <3>1. CASE c = w.room
      <4>1. writer'[q].at = "outside" /\ staged'[q] = << >>
        BY <3>1, <1>inv, <1>2, <1>3, <1>7 DEF Remainder, Outside
      <4> QED
        BY <4>1 DEF WriterInv
    <3>2. CASE c # w.room
      <4>1. writer'[q] = Holding(w.buf + c, w.room - c)
        BY <3>2, <1>7 DEF Remainder
      <4>2. m_first'[q] = w.buf + c
        BY <3>2, <1>1, <1>2, <1>3, <1>7 DEF Increment
      <4>3. ASSUME NEW i \in 1 .. Len(staged'[q])
            PROVE  m_buff'[q][w.buf + c + (i - 1)] = staged'[q][i]
        <5>1. i \in 1 .. Len(staged[q]) - c
          BY <1>1, <1>2, <1>len
        <5>2. /\ c + i \in 1 .. Len(staged[q])
              /\ w.buf + c + (i - 1) = w.buf + (c + i - 1)
          <6> DEFINE n == Len(staged[q])  b == w.buf
          <6>1. i \in 1 .. n - c /\ c \in Nat /\ n \in Nat /\ b \in Nat
            BY <5>1, <1>1, <1>2
          <6> HIDE DEF n, b
          <6>2. c + i \in 1 .. n /\ b + c + (i - 1) = b + (c + i - 1)
            BY <6>1
          <6> QED
            BY <6>2 DEF n, b
        <5>3. staged'[q][i] = staged[q][c + i]
          BY <5>1, <1>9
        <5>4. m_buff[q][w.buf + (c + i - 1)] = staged[q][c + i]
          BY <5>2, <1>data
        <5> QED
          BY <5>2, <5>3, <5>4, <1>6
      <4>4. /\ w.buf + c + (w.room - c) <= cap /\ w.room - c <= cap - (size + c)
            /\ Len(staged'[q]) <= w.room - c
        <5> DEFINE n == Len(staged[q])  b == w.buf  room == w.room
        <5>1. /\ n \in Nat /\ b \in Nat /\ room \in Nat /\ n <= room
              /\ b + room <= cap /\ room <= cap - size
          BY <1>2, <1>3
        <5>2. Len(staged'[q]) = n - c
          BY <1>len
        <5> HIDE DEF n, b, room, cap, size
        <5>3. /\ b + c + (room - c) <= cap /\ room - c <= cap - (size + c)
              /\ n - c <= room - c
          BY <1>1, <5>1
        <5> QED
          BY <5>2, <5>3 DEF n, b, room
      <4> QED
        BY <4>1, <4>2, <4>3, <4>4, <1>7 DEF WriterInv, available, Holding
    <3> QED
      BY <3>1, <3>2
  <2> QED
    BY <2>1, <2>2
<1>14. \A p \in Queues : ReaderInv(p)'
  <2>1. ASSUME NEW p \in Queues PROVE ReaderInv(p)'
    <3>1. m_size'[p] >= m_size[p] /\ m_size'[p] \in Nat /\ m_size[p] \in Nat
      BY SMTT(60), <1>1, <1>7, AtOneQueue
    <3>2. reader[p].room \in Nat /\ ReaderInv(p)
      BY AtOneQueue DEF Client
    <3> QED
      BY <3>1, <3>2, <1>6 DEF ReaderInv
  <2> QED
    BY <2>1
<1>15. \A p \in Queues : SleepInv(p)'
  <2>1. "writer" \notin m_condition_not_full[q] /\ "writer" \notin draining[q]
    BY <1>inv DEF SleepInv
  <2>2. ASSUME NEW p \in Queues PROVE SleepInv(p)'
    BY <2>1, <1>6, <1>7, <1>8, AtOneQueue DEF SleepInv, SleepersKept
  <2> QED
    BY <2>2
<1> QED
  BY <1>10, <1>11, <1>12, <1>13, <1>14, <1>15 DEF Inv, QueueInv

(* end_read: the oldest elements leave, their slots become free.           *)
LEMMA EndReadStep ==
  ASSUME Inv, NEW q \in Queues, NEW c \in 0 .. Capacity[q], EndRead(q, c)
  PROVE  Inv'
<1> DEFINE cap == Capacity[q]  first == m_first[q]  last == m_last[q]
           size == m_size[q]   r == reader[q]
<1>1. /\ cap \in Nat \ {0} /\ first \in Nat /\ last \in Nat /\ size \in Nat
      /\ first < cap /\ last < cap /\ size <= cap
      /\ c \in Nat
  BY AtOneQueue
<1>inv. /\ r \in Client /\ seen[q] \in Seq(Values) /\ r.at = "holding"
        /\ RingInv(q) /\ CommittedInv(q) /\ ReaderInv(q) /\ SleepInv(q)
  BY AtOneQueue DEF EndRead
<1>2. /\ r.room \in Nat /\ r.buf \in Nat /\ Len(seen[q]) \in Nat
      /\ c <= r.room
  BY <1>inv DEF EndRead, Client
<1>3. /\ r.buf = last /\ r.buf + r.room <= cap /\ r.room <= size
      /\ Len(seen[q]) <= r.room
  BY <1>inv DEF ReaderInv
<1>data. \A i \in 1 .. Len(seen[q]) : m_buff[q][r.buf + (i - 1)] = seen[q][i]
  BY <1>inv DEF ReaderInv
<1>4. last + c <= cap /\ c <= size /\ size - c \in Nat /\ size - c <= size
  BY <1>1, <1>2, <1>3
<1>last. Increment(cap, last, c) \in Nat /\ Increment(cap, last, c) < cap
  <2> HIDE DEF cap, last
  <2> QED BY <1>1, <1>4 DEF Increment
<1>5. ASSUME NEW i \in Nat, i + c <= cap
      PROVE  Wrap(cap, Increment(cap, last, c) + i) = Wrap(cap, last + (i + c))
  <2> HIDE DEF cap, last
  <2> QED BY <1>1, <1>4, <1>5, IncrementLast
<1>6. /\ m_last' = [m_last EXCEPT ![q] = Increment(cap, last, c)]
      /\ m_size' = [m_size EXCEPT ![q] = size - c]
      /\ reader' = [reader EXCEPT ![q] = Remainder(r, c)]
      /\ seen' = [seen EXCEPT ![q] = SubSeq(seen[q], c + 1, Len(seen[q]))]
      /\ UNCHANGED << m_buff, m_first, writer, staged, draining >>
  BY DEF EndRead, writerVars
<1>7. /\ m_last'[q] = Increment(cap, last, c) /\ m_size'[q] = size - c
      /\ reader'[q] = Remainder(r, c)
      /\ seen'[q] = SubSeq(seen[q], c + 1, Len(seen[q]))
      /\ \A p \in Queues : p # q =>
           /\ m_last'[p] = m_last[p] /\ m_size'[p] = m_size[p]
           /\ reader'[p] = reader[p] /\ seen'[p] = seen[p]
  BY <1>6 DEF Inv, TypeOK
<1>8. SleepersKept(q) /\ UNCHANGED << m_interrupted_not_full, m_interrupted_not_empty >>
  BY TriggerKeeps DEF Inv, EndRead
<1>len. Len(seen'[q]) = IF c <= Len(seen[q]) THEN Len(seen[q]) - c ELSE 0
  BY <1>inv, <1>1, <1>2, <1>7
<1>9. /\ seen'[q] \in Seq(Values)
      /\ \A i \in 1 .. Len(seen[q]) - c : seen'[q][i] = seen[q][c + i]
  BY <1>inv, <1>1, <1>2, <1>7
<1>10. TypeOK'
  <2>1. Remainder(r, c) \in Client
    BY <1>2, <1>3 DEF Remainder, Client, Outside, Holding
  <2>2. /\ m_last' \in [Queues -> Nat] /\ \A p \in Queues : m_last'[p] < Capacity[p]
        /\ m_size' \in [Queues -> Nat] /\ \A p \in Queues : m_size'[p] <= Capacity[p]
    <3> DEFINE newLast == Increment(cap, last, c)  newSize == size - c
    <3>1. newLast \in Nat /\ newLast < Capacity[q]
      BY <1>last
    <3>2. newSize \in Nat /\ newSize <= Capacity[q]
      BY <1>1, <1>4
    <3>3. m_last' = [m_last EXCEPT ![q] = newLast] /\ m_size' = [m_size EXCEPT ![q] = newSize]
      BY <1>6
    <3> HIDE DEF newLast, newSize
    <3> QED
      BY <3>1, <3>2, <3>3 DEF Inv, TypeOK
  <2>3. reader' \in [Queues -> Client] /\ seen' \in [Queues -> Seq(Values)]
    BY <2>1, <1>6, <1>7, <1>9 DEF Inv, TypeOK
  <2> QED
    BY <1>6, <1>8, <2>2, <2>3 DEF Inv, TypeOK, SleepersKept, Slots
<1>11. \A p \in Queues : RingInv(p)'
  <2>1. ASSUME NEW p \in Queues, p # q PROVE RingInv(p)'
    BY <2>1, <1>6, <1>7, AtOneQueue DEF RingInv
  <2>2. Wrap(cap, Increment(cap, last, c) + (size - c)) = Wrap(cap, last + size)
    <3>1. size - c \in Nat /\ (size - c) + c <= cap /\ (size - c) + c = size
      BY <1>1, <1>4
    <3> QED
      BY <3>1, <1>5
  <2>3. RingInv(q)'
    BY <2>2, <1>inv, <1>6, <1>7 DEF RingInv
  <2> QED
    BY <2>1, <2>3
<1>12. \A p \in Queues : CommittedInv(p)'
  <2>1. ASSUME NEW p \in Queues, p # q PROVE CommittedInv(p)'
    BY <2>1, <1>6, <1>7, AtOneQueue DEF CommittedInv, SlotOf
  <2>2. ASSUME NEW i \in 1 .. size - c
        PROVE  m_buff[q][Wrap(cap, Increment(cap, last, c) + (i - 1))] \in Values
    <3>1. /\ i - 1 \in Nat /\ (i - 1) + c <= cap
          /\ i + c \in 1 .. size /\ (i - 1) + c = (i + c) - 1
      BY <1>1, <1>4
    <3>2. Wrap(cap, Increment(cap, last, c) + (i - 1)) = Wrap(cap, last + ((i + c) - 1))
      BY <3>1, <1>5
    <3> QED
      BY <3>1, <3>2, <1>inv DEF CommittedInv, SlotOf
  <2>3. CommittedInv(q)'
    BY <2>2, <1>6, <1>7 DEF CommittedInv, SlotOf
  <2> QED
    BY <2>1, <2>3
<1>13. \A p \in Queues : ReaderInv(p)'
  <2>1. ASSUME NEW p \in Queues, p # q PROVE ReaderInv(p)'
    BY <2>1, <1>6, <1>7, AtOneQueue DEF ReaderInv
  <2>2. ReaderInv(q)'
    <3>1. CASE c = r.room
      <4>1. reader'[q].at = "outside" /\ seen'[q] = << >>
        BY <3>1, <1>inv, <1>2, <1>3, <1>7 DEF Remainder, Outside
      <4> QED
        BY <4>1 DEF ReaderInv
    <3>2. CASE c # r.room
      <4>1. reader'[q] = Holding(r.buf + c, r.room - c)
        BY <3>2, <1>7 DEF Remainder
      <4>2. m_last'[q] = r.buf + c
        BY <3>2, <1>1, <1>2, <1>3, <1>7 DEF Increment
      <4>3. ASSUME NEW i \in 1 .. Len(seen'[q])
            PROVE  m_buff'[q][r.buf + c + (i - 1)] = seen'[q][i]
        <5>1. i \in 1 .. Len(seen[q]) - c
          BY <1>1, <1>2, <1>len
        <5>2. /\ c + i \in 1 .. Len(seen[q])
              /\ r.buf + c + (i - 1) = r.buf + (c + i - 1)
          <6> DEFINE n == Len(seen[q])  b == r.buf
          <6>1. i \in 1 .. n - c /\ c \in Nat /\ n \in Nat /\ b \in Nat
            BY <5>1, <1>1, <1>2
          <6> HIDE DEF n, b
          <6>2. c + i \in 1 .. n /\ b + c + (i - 1) = b + (c + i - 1)
            BY <6>1
          <6> QED
            BY <6>2 DEF n, b
        <5>3. seen'[q][i] = seen[q][c + i]
          BY <5>1, <1>9
        <5>4. m_buff[q][r.buf + (c + i - 1)] = seen[q][c + i]
          BY <5>2, <1>data
        <5> QED
          BY <5>2, <5>3, <5>4, <1>6
      <4>4. /\ r.buf + c + (r.room - c) <= cap /\ r.room - c <= size - c
            /\ Len(seen'[q]) <= r.room - c
        BY <1>1, <1>2, <1>3, <1>len
      <4> QED
        BY <4>1, <4>2, <4>3, <4>4, <1>7 DEF ReaderInv, Holding
    <3> QED
      BY <3>1, <3>2
  <2> QED
    BY <2>1, <2>2
<1>14. \A p \in Queues : WriterInv(p)'
  <2>1. ASSUME NEW p \in Queues PROVE WriterInv(p)'
    <3>1. /\ m_size'[p] <= m_size[p] /\ m_size'[p] \in Nat /\ m_size[p] \in Nat
          /\ Capacity[p] \in Nat
      BY SMTT(60), <1>1, <1>4, <1>7, AtOneQueue
    <3>2. writer[p].room \in Nat /\ WriterInv(p)
      BY AtOneQueue DEF Client
    <3> QED
      BY <3>1, <3>2, <1>6 DEF WriterInv, available
  <2> QED
    BY <2>1
<1>15. \A p \in Queues : SleepInv(p)'
  <2>1. "reader" \notin m_condition_not_empty[q]
    BY <1>inv DEF SleepInv
  <2>2. ASSUME NEW p \in Queues PROVE SleepInv(p)'
    BY <2>1, <1>6, <1>7, <1>8, AtOneQueue DEF SleepInv, SleepersKept
  <2> QED
    BY <2>2
<1> QED
  BY <1>10, <1>11, <1>12, <1>13, <1>14, <1>15 DEF Inv, QueueInv

(* A client stores into its grant, without the lock: no committed element  *)
(* and no element the reader has been lent is there.                       *)
LEMMA StoreStep ==
  ASSUME Inv, NEW q \in Queues, NEW v \in Values, Store(q, v)
  PROVE  Inv'
<1> DEFINE cap == Capacity[q]  first == m_first[q]  last == m_last[q]
           size == m_size[q]   w == writer[q]       n == Len(staged[q])
<1>1. /\ cap \in Nat \ {0} /\ first \in Nat /\ last \in Nat /\ size \in Nat
      /\ first < cap /\ last < cap /\ size <= cap /\ n \in Nat
  BY AtOneQueue
<1>inv. /\ w \in Client /\ staged[q] \in Seq(Values) /\ w.at = "holding"
        /\ RingInv(q) /\ CommittedInv(q) /\ WriterInv(q) /\ ReaderInv(q)
        /\ m_buff[q] \in [Slots(q) -> Values \cup {Junk}]
  BY AtOneQueue DEF Store
<1>2. w.room \in Nat /\ n < w.room
  BY <1>inv DEF Store, Client
<1>3. w.buf = first /\ w.buf + w.room <= cap /\ w.room <= cap - size
  BY <1>inv DEF WriterInv, available
<1>4. first + n < cap /\ size + n < cap /\ first + n \in Slots(q)
  BY <1>1, <1>2, <1>3 DEF Slots
<1>5. /\ m_buff' = [m_buff EXCEPT ![q] = [m_buff[q] EXCEPT ![first + n] = v]]
      /\ staged' = [staged EXCEPT ![q] = Append(staged[q], v)]
      /\ UNCHANGED << m_first, m_last, m_size, writer, reader, seen, draining >>
      /\ UNCHANGED schedulerVars
  BY <1>3 DEF Store, readerVars
<1>6. /\ m_buff'[q][first + n] = v
      /\ \A i \in Slots(q) : i # first + n => m_buff'[q][i] = m_buff[q][i]
      /\ m_buff'[q] \in [Slots(q) -> Values \cup {Junk}]
      /\ \A p \in Queues : p # q => m_buff'[p] = m_buff[p] /\ staged'[p] = staged[p]
      /\ staged'[q] = Append(staged[q], v)
  BY <1>inv, <1>4, <1>5 DEF Inv, TypeOK
<1>7. TypeOK'
  <2>1. staged' \in [Queues -> Seq(Values)]
    BY <1>5, <1>inv DEF Inv, TypeOK
  <2>2. DOMAIN m_buff' = Queues /\ \A p \in Queues : m_buff'[p] \in [Slots(p) -> Values \cup {Junk}]
    BY <1>5, <1>6 DEF Inv, TypeOK
  <2> QED
    BY <2>1, <2>2, <1>5 DEF Inv, TypeOK, schedulerVars, Slots
<1>8. \A p \in Queues : RingInv(p)' /\ SleepInv(p)'
  BY <1>5, AtOneQueue DEF RingInv, SleepInv, schedulerVars
(* The slot behind m_first differs from every committed one.               *)
<1>9. ASSUME NEW i \in Nat, i < size
      PROVE  Wrap(cap, last + i) \in Slots(q) /\ Wrap(cap, last + i) # first + n
  <2>1. first = Wrap(cap, last + size)
    BY <1>inv DEF RingInv
  <2>2. Wrap(cap, last + i) # first + n
    <3> HIDE DEF cap, first, last, size, n
    <3> QED BY <1>1, <1>4, <1>9, <2>1 DEF Wrap
  <2>3. Wrap(cap, last + i) \in 0 .. cap - 1
    <3> HIDE DEF cap, last, size
    <3> QED BY <1>1, <1>9 DEF Wrap
  <2> QED
    BY <2>2, <2>3 DEF Slots
<1>10. \A p \in Queues : CommittedInv(p)'
  <2>1. ASSUME NEW p \in Queues, p # q PROVE CommittedInv(p)'
    BY <2>1, <1>5, <1>6, AtOneQueue DEF CommittedInv, SlotOf
  <2>2. ASSUME NEW i \in 1 .. size
        PROVE  m_buff'[q][Wrap(cap, last + (i - 1))] \in Values
    <3>1. i - 1 \in Nat /\ i - 1 < size
      BY <1>1
    <3>2. m_buff[q][Wrap(cap, last + (i - 1))] \in Values
      BY <1>inv DEF CommittedInv, SlotOf
    <3> QED
      BY <3>1, <3>2, <1>6, <1>9
  <2> QED
    BY <2>1, <2>2, <1>5 DEF CommittedInv, SlotOf
<1>11. \A p \in Queues : ReaderInv(p)'
  <2>1. ASSUME NEW p \in Queues, p # q PROVE ReaderInv(p)'
    BY <2>1, <1>5, <1>6, AtOneQueue DEF ReaderInv
  <2>2. ASSUME reader[q].at = "holding", NEW i \in 1 .. Len(seen[q])
        PROVE  m_buff'[q][reader[q].buf + (i - 1)] = seen[q][i]
    <3>1. /\ reader[q].buf = last /\ reader[q].buf + reader[q].room <= cap
          /\ reader[q].room <= size /\ Len(seen[q]) <= reader[q].room
          /\ m_buff[q][reader[q].buf + (i - 1)] = seen[q][i]
      BY <2>2, <1>inv DEF ReaderInv
    <3>2. reader[q].room \in Nat /\ Len(seen[q]) \in Nat
      BY AtOneQueue DEF Client
    <3>3. i - 1 \in Nat /\ i - 1 < size /\ last + (i - 1) < cap
      BY SMTT(60), <1>1, <3>1, <3>2
    <3>4. Wrap(cap, last + (i - 1)) = last + (i - 1)
      <4> HIDE DEF cap, last
      <4> QED BY <1>1, <3>3 DEF Wrap
    <3>5. last + (i - 1) \in Slots(q) /\ last + (i - 1) # first + n
      BY <3>3, <3>4, <1>9
    <3> QED
      BY <3>1, <3>5, <1>6
  <2>3. ReaderInv(q)'
    BY <2>2, <1>inv, <1>5 DEF ReaderInv
  <2> QED
    BY <2>1, <2>3
<1>12. \A p \in Queues : WriterInv(p)'
  <2>1. ASSUME NEW p \in Queues, p # q PROVE WriterInv(p)'
    BY <2>1, <1>5, <1>6, AtOneQueue DEF WriterInv, available
  <2>2. Len(staged'[q]) = n + 1
    BY <1>6, <1>inv
  <2>3. ASSUME NEW i \in 1 .. n + 1
        PROVE  m_buff'[q][w.buf + (i - 1)] = staged'[q][i]
    <3>1. CASE i = n + 1
      <4>1. w.buf + (i - 1) = first + n /\ staged'[q][i] = v
        BY <3>1, <1>1, <1>3, <1>6, <1>inv
      <4> QED
        BY <4>1, <1>6
    <3>2. CASE i # n + 1
      <4>1. i \in 1 .. n /\ first + (i - 1) \in 0 .. cap - 1 /\ first + (i - 1) # first + n
        <5>1. first + n < cap
          BY <1>4
        <5> HIDE DEF cap, first, n
        <5> QED BY <3>2, <1>1, <5>1
      <4>2. staged'[q][i] = staged[q][i]
        BY <4>1, <1>6, <1>inv
      <4>3. m_buff[q][first + (i - 1)] = staged[q][i]
        BY <4>1, <1>3, <1>inv DEF WriterInv
      <4> QED
        BY <4>1, <4>2, <4>3, <1>3, <1>6 DEF Slots
    <3> QED
      BY <3>1, <3>2
  <2>4. n + 1 <= w.room
    BY <1>1, <1>2
  <2>5. WriterInv(q)'
    BY <2>2, <2>3, <2>4, <1>3, <1>5, <1>inv DEF WriterInv, available
  <2> QED
    BY <2>1, <2>5
<1> QED
  BY <1>7, <1>8, <1>10, <1>11, <1>12 DEF Inv, QueueInv

(* begin_write: what it lends starts at m_first and is free.               *)
LEMMA BeginWriteStep ==
  ASSUME Inv, NEW q \in Queues, BeginWrite(q)
  PROVE  Inv'
<1> DEFINE cap == Capacity[q]  first == m_first[q]  last == m_last[q]
           size == m_size[q]   room == WriteRoom(cap, first, last, size)
<1>1. /\ cap \in Nat \ {0} /\ first \in Nat /\ last \in Nat /\ size \in Nat
      /\ first < cap /\ last < cap /\ size <= cap
  BY AtOneQueue
<1>2. room \in Nat /\ room <= cap - size /\ first + room <= cap
  <2>1. first = Wrap(cap, last + size)
    BY AtOneQueue DEF RingInv
  <2> HIDE DEF cap, first, last, size
  <2> QED
    BY <1>1, <2>1 DEF WriteRoom, Wrap
<1>3. /\ UNCHANGED << ringVars, staged, readerVars, draining >>
      /\ writer[q].at = "begin" /\ "writer" \notin m_condition_not_full[q]
      /\ "writer" \notin draining[q] /\ staged[q] = << >>
  BY AtOneQueue DEF BeginWrite, WriterInv, SleepInv
<1>4. \A p \in Queues : RingInv(p)' /\ CommittedInv(p)' /\ ReaderInv(p)'
  BY <1>3, RingKept, ReaderKept DEF ringVars, readerVars
<1>5. CASE BeginWriteReturns(q)
  <2>1. /\ writer' = [writer EXCEPT ![q] = Holding(first, room)]
        /\ UNCHANGED schedulerVars
    BY <1>5 DEF BeginWriteReturns
  <2>2. Holding(first, room) \in Client
    BY <1>1, <1>2 DEF Holding, Client
  <2>3. TypeOK'
    BY <1>3, <2>1, <2>2 DEF Inv, TypeOK, ringVars, readerVars, schedulerVars, Slots
  <2>4. ASSUME NEW p \in Queues, p # q PROVE writer'[p] = writer[p]
    BY <2>1, <2>4 DEF Inv, TypeOK
  <2>5. writer'[q] = Holding(first, room)
    BY <2>1 DEF Inv, TypeOK
  <2>6. ASSUME NEW p \in Queues PROVE WriterInv(p)'
    <3>1. CASE p # q
      BY <3>1, <2>4, <1>3, AtOneQueue DEF WriterInv, available, ringVars
    <3>2. CASE p = q
      BY <3>2, <2>5, <1>2, <1>3 DEF WriterInv, available, ringVars, Holding
    <3> QED
      BY <3>1, <3>2
  <2>7. ASSUME NEW p \in Queues PROVE SleepInv(p)'
    BY <2>1, <2>4, <1>3, AtOneQueue DEF SleepInv, schedulerVars, readerVars
  <2> QED
    BY <1>4, <2>3, <2>6, <2>7 DEF Inv, QueueInv
<1>6. CASE BeginWriteWaits(q) /\ wait_until_not_full_sleeps(q, "writer") /\ UNCHANGED writer
  <2>1. TypeOK'
    BY <1>3, <1>6 DEF wait_until_not_full_sleeps, Inv, TypeOK, ringVars, readerVars, Slots
  <2>2. \A p \in Queues : WriterInv(p)'
    BY <1>3, <1>6, WriterKept DEF writerVars
  <2>3. ASSUME NEW p \in Queues PROVE SleepInv(p)'
    <3>1. /\ m_condition_not_full'[q] = m_condition_not_full[q] \cup {"writer"}
          /\ p # q => m_condition_not_full'[p] = m_condition_not_full[p]
          /\ m_condition_not_empty' = m_condition_not_empty
      BY <1>6 DEF wait_until_not_full_sleeps, Inv, TypeOK
    <3> QED
      BY <3>1, <1>3, <1>6, AtOneQueue DEF SleepInv, readerVars
  <2> QED
    BY <1>4, <2>1, <2>2, <2>3 DEF Inv, QueueInv
<1>7. CASE wait_until_not_full_throws(q) /\ writer' = [writer EXCEPT ![q] = Outside]
  <2>1. Outside \in Client
    BY DEF Outside, Client
  <2>2. TypeOK'
    BY <1>3, <1>7, <2>1 DEF wait_until_not_full_throws, Inv, TypeOK, ringVars, readerVars, schedulerVars, Slots
  <2>3. /\ writer'[q].at = "outside"
        /\ \A p \in Queues : p # q => writer'[p] = writer[p]
    BY <1>7 DEF Outside, Inv, TypeOK
  <2>4. ASSUME NEW p \in Queues PROVE WriterInv(p)'
    BY SMTT(60), <2>3, <1>3, AtOneQueue DEF WriterInv, available, ringVars
  <2>5. ASSUME NEW p \in Queues PROVE SleepInv(p)'
    BY <2>3, <1>3, <1>7, AtOneQueue DEF SleepInv, wait_until_not_full_throws, schedulerVars, readerVars
  <2> QED
    BY <1>4, <2>2, <2>4, <2>5 DEF Inv, QueueInv
<1> QED
  BY <1>5, <1>6, <1>7 DEF BeginWrite, BeginWriteWaits

(* begin_read: what it lends starts at m_last and is committed.            *)
LEMMA BeginReadStep ==
  ASSUME Inv, NEW q \in Queues, BeginRead(q)
  PROVE  Inv'
<1> DEFINE cap == Capacity[q]  first == m_first[q]  last == m_last[q]
           size == m_size[q]   room == ReadRoom(cap, first, last, size)
<1>1. /\ cap \in Nat \ {0} /\ first \in Nat /\ last \in Nat /\ size \in Nat
      /\ first < cap /\ last < cap /\ size <= cap
  BY AtOneQueue
<1>2. room \in Nat /\ room <= size /\ last + room <= cap
  <2>1. first = Wrap(cap, last + size)
    BY AtOneQueue DEF RingInv
  <2> HIDE DEF cap, first, last, size
  <2> QED
    BY <1>1, <2>1 DEF ReadRoom, Wrap
<1>3. /\ UNCHANGED << ringVars, writerVars, seen, draining >>
      /\ reader[q].at = "begin" /\ "reader" \notin m_condition_not_empty[q]
      /\ seen[q] = << >>
  BY AtOneQueue DEF BeginRead, ReaderInv
<1>4. \A p \in Queues : RingInv(p)' /\ CommittedInv(p)' /\ WriterInv(p)'
  BY <1>3, RingKept, WriterKept DEF ringVars, writerVars
<1>5. CASE BeginReadReturns(q)
  <2>1. /\ reader' = [reader EXCEPT ![q] = Holding(last, room)]
        /\ UNCHANGED schedulerVars
    BY <1>5 DEF BeginReadReturns
  <2>2. Holding(last, room) \in Client
    BY <1>1, <1>2 DEF Holding, Client
  <2>3. TypeOK'
    BY <1>3, <2>1, <2>2 DEF Inv, TypeOK, ringVars, writerVars, schedulerVars, Slots
  <2>4. ASSUME NEW p \in Queues, p # q PROVE reader'[p] = reader[p]
    BY <2>1, <2>4 DEF Inv, TypeOK
  <2>5. reader'[q] = Holding(last, room)
    BY <2>1 DEF Inv, TypeOK
  <2>6. ASSUME NEW p \in Queues PROVE ReaderInv(p)'
    <3>1. CASE p # q
      BY <3>1, <2>4, <1>3, AtOneQueue DEF ReaderInv, ringVars
    <3>2. CASE p = q
      BY <3>2, <2>5, <1>2, <1>3 DEF ReaderInv, ringVars, Holding
    <3> QED
      BY <3>1, <3>2
  <2>7. ASSUME NEW p \in Queues PROVE SleepInv(p)'
    BY <2>1, <2>4, <1>3, AtOneQueue DEF SleepInv, schedulerVars, writerVars
  <2> QED
    BY <1>4, <2>3, <2>6, <2>7 DEF Inv, QueueInv
<1>6. CASE BeginReadWaits(q) /\ wait_until_not_empty_sleeps(q, "reader") /\ UNCHANGED reader
  <2>1. TypeOK'
    BY <1>3, <1>6 DEF wait_until_not_empty_sleeps, Inv, TypeOK, ringVars, writerVars, Slots
  <2>2. \A p \in Queues : ReaderInv(p)'
    BY <1>3, <1>6, ReaderKept DEF readerVars
  <2>3. ASSUME NEW p \in Queues PROVE SleepInv(p)'
    <3>1. /\ p # q => m_condition_not_empty'[p] = m_condition_not_empty[p]
          /\ m_condition_not_full' = m_condition_not_full
      BY <1>6 DEF wait_until_not_empty_sleeps, Inv, TypeOK
    <3> QED
      BY <3>1, <1>3, <1>6, AtOneQueue DEF SleepInv, writerVars
  <2> QED
    BY <1>4, <2>1, <2>2, <2>3 DEF Inv, QueueInv
<1>7. CASE wait_until_not_empty_throws(q) /\ reader' = [reader EXCEPT ![q] = Outside]
  <2>1. Outside \in Client
    BY DEF Outside, Client
  <2>2. TypeOK'
    BY <1>3, <1>7, <2>1 DEF wait_until_not_empty_throws, Inv, TypeOK, ringVars, writerVars, schedulerVars, Slots
  <2>3. /\ reader'[q].at = "outside"
        /\ \A p \in Queues : p # q => reader'[p] = reader[p]
    BY <1>7 DEF Outside, Inv, TypeOK
  <2>4. ASSUME NEW p \in Queues PROVE ReaderInv(p)'
    BY SMTT(60), <2>3, <1>3, AtOneQueue DEF ReaderInv, ringVars
  <2>5. ASSUME NEW p \in Queues PROVE SleepInv(p)'
    BY <2>3, <1>3, <1>7, AtOneQueue DEF SleepInv, wait_until_not_empty_throws, schedulerVars, writerVars
  <2> QED
    BY <1>4, <2>2, <2>4, <2>5 DEF Inv, QueueInv
<1> QED
  BY <1>5, <1>6, <1>7 DEF BeginRead, BeginReadWaits

(* Entering begin_write or begin_read drops the previous grant.            *)
LEMMA CallBeginWriteStep ==
  ASSUME Inv, NEW q \in Queues, NEW n \in Counts, CallBeginWrite(q, n)
  PROVE  Inv'
<1>1. /\ UNCHANGED << ringVars, readerVars, draining, schedulerVars >>
      /\ writer' = [writer EXCEPT ![q] = Begin(n)]
      /\ staged' = [staged EXCEPT ![q] = << >>]
      /\ writer[q].at # "begin" /\ "writer" \notin draining[q]
  BY DEF CallBeginWrite
<1>2. /\ writer'[q].at = "begin" /\ staged'[q] = << >>
      /\ \A p \in Queues : p # q => writer'[p] = writer[p] /\ staged'[p] = staged[p]
  BY <1>1 DEF Begin, Inv, TypeOK
<1>3. TypeOK'
  <2>1. Begin(n) \in Client
    BY CountsAssumption DEF Begin, Client
  <2> QED
    BY <1>1, <2>1 DEF Inv, TypeOK, ringVars, readerVars, schedulerVars, Slots
<1>4. \A p \in Queues : RingInv(p)' /\ CommittedInv(p)' /\ ReaderInv(p)'
  BY <1>1, RingKept, ReaderKept DEF ringVars, readerVars
<1>5. \A p \in Queues : WriterInv(p)'
  <2>1. ASSUME NEW p \in Queues, p # q PROVE WriterInv(p)'
    <3>1. WriterInv(p)
      BY AtOneQueue
    <3>2. /\ writer'[p] = writer[p] /\ staged'[p] = staged[p]
          /\ UNCHANGED << m_buff, m_first, m_size >>
      BY <2>1, <1>1, <1>2 DEF ringVars
    <3> QED
      BY <3>1, <3>2 DEF WriterInv, available
  <2>2. WriterInv(q)'
    BY <1>2 DEF WriterInv
  <2> QED
    BY <2>1, <2>2
<1>6. \A p \in Queues : SleepInv(p)'
  BY <1>1, <1>2, AtOneQueue DEF SleepInv, schedulerVars, readerVars
<1> QED
  BY <1>3, <1>4, <1>5, <1>6 DEF Inv, QueueInv

(* Entering begin_read drops the reader's grant.                           *)
LEMMA CallBeginReadStep ==
  ASSUME Inv, NEW q \in Queues, NEW n \in Counts, CallBeginRead(q, n)
  PROVE  Inv'
<1>1. /\ UNCHANGED << ringVars, writerVars, draining, schedulerVars >>
      /\ reader' = [reader EXCEPT ![q] = Begin(n)]
      /\ seen' = [seen EXCEPT ![q] = << >>]
      /\ reader[q].at # "begin"
  BY DEF CallBeginRead
<1>2. /\ reader'[q].at = "begin" /\ seen'[q] = << >>
      /\ \A p \in Queues : p # q => reader'[p] = reader[p] /\ seen'[p] = seen[p]
  BY <1>1 DEF Begin, Inv, TypeOK
<1>3. TypeOK'
  <2>1. Begin(n) \in Client
    BY CountsAssumption DEF Begin, Client
  <2> QED
    BY <1>1, <2>1 DEF Inv, TypeOK, ringVars, writerVars, schedulerVars, Slots
<1>4. \A p \in Queues : RingInv(p)' /\ CommittedInv(p)' /\ WriterInv(p)'
  BY <1>1, RingKept, WriterKept DEF ringVars, writerVars
<1>5. \A p \in Queues : ReaderInv(p)'
  <2>1. ASSUME NEW p \in Queues, p # q PROVE ReaderInv(p)'
    <3>1. ReaderInv(p)
      BY AtOneQueue
    <3>2. /\ reader'[p] = reader[p] /\ seen'[p] = seen[p]
          /\ UNCHANGED << m_buff, m_last, m_size >>
      BY <2>1, <1>1, <1>2 DEF ringVars
    <3> QED
      BY <3>1, <3>2 DEF ReaderInv
  <2>2. ReaderInv(q)'
    BY <1>2 DEF ReaderInv
  <2> QED
    BY <2>1, <2>2
<1>6. \A p \in Queues : SleepInv(p)'
  BY <1>1, <1>2, AtOneQueue DEF SleepInv, schedulerVars, writerVars
<1> QED
  BY <1>3, <1>4, <1>5, <1>6 DEF Inv, QueueInv

(* What a reader looks at is committed, hence an element.                  *)
LEMMA LoadStep ==
  ASSUME Inv, NEW q \in Queues, Load(q)
  PROVE  Inv'
<1> DEFINE cap == Capacity[q]  last == m_last[q]  size == m_size[q]
           r == reader[q]      n == Len(seen[q])
<1>1. /\ cap \in Nat \ {0} /\ last \in Nat /\ size \in Nat
      /\ last < cap /\ size <= cap /\ n \in Nat
  BY AtOneQueue
<1>inv. /\ r \in Client /\ seen[q] \in Seq(Values) /\ r.at = "holding"
        /\ CommittedInv(q) /\ ReaderInv(q)
  BY AtOneQueue DEF Load
<1>2. r.room \in Nat /\ n < r.room
  BY <1>inv DEF Load, Client
<1>3. r.buf = last /\ r.buf + r.room <= cap /\ r.room <= size
  BY <1>inv DEF ReaderInv
<1>4. /\ seen' = [seen EXCEPT ![q] = Append(seen[q], m_buff[q][last + n])]
      /\ UNCHANGED << ringVars, writerVars, reader, draining, schedulerVars >>
  BY <1>3 DEF Load
<1>5. m_buff[q][last + n] \in Values
  <2>1. n + 1 \in 1 .. size /\ (n + 1) - 1 = n /\ last + n < cap
    BY <1>1, <1>2, <1>3
  <2>2. Wrap(cap, last + n) = last + n
    <3> HIDE DEF cap, last, n
    <3> QED BY <1>1, <2>1 DEF Wrap
  <2>3. m_buff[q][Wrap(cap, last + ((n + 1) - 1))] \in Values
    BY <2>1, <1>inv DEF CommittedInv, SlotOf
  <2> QED
    BY <2>1, <2>2, <2>3
<1>6. /\ seen'[q] = Append(seen[q], m_buff[q][last + n])
      /\ \A p \in Queues : p # q => seen'[p] = seen[p]
      /\ seen' \in [Queues -> Seq(Values)]
  BY <1>4, <1>5, <1>inv DEF Inv, TypeOK
<1>7. TypeOK'
  BY <1>4, <1>6 DEF Inv, TypeOK, ringVars, writerVars, schedulerVars, Slots
<1>8. \A p \in Queues : RingInv(p)' /\ CommittedInv(p)' /\ WriterInv(p)'
  BY <1>4, RingKept, WriterKept DEF ringVars, writerVars
<1>9. \A p \in Queues : ReaderInv(p)'
  <2>1. ASSUME NEW p \in Queues, p # q PROVE ReaderInv(p)'
    BY <2>1, <1>4, <1>6, AtOneQueue DEF ReaderInv, ringVars
  <2>2. Len(seen'[q]) = n + 1 /\ n + 1 <= r.room
    BY <1>1, <1>2, <1>5, <1>6, <1>inv
  <2>3. ASSUME NEW i \in 1 .. n + 1 PROVE m_buff[q][last + (i - 1)] = seen'[q][i]
    <3>1. CASE i = n + 1
      BY <3>1, <1>1, <1>5, <1>6, <1>inv
    <3>2. CASE i # n + 1
      <4>1. i \in 1 .. n
        BY <3>2, <1>1
      <4>2. seen'[q][i] = seen[q][i]
        BY <4>1, <1>5, <1>6, <1>inv
      <4> QED
        BY <4>1, <4>2, <1>3, <1>inv DEF ReaderInv
    <3> QED
      BY <3>1, <3>2
  <2>4. ReaderInv(q)'
    BY <2>2, <2>3, <1>3, <1>4, <1>inv DEF ReaderInv, ringVars
  <2> QED
    BY <2>1, <2>4
<1>10. \A p \in Queues : SleepInv(p)'
  BY <1>4, AtOneQueue DEF SleepInv, schedulerVars, writerVars
<1> QED
  BY <1>7, <1>8, <1>9, <1>10 DEF Inv, QueueInv

(* The calls of other threads do not touch the ring or the grants, except  *)
(* clear(), and nobody has a grant when it is called.                      *)
LEMMA OtherStep ==
  ASSUME Inv, NEW q \in Queues, OtherNext(q)
  PROVE  Inv'
<1>1. CASE UNCHANGED << ringVars, writerVars, readerVars >>
  <2>1. \A p \in Queues : RingInv(p)' /\ CommittedInv(p)' /\ WriterInv(p)' /\ ReaderInv(p)'
    BY <1>1, RingKept, WriterKept, ReaderKept DEF ringVars, writerVars, readerVars
  <2>2. ASSUME NEW t \in Drainers, CallWaitEmpty(q, t)
        PROVE  TypeOK' /\ \A p \in Queues : SleepInv(p)'
    <3>1. TypeOK'
      BY <1>1, <2>2 DEF CallWaitEmpty, Inv, TypeOK, ringVars, writerVars, readerVars, schedulerVars, Slots
    <3>2. \A p \in Queues : SleepInv(p)'
      BY <1>1, <2>2, AtOneQueue DEF CallWaitEmpty, SleepInv, schedulerVars, writerVars, readerVars, Inv, TypeOK
    <3> QED
      BY <3>1, <3>2
  <2>3. ASSUME NEW t \in Drainers, WaitEmpty(q, t)
        PROVE  TypeOK' /\ \A p \in Queues : SleepInv(p)'
    <3>1. t \in draining[q] /\ t \notin m_condition_not_full[q]
      BY <2>3 DEF WaitEmpty
    <3>2. CASE draining' = [draining EXCEPT ![q] = @ \ {t}] /\ UNCHANGED schedulerVars
      <4>1. TypeOK'
        BY <1>1, <3>2 DEF Inv, TypeOK, ringVars, writerVars, readerVars, schedulerVars, Slots
      <4>2. draining'[q] = draining[q] \ {t} /\ \A p \in Queues : p # q => draining'[p] = draining[p]
        BY <3>2 DEF Inv, TypeOK
      <4>3. \A p \in Queues : SleepInv(p)'
        BY <1>1, <3>1, <3>2, <4>2, AtOneQueue DEF SleepInv, schedulerVars, writerVars, readerVars
      <4> QED
        BY <4>1, <4>3
    <3>3. CASE wait_until_not_full_sleeps(q, t) /\ UNCHANGED draining
      <4>1. /\ m_condition_not_full' = [m_condition_not_full EXCEPT ![q] = @ \cup {t}]
            /\ UNCHANGED << m_condition_not_empty, m_interrupted_not_full,
                            m_interrupted_not_empty, draining >>
        BY <3>3 DEF wait_until_not_full_sleeps
      <4>2. TypeOK'
        BY <1>1, <4>1 DEF Inv, TypeOK, ringVars, writerVars, readerVars, Slots
      <4>3. /\ m_condition_not_full'[q] = m_condition_not_full[q] \cup {t}
            /\ \A p \in Queues : p # q => m_condition_not_full'[p] = m_condition_not_full[p]
        BY <4>1 DEF Inv, TypeOK
      <4>4. \A p \in Queues : SleepInv(p)'
        BY <1>1, <3>1, <4>1, <4>3, AtOneQueue DEF SleepInv, writerVars, readerVars
      <4> QED
        BY <4>2, <4>4
    <3> QED
      BY <2>3, <3>2, <3>3 DEF WaitEmpty
  <2>4. ASSUME Control(q) \/ Wakeup(q)
        PROVE  TypeOK' /\ \A p \in Queues : SleepInv(p)'
    <3>1. /\ SleepersKept(q) /\ draining' = draining
          /\ m_interrupted_not_full' \in [Queues -> BOOLEAN]
          /\ m_interrupted_not_empty' \in [Queues -> BOOLEAN]
      <4>1. CASE Wakeup(q)
        <5>1. ASSUME NEW t, UNCHANGED << m_condition_not_empty, m_interrupted_not_full,
                                         m_interrupted_not_empty, draining >>,
                     m_condition_not_full' = [m_condition_not_full EXCEPT ![q] = @ \ {t}]
              PROVE  /\ SleepersKept(q) /\ draining' = draining
                     /\ m_interrupted_not_full' \in [Queues -> BOOLEAN]
                     /\ m_interrupted_not_empty' \in [Queues -> BOOLEAN]
          BY <5>1 DEF SleepersKept, Inv, TypeOK
        <5>2. ASSUME NEW t, UNCHANGED << m_condition_not_full, m_interrupted_not_full,
                                         m_interrupted_not_empty, draining >>,
                     m_condition_not_empty' = [m_condition_not_empty EXCEPT ![q] = @ \ {t}]
              PROVE  /\ SleepersKept(q) /\ draining' = draining
                     /\ m_interrupted_not_full' \in [Queues -> BOOLEAN]
                     /\ m_interrupted_not_empty' \in [Queues -> BOOLEAN]
          BY <5>2 DEF SleepersKept, Inv, TypeOK
        <5> QED
          BY <4>1, <5>1, <5>2 DEF Wakeup, SpuriousWakeup
      <4>2. CASE Control(q) /\ \E flag \in BOOLEAN : set_not_full(q, flag)
        BY <4>2, SignalWakes DEF Control, set_not_full, SleepersKept, Inv, TypeOK
      <4>3. CASE Control(q) /\ \E flag \in BOOLEAN : set_not_empty(q, flag)
        BY <4>3, SignalWakes DEF Control, set_not_empty, SleepersKept, Inv, TypeOK
      <4> QED
        BY <2>4, <4>1, <4>2, <4>3 DEF Control, interrupt_not_empty, interrupt_not_full,
                                      resume_not_empty, resume_not_full
    <3>2. TypeOK'
      BY <1>1, <3>1 DEF Inv, TypeOK, SleepersKept, ringVars, writerVars, readerVars, Slots
    <3>3. \A p \in Queues : SleepInv(p)'
      BY <1>1, <3>1, AtOneQueue DEF SleepInv, SleepersKept, writerVars, readerVars
    <3> QED
      BY <3>2, <3>3
  <2>5. CASE Clear(q)
    <3>1. UNCHANGED << m_buff, m_first, m_last, m_size, writer, staged, reader, seen,
                       draining, schedulerVars >>
      BY <1>1, <2>5 DEF Clear, ringVars, writerVars, readerVars
    <3> QED
      BY <2>1, <3>1, AtOneQueue DEF Inv, TypeOK, QueueInv, SleepInv, schedulerVars, Slots
  <2> QED
    BY <2>1, <2>2, <2>3, <2>4, <2>5 DEF OtherNext, Inv, QueueInv
<1>2. CASE Clear(q)
  <2>1. /\ m_first' = [m_first EXCEPT ![q] = 0] /\ m_last' = [m_last EXCEPT ![q] = 0]
        /\ m_size' = [m_size EXCEPT ![q] = 0]
        /\ UNCHANGED << m_buff, writer, staged, reader, seen, draining, schedulerVars >>
        /\ writer[q].at = "outside" /\ reader[q].at = "outside"
    BY <1>2 DEF Clear, writerVars, readerVars
  <2>2. Capacity[q] \in Nat \ {0}
    BY AtOneQueue
  <2>4. /\ m_first'[q] = 0 /\ m_last'[q] = 0 /\ m_size'[q] = 0
        /\ \A p \in Queues : p # q =>
             m_first'[p] = m_first[p] /\ m_last'[p] = m_last[p] /\ m_size'[p] = m_size[p]
    BY <2>1 DEF Inv, TypeOK
  <2>3. TypeOK'
    <3>1. m_first' \in [Queues -> Nat] /\ m_last' \in [Queues -> Nat] /\ m_size' \in [Queues -> Nat]
      BY <2>1 DEF Inv, TypeOK
    <3>2. \A p \in Queues : /\ m_first'[p] < Capacity[p]
                            /\ m_last'[p] < Capacity[p] /\ m_size'[p] <= Capacity[p]
      <4>1. ASSUME NEW p \in Queues
            PROVE  /\ m_first'[p] < Capacity[p]
                   /\ m_last'[p] < Capacity[p] /\ m_size'[p] <= Capacity[p]
        <5>1. CASE p = q
          BY <2>2, <2>4, <5>1
        <5>2. CASE p # q
          BY <2>4, <5>2, AtOneQueue
        <5> QED
          BY <5>1, <5>2
      <4> QED
        BY <4>1
    <3>3. UNCHANGED << m_buff, writer, staged, reader, seen, draining, m_condition_not_full,
                       m_condition_not_empty, m_interrupted_not_full, m_interrupted_not_empty >>
      BY <2>1 DEF schedulerVars
    <3>4. \A p \in Queues : m_buff'[p] \in [Slots(p) -> Values \cup {Junk}]'
      BY <3>3 DEF Inv, TypeOK, Slots
    <3> QED
      BY <3>1, <3>2, <3>3, <3>4 DEF Inv, TypeOK
  <2>5. ASSUME NEW p \in Queues, p # q
        PROVE  RingInv(p)' /\ CommittedInv(p)' /\ WriterInv(p)' /\ ReaderInv(p)'
    BY <2>1, <2>4, <2>5, AtOneQueue DEF RingInv, CommittedInv, SlotOf, WriterInv, available, ReaderInv
  <2>6. RingInv(q)' /\ CommittedInv(q)'
    BY <2>2, <2>4 DEF RingInv, CommittedInv, Wrap
  <2>7. WriterInv(q)' /\ ReaderInv(q)'
    BY <2>1, AtOneQueue DEF WriterInv, ReaderInv
  <2>8. \A p \in Queues : SleepInv(p)'
    BY <2>1, AtOneQueue DEF SleepInv, schedulerVars
  <2> QED
    BY <2>3, <2>5, <2>6, <2>7, <2>8 DEF Inv, QueueInv
<1> QED
  BY <1>1, <1>2 DEF OtherNext, CallWaitEmpty, WaitEmpty, Control, Wakeup

-----------------------------------------------------------------------------
(* The invariant is inductive.                                             *)

(* A new queue satisfies the invariant.                                    *)
LEMMA InitInv == Init => Inv
<1> SUFFICES ASSUME Init PROVE Inv
  OBVIOUS
<1>1. \A q \in Queues : Capacity[q] \in Nat \ {0}
  BY CapacityAssumption
<1>2. Outside \in Client /\ Outside.at = "outside" /\ << >> \in Seq(Values)
  BY DEF Outside, Client
<1>3. TypeOK
  BY <1>1, <1>2 DEF Init, SchedulerInit, TypeOK
<1>4. QueueInv
  BY <1>1, <1>2 DEF Init, SchedulerInit, QueueInv, RingInv, CommittedInv, WriterInv,
                    ReaderInv, SleepInv, Wrap
<1> QED
  BY <1>3, <1>4 DEF Inv

(* Every step preserves it: one lemma above per kind of step.              *)
LEMMA NextInv == Inv /\ [Next]_queueVars => Inv'
<1> SUFFICES ASSUME Inv, [Next]_queueVars PROVE Inv'
  OBVIOUS
<1>1. ASSUME NEW q \in Queues, WriterNext(q) PROVE Inv'
  BY <1>1, CallBeginWriteStep, BeginWriteStep, StoreStep, EndWriteStep DEF WriterNext
<1>2. ASSUME NEW q \in Queues, ReaderNext(q) PROVE Inv'
  BY <1>2, CallBeginReadStep, BeginReadStep, LoadStep, EndReadStep DEF ReaderNext
<1>3. ASSUME NEW q \in Queues, OtherNext(q) PROVE Inv'
  BY <1>3, OtherStep
<1>4. CASE UNCHANGED queueVars
  <2>1. \A p \in Queues : RingInv(p)' /\ CommittedInv(p)' /\ WriterInv(p)' /\ ReaderInv(p)'
    BY <1>4, RingKept, WriterKept, ReaderKept DEF queueVars, ringVars, writerVars, readerVars
  <2>2. \A p \in Queues : SleepInv(p)'
    BY <1>4, AtOneQueue DEF SleepInv, queueVars, writerVars, readerVars, schedulerVars
  <2>3. TypeOK'
    BY <1>4 DEF Inv, TypeOK, queueVars, ringVars, writerVars, readerVars, schedulerVars, Slots
  <2> QED
    BY <2>1, <2>2, <2>3 DEF Inv, QueueInv
<1> QED
  BY <1>1, <1>2, <1>3, <1>4 DEF Next

(* Every reachable state satisfies the inductive invariant; in particular  *)
(* the pointers of increment() stay in the buffer and m_size, which is     *)
(* unsigned, never wraps around.                                           *)
THEOREM TypeCorrect == Spec => []TypeOK
<1>1. Inv => TypeOK
  BY DEF Inv
<1> QED
  BY InitInv, NextInv, <1>1, PTL DEF Spec

(* The ring, its two grants and its sleepers agree in every reachable      *)
(* state: no call of the two clients, of a terminate() or of a clear()     *)
(* leaves m_first, m_last and m_size in disagreement with the slots.       *)
THEOREM InvariantHolds == Spec => []QueueInv
<1>1. Inv => QueueInv
  BY DEF Inv
<1> QED
  BY InitInv, NextInv, <1>1, PTL DEF Spec

-----------------------------------------------------------------------------
(* The memory begin_write lends and the memory begin_read lends never      *)
(* overlap, so the clients may work in it without the lock.                *)
THEOREM GrantsAreDisjoint == Spec => []GrantsDisjoint
<1>1. Inv => GrantsDisjoint
  <2> SUFFICES ASSUME Inv, NEW q \in Queues,
                      writer[q].at = "holding", reader[q].at = "holding",
                      NEW i \in GrantSlots(writer[q]), i \in GrantSlots(reader[q])
               PROVE  FALSE
    BY DEF GrantsDisjoint
  <2> DEFINE cap == Capacity[q]  first == m_first[q]  last == m_last[q]
             size == m_size[q]   w == writer[q].room  r == reader[q].room
  <2>1. /\ cap \in Nat /\ first \in Nat /\ last \in Nat /\ size \in Nat
        /\ w \in Nat /\ r \in Nat
    BY AtOneQueue DEF Client
  <2>2. /\ writer[q].buf = first /\ w <= cap - size
        /\ reader[q].buf = last /\ r <= size /\ last + r <= cap
    BY AtOneQueue DEF WriterInv, ReaderInv, available
  <2>3. i \in first .. first + w - 1 /\ i \in last .. last + r - 1
    BY <2>2 DEF GrantSlots
  <2>4. first = Wrap(cap, last + size)
    BY AtOneQueue DEF RingInv
  <2> HIDE DEF cap, first, last, size, w, r
  <2> QED
    BY <2>1, <2>2, <2>3, <2>4 DEF Wrap
<1> QED
  BY InitInv, NextInv, <1>1, PTL DEF Spec

-----------------------------------------------------------------------------
(* No wakeup is lost as long as nobody but the writer itself waits for the *)
(* queue to become empty.  Each condition variable then has one sleeper at *)
(* most, which the next signal wakes.                                      *)
LEMMA SignalEmpties ==
  ASSUME NEW t, NEW asleep, asleep \subseteq {t}, NEW left \in Signalled(asleep)
  PROVE  left = {}
BY DEF Signalled

(* trigger_ leaves nobody asleep in the condition variable it signals.     *)
LEMMA TriggerWakes ==
  ASSUME TypeOK, Drainers \subseteq {"writer"}, NEW q \in Queues
  PROVE  /\ trigger_not_full(q)  =>
              /\ m_condition_not_full'[q] = {}
              /\ \A p \in Queues : p # q => m_condition_not_full'[p] = m_condition_not_full[p]
         /\ trigger_not_empty(q) =>
              /\ m_condition_not_empty'[q] = {}
              /\ \A p \in Queues : p # q => m_condition_not_empty'[p] = m_condition_not_empty[p]
<1>1. m_condition_not_full[q] \subseteq {"writer"} /\ m_condition_not_empty[q] \subseteq {"reader"}
  BY DEF TypeOK
<1> QED
  BY <1>1, SignalEmpties DEF trigger_not_full, trigger_not_empty, TypeOK

(* interrupt_ and resume_ wake who sleeps on the flag they change.         *)
LEMMA ControlWakes ==
  ASSUME TypeOK, Drainers \subseteq {"writer"}, NEW q \in Queues, NEW flag \in BOOLEAN
  PROVE  /\ set_not_full(q, flag) =>
              /\ m_condition_not_full'[q] = {}
              /\ \A p \in Queues : p # q =>
                   /\ m_condition_not_full'[p] = m_condition_not_full[p]
                   /\ m_interrupted_not_full'[p] = m_interrupted_not_full[p]
              /\ UNCHANGED << m_condition_not_empty, m_interrupted_not_empty >>
         /\ set_not_empty(q, flag) =>
              /\ m_condition_not_empty'[q] = {}
              /\ \A p \in Queues : p # q =>
                   /\ m_condition_not_empty'[p] = m_condition_not_empty[p]
                   /\ m_interrupted_not_empty'[p] = m_interrupted_not_empty[p]
              /\ UNCHANGED << m_condition_not_full, m_interrupted_not_full >>
<1>1. m_condition_not_full[q] \subseteq {"writer"} /\ m_condition_not_empty[q] \subseteq {"reader"}
  BY DEF TypeOK
<1> QED
  BY <1>1, SignalEmpties DEF set_not_full, set_not_empty, TypeOK

(* The writer's half and the reader's half of NoLostWakeup, at one queue.  *)
WriterAwake(q) == "writer" \in m_condition_not_full[q]  => WriterMustWait(q)
ReaderAwake(q) == "reader" \in m_condition_not_empty[q] => ReaderMustWait(q)

(* NoLostWakeup is the two halves, for every queue.                        *)
LEMMA AwakeIsNoLostWakeup ==
  NoLostWakeup <=> \A q \in Queues : WriterAwake(q) /\ ReaderAwake(q)
BY DEF NoLostWakeup, WriterAwake, ReaderAwake

(* The writer's calls keep NoLostWakeup: end_write signals the reader.     *)
LEMMA WriterNextWakes ==
  ASSUME Inv, NoLostWakeup, Drainers \subseteq {"writer"}, NEW q \in Queues, WriterNext(q)
  PROVE  NoLostWakeup'
<1>1. \A p \in Queues : WriterAwake(p) /\ ReaderAwake(p)
  BY AwakeIsNoLostWakeup
<1>2. ASSUME NEW n \in Counts, CallBeginWrite(q, n)
      PROVE  \A p \in Queues : WriterAwake(p)' /\ ReaderAwake(p)'
  <2>1. "writer" \notin m_condition_not_full[q]
    BY <1>2, AtOneQueue DEF CallBeginWrite, SleepInv
  <2>2. /\ \A p \in Queues : p # q => writer'[p] = writer[p]
        /\ UNCHANGED << ringVars, readerVars, draining, schedulerVars >>
    BY <1>2 DEF CallBeginWrite, Inv, TypeOK
  <2> QED
    BY <1>1, <2>1, <2>2 DEF WriterAwake, ReaderAwake, WriterMustWait, ReaderMustWait,
                            available, empty, ringVars, readerVars, schedulerVars
<1>3. ASSUME BeginWrite(q)
      PROVE  \A p \in Queues : WriterAwake(p)' /\ ReaderAwake(p)'
  <2>1. /\ "writer" \notin m_condition_not_full[q] /\ "writer" \notin draining[q]
        /\ UNCHANGED << ringVars, readerVars, draining >>
    BY <1>3, AtOneQueue DEF BeginWrite, SleepInv
  <2>2. CASE UNCHANGED schedulerVars
    <3>1. \A p \in Queues : p # q => writer'[p] = writer[p]
      BY <1>3 DEF BeginWrite, BeginWriteReturns, BeginWriteWaits, Inv, TypeOK
    <3> QED
      BY <1>1, <2>1, <2>2, <3>1 DEF WriterAwake, ReaderAwake, WriterMustWait, ReaderMustWait,
                                    available, empty, ringVars, readerVars, schedulerVars
  <2>3. CASE /\ available(q) < writer[q].want /\ UNCHANGED writer
             /\ wait_until_not_full_sleeps(q, "writer")
    <3>1. /\ ~ m_interrupted_not_full[q]
          /\ UNCHANGED << m_condition_not_empty, m_interrupted_not_full, m_interrupted_not_empty >>
          /\ \A p \in Queues : p # q => m_condition_not_full'[p] = m_condition_not_full[p]
      BY <2>3 DEF wait_until_not_full_sleeps, Inv, TypeOK
    <3> QED
      BY <1>1, <2>1, <2>3, <3>1 DEF WriterAwake, ReaderAwake, WriterMustWait, ReaderMustWait,
                                    available, empty, ringVars, readerVars
  <2> QED
    BY <1>3, <2>2, <2>3 DEF BeginWrite, BeginWriteReturns, BeginWriteWaits,
                            wait_until_not_full_throws
<1>4. ASSUME NEW v \in Values, Store(q, v)
      PROVE  \A p \in Queues : WriterAwake(p)' /\ ReaderAwake(p)'
  BY <1>1, <1>4 DEF Store, WriterAwake, ReaderAwake, WriterMustWait, ReaderMustWait,
                    available, empty, readerVars, schedulerVars
<1>5. ASSUME NEW c \in 0 .. Capacity[q], EndWrite(q, c)
      PROVE  \A p \in Queues : WriterAwake(p)' /\ ReaderAwake(p)'
  <2>1. "writer" \notin m_condition_not_full[q]
    BY <1>5, AtOneQueue DEF EndWrite, SleepInv
  <2>2. /\ m_condition_not_empty'[q] = {}
        /\ \A p \in Queues : p # q => m_condition_not_empty'[p] = m_condition_not_empty[p]
        /\ UNCHANGED << m_condition_not_full, m_interrupted_not_full, m_interrupted_not_empty >>
    BY <1>5, TriggerWakes DEF EndWrite, trigger_not_empty, Inv
  <2>3. /\ \A p \in Queues : p # q => m_size'[p] = m_size[p] /\ writer'[p] = writer[p]
        /\ reader' = reader /\ draining' = draining
    BY <1>5 DEF EndWrite, readerVars, Inv, TypeOK
  <2> QED
    BY <1>1, <2>1, <2>2, <2>3 DEF WriterAwake, ReaderAwake, WriterMustWait, ReaderMustWait,
                                  available, empty
<1> QED
  BY <1>2, <1>3, <1>4, <1>5 DEF WriterNext, NoLostWakeup, WriterAwake, ReaderAwake

(* The reader's calls keep it: end_read signals the writer.                *)
LEMMA ReaderNextWakes ==
  ASSUME Inv, NoLostWakeup, Drainers \subseteq {"writer"}, NEW q \in Queues, ReaderNext(q)
  PROVE  NoLostWakeup'
<1>1. \A p \in Queues : WriterAwake(p) /\ ReaderAwake(p)
  BY AwakeIsNoLostWakeup
<1>2. ASSUME NEW n \in Counts, CallBeginRead(q, n)
      PROVE  \A p \in Queues : WriterAwake(p)' /\ ReaderAwake(p)'
  <2>1. "reader" \notin m_condition_not_empty[q]
    BY <1>2, AtOneQueue DEF CallBeginRead, SleepInv
  <2>2. /\ \A p \in Queues : p # q => reader'[p] = reader[p]
        /\ UNCHANGED << ringVars, writerVars, draining, schedulerVars >>
    BY <1>2 DEF CallBeginRead, Inv, TypeOK
  <2> QED
    BY <1>1, <2>1, <2>2 DEF WriterAwake, ReaderAwake, WriterMustWait, ReaderMustWait,
                            available, empty, ringVars, writerVars, schedulerVars
<1>3. ASSUME BeginRead(q)
      PROVE  \A p \in Queues : WriterAwake(p)' /\ ReaderAwake(p)'
  <2>1. /\ "reader" \notin m_condition_not_empty[q]
        /\ UNCHANGED << ringVars, writerVars, draining >>
    BY <1>3 DEF BeginRead
  <2>2. CASE UNCHANGED schedulerVars
    <3>1. \A p \in Queues : p # q => reader'[p] = reader[p]
      BY <1>3 DEF BeginRead, BeginReadReturns, BeginReadWaits, Inv, TypeOK
    <3> QED
      BY <1>1, <2>1, <2>2, <3>1 DEF WriterAwake, ReaderAwake, WriterMustWait, ReaderMustWait,
                                    available, empty, ringVars, writerVars, schedulerVars
  <2>3. CASE /\ m_size[q] < reader[q].want /\ UNCHANGED reader
             /\ wait_until_not_empty_sleeps(q, "reader")
    <3>1. /\ ~ m_interrupted_not_empty[q]
          /\ UNCHANGED << m_condition_not_full, m_interrupted_not_full, m_interrupted_not_empty >>
          /\ \A p \in Queues : p # q => m_condition_not_empty'[p] = m_condition_not_empty[p]
      BY <2>3 DEF wait_until_not_empty_sleeps, Inv, TypeOK
    <3> QED
      BY <1>1, <2>1, <2>3, <3>1 DEF WriterAwake, ReaderAwake, WriterMustWait, ReaderMustWait,
                                    available, empty, ringVars, writerVars
  <2> QED
    BY <1>3, <2>2, <2>3 DEF BeginRead, BeginReadReturns, BeginReadWaits,
                            wait_until_not_empty_throws
<1>4. ASSUME Load(q)
      PROVE  \A p \in Queues : WriterAwake(p)' /\ ReaderAwake(p)'
  BY <1>1, <1>4 DEF Load, WriterAwake, ReaderAwake, WriterMustWait, ReaderMustWait,
                    available, empty, ringVars, writerVars, schedulerVars
<1>5. ASSUME NEW c \in 0 .. Capacity[q], EndRead(q, c)
      PROVE  \A p \in Queues : WriterAwake(p)' /\ ReaderAwake(p)'
  <2>1. "reader" \notin m_condition_not_empty[q]
    BY <1>5, AtOneQueue DEF EndRead, SleepInv
  <2>2. /\ m_condition_not_full'[q] = {}
        /\ \A p \in Queues : p # q => m_condition_not_full'[p] = m_condition_not_full[p]
        /\ UNCHANGED << m_condition_not_empty, m_interrupted_not_full, m_interrupted_not_empty >>
    BY <1>5, TriggerWakes DEF EndRead, trigger_not_full, Inv
  <2>3. /\ \A p \in Queues : p # q => m_size'[p] = m_size[p] /\ reader'[p] = reader[p]
        /\ writer' = writer /\ draining' = draining
    BY <1>5 DEF EndRead, writerVars, Inv, TypeOK
  <2> QED
    BY <1>1, <2>1, <2>2, <2>3 DEF WriterAwake, ReaderAwake, WriterMustWait, ReaderMustWait,
                                  available, empty
<1> QED
  BY <1>2, <1>3, <1>4, <1>5 DEF ReaderNext, NoLostWakeup, WriterAwake, ReaderAwake

(* So do wait_empty, interrupt_, resume_ and clear, the latter because it  *)
(* is for a queue nobody is waiting in.                                    *)
LEMMA OtherNextWakes ==
  ASSUME Inv, NoLostWakeup, Drainers \subseteq {"writer"}, NEW q \in Queues, OtherNext(q)
  PROVE  NoLostWakeup'
<1>1. \A p \in Queues : WriterAwake(p) /\ ReaderAwake(p)
  BY AwakeIsNoLostWakeup
<1>2. ASSUME NEW t \in Drainers, CallWaitEmpty(q, t)
      PROVE  \A p \in Queues : WriterAwake(p)' /\ ReaderAwake(p)'
  <2>1. t = "writer" /\ "writer" \notin m_condition_not_full[q]
    BY <1>2, AtOneQueue DEF CallWaitEmpty, SleepInv
  <2>2. /\ \A p \in Queues : p # q => draining'[p] = draining[p]
        /\ UNCHANGED << ringVars, writerVars, readerVars, schedulerVars >>
    BY <1>2 DEF CallWaitEmpty, Inv, TypeOK
  <2> QED
    BY <1>1, <2>1, <2>2 DEF WriterAwake, ReaderAwake, WriterMustWait, ReaderMustWait,
                            available, empty, ringVars, writerVars, readerVars, schedulerVars
<1>3. ASSUME NEW t \in Drainers, WaitEmpty(q, t)
      PROVE  \A p \in Queues : WriterAwake(p)' /\ ReaderAwake(p)'
  <2>1. /\ t = "writer" /\ "writer" \in draining[q] /\ "writer" \notin m_condition_not_full[q]
        /\ UNCHANGED << ringVars, writerVars, readerVars >>
    BY <1>3 DEF WaitEmpty
  <2>2. CASE draining' = [draining EXCEPT ![q] = @ \ {t}] /\ UNCHANGED schedulerVars
    <3>1. \A p \in Queues : p # q => draining'[p] = draining[p]
      BY <2>2 DEF Inv, TypeOK
    <3> QED
      BY <1>1, <2>1, <2>2, <3>1 DEF WriterAwake, ReaderAwake, WriterMustWait, ReaderMustWait,
                            available, empty, ringVars, writerVars, readerVars, schedulerVars
  <2>3. CASE ~ empty(q) /\ wait_until_not_full_sleeps(q, t) /\ UNCHANGED draining
    <3>1. /\ ~ m_interrupted_not_full[q]
          /\ UNCHANGED << m_condition_not_empty, m_interrupted_not_full, m_interrupted_not_empty >>
          /\ \A p \in Queues : p # q => m_condition_not_full'[p] = m_condition_not_full[p]
      BY <2>3 DEF wait_until_not_full_sleeps, Inv, TypeOK
    <3> QED
      BY <1>1, <2>1, <2>3, <3>1 DEF WriterAwake, ReaderAwake, WriterMustWait, ReaderMustWait,
                            available, empty, ringVars, writerVars, readerVars
  <2> QED
    BY <1>3, <2>2, <2>3 DEF WaitEmpty
<1>4. ASSUME Control(q)
      PROVE  \A p \in Queues : WriterAwake(p)' /\ ReaderAwake(p)'
  <2>1. UNCHANGED << ringVars, writerVars, readerVars, draining >>
    BY <1>4 DEF Control
  <2>2. CASE \E flag \in BOOLEAN : set_not_full(q, flag)
    BY <1>1, <2>1, <2>2, ControlWakes DEF Inv, WriterAwake, ReaderAwake, WriterMustWait,
         ReaderMustWait, available, empty, ringVars, writerVars, readerVars
  <2>3. CASE \E flag \in BOOLEAN : set_not_empty(q, flag)
    BY <1>1, <2>1, <2>3, ControlWakes DEF Inv, WriterAwake, ReaderAwake, WriterMustWait,
         ReaderMustWait, available, empty, ringVars, writerVars, readerVars
  <2> QED
    BY <1>4, <2>2, <2>3 DEF Control, interrupt_not_empty, interrupt_not_full,
                            resume_not_empty, resume_not_full
<1>5. ASSUME Clear(q)
      PROVE  \A p \in Queues : WriterAwake(p)' /\ ReaderAwake(p)'
  <2>1. "writer" \notin m_condition_not_full[q] /\ "reader" \notin m_condition_not_empty[q]
    BY <1>5, AtOneQueue DEF Clear, SleepInv
  <2>2. /\ \A p \in Queues : p # q => m_size'[p] = m_size[p]
        /\ UNCHANGED << writer, reader, draining, schedulerVars >>
    BY <1>5 DEF Clear, writerVars, readerVars, Inv, TypeOK
  <2> QED
    BY <1>1, <2>1, <2>2 DEF WriterAwake, ReaderAwake, WriterMustWait, ReaderMustWait,
                            available, empty, schedulerVars
<1>6. ASSUME Wakeup(q)
      PROVE  \A p \in Queues : WriterAwake(p)' /\ ReaderAwake(p)'
  <2>1. /\ UNCHANGED << ringVars, writerVars, readerVars, draining >>
        /\ UNCHANGED << m_interrupted_not_full, m_interrupted_not_empty >>
    BY <1>6 DEF Wakeup, SpuriousWakeup
  <2>2. \A p \in Queues : /\ m_condition_not_full'[p]  \subseteq m_condition_not_full[p]
                          /\ m_condition_not_empty'[p] \subseteq m_condition_not_empty[p]
    <3>1. CASE /\ \E t \in m_condition_not_full[q] :
                    m_condition_not_full' = [m_condition_not_full EXCEPT ![q] = @ \ {t}]
               /\ UNCHANGED m_condition_not_empty
      BY <3>1 DEF Inv, TypeOK
    <3>2. CASE /\ \E t \in m_condition_not_empty[q] :
                    m_condition_not_empty' = [m_condition_not_empty EXCEPT ![q] = @ \ {t}]
               /\ UNCHANGED m_condition_not_full
      BY <3>2 DEF Inv, TypeOK
    <3> QED
      BY <1>6, <3>1, <3>2 DEF Wakeup, SpuriousWakeup
  <2> QED
    BY <1>1, <2>1, <2>2 DEF WriterAwake, ReaderAwake, WriterMustWait, ReaderMustWait,
                            available, empty, ringVars, writerVars, readerVars
<1> QED
  BY <1>2, <1>3, <1>4, <1>5, <1>6 DEF OtherNext, NoLostWakeup, WriterAwake, ReaderAwake

(* Every end_, interrupt_ and resume_ call wakes the client it concerns:   *)
(* nobody sleeps while its call could return or has been interrupted.      *)
THEOREM WakeupsAreNotLost ==
  ASSUME Drainers \subseteq {"writer"}
  PROVE  Spec => []NoLostWakeup
<1>1. Init => NoLostWakeup
  BY DEF Init, SchedulerInit, NoLostWakeup
<1>2. Inv /\ NoLostWakeup /\ [Next]_queueVars => NoLostWakeup'
  <2>1. ASSUME Inv, NoLostWakeup, Next PROVE NoLostWakeup'
    BY <2>1, WriterNextWakes, ReaderNextWakes, OtherNextWakes DEF Next
  <2>2. ASSUME NoLostWakeup, UNCHANGED queueVars PROVE NoLostWakeup'
    BY <2>2 DEF queueVars, ringVars, writerVars, readerVars, schedulerVars, NoLostWakeup,
                WriterMustWait, ReaderMustWait, available, empty
  <2> QED
    BY <2>1, <2>2
<1> QED
  BY InitInv, NextInv, <1>1, <1>2, PTL DEF Spec

-----------------------------------------------------------------------------
(***************************************************************************)
(* FixedMemoryQueue implements Channels: each step of a queue is a step of *)
(* the channel its ring represents, or changes nothing the channel's       *)
(* clients can see.                                                        *)
(***************************************************************************)
(* The channels the rings represent.                                       *)
Chan == [q \in Queues |-> Contents(q)]

-----------------------------------------------------------------------------
(* Sequences that have the same elements in the same places are equal.     *)
LEMMA SameElements ==
  ASSUME NEW S, NEW s \in Seq(S), NEW t \in Seq(S), Len(s) = Len(t),
         \A i \in 1 .. Len(s) : s[i] = t[i]
  PROVE  s = t
BY SeqEqual

(* The ring of a queue represents a sequence of elements, m_size long.      *)
LEMMA ContentsIsSeq ==
  ASSUME Inv, NEW q \in Queues
  PROVE  /\ Contents(q) \in Seq(Values) /\ Len(Contents(q)) = m_size[q]
         /\ \A i \in 1 .. m_size[q] : Contents(q)[i] = m_buff[q][SlotOf(q, i)]
<1>1. m_size[q] \in Nat /\ \A i \in 1 .. m_size[q] : m_buff[q][SlotOf(q, i)] \in Values
  BY AtOneQueue DEF CommittedInv
<1>2. Contents(q) \in [1 .. m_size[q] -> Values]
  BY <1>1 DEF Contents
<1>3. Contents(q) \in Seq(Values)
  BY <1>1, <1>2
<1>4. Len(Contents(q)) = m_size[q]
  BY <1>1, <1>2, <1>3
<1> QED
  BY <1>3, <1>4 DEF Contents

(* Steps that leave ring and slots alone leave the channel alone.          *)
LEMMA ChanKept ==
  ASSUME UNCHANGED ringVars
  PROVE  UNCHANGED Chan
BY DEF ringVars, Chan, Contents, SlotOf

(* A step that concerns one queue leaves the channel of the others alone.  *)
LEMMA OtherChannels ==
  ASSUME NEW q \in Queues, NEW s,
         \A p \in Queues : p # q => /\ m_buff'[p] = m_buff[p] /\ m_last'[p] = m_last[p]
                                    /\ m_size'[p] = m_size[p],
         Contents(q)' = s
  PROVE  Chan' = [Chan EXCEPT ![q] = s]
<1>1. ASSUME NEW p \in Queues, p # q PROVE Contents(p)' = Contents(p)
  BY <1>1 DEF Contents, SlotOf
<1> QED
  BY <1>1 DEF Chan

(* A client that stores into its grant prepares an element: the channel    *)
(* does not change, for the slot is not a committed one.                   *)
LEMMA StorePrepares ==
  ASSUME Inv, NEW q \in Queues, NEW v \in Values, Store(q, v)
  PROVE  Channel!Prepare(q, v)
<1> DEFINE cap == Capacity[q]  first == m_first[q]  last == m_last[q]
           size == m_size[q]   w == writer[q]       n == Len(staged[q])
<1>1. /\ cap \in Nat \ {0} /\ first \in Nat /\ last \in Nat /\ size \in Nat
      /\ first < cap /\ last < cap /\ size <= cap /\ n \in Nat
  BY AtOneQueue
<1>inv. /\ w \in Client /\ w.at = "holding" /\ RingInv(q) /\ WriterInv(q)
        /\ m_buff[q] \in [Slots(q) -> Values \cup {Junk}]
  BY AtOneQueue DEF Store
<1>2. w.room \in Nat /\ n < w.room
  BY <1>inv DEF Store, Client
<1>3. w.buf = first /\ w.buf + w.room <= cap /\ w.room <= cap - size
  BY <1>inv DEF WriterInv, available
<1>4. first + n < cap /\ size + n < cap
  BY <1>1, <1>2, <1>3
<1>5. /\ m_buff' = [m_buff EXCEPT ![q] = [m_buff[q] EXCEPT ![first + n] = v]]
      /\ staged' = [staged EXCEPT ![q] = Append(staged[q], v)]
      /\ UNCHANGED << m_last, m_size, seen >>
  BY <1>3 DEF Store, readerVars
<1>6. /\ \A i \in Slots(q) : i # first + n => m_buff'[q][i] = m_buff[q][i]
      /\ \A p \in Queues : p # q => m_buff'[p] = m_buff[p]
  BY <1>inv, <1>5 DEF Inv, TypeOK
<1>7. ASSUME NEW i \in 1 .. size
      PROVE  SlotOf(q, i) \in Slots(q) /\ SlotOf(q, i) # first + n
  <2>1. first = Wrap(cap, last + size) /\ i \in Nat /\ 1 <= i /\ i <= size
    BY <1>inv, <1>1 DEF RingInv
  <2>2. Wrap(cap, last + (i - 1)) # first + n
    <3> HIDE DEF cap, first, last, size, n
    <3> QED BY <1>1, <1>4, <2>1 DEF Wrap
  <2>3. Wrap(cap, last + (i - 1)) \in 0 .. cap - 1
    <3> HIDE DEF cap, last, size
    <3> QED BY <1>1, <2>1 DEF Wrap
  <2> QED
    BY <2>2, <2>3 DEF Slots, SlotOf
<1>8. Contents(q)' = Contents(q)
  BY <1>5, <1>6, <1>7 DEF Contents, SlotOf
<1>9. Chan' = Chan
  <2>1. ASSUME NEW p \in Queues PROVE Contents(p)' = Contents(p)
    BY <1>5, <1>6, <1>8 DEF Contents, SlotOf
  <2> QED
    BY <2>1 DEF Chan
<1>10. Len(Chan[q]) = size
  BY ContentsIsSeq DEF Chan
<1> QED
  BY <1>1, <1>4, <1>5, <1>9, <1>10 DEF Channel!Prepare, Chan

(* end_write commits the first c elements the writer prepared.             *)
LEMMA EndWriteCommits ==
  ASSUME Inv, NEW q \in Queues, NEW c \in 0 .. Capacity[q], EndWrite(q, c)
  PROVE  Channel!Commit(q, c)
<1> DEFINE cap == Capacity[q]  first == m_first[q]  last == m_last[q]
           size == m_size[q]   w == writer[q]       n == Len(staged[q])
           old == Contents(q)  new == old \o SubSeq(staged[q], 1, c)
<1>1. /\ cap \in Nat \ {0} /\ first \in Nat /\ last \in Nat /\ size \in Nat
      /\ first < cap /\ last < cap /\ size <= cap /\ c \in Nat /\ n \in Nat
  BY AtOneQueue
<1>inv. /\ w \in Client /\ staged[q] \in Seq(Values) /\ w.at = "holding"
        /\ RingInv(q) /\ WriterInv(q)
  BY AtOneQueue DEF EndWrite
<1>2. w.room \in Nat /\ w.buf \in Nat /\ c <= n
  BY <1>inv DEF EndWrite, Client
<1>3. /\ w.buf = first /\ w.buf + w.room <= cap /\ w.room <= cap - size
      /\ n <= w.room
  BY <1>inv DEF WriterInv, available
<1>data. \A i \in 1 .. n : m_buff[q][first + (i - 1)] = staged[q][i]
  BY <1>inv, <1>3 DEF WriterInv
<1>4. first + c <= cap /\ size + c <= cap
  BY <1>1, <1>2, <1>3
<1>6. /\ m_size' = [m_size EXCEPT ![q] = size + c]
      /\ staged' = [staged EXCEPT ![q] = SubSeq(staged[q], c + 1, Len(staged[q]))]
      /\ UNCHANGED << m_buff, m_last, seen >>
  BY DEF EndWrite, readerVars
<1>7. m_size'[q] = size + c /\ \A p \in Queues : p # q => m_size'[p] = m_size[p]
  BY <1>6 DEF Inv, TypeOK
<1>8. Inv'
  BY EndWriteStep
<1>9. /\ Contents(q)' \in Seq(Values) /\ Len(Contents(q)') = size + c
      /\ \A i \in 1 .. size + c : Contents(q)'[i] = m_buff[q][Wrap(cap, last + (i - 1))]
  <2>1. Contents(q)' = [i \in 1 .. size + c |-> m_buff[q][Wrap(cap, last + (i - 1))]]
    BY <1>6, <1>7 DEF Contents, SlotOf
  <2>2. \A i \in 1 .. size + c : m_buff[q][Wrap(cap, last + (i - 1))] \in Values
    <3>1. CommittedInv(q)'
      BY <1>8 DEF Inv, QueueInv
    <3> QED
      BY <1>6, <1>7, <3>1 DEF CommittedInv, SlotOf
  <2>3. Contents(q)' \in [1 .. size + c -> Values] /\ size + c \in Nat
    BY <2>1, <2>2, <1>1
  <2>4. Contents(q)' \in Seq(Values) /\ Len(Contents(q)') = size + c
    BY <2>3
  <2> QED
    BY <2>1, <2>4
<1>10. /\ old \in Seq(Values) /\ Len(old) = size
       /\ \A i \in 1 .. size : old[i] = m_buff[q][Wrap(cap, last + (i - 1))]
  BY ContentsIsSeq DEF SlotOf
<1>11. /\ SubSeq(staged[q], 1, c) \in Seq(Values) /\ Len(SubSeq(staged[q], 1, c)) = c
       /\ \A i \in 1 .. c : SubSeq(staged[q], 1, c)[i] = staged[q][i]
  BY <1>1, <1>2, <1>inv
<1>12. /\ new \in Seq(Values) /\ Len(new) = size + c
       /\ \A i \in 1 .. size : new[i] = old[i]
       /\ \A k \in 1 .. c : new[size + k] = staged[q][k]
  <2> DEFINE tail == SubSeq(staged[q], 1, c)
  <2>1. tail \in Seq(Values) /\ Len(tail) = c /\ \A i \in 1 .. c : tail[i] = staged[q][i]
    BY <1>11
  <2> HIDE DEF tail, old, size
  <2>2. /\ old \o tail \in Seq(Values) /\ Len(old \o tail) = size + c
        /\ \A i \in 1 .. size + c : (old \o tail)[i] = IF i <= size THEN old[i] ELSE tail[i - size]
    BY ZenonT(60), <2>1, <1>1, <1>10, ConcatProperties
  <2>3. \A i \in 1 .. size : (old \o tail)[i] = old[i]
    BY <2>2, <1>1
  <2>4. ASSUME NEW k \in 1 .. c PROVE (old \o tail)[size + k] = staged[q][k]
    <3>1. PICK j \in 1 .. size + c : j = size + k /\ ~ (j <= size) /\ j - size = k
      <4>1. size + k \in 1 .. size + c /\ ~ (size + k <= size) /\ size + k - size = k
        BY <1>1
      <4> QED BY <4>1, <1>1
    <3>2. (old \o tail)[j] = tail[k]
      BY <3>1, <2>2
    <3> QED BY <3>1, <3>2, <2>1
  <2> QED
    BY <2>2, <2>3, <2>4 DEF tail
<1>13. ASSUME NEW i \in 1 .. size + c PROVE Contents(q)'[i] = new[i]
  <2>1. CASE i <= size
    <3>1. i \in 1 .. size
      BY <2>1, <1>1
    <3> HIDE DEF new, old
    <3> QED BY <3>1, <1>9, <1>10, <1>12
  <2>2. CASE i > size
    <3>1. PICK k \in 1 .. c : i = size + k
      <4>1. i - size \in 1 .. c /\ i = size + (i - size)
        BY <2>2, <1>1
      <4> QED BY <4>1
    <3>2. Wrap(cap, last + (i - 1)) = first + (k - 1)
      <4>1. first = Wrap(cap, last + size)
        BY <1>inv DEF RingInv
      <4> HIDE DEF cap, first, last, size
      <4> QED BY <1>1, <1>4, <3>1, <4>1 DEF Wrap
    <3>3. m_buff[q][first + (k - 1)] = staged[q][k]
      BY <1>1, <1>2, <1>data
    <3> HIDE DEF new, old
    <3> QED BY <3>1, <3>2, <3>3, <1>9, <1>12
  <2> HIDE DEF new, size
  <2> QED
    BY <2>1, <2>2, <1>1
<1>14. Contents(q)' = new
  <2> HIDE DEF new
  <2> QED BY <1>9, <1>12, <1>13, SameElements
<1>15. Chan' = [Chan EXCEPT ![q] = new]
  <2> HIDE DEF new
  <2> QED BY <1>6, <1>7, <1>14, OtherChannels
<1> QED
  BY <1>2, <1>6, <1>15 DEF Channel!Commit, Chan

(* end_read takes the c oldest elements away.                              *)
LEMMA EndReadConsumes ==
  ASSUME Inv, NEW q \in Queues, NEW c \in 0 .. Capacity[q], EndRead(q, c)
  PROVE  Channel!Consume(q, c)
<1> DEFINE cap == Capacity[q]  last == m_last[q]  size == m_size[q]
           r == reader[q]      old == Contents(q)  new == SubSeq(old, c + 1, Len(old))
<1>1. /\ cap \in Nat \ {0} /\ last \in Nat /\ size \in Nat
      /\ last < cap /\ size <= cap /\ c \in Nat
  BY AtOneQueue
<1>inv. r \in Client /\ r.at = "holding" /\ ReaderInv(q)
  BY AtOneQueue DEF EndRead
<1>2. r.room \in Nat /\ c <= r.room
  BY <1>inv DEF EndRead, Client
<1>3. r.buf = last /\ r.buf + r.room <= cap /\ r.room <= size
  BY <1>inv DEF ReaderInv
<1>4. last + c <= cap /\ c <= size
  BY <1>1, <1>2, <1>3
<1>6. /\ m_size' = [m_size EXCEPT ![q] = size - c]
      /\ m_last' = [m_last EXCEPT ![q] = Increment(cap, last, c)]
      /\ seen' = [seen EXCEPT ![q] = SubSeq(seen[q], c + 1, Len(seen[q]))]
      /\ UNCHANGED << m_buff, staged >>
  BY DEF EndRead, writerVars
<1>7. /\ m_size'[q] = size - c /\ m_last'[q] = Increment(cap, last, c)
      /\ \A p \in Queues : p # q => m_size'[p] = m_size[p] /\ m_last'[p] = m_last[p]
  BY <1>6 DEF Inv, TypeOK
<1>8. /\ old \in Seq(Values) /\ Len(old) = size
      /\ \A i \in 1 .. size : old[i] = m_buff[q][Wrap(cap, last + (i - 1))]
  BY ContentsIsSeq DEF SlotOf
<1>9. /\ new \in Seq(Values) /\ Len(new) = size - c
      /\ \A i \in 1 .. size - c : new[i] = old[c + i]
  <2> HIDE DEF old, size
  <2> QED BY <1>1, <1>4, <1>8
<1>10. ASSUME NEW i \in 1 .. size - c
       PROVE  /\ c + i \in 1 .. size
              /\ Wrap(cap, Increment(cap, last, c) + (i - 1)) = Wrap(cap, last + (c + i - 1))
  <2> HIDE DEF cap, last, size
  <2>1. c + i \in 1 .. size
    BY <1>1, <1>4
  <2>2. Wrap(cap, Increment(cap, last, c) + (i - 1)) = Wrap(cap, last + (c + i - 1))
    BY <1>1, <1>4 DEF Increment, Wrap
  <2> QED
    BY <2>1, <2>2
<1>11. Contents(q)' = [i \in 1 .. size - c |->
                         m_buff[q][Wrap(cap, Increment(cap, last, c) + (i - 1))]]
  BY <1>6, <1>7 DEF Contents, SlotOf
<1>12. ASSUME NEW i \in 1 .. size - c
       PROVE  m_buff[q][Wrap(cap, Increment(cap, last, c) + (i - 1))] = new[i]
  <2>1. old[c + i] = m_buff[q][Wrap(cap, last + (c + i - 1))]
    BY <1>8, <1>10
  <2> HIDE DEF new, old
  <2> QED
    BY <2>1, <1>9, <1>10
<1>13. Contents(q)' = new
  <2> HIDE DEF new
  <2>1. new = [i \in 1 .. size - c |-> new[i]]
    BY <1>9
  <2> QED
    BY <2>1, <1>11, <1>12
<1>14. Chan' = [Chan EXCEPT ![q] = new]
  <2> HIDE DEF new
  <2> QED BY <1>6, <1>7, <1>13, OtherChannels
<1> QED
  BY <1>4, <1>6, <1>8, <1>14 DEF Channel!Consume, Chan

(* A reader finds in its grant what the channel holds, in order.           *)
LEMMA LoadLooks ==
  ASSUME Inv, NEW q \in Queues, Load(q)
  PROVE  Channel!Look(q)
<1> DEFINE cap == Capacity[q]  last == m_last[q]  size == m_size[q]
           r == reader[q]      n == Len(seen[q])
<1>1. /\ cap \in Nat \ {0} /\ last \in Nat /\ size \in Nat
      /\ last < cap /\ size <= cap /\ n \in Nat
  BY AtOneQueue
<1>inv. r \in Client /\ r.at = "holding" /\ ReaderInv(q)
  BY AtOneQueue DEF Load
<1>2. r.room \in Nat /\ n < r.room
  BY <1>inv DEF Load, Client
<1>3. r.buf = last /\ r.buf + r.room <= cap /\ r.room <= size
  BY <1>inv DEF ReaderInv
<1>4. last + n < cap /\ n < size
  BY <1>1, <1>2, <1>3
<1>5. /\ seen' = [seen EXCEPT ![q] = Append(seen[q], m_buff[q][last + n])]
      /\ UNCHANGED << ringVars, staged >>
  BY <1>3 DEF Load, writerVars
<1>6. Wrap(cap, last + (n + 1 - 1)) = last + n
  <2> HIDE DEF cap, last, n
  <2> QED BY <1>1, <1>4 DEF Wrap
<1>7. Len(Chan[q]) = size /\ Chan[q][n + 1] = m_buff[q][last + n]
  <2>1. n + 1 \in 1 .. size
    BY <1>1, <1>4
  <2>2. Contents(q)[n + 1] = m_buff[q][Wrap(cap, last + (n + 1 - 1))]
    BY <2>1, ContentsIsSeq DEF SlotOf
  <2> QED
    BY <2>2, <1>6, ContentsIsSeq DEF Chan
<1>8. UNCHANGED Chan
  BY <1>5, ChanKept
<1> QED
  BY <1>4, <1>5, <1>7, <1>8 DEF Channel!Look, Chan

(* A client that asks for memory again starts over.                        *)
LEMMA CallsRedo ==
  ASSUME NEW q \in Queues, NEW k,
         CallBeginWrite(q, k) \/ CallBeginRead(q, k)
  PROVE  Channel!Redo(q)
<1>1. UNCHANGED Chan
  BY ChanKept DEF CallBeginWrite, CallBeginRead
<1> QED
  BY <1>1 DEF CallBeginWrite, CallBeginRead, Channel!Redo, Chan, writerVars, readerVars

(* clear() empties the channel, and nobody has elements of it in hand.     *)
LEMMA ClearEmpties ==
  ASSUME Inv, NEW q \in Queues, Clear(q)
  PROVE  Channel!Empty(q)
<1>1. /\ m_last' = [m_last EXCEPT ![q] = 0] /\ m_size' = [m_size EXCEPT ![q] = 0]
      /\ UNCHANGED << m_buff, staged, seen >>
      /\ writer[q].at = "outside" /\ reader[q].at = "outside"
  BY DEF Clear, writerVars, readerVars
<1>2. staged[q] = << >> /\ seen[q] = << >>
  BY <1>1, AtOneQueue DEF WriterInv, ReaderInv
<1>3. /\ m_size'[q] = 0
      /\ \A p \in Queues : p # q => m_last'[p] = m_last[p] /\ m_size'[p] = m_size[p]
  BY <1>1 DEF Inv, TypeOK
<1>4. Contents(q)' = << >>
  BY <1>3 DEF Contents
<1>5. Chan' = [Chan EXCEPT ![q] = << >>]
  BY <1>1, <1>3, <1>4, OtherChannels
<1> QED
  BY <1>1, <1>2, <1>5 DEF Channel!Empty, Chan

-----------------------------------------------------------------------------
(* The remaining steps are those of the scheduler: the channel's clients   *)
(* do not see them.                                                        *)
LEMMA Stutters ==
  ASSUME NEW q \in Queues, UNCHANGED << ringVars, staged, seen >>
  PROVE  UNCHANGED Channel!chanVars
BY ChanKept DEF Channel!chanVars, Chan

(* An empty ring is an empty channel.                                      *)
LEMMA InitMaps == Init => Channel!Init
BY DEF Init, Channel!Init, Contents

(* Every step of a queue is a step of its channel, or none.                *)
LEMMA NextMaps == Inv /\ [Next]_queueVars => [Channel!Next]_(Channel!chanVars)
<1> SUFFICES ASSUME Inv, [Next]_queueVars
             PROVE  Channel!Next \/ UNCHANGED Channel!chanVars
  OBVIOUS
<1>1. ASSUME NEW q \in Queues, WriterNext(q)
      PROVE  Channel!Next \/ UNCHANGED Channel!chanVars
  <2>1. CASE \E k \in Counts : CallBeginWrite(q, k)
    BY <2>1, CallsRedo DEF Channel!Next
  <2>2. CASE BeginWrite(q)
    BY <2>2, Stutters DEF BeginWrite, readerVars
  <2>3. CASE \E v \in Values : Store(q, v)
    BY <2>3, StorePrepares DEF Channel!Next
  <2>4. CASE \E c \in 0 .. Capacity[q] : EndWrite(q, c)
    BY <2>4, EndWriteCommits DEF Channel!Next
  <2> QED
    BY <1>1, <2>1, <2>2, <2>3, <2>4 DEF WriterNext
<1>2. ASSUME NEW q \in Queues, ReaderNext(q)
      PROVE  Channel!Next \/ UNCHANGED Channel!chanVars
  <2>1. CASE \E k \in Counts : CallBeginRead(q, k)
    BY <2>1, CallsRedo DEF Channel!Next
  <2>2. CASE BeginRead(q)
    BY <2>2, Stutters DEF BeginRead, writerVars
  <2>3. CASE Load(q)
    BY <2>3, LoadLooks DEF Channel!Next
  <2>4. CASE \E c \in 0 .. Capacity[q] : EndRead(q, c)
    BY <2>4, EndReadConsumes DEF Channel!Next
  <2> QED
    BY <1>2, <2>1, <2>2, <2>3, <2>4 DEF ReaderNext
<1>3. ASSUME NEW q \in Queues, OtherNext(q)
      PROVE  Channel!Next \/ UNCHANGED Channel!chanVars
  <2>1. CASE Clear(q)
    BY <2>1, ClearEmpties DEF Channel!Next
  <2>2. CASE ~ Clear(q)
    <3>1. UNCHANGED << ringVars, staged, seen >>
      BY <1>3, <2>2 DEF OtherNext, CallWaitEmpty, WaitEmpty, Control, Wakeup,
                        writerVars, readerVars
    <3> QED
      BY <3>1, Stutters
  <2> QED
    BY <2>1, <2>2
<1>4. CASE UNCHANGED queueVars
  BY <1>4, ChanKept DEF queueVars, writerVars, readerVars, Channel!chanVars, Chan
<1> QED
  BY <1>1, <1>2, <1>3, <1>4 DEF Next

(* A queue is a Kahn channel: nothing is lost, duplicated, reordered or    *)
(* altered between end_write and end_read, and a reader only ever sees     *)
(* what was committed, although neither client holds the lock while it     *)
(* works in the ring.                                                      *)
THEOREM QueueImplementsChannels == Spec => ImplementsChannels
<1> QED
  BY InitInv, NextInv, InitMaps, NextMaps, PTL
     DEF Spec, ImplementsChannels, Channel!Spec
=============================================================================
