-------------------------- MODULE FileQueues_proofs --------------------------
(***************************************************************************)
(* Two facts of the file queues, for any number of threads that call       *)
(* interrupt() and any sizes: interrupt() and reset() of a                 *)
(* FilePollScheduler agree without a lock, and the bytes of a stream keep  *)
(* their order from the writer to the reader.                              *)
(***************************************************************************)
EXTENDS FileQueues, SequenceTheorems, TLAPS

-----------------------------------------------------------------------------
(* interrupt() and reset().                                                *)

(* What the flag, the bytes in the pipe and the threads in interrupt() say *)
(* about each other.  A byte that counts is not written while reset() is   *)
(* reading, and a reset() that counts has nobody in interrupt().           *)
PollInv ==
  /\ internal_bytes \in Nat
  /\ told = "interrupted" => internal_bytes > 0 /\ resetting # "draining"
  /\ told \in {"reset", "resetting"} => interrupting = {}
  /\ told = "resetting" /\ resetting = "drained" => internal_bytes = 0
  /\ told = "reset" => ~ m_interrupted /\ internal_bytes = 0

(* Nobody has interrupted yet.                                             *)
LEMMA InitPoll == Init => PollInv
BY DEF Init, SchedulerInit, PollInv

(* The steps of interrupt().                                               *)
LEMMA InterruptPolls ==
  ASSUME PollInv, NEW c \in Controllers, interrupt_sets_flag(c) \/ interrupt_writes(c)
  PROVE  PollInv'
<1>1. CASE interrupt_sets_flag(c)
  <2>1. told' \notin {"reset", "resetting"}
    BY <1>1 DEF interrupt_sets_flag
  <2>2. told' = "interrupted" => told = "interrupted"
    BY <1>1 DEF interrupt_sets_flag
  <2> QED
    BY <1>1, <2>1, <2>2 DEF interrupt_sets_flag, PollInv
<1>2. CASE interrupt_writes(c)
  <2>1. told' \notin {"reset", "resetting"} /\ internal_bytes' = internal_bytes + 1
    BY <1>2 DEF interrupt_writes
  <2>2. told' = "interrupted" => resetting' # "draining"
    BY <1>2 DEF interrupt_writes
  <2> QED
    BY <2>1, <2>2 DEF PollInv
<1> QED
  BY <1>1, <1>2

(* The steps of reset(): it ends with an empty pipe, unless an interrupt() *)
(* came in between, and then told is "unknown" or "interrupted".           *)
LEMMA ResetPolls ==
  ASSUME PollInv, reset_begins \/ reset_reads \/ reset_clears
  PROVE  PollInv'
<1>1. CASE reset_begins
  BY <1>1 DEF reset_begins, PollInv
<1>2. CASE reset_reads
  <2>1. DrainSize \in Nat /\ DrainSize > 0
    BY SchedulerAssumption
  <2>2. told # "interrupted" /\ internal_bytes' \in Nat
    BY <1>2, <2>1 DEF reset_reads, PollInv
  <2>3. resetting' = "drained" => internal_bytes' = 0
    BY <1>2 DEF reset_reads
  <2>4. internal_bytes = 0 => internal_bytes' = 0
    BY <1>2, <2>1 DEF reset_reads
  <2> QED
    BY <1>2, <2>2, <2>3, <2>4 DEF reset_reads, PollInv
<1>3. CASE reset_clears
  BY <1>3 DEF reset_clears, PollInv
<1> QED
  BY <1>1, <1>2, <1>3

(* Every step of the scheduler and of the queues keeps PollInv.            *)
LEMMA NextPoll == PollInv /\ [Next]_fileVars => PollInv'
<1> SUFFICES ASSUME PollInv, [Next]_fileVars PROVE PollInv'
  OBVIOUS
<1>1. CASE SchedulerNext
  BY <1>1, InterruptPolls, ResetPolls DEF SchedulerNext, ControlSteps
<1>2. CASE UNCHANGED pollVars
  BY <1>2 DEF pollVars, PollInv
<1>3. SchedulerNext \/ UNCHANGED pollVars
  <2>1. WriterSteps => UNCHANGED pollVars
    BY DEF WriterSteps, BeginWrite, EndWrite, PollWriteable
  <2>2. ReaderSteps => UNCHANGED pollVars
    BY DEF ReaderSteps, BeginRead, PollReadable
  <2>3. ASSUME NEW n, CallBeginWrite(n) \/ CallBeginRead(n) \/ CallEndWrite(n) \/ EndRead(n)
        PROVE  UNCHANGED pollVars
    BY <2>3 DEF CallBeginWrite, CallBeginRead, CallEndWrite, EndRead
  <2>4. CloseOutput \/ LeaveGrant => UNCHANGED pollVars
    BY DEF CloseOutput, LeaveGrant
  <2>5. UNCHANGED fileVars => UNCHANGED pollVars
    BY DEF fileVars
  <2> QED
    BY <2>1, <2>2, <2>3, <2>4, <2>5 DEF Next
<1> QED
  BY <1>1, <1>2, <1>3

(* An interrupt() that returned, and that no reset() overlapped, ends      *)
(* every poll() until the next reset(): its byte is in the pipe.           *)
THEOREM InterruptsStand == Spec => []StandingInterrupt
<1>1. PollInv => StandingInterrupt
  BY DEF PollInv, StandingInterrupt, poll_throws
<1> QED
  BY InitPoll, NextPoll, <1>1, PTL DEF Spec

(* A reset() that no interrupt() overlapped leaves neither the flag nor a  *)
(* byte behind, however many interrupts there were before.                 *)
THEOREM ResetsAreClean == Spec => []CleanReset
<1>1. PollInv => CleanReset
  BY DEF PollInv, CleanReset, wait_throws, poll_throws
<1> QED
  BY InitPoll, NextPoll, <1>1, PTL DEF Spec

-----------------------------------------------------------------------------
(* The stream.                                                             *)

(* Quotient and remainder are determined by what they make up.             *)
LEMMA Division ==
  ASSUME NEW e \in Nat \ {0}, NEW k \in Nat
  PROVE  k \div e \in Nat /\ k % e \in 0 .. e - 1 /\ k = e * (k \div e) + (k % e)
OBVIOUS

(* A byte of one element after whole ones.                                 *)
LEMMA Quotient ==
  ASSUME NEW e \in Nat \ {0}, NEW i \in Nat, NEW b \in 0 .. e - 1
  PROVE  (i * e + b) \div e = i /\ (i * e + b) % e = b
<1> DEFINE k == i * e + b  j == k \div e  r == k % e
<1>1. i * e \in Nat /\ k \in Nat
  OBVIOUS
<1>2. j \in Nat /\ r \in 0 .. e - 1 /\ k = e * j + r
  BY <1>1, Division
<1>3. i * e + b = e * j + r
  BY <1>2
<1> HIDE DEF j, r
<1>4. j = i
  <2>1. CASE j < i
    <3>1. i >= j + 1
      BY <1>2, <2>1
    <3>2. i * e >= (j + 1) * e
      BY <1>2, <3>1
    <3>3. (j + 1) * e = e * j + e
      BY <1>2
    <3> QED
      BY <1>1, <1>2, <1>3, <3>2, <3>3
  <2>2. CASE j > i
    <3>1. j >= i + 1
      BY <1>2, <2>2
    <3>2. e * j >= (i + 1) * e
      BY <1>2, <3>1
    <3>3. (i + 1) * e = i * e + e
      OBVIOUS
    <3> QED
      BY <1>1, <1>2, <1>3, <3>2, <3>3
  <2> QED
    BY <1>2, <2>1, <2>2
<1>5. r = b
  <2>1. e * j = i * e
    BY <1>2, <1>4
  <2> QED
    BY <1>1, <1>2, <1>3, <2>1
<1> QED
  BY <1>4, <1>5 DEF j, r

(* Multiples of e.                                                         *)
LEMMA Multiple ==
  ASSUME NEW e \in Nat \ {0}, NEW a \in Nat, NEW b \in Nat, a % e = 0, b % e = 0
  PROVE  (a + b) % e = 0 /\ (a \div e) * e = a
<1> DEFINE i == a \div e  j == b \div e
<1>1. i \in Nat /\ j \in Nat /\ a = e * i /\ b = e * j
  BY Division
<1> HIDE DEF i, j
<1>2. a + b = (i + j) * e + 0 /\ i * e = a
  BY <1>1
<1>3. ((i + j) * e + 0) % e = 0
  BY <1>1, Quotient
<1> QED
  BY <1>2, <1>3 DEF i

(* Elements of ElementSize bytes.                                          *)
Elements == Seq([1 .. ElementSize -> Nat])

(* Every byte of n elements is one of an element.                          *)
LEMMA ByteOfElement ==
  ASSUME NEW n \in Nat, NEW k \in 1 .. n * ElementSize
  PROVE  \E i \in 1 .. n : \E b \in 1 .. ElementSize : k = (i - 1) * ElementSize + b
<1> DEFINE e == ElementSize  j == (k - 1) \div e  r == (k - 1) % e
<1>1. e \in Nat \ {0} /\ k - 1 \in Nat /\ n * e \in Nat
  BY FileQueuesAssumption
<1> HIDE DEF e
<1>2. j \in Nat /\ r \in 0 .. e - 1 /\ k - 1 = e * j + r
  BY <1>1, Division
<1> HIDE DEF j, r
<1>3. j < n
  <2>1. ASSUME j >= n PROVE FALSE
    <3>1. e * j >= n * e
      BY <1>1, <1>2, <2>1
    <3>2. k <= n * e
      BY <1>1 DEF e
    <3> QED
      BY <1>1, <1>2, <3>1, <3>2
  <2> QED
    BY <1>2, <2>1
<1>4. j + 1 \in 1 .. n /\ r + 1 \in 1 .. e /\ k = ((j + 1) - 1) * e + (r + 1)
  <2>1. (j + 1) - 1 = j /\ j * e = e * j /\ e * j \in Nat
    BY <1>1, <1>2
  <2>2. k = e * j + r + 1
    BY <1>1, <1>2, <2>1
  <2> QED
    BY <1>1, <1>2, <1>3, <2>1, <2>2
<1> QED
  BY <1>4 DEF e

(* Where a byte of an element is among those of n elements.                *)
LEMMA PlaceOfByte ==
  ASSUME NEW n \in Nat, NEW i \in 1 .. n, NEW b \in 1 .. ElementSize
  PROVE  /\ (i - 1) * ElementSize + b \in 1 .. n * ElementSize
         /\ (i - 1) * ElementSize \in Nat /\ n * ElementSize \in Nat
         /\ (((i - 1) * ElementSize + b) - 1) \div ElementSize = i - 1
         /\ (((i - 1) * ElementSize + b) - 1) % ElementSize = b - 1
<1> DEFINE e == ElementSize
<1>1. e \in Nat \ {0} /\ i - 1 \in Nat /\ b - 1 \in 0 .. e - 1
  BY FileQueuesAssumption
<1> HIDE DEF e
<1>2. (i - 1) * e \in Nat /\ n * e \in Nat
  BY <1>1
<1>3. n * e >= i * e /\ i * e = (i - 1) * e + e
  BY <1>1
<1>4. (i - 1) * e + b \in 1 .. n * e /\ ((i - 1) * e + b) - 1 = (i - 1) * e + (b - 1)
  BY <1>1, <1>2, <1>3 DEF e
<1>5. /\ ((i - 1) * e + (b - 1)) \div e = i - 1
      /\ ((i - 1) * e + (b - 1)) % e = b - 1
  BY <1>1, Quotient
<1> QED
  BY <1>2, <1>4, <1>5 DEF e

(* What Bytes(s) holds at each place.                                      *)
LEMMA BytesAre ==
  ASSUME NEW s \in Elements
  PROVE  /\ Bytes(s) \in Seq(Nat) /\ Len(Bytes(s)) = Len(s) * ElementSize
         /\ Len(s) * ElementSize \in Nat
         /\ \A i \in 1 .. Len(s) : \A b \in 1 .. ElementSize :
              Bytes(s)[(i - 1) * ElementSize + b] = s[i][b]
<1> DEFINE e == ElementSize  n == Len(s)
<1>1. e \in Nat \ {0} /\ n \in Nat /\ n * e \in Nat
  BY FileQueuesAssumption DEF Elements
<1>2. ASSUME NEW i \in 1 .. n, NEW b \in 1 .. e
      PROVE  /\ Bytes(s)[(i - 1) * e + b] = s[i][b] /\ s[i][b] \in Nat
             /\ (i - 1) * e + b \in 1 .. n * e
  <2> DEFINE k == (i - 1) * e + b
  <2>1. k \in 1 .. n * e /\ (k - 1) \div e = i - 1 /\ (k - 1) % e = b - 1
    BY <1>1, PlaceOfByte
  <2>2. (i - 1) + 1 = i /\ (b - 1) + 1 = b
    BY <1>1
  <2>3. Bytes(s)[k] = s[((k - 1) \div e) + 1][((k - 1) % e) + 1]
    BY <2>1 DEF Bytes
  <2>4. s[i][b] \in Nat
    BY <1>1 DEF Elements
  <2> HIDE DEF k, e
  <2>5. Bytes(s)[k] = s[i][b]
    BY <2>1, <2>2, <2>3
  <2> QED
    BY <2>1, <2>4, <2>5 DEF k
<1>3. ASSUME NEW k \in 1 .. n * e PROVE Bytes(s)[k] \in Nat
  <2>1. \E i \in 1 .. n : \E b \in 1 .. e : k = (i - 1) * e + b
    BY <1>1, ByteOfElement
  <2> HIDE DEF e, n
  <2> QED
    BY <1>2, <2>1
<1>4. Bytes(s) = [k \in 1 .. n * e |-> Bytes(s)[k]]
  BY DEF Bytes
<1>5. Bytes(s) \in Seq(Nat) /\ Len(Bytes(s)) = n * e
  <2> HIDE DEF n, e
  <2> DEFINE f == Bytes(s)
  <2>1. f = [k \in 1 .. n * e |-> f[k]] /\ \A k \in 1 .. n * e : f[k] \in Nat
    BY <1>3, <1>4
  <2> HIDE DEF f
  <2>2. f \in [1 .. n * e -> Nat]
    BY <2>1
  <2>3. f \in Seq(Nat) /\ Len(f) = n * e
    BY <1>1, <2>2
  <2> QED
    BY <2>3 DEF f
<1> QED
  BY <1>1, <1>2, <1>5

(* The bytes of two sequences of elements, and of the elements that are    *)
(* consecutive in a buffer.                                                *)
LEMMA BytesOfMore ==
  ASSUME NEW s \in Elements, NEW t \in Elements
  PROVE  s \o t \in Elements /\ Bytes(s \o t) = Bytes(s) \o Bytes(t)
<1> DEFINE e == ElementSize  u == s \o t
<1>1. /\ e \in Nat \ {0} /\ Len(s) \in Nat /\ Len(t) \in Nat
      /\ u \in Elements /\ Len(u) = Len(s) + Len(t)
      /\ \A i \in 1 .. Len(s) : u[i] = s[i]
      /\ \A i \in 1 .. Len(t) : u[Len(s) + i] = t[i]
  BY FileQueuesAssumption, ConcatProperties DEF Elements
<1> DEFINE S == Bytes(s)  T == Bytes(t)  U == Bytes(u)
<1>2. /\ S \in Seq(Nat) /\ T \in Seq(Nat) /\ U \in Seq(Nat)
      /\ Len(S) = Len(s) * e /\ Len(T) = Len(t) * e /\ Len(U) = Len(u) * e
      /\ Len(s) * e \in Nat /\ Len(t) * e \in Nat /\ Len(u) * e \in Nat
      /\ \A i \in 1 .. Len(s) : \A b \in 1 .. e : S[(i - 1) * e + b] = s[i][b]
      /\ \A i \in 1 .. Len(t) : \A b \in 1 .. e : T[(i - 1) * e + b] = t[i][b]
      /\ \A i \in 1 .. Len(u) : \A b \in 1 .. e : U[(i - 1) * e + b] = u[i][b]
  BY <1>1, BytesAre
<1>3. Len(U) = Len(S) + Len(T)
  <2>1. (Len(s) + Len(t)) * e = Len(s) * e + Len(t) * e
    BY <1>1
  <2> QED
    BY <1>1, <1>2, <2>1
<1>4. ASSUME NEW i \in 1 .. Len(u), NEW b \in 1 .. e
      PROVE  U[(i - 1) * e + b] = (S \o T)[(i - 1) * e + b]
  <2> DEFINE k == (i - 1) * e + b
  <2>1. CASE i <= Len(s)
    <3>1. i \in 1 .. Len(s)
      BY <1>1, <2>1
    <3>2. k \in 1 .. Len(s) * e
      BY <1>1, <3>1, PlaceOfByte
    <3>3. U[k] = s[i][b] /\ S[k] = s[i][b]
      <4> HIDE DEF S, T, U, u
      <4>1. u[i] = s[i]
        BY <1>1, <3>1
      <4>2. S[k] = s[i][b]
        BY <1>2, <3>1
      <4>3. U[k] = u[i][b]
        BY <1>2
      <4> QED
        BY <4>1, <4>2, <4>3
    <3> HIDE DEF S, T, U, k
    <3>4. (S \o T)[k] = S[k]
      BY <1>2, <3>2, ConcatProperties
    <3> QED
      BY <3>3, <3>4 DEF k
  <2>2. CASE i > Len(s)
    <3> DEFINE j == i - Len(s)  l == (j - 1) * e + b
    <3>1. j \in 1 .. Len(t) /\ i = Len(s) + j
      BY <1>1, <2>2
    <3> HIDE DEF j
    <3>2. l \in 1 .. Len(t) * e /\ (j - 1) * e \in Nat
      BY <1>1, <3>1, PlaceOfByte
    <3>3. U[k] = t[j][b] /\ T[l] = t[j][b]
      <4> HIDE DEF S, T, U, u
      <4>1. u[i] = t[j]
        BY <1>1, <3>1
      <4>2. T[l] = t[j][b]
        BY <1>2, <3>1
      <4>3. U[k] = u[i][b]
        BY <1>2
      <4> QED
        BY <4>1, <4>2, <4>3
    <3>4. k = Len(s) * e + l
      <4>1. i - 1 = Len(s) + (j - 1) /\ j - 1 \in Nat
        BY <1>1, <3>1
      <4>2. (Len(s) + (j - 1)) * e = Len(s) * e + (j - 1) * e
        BY <1>1, <4>1
      <4>3. (i - 1) * e = Len(s) * e + (j - 1) * e
        BY <4>1, <4>2
      <4> DEFINE x == (i - 1) * e  y == Len(s) * e  z == (j - 1) * e
      <4>4. x = y + z /\ y \in Nat /\ z \in Nat /\ b \in Nat
        BY <1>1, <1>2, <3>2, <4>3
      <4> HIDE DEF x, y, z
      <4>5. x + b = y + (z + b)
        BY <4>4
      <4> QED
        BY <4>5 DEF x, y, z
    <3> HIDE DEF S, T, U, k, l
    <3>5. (S \o T)[k] = T[l]
      <4>1. S \in Seq(Nat) /\ T \in Seq(Nat) /\ l \in 1 .. Len(T) /\ k = Len(S) + l
        BY <1>2, <3>2, <3>4
      <4>2. Len(S) \in Nat /\ Len(T) \in Nat
        BY <4>1
      <4>3. k \in 1 .. Len(S) + Len(T) /\ ~ k <= Len(S) /\ k - Len(S) = l
        BY <4>1, <4>2
      <4> QED
        BY <4>1, <4>3, ConcatProperties
    <3> QED
      BY <3>3, <3>5 DEF k
  <2>3. i <= Len(s) \/ i > Len(s)
    BY <1>1
  <2> HIDE DEF S, T, U
  <2> QED
    BY <2>1, <2>2, <2>3
<1>5. ASSUME NEW k \in 1 .. Len(U) PROVE U[k] = (S \o T)[k]
  <2>1. \E i \in 1 .. Len(u) : \E b \in 1 .. e : k = (i - 1) * e + b
    <3>1. Len(u) \in Nat /\ k \in 1 .. Len(u) * e
      BY <1>1, <1>2
    <3> QED
      BY <3>1, ByteOfElement
  <2> HIDE DEF S, T, U, u, e
  <2> QED
    BY <1>4, <2>1
<1>6. S \o T \in Seq(Nat) /\ Len(S \o T) = Len(S) + Len(T)
  <2> HIDE DEF S, T
  <2> QED
    BY <1>2, ConcatProperties
<1>7. U = S \o T
  <2> HIDE DEF S, T, U
  <2> QED
    BY <1>2, <1>3, <1>5, <1>6, SeqEqual
<1> QED
  BY <1>1, <1>7

(* The elements begin_read returns are made of the bytes at the front of   *)
(* the buffer.                                                             *)
LEMMA BytesOfBuffer ==
  ASSUME NEW m \in Seq(Nat), NEW c \in Nat, c * ElementSize <= Len(m)
  PROVE  LET t == [i \in 1 .. c |-> SubSeq(m, (i - 1) * ElementSize + 1, i * ElementSize)] IN
         t \in Elements /\ Bytes(t) = SubSeq(m, 1, c * ElementSize)
<1> DEFINE e == ElementSize
           t == [i \in 1 .. c |-> SubSeq(m, (i - 1) * e + 1, i * e)]
<1>1. e \in Nat \ {0} /\ c * e \in Nat /\ Len(m) \in Nat
  BY FileQueuesAssumption
<1>2. ASSUME NEW i \in 1 .. c
      PROVE  /\ t[i] \in [1 .. e -> Nat]
             /\ \A b \in 1 .. e : t[i][b] = m[(i - 1) * e + b]
  <2> DEFINE from == (i - 1) * e + 1  upto == i * e
  <2>1. /\ from \in Nat /\ upto \in Nat /\ (i - 1) * e \in Nat /\ upto = (i - 1) * e + e
        /\ upto <= c * e
    BY <1>1
  <2>2. t[i] = SubSeq(m, from, upto)
    OBVIOUS
  <2>3. 1 <= from /\ from <= upto /\ upto - from + 1 = e /\ upto <= Len(m)
    BY <1>1, <2>1
  <2>4. from = (i - 1) * e + 1
    OBVIOUS
  <2> HIDE DEF from, upto, e, t
  <2>5. \A k \in from .. upto : m[k] \in Nat
    BY <1>1, <2>1, <2>3
  <2>6. /\ SubSeq(m, from, upto) \in Seq(Nat) /\ Len(SubSeq(m, from, upto)) = e
        /\ \A b \in 1 .. e : SubSeq(m, from, upto)[b] = m[from + b - 1]
    <3>1. from \in Int /\ upto \in Int
      BY <2>1
    <3>2. /\ SubSeq(m, from, upto) \in Seq(Nat)
          /\ Len(SubSeq(m, from, upto)) = IF from <= upto THEN upto - from + 1 ELSE 0
          /\ \A b \in 1 .. upto - from + 1 : SubSeq(m, from, upto)[b] = m[from + b - 1]
      BY <2>5, <3>1, SubSeqProperties
    <3> QED
      BY <2>3, <3>2
  <2>7. \A b \in 1 .. e : from + b - 1 = (i - 1) * e + b
    BY <1>1, <2>1, <2>4
  <2>8. t[i] \in [1 .. e -> Nat]
    BY <2>2, <2>6, LenProperties
  <2> QED
    BY <2>2, <2>6, <2>7, <2>8
<1>3. t \in Elements /\ Len(t) = c
  <2>1. t \in [1 .. c -> [1 .. e -> Nat]]
    BY <1>2
  <2> HIDE DEF t
  <2> QED
    BY <2>1 DEF Elements
<1> HIDE DEF t
<1>4. /\ Bytes(t) \in Seq(Nat) /\ Len(Bytes(t)) = c * e
      /\ \A i \in 1 .. c : \A b \in 1 .. e : Bytes(t)[(i - 1) * e + b] = t[i][b]
  BY <1>3, BytesAre
<1>5. /\ SubSeq(m, 1, c * e) \in Seq(Nat) /\ Len(SubSeq(m, 1, c * e)) = c * e
      /\ \A k \in 1 .. c * e : SubSeq(m, 1, c * e)[k] = m[k]
  <2> DEFINE n == c * e
  <2>1. n \in Nat /\ n <= Len(m)
    BY <1>1
  <2> HIDE DEF n
  <2>2. /\ SubSeq(m, 1, n) \in Seq(Nat) /\ Len(SubSeq(m, 1, n)) = n
        /\ \A k \in 1 .. n : SubSeq(m, 1, n)[k] = m[k]
    BY <2>1
  <2> QED
    BY <2>2 DEF n
<1>6. ASSUME NEW k \in 1 .. c * e PROVE Bytes(t)[k] = SubSeq(m, 1, c * e)[k]
  <2>1. \E i \in 1 .. c : \E b \in 1 .. e : k = (i - 1) * e + b
    BY ByteOfElement
  <2>2. PICK i \in 1 .. c : \E b \in 1 .. e : k = (i - 1) * e + b
    BY <2>1
  <2>3. PICK b \in 1 .. e : k = (i - 1) * e + b
    BY <2>2
  <2> HIDE DEF e
  <2>4. Bytes(t)[k] = m[k]
    BY <1>2, <1>4, <2>3
  <2> QED
    BY <1>5, <2>4
<1>7. Bytes(t) = SubSeq(m, 1, c * e)
  <2> DEFINE n == c * e
  <2>1. /\ Bytes(t) \in Seq(Nat) /\ Len(Bytes(t)) = n
        /\ SubSeq(m, 1, n) \in Seq(Nat) /\ Len(SubSeq(m, 1, n)) = n
        /\ \A k \in 1 .. n : Bytes(t)[k] = SubSeq(m, 1, n)[k]
    BY <1>4, <1>5, <1>6
  <2> DEFINE f == Bytes(t)  g == SubSeq(m, 1, n)
  <2> HIDE DEF n, f, g
  <2>2. f \in Seq(Nat) /\ g \in Seq(Nat) /\ Len(f) = Len(g) /\ \A k \in 1 .. Len(f) : f[k] = g[k]
    BY <2>1 DEF f, g
  <2>3. f = g
    BY <2>2, SeqEqual
  <2> QED
    BY <2>3 DEF f, g, n
<1> QED
  BY <1>3, <1>7 DEF t

(* Bytes on their way.                                                     *)
Stream == Seq(Nat)

(* What is ahead in the stream is smaller, and none is beyond w.           *)
Ordered(s, w) ==
  \A i \in 1 .. Len(s) : s[i] <= w /\ \A j \in 1 .. i - 1 : s[j] < s[i]

(* None is missing from the beginning of the stream.                       *)
Numbered(s) == \A i \in 1 .. Len(s) : s[i] = i

(* The pieces of a stream.                                                 *)
LEMMA SplitOff ==
  ASSUME NEW s \in Stream, NEW n \in Nat, NEW m \in Nat, n <= m, m <= Len(s)
  PROVE  /\ First(s, m) \in Stream /\ First(s, n) \in Stream /\ SubSeq(s, n + 1, m) \in Stream
         /\ Len(First(s, m)) = m /\ Len(SubSeq(s, n + 1, m)) = m - n
         /\ First(s, m) = First(s, n) \o SubSeq(s, n + 1, m)
         /\ First(s, Len(s)) = s /\ Len(s) \in Nat
<1>1. Len(s) \in Nat /\ \A i \in 1 .. Len(s) : s[i] \in Nat
  BY DEF Stream
<1>2. /\ SubSeq(s, 1, m) \in Stream /\ Len(SubSeq(s, 1, m)) = m
      /\ SubSeq(s, 1, n) \in Stream
      /\ SubSeq(s, n + 1, m) \in Stream /\ Len(SubSeq(s, n + 1, m)) = m - n
  BY <1>1 DEF Stream
<1>3. SubSeq(s, 1, n) \o SubSeq(s, n + 1, m) = SubSeq(s, 1, m)
  <2>1. 1 \in 1 .. Len(s) + 1 /\ n \in 1 - 1 .. Len(s) /\ m \in n .. Len(s)
    BY <1>1
  <2> QED
    BY <2>1, ConcatAdjacentSubSeq DEF Stream
<1>4. SubSeq(s, 1, Len(s)) = s
  BY SubSeqFull DEF Stream
<1> QED
  BY <1>1, <1>2, <1>3, <1>4 DEF First

(* A longer beginning is a shorter one and what comes after it.            *)
LEMMA Longer ==
  ASSUME NEW s \in Stream, NEW n \in Nat, NEW m \in Nat, n <= m, m <= Len(s)
  PROVE  First(s, m) = First(s, n) \o SubSeq(s, n + 1, m)
BY SplitOff

(* A beginning and the rest.                                               *)
LEMMA CutInTwo ==
  ASSUME NEW s \in Stream, NEW n \in Nat, n <= Len(s)
  PROVE  First(s, n) \in Stream /\ Rest(s, n) \in Stream /\ First(s, n) \o Rest(s, n) = s
<1> DEFINE m == Len(s)
<1>1. m \in Nat /\ n <= m /\ m <= Len(s)
  BY DEF Stream
<1> HIDE DEF m
<1>2. First(s, n) \in Stream /\ SubSeq(s, n + 1, m) \in Stream
  BY <1>1, SplitOff
<1>3. First(s, m) = First(s, n) \o SubSeq(s, n + 1, m)
  BY <1>1, Longer
<1>4. First(s, m) = s
  BY SubSeqFull DEF First, Stream, m
<1> QED
  BY <1>2, <1>3, <1>4 DEF Rest, m

(* Concatenation, in index form.                                           *)
LEMMA Joined ==
  ASSUME NEW a \in Stream, NEW b \in Stream
  PROVE  /\ a \o b \in Stream /\ Len(a) \in Nat /\ Len(b) \in Nat
         /\ Len(a \o b) = Len(a) + Len(b)
         /\ \A i \in 1 .. Len(a) : (a \o b)[i] = a[i]
         /\ \A i \in 1 .. Len(b) : (a \o b)[Len(a) + i] = b[i]
         /\ \A i \in 1 .. Len(a \o b) :
              i \in 1 .. Len(a) \/ \E k \in 1 .. Len(b) : i = Len(a) + k
<1>1. /\ a \o b \in Stream /\ Len(a) \in Nat /\ Len(b) \in Nat
      /\ Len(a \o b) = Len(a) + Len(b)
      /\ \A i \in 1 .. Len(a) : (a \o b)[i] = a[i]
      /\ \A i \in 1 .. Len(b) : (a \o b)[Len(a) + i] = b[i]
  BY DEF Stream
<1>2. ASSUME NEW i \in 1 .. Len(a \o b), ~ i \in 1 .. Len(a)
      PROVE  \E k \in 1 .. Len(b) : i = Len(a) + k
  <2>1. i \in 1 .. Len(a) + Len(b)
    BY <1>1
  <2>2. i - Len(a) \in 1 .. Len(b) /\ i = Len(a) + (i - Len(a))
    BY <1>1, <1>2, <2>1
  <2> QED
    BY <2>2
<1> QED
  BY <1>1, <1>2

(* A piece of the stream that goes leaves the order of the rest.           *)
LEMMA Dropped ==
  ASSUME NEW a \in Stream, NEW b \in Stream, NEW c \in Stream, NEW w \in Nat,
         Ordered((a \o b) \o c, w)
  PROVE  Ordered(a \o c, w)
<1> DEFINE x == a \o b  s == x \o c  t == a \o c
<1>1. /\ x \in Stream /\ Len(a) \in Nat /\ Len(b) \in Nat /\ Len(c) \in Nat
      /\ Len(x) = Len(a) + Len(b) /\ Len(x) \in Nat
      /\ \A i \in 1 .. Len(a) : x[i] = a[i]
  <2>1. x \in Stream /\ Len(x) = Len(a) + Len(b) /\ \A i \in 1 .. Len(a) : x[i] = a[i]
    BY Joined
  <2> HIDE DEF x
  <2> QED
    BY <2>1 DEF Stream
<1> HIDE DEF x
<1>2. /\ Len(s) = Len(x) + Len(c) /\ Len(t) = Len(a) + Len(c)
      /\ \A i \in 1 .. Len(x) : s[i] = x[i]
      /\ \A i \in 1 .. Len(c) : s[Len(x) + i] = c[i]
      /\ \A i \in 1 .. Len(a) : t[i] = a[i]
      /\ \A i \in 1 .. Len(c) : t[Len(a) + i] = c[i]
      /\ \A i \in 1 .. Len(t) : i \in 1 .. Len(a) \/ \E k \in 1 .. Len(c) : i = Len(a) + k
  BY <1>1, Joined
<1>3. Ordered(s, w)
  BY DEF x
<1> HIDE DEF s, t
<1> DEFINE here(i) == IF i <= Len(a) THEN i ELSE i + Len(b)
<1>4. \A i \in 1 .. Len(t) : here(i) \in 1 .. Len(s) /\ t[i] = s[here(i)]
  <2>1. ASSUME NEW i \in 1 .. Len(a) PROVE here(i) \in 1 .. Len(s) /\ t[i] = s[here(i)]
    BY <1>1, <1>2
  <2>2. ASSUME NEW i \in 1 .. Len(t), NEW k \in 1 .. Len(c), i = Len(a) + k
        PROVE  here(i) \in 1 .. Len(s) /\ t[i] = s[here(i)]
    <3>1. here(i) = Len(x) + k
      BY <1>1, <2>2
    <3>2. Len(x) + k \in 1 .. Len(s)
      BY <1>1, <1>2
    <3> HIDE DEF here
    <3> QED
      BY <1>2, <2>2, <3>1, <3>2
  <2> HIDE DEF here
  <2> QED
    BY <1>2, <2>1, <2>2
<1>5. \A i \in 1 .. Len(t) : \A j \in 1 .. i - 1 :
        j \in 1 .. Len(t) /\ here(j) \in 1 .. here(i) - 1
  <2> SUFFICES ASSUME NEW i \in 1 .. Len(t), NEW j \in 1 .. i - 1
               PROVE  j \in 1 .. Len(t) /\ here(j) \in 1 .. here(i) - 1
    OBVIOUS
  <2>1. Len(t) \in Nat /\ i \in Nat /\ j \in Nat /\ 1 <= j /\ j < i /\ i <= Len(t)
    BY <1>1, <1>2
  <2>2. CASE i <= Len(a)
    BY <1>1, <2>1, <2>2
  <2>3. CASE ~ i <= Len(a)
    BY <1>1, <2>1, <2>3
  <2> QED
    BY <2>2, <2>3
<1> HIDE DEF here
<1>6. Ordered(t, w)
  BY <1>3, <1>4, <1>5 DEF Ordered
<1> QED
  BY <1>6 DEF t

(* A beginning of a numbered stream is numbered.                           *)
LEMMA Cut ==
  ASSUME NEW a \in Stream, NEW c \in Stream, Numbered(a \o c)
  PROVE  Numbered(a)
<1>1. /\ Len(a) \in Nat /\ Len(c) \in Nat /\ Len(a \o c) = Len(a) + Len(c)
      /\ \A i \in 1 .. Len(a) : (a \o c)[i] = a[i]
  BY Joined
<1>2. \A i \in 1 .. Len(a) : i \in 1 .. Len(a \o c)
  BY <1>1
<1> QED
  BY <1>1, <1>2 DEF Numbered

(* The next bytes join the end of the stream.                              *)
LEMMA Joins ==
  ASSUME NEW s \in Stream, NEW w \in Nat, NEW n \in Nat
  PROVE  LET new == [i \in 1 .. n |-> w + i] IN
         /\ new \in Stream /\ Len(new) = n
         /\ Ordered(s, w) => Ordered(s \o new, w + n)
         /\ Numbered(s) /\ Len(s) = w => Numbered(s \o new) /\ Len(s \o new) = w + n
<1> DEFINE new == [i \in 1 .. n |-> w + i]  t == s \o new
<1>1. /\ new \in Stream /\ Len(new) = n /\ \A i \in 1 .. n : new[i] = w + i
  <2>1. new \in [1 .. n -> Nat] /\ \A i \in 1 .. n : new[i] = w + i
    OBVIOUS
  <2> HIDE DEF new
  <2> QED
    BY <2>1 DEF Stream
<1> HIDE DEF new
<1>2. /\ Len(s) \in Nat /\ Len(t) = Len(s) + n
      /\ \A i \in 1 .. Len(s) : t[i] = s[i]
      /\ \A i \in 1 .. n : t[Len(s) + i] = w + i
      /\ \A i \in 1 .. Len(t) : i \in 1 .. Len(s) \/ \E k \in 1 .. n : i = Len(s) + k
  BY <1>1, Joined
<1>3. \A i \in 1 .. Len(s) : s[i] \in Nat
  BY DEF Stream
<1> HIDE DEF t
<1>4. ASSUME Ordered(s, w) PROVE Ordered(t, w + n)
  <2>1. ASSUME NEW i \in 1 .. Len(s)
        PROVE  t[i] <= w + n /\ \A j \in 1 .. i - 1 : t[j] < t[i]
    <3>1. s[i] <= w /\ \A j \in 1 .. i - 1 : j \in 1 .. Len(s) /\ s[j] < s[i]
      BY <1>2, <1>4 DEF Ordered
    <3> QED
      BY <1>2, <1>3, <3>1
  <2>2. ASSUME NEW i \in 1 .. Len(t), NEW k \in 1 .. n, i = Len(s) + k
        PROVE  t[i] <= w + n /\ \A j \in 1 .. i - 1 : t[j] < t[i]
    <3>1. t[i] = w + k
      BY <1>2, <2>2
    <3>2. ASSUME NEW j \in 1 .. i - 1 PROVE t[j] < t[i]
      <4>1. CASE j \in 1 .. Len(s)
        <5>1. t[j] = s[j] /\ s[j] <= w /\ s[j] \in Nat
          BY <1>2, <1>3, <1>4, <4>1 DEF Ordered
        <5> QED
          BY <3>1, <5>1
      <4>2. CASE ~ j \in 1 .. Len(s)
        <5> DEFINE l == j - Len(s)
        <5>1. l \in 1 .. k - 1 /\ l \in 1 .. n /\ j = Len(s) + l
          BY <1>2, <2>2, <4>2
        <5> HIDE DEF l
        <5>2. t[j] = w + l
          BY <1>2, <5>1
        <5> QED
          BY <3>1, <5>1, <5>2
      <4> QED
        BY <4>1, <4>2
    <3> QED
      BY <3>1, <3>2
  <2> QED
    BY <1>2, <2>1, <2>2 DEF Ordered
<1>5. ASSUME Numbered(s), Len(s) = w PROVE Numbered(t) /\ Len(t) = w + n
  BY <1>2, <1>5 DEF Numbered
<1> QED
  BY <1>1, <1>4, <1>5 DEF t, new

(* Concatenation is associative.                                           *)
LEMMA ConcatAssoc ==
  ASSUME NEW x \in Stream, NEW y \in Stream, NEW z \in Stream
  PROVE  (x \o y) \o z = x \o (y \o z)
<1> DEFINE D == Nat
<1>1. x \in Seq(D) /\ y \in Seq(D) /\ z \in Seq(D)
  BY DEF Stream
<1> HIDE DEF D
<1> QED
  BY <1>1, ConcatAssociative

(* The reader is in begin_read.                                            *)
Reading == reader.at \in {"read", "read_poll"}

(* The types.                                                              *)
FileTypes ==
  /\ pipe \in Stream /\ pending \in Stream /\ m_buff \in Stream /\ taken \in Elements
  /\ m_carry \in Nat /\ m_size \in Nat /\ bytes_read \in Nat /\ written \in Nat
  /\ writer \in [at : {"outside", "begin", "begin_poll", "holding", "end", "end_poll"}, want : Nat]
  /\ reader \in [at : {"outside", "read", "read_poll", "holding"}, want : Nat]

(* m_size elements are in the memory of the FileInputQueue, and those that *)
(* end_read left there come first; begin_read reads behind these, also     *)
(* when m_size counts more because a grant was left.                       *)
BufferInv ==
  /\ m_carry <= m_size /\ m_size * ElementSize <= Len(m_buff)
  /\ reader.at = "holding" => reader.want <= m_size
  /\ Reading => Position <= Len(m_buff) /\ (reader.want = 0 => bytes_read = 0)

(* The memory that begin_write lends is free, and the output stays open.   *)
WriterInv ==
  /\ writer.at = "holding" => pending = << >>
  /\ closed => writer.at = "outside"

FilesInv == FileTypes /\ BufferInv /\ WriterInv

(* The numbers increase along the stream, up to what was committed.        *)
JourneyInv == "mixed" \notin thrown => Ordered(Journey, written * ElementSize)

(* The operating system moves whole elements: then none is missing, until  *)
(* an exception, a grant that was left or CloseOutput forgets the end of   *)
(* what was read or is pending.                                            *)
WholeInv ==
  /\ Granule = ElementSize /\ bytes_read % ElementSize = 0
  /\ thrown \cap {"reader", "grant"} = {} =>
       /\ Numbered(Journey)
       /\ ~ closed => Len(Journey) = written * ElementSize

(* The positions are numbers, those of the reader in their order.          *)
LEMMA FileNumbers ==
  ASSUME FilesInv
  PROVE  /\ ElementSize \in Nat \ {0} /\ Granule \in Nat \ {0}
         /\ m_carry * ElementSize \in Nat /\ m_size * ElementSize \in Nat
         /\ written * ElementSize \in Nat /\ Position \in Nat
         /\ m_carry * ElementSize <= m_size * ElementSize
         /\ m_carry * ElementSize <= Position
         /\ Position = m_carry * ElementSize + bytes_read
         /\ Len(m_buff) \in Nat /\ Len(pipe) \in Nat /\ Len(pending) \in Nat
<1>1. /\ ElementSize \in Nat \ {0} /\ Granule \in Nat \ {0} /\ m_carry \in Nat /\ m_size \in Nat
      /\ written \in Nat /\ bytes_read \in Nat /\ m_carry <= m_size
  BY FileQueuesAssumption DEF FilesInv, FileTypes, BufferInv
<1>2. /\ m_carry * ElementSize \in Nat /\ m_size * ElementSize \in Nat
      /\ written * ElementSize \in Nat /\ m_carry * ElementSize <= m_size * ElementSize
  BY <1>1
<1>3. Len(m_buff) \in Nat /\ Len(pipe) \in Nat /\ Len(pending) \in Nat
  BY DEF FilesInv, FileTypes, Stream
<1>4. Position = m_carry * ElementSize + bytes_read
  BY DEF Position
<1> QED
  BY <1>1, <1>2, <1>3, <1>4

(* The stream in four parts.                                               *)
PartsOfJourney ==
  /\ Bytes(taken) \in Stream /\ InBuffer \in Stream /\ pipe \in Stream /\ pending \in Stream
  /\ Journey = ((Bytes(taken) \o InBuffer) \o pipe) \o pending
  /\ InBuffer = IF Reading /\ bytes_read > 0 THEN First(m_buff, Position)
                                             ELSE First(m_buff, m_size * ElementSize)

(* The parts of the journey are streams.                                   *)
LEMMA JourneyParts == FilesInv => PartsOfJourney
<1> SUFFICES ASSUME FilesInv PROVE PartsOfJourney
  OBVIOUS
<1>1. /\ m_buff \in Stream /\ taken \in Elements /\ pipe \in Stream /\ pending \in Stream
      /\ m_size * ElementSize <= Len(m_buff) /\ (Reading => Position <= Len(m_buff))
  BY DEF FilesInv, FileTypes, BufferInv
<1>2. InBuffer = IF Reading /\ bytes_read > 0 THEN First(m_buff, Position)
                                              ELSE First(m_buff, m_size * ElementSize)
  BY DEF InBuffer, Reading
<1>3. ASSUME NEW n \in Nat, n <= Len(m_buff) PROVE First(m_buff, n) \in Stream
  BY <1>1, <1>3, SplitOff
<1>4. InBuffer \in Stream
  BY <1>1, <1>2, <1>3, FileNumbers
<1>5. Bytes(taken) \in Stream
  BY <1>1, BytesAre DEF Stream
<1>6. Journey = ((Bytes(taken) \o InBuffer) \o pipe) \o pending
  BY DEF Journey
<1> QED
  BY <1>1, <1>2, <1>4, <1>5, <1>6 DEF PartsOfJourney

(* The same after a step.                                                  *)
LEMMA JourneyPartsAfter == FilesInv' => PartsOfJourney'
BY JourneyParts, PTL

(* The whole stream is one.                                                *)
LEMMA JourneyTypes ==
  ASSUME FilesInv
  PROVE  Journey \in Stream
<1> DEFINE t == Bytes(taken)  a == t \o InBuffer  b == a \o pipe
<1>1. t \in Stream /\ InBuffer \in Stream /\ pipe \in Stream /\ pending \in Stream
      /\ Journey = b \o pending
  BY JourneyParts DEF PartsOfJourney
<1>2. a \in Stream
  BY <1>1, Joined
<1>3. b \in Stream
  <2> HIDE DEF a
  <2> QED
    BY <1>1, <1>2, Joined
<1> HIDE DEF b
<1> QED
  BY <1>1, <1>3, Joined

(* A step that leaves the stream as it is.                                 *)
LEMMA Stays ==
  ASSUME Journey' = Journey, written' = written, closed' = closed, thrown \subseteq thrown'
  PROVE  /\ JourneyInv => JourneyInv'
         /\ WholeInv /\ bytes_read' % ElementSize = 0 => WholeInv'
BY DEF JourneyInv, WholeInv

(* What one system call moves.                                             *)
LEMMA MovesAre ==
  ASSUME NEW n \in Nat, NEW room \in Int, NEW k \in Moves(n, room)
  PROVE  k \in Nat /\ k <= n /\ k % Granule = 0
<1>1. Granule \in Nat \ {0}
  BY FileQueuesAssumption
<1> DEFINE most == IF n < room THEN n ELSE room
<1>2. most \in Int /\ most <= n
  OBVIOUS
<1>3. k \in IF most = 0 THEN {0} ELSE {l \in 1 .. most : l % Granule = 0}
  BY DEF Moves
<1> HIDE DEF most
<1>4. CASE most = 0
  <2>1. k = 0 /\ 0 % Granule = 0
    BY <1>1, <1>3, <1>4
  <2> QED
    BY <2>1
<1>5. CASE most # 0
  <2>1. k \in 1 .. most /\ k % Granule = 0
    BY <1>3, <1>5
  <2> QED
    BY <1>2, <2>1
<1> QED
  BY <1>4, <1>5

(* Nothing has been written at the start.                                  *)
LEMMA StreamBegins == Init => FilesInv /\ JourneyInv /\ (Granule = ElementSize => WholeInv)
<1> SUFFICES ASSUME Init
             PROVE  FilesInv /\ JourneyInv /\ (Granule = ElementSize => WholeInv)
  OBVIOUS
<1>1. /\ pipe = << >> /\ closed = FALSE /\ pending = << >> /\ m_buff = << >> /\ taken = << >>
      /\ writer = [at |-> "outside", want |-> 0] /\ reader = [at |-> "outside", want |-> 0]
      /\ m_carry = 0 /\ m_size = 0 /\ bytes_read = 0 /\ written = 0 /\ thrown = {}
  BY DEF Init, Outside
<1>2. ElementSize \in Nat \ {0} /\ << >> \in Stream /\ << >> \in Elements /\ 0 * ElementSize = 0
  BY FileQueuesAssumption DEF Stream, Elements
<1>3. FilesInv
  <2>1. FileTypes
    BY <1>1, <1>2 DEF FileTypes
  <2>2. BufferInv
    BY <1>1, <1>2 DEF BufferInv, Reading
  <2>3. WriterInv
    BY <1>1 DEF WriterInv
  <2> QED
    BY <2>1, <2>2, <2>3 DEF FilesInv
<1>4. Journey = << >>
  <2>1. Len(Bytes(taken)) = 0 /\ Bytes(taken) \in Seq(Nat)
    BY <1>1, <1>2, BytesAre
  <2>2. Bytes(taken) = << >>
    BY <2>1
  <2>3. InBuffer = << >>
    <3>1. InBuffer = First(m_buff, m_size * ElementSize)
      BY <1>1, <1>3, JourneyParts DEF PartsOfJourney, Reading
    <3>2. InBuffer = SubSeq(<< >>, 1, 0)
      BY <1>1, <1>2, <3>1 DEF First
    <3>3. SubSeq(<< >>, 1, 0) = << >>
      BY SubSeqEmpty
    <3> QED
      BY <3>2, <3>3
  <2>4. Journey = ((<< >> \o << >>) \o << >>) \o << >>
    BY <1>1, <2>2, <2>3 DEF Journey
  <2>5. << >> \o << >> = << >>
    BY <1>2, ConcatEmptySeq DEF Stream
  <2> QED
    BY <2>4, <2>5
<1>5. Len(Journey) = 0
  BY <1>4
<1>6. JourneyInv
  BY <1>5 DEF JourneyInv, Ordered
<1>7. Granule = ElementSize => WholeInv
  BY <1>1, <1>2, <1>5 DEF WholeInv, Numbered
<1> QED
  BY <1>3, <1>6, <1>7

(* What one operation of the writer leaves alone.                          *)
ReaderSide == << taken, m_buff, m_carry, m_size, reader, bytes_read >>

(* The reader's part of the journey is left alone.                         *)
LEMMA InputKept ==
  ASSUME UNCHANGED ReaderSide
  PROVE  Bytes(taken)' = Bytes(taken) /\ InBuffer' = InBuffer /\ bytes_read' = bytes_read
BY DEF ReaderSide, Bytes, InBuffer, Position

(* A step of the writer keeps FilesInv if it keeps its own part.           *)
LEMMA WriterFiles ==
  ASSUME FilesInv, UNCHANGED ReaderSide, pipe' \in Stream, pending' \in Stream, written' \in Nat,
         writer' \in [at : {"outside", "begin", "begin_poll", "holding", "end", "end_poll"},
                      want : Nat],
         WriterInv'
  PROVE  FilesInv'
<1>1. FileTypes'
  BY DEF FilesInv, FileTypes, ReaderSide
<1>2. BufferInv'
  BY DEF FilesInv, BufferInv, ReaderSide, Reading, Position
<1> QED
  BY <1>1, <1>2 DEF FilesInv

(* write_buffer() moves bytes from what is pending into the pipe.          *)
LEMMA WriteBuffer ==
  ASSUME FilesInv, write_buffer, UNCHANGED ReaderSide
  PROVE  /\ pipe' \in Stream /\ pending' \in Stream /\ Journey' = Journey
         /\ pending = << >> => pending' = << >>
<1>1. PICK n \in Moves(Len(pending), PipeSize - Len(pipe)) :
        pipe' = pipe \o First(pending, n) /\ pending' = Rest(pending, n)
  BY DEF write_buffer
<1>2. PipeSize - Len(pipe) \in Int
  BY FileQueuesAssumption, FileNumbers
<1>3. n \in Nat /\ n <= Len(pending)
  BY <1>1, <1>2, FileNumbers, MovesAre
<1> DEFINE f == First(pending, n)  r == Rest(pending, n)
<1>4. f \in Stream /\ r \in Stream /\ f \o r = pending
  <2>1. pending \in Stream /\ Len(pending) \in Nat /\ Len(pending) <= Len(pending)
    BY FileNumbers DEF FilesInv, FileTypes
  <2> QED
    BY <1>3, <2>1, CutInTwo
<1>5. pipe' = pipe \o f /\ pending' = r
  BY <1>1
<1>6. pending = << >> => r = << >>
  <2>1. ASSUME pending = << >> PROVE SubSeq(pending, n + 1, Len(pending)) = << >>
    <3>1. Len(pending) = 0 /\ n + 1 \in Int /\ 0 < n + 1
      BY <1>3, <2>1
    <3> QED
      BY <3>1, SubSeqEmpty
  <2> QED
    BY <2>1 DEF Rest
<1> HIDE DEF f, r
<1>7. PartsOfJourney
  BY JourneyParts
<1> DEFINE t == Bytes(taken)  a == t \o InBuffer  p == pipe
<1>8. t \in Stream /\ InBuffer \in Stream /\ p \in Stream /\ Journey = (a \o p) \o pending
  BY <1>7 DEF PartsOfJourney
<1>9. pipe' \in Stream /\ pending' \in Stream
  BY <1>4, <1>5, <1>8, Joined
<1>10. Journey' = (a \o (p \o f)) \o r
  <2>1. Journey' = ((Bytes(taken)' \o InBuffer') \o pipe') \o pending'
    BY DEF Journey
  <2> QED
    BY <1>5, <2>1, InputKept
<1>11. a \in Stream
  BY <1>8, Joined
<1> HIDE DEF a, p
<1>12. (a \o (p \o f)) \o r = (a \o p) \o (f \o r)
  <2> DEFINE ap == a \o p
  <2>1. ap \in Stream
    BY <1>8, <1>11, Joined
  <2>2. a \o (p \o f) = ap \o f
    BY <1>4, <1>8, <1>11, ConcatAssoc
  <2> HIDE DEF ap
  <2>3. (ap \o f) \o r = ap \o (f \o r)
    BY <1>4, <2>1, ConcatAssoc
  <2> QED
    BY <2>2, <2>3 DEF ap
<1>13. Journey' = Journey
  BY <1>4, <1>8, <1>10, <1>12
<1> QED
  BY <1>5, <1>6, <1>9, <1>13

(* Every step keeps this.                                                  *)
StreamKept == FilesInv' /\ JourneyInv' /\ (WholeInv => WholeInv')

(* begin_write and end_write, as far as one attempt to write goes.         *)
LEMMA WriterStep ==
  ASSUME FilesInv, JourneyInv, BeginWrite \/ EndWrite
  PROVE  StreamKept
<1>1. /\ write_buffer /\ UNCHANGED ReaderSide /\ written' = written /\ closed' = closed
      /\ thrown \subseteq thrown' /\ writer.at \in {"begin", "end"}
  BY DEF BeginWrite, EndWrite, WaitWriteable, inputVars, ReaderSide
<1>2. /\ writer \in [at : {"outside", "begin", "begin_poll", "holding", "end", "end_poll"},
                     want : Nat]
      /\ written \in Nat /\ ~ closed
  BY <1>1 DEF FilesInv, FileTypes, WriterInv
<1>3. /\ writer' \in [at : {"outside", "begin", "begin_poll", "holding", "end", "end_poll"},
                      want : Nat]
      /\ writer'.at = "holding" => pending' = << >>
  <2>1. CASE BeginWrite
    BY <1>2, <2>1 DEF BeginWrite, WriterAt, WaitWriteable, Outside
  <2>2. CASE EndWrite
    BY <1>2, <2>2 DEF EndWrite, WriterAt, WaitWriteable, Outside
  <2> QED
    BY <2>1, <2>2
<1>4. FilesInv'
  BY <1>1, <1>2, <1>3, WriteBuffer, WriterFiles DEF WriterInv
<1> QED
  BY <1>1, <1>4, WriteBuffer, Stays DEF StreamKept, ReaderSide, WholeInv

(* Calls and waits of the writer, which move nothing.                      *)
LEMMA WriterWaits ==
  ASSUME FilesInv, JourneyInv, PollWriteable \/ \E n \in Counts : CallBeginWrite(n)
  PROVE  StreamKept
<1>1. /\ UNCHANGED << ReaderSide, pipe, pending, written, closed >>
      /\ thrown \subseteq thrown' /\ (~ closed \/ writer.at # "outside")
  BY DEF PollWriteable, CallBeginWrite, inputVars, ReaderSide, WriterAt, Outside
<1>2. /\ writer \in [at : {"outside", "begin", "begin_poll", "holding", "end", "end_poll"},
                     want : Nat]
      /\ written \in Nat /\ ~ closed /\ pipe \in Stream /\ pending \in Stream
  BY <1>1 DEF FilesInv, FileTypes, WriterInv
<1>3. /\ writer' \in [at : {"outside", "begin", "begin_poll", "holding", "end", "end_poll"},
                      want : Nat]
      /\ writer'.at # "holding"
  <2>1. CASE PollWriteable
    BY <1>2, <2>1 DEF PollWriteable, WriterAt, Outside
  <2>2. ASSUME NEW n \in Counts, CallBeginWrite(n)
        PROVE  /\ writer' \in [at : {"outside", "begin", "begin_poll", "holding", "end",
                                    "end_poll"}, want : Nat]
               /\ writer'.at # "holding"
    <3>1. n \in Nat
      BY FileQueuesAssumption
    <3> QED
      BY <2>2, <3>1 DEF CallBeginWrite
  <2> QED
    BY <2>1, <2>2
<1>4. FilesInv'
  BY <1>1, <1>2, <1>3, WriterFiles DEF WriterInv
<1>5. Journey' = Journey
  BY <1>1, InputKept DEF Journey
<1>6. written' = written /\ closed' = closed /\ bytes_read' = bytes_read
  BY <1>1 DEF ReaderSide
<1>7. JourneyInv' /\ (WholeInv /\ bytes_read' % ElementSize = 0 => WholeInv')
  BY <1>1, <1>5, <1>6, Stays
<1> QED
  BY <1>4, <1>6, <1>7 DEF StreamKept, WholeInv

(* end_write: the elements of the grant become the end of the stream.      *)
LEMMA EndWriteCall ==
  ASSUME FilesInv, JourneyInv, NEW c \in Nat, CallEndWrite(c)
  PROVE  StreamKept
<1> DEFINE w == written * ElementSize  n == c * ElementSize
           new == [i \in 1 .. n |-> w + i]
<1>1. /\ writer.at = "holding" /\ written' = written + c /\ pending' = new
      /\ UNCHANGED << ReaderSide, pipe, closed, thrown >>
      /\ writer' = [writer EXCEPT !.at = "end"]
  BY DEF CallEndWrite, inputVars, ReaderSide, WriterAt
<1>2. /\ w \in Nat /\ n \in Nat /\ (written + c) * ElementSize = w + n
      /\ written \in Nat /\ ElementSize \in Nat
  <2>1. written \in Nat /\ ElementSize \in Nat
    BY FileQueuesAssumption DEF FilesInv, FileTypes
  <2> QED
    BY <2>1
<1>3. pending = << >> /\ ~ closed /\ pipe \in Stream
  BY <1>1 DEF FilesInv, FileTypes, WriterInv
<1>4. Journey \in Stream
  BY JourneyTypes
<1> HIDE DEF w, n
<1>5. /\ new \in Stream /\ Len(new) = n
      /\ Ordered(Journey, w) => Ordered(Journey \o new, w + n)
      /\ Numbered(Journey) /\ Len(Journey) = w =>
           Numbered(Journey \o new) /\ Len(Journey \o new) = w + n
  <2>1. new \in Stream /\ Len(new) = n
    BY <1>2, <1>4, Joins
  <2>2. Ordered(Journey, w) => Ordered(Journey \o new, w + n)
    BY <1>2, <1>4, Joins
  <2>3. Numbered(Journey) /\ Len(Journey) = w =>
          Numbered(Journey \o new) /\ Len(Journey \o new) = w + n
    BY <1>2, <1>4, Joins
  <2> HIDE DEF new
  <2> QED
    BY <2>1, <2>2, <2>3
<1> HIDE DEF new
<1>6. Journey' = Journey \o new
  <2> DEFINE b == (Bytes(taken) \o InBuffer) \o pipe
  <2>1. Journey = b \o << >> /\ Journey' = b \o new
    BY <1>1, <1>3, InputKept DEF Journey
  <2>2. b \in Stream
    <3> DEFINE a == Bytes(taken) \o InBuffer
    <3>1. a \in Stream
      BY JourneyParts, Joined DEF PartsOfJourney
    <3> HIDE DEF a
    <3>2. a \o pipe \in Stream
      BY <1>3, <3>1, Joined
    <3> QED
      BY <3>2 DEF a
  <2> HIDE DEF b
  <2>3. b \o << >> = b
    BY <2>2, ConcatEmptySeq DEF Stream
  <2> QED
    BY <2>1, <2>3
<1>7. FilesInv'
  <2>1. writer' \in [at : {"outside", "begin", "begin_poll", "holding", "end", "end_poll"},
                     want : Nat] /\ writer'.at = "end"
    BY <1>1 DEF FilesInv, FileTypes
  <2>2. WriterInv' /\ written' \in Nat
    BY <1>1, <1>2, <1>3, <2>1 DEF WriterInv
  <2> QED
    BY <1>1, <1>3, <1>5, <2>1, <2>2, WriterFiles
<1>8. written' * ElementSize = w + n
  BY <1>1, <1>2
<1>9. JourneyInv'
  <2>1. thrown' = thrown /\ (JourneyInv => ("mixed" \notin thrown => Ordered(Journey, w)))
    BY <1>1 DEF JourneyInv, w
  <2>2. "mixed" \notin thrown => Ordered(Journey', written' * ElementSize)
    BY <1>5, <1>6, <1>8, <2>1
  <2> QED
    BY <2>1, <2>2 DEF JourneyInv
<1>10. WholeInv => WholeInv'
  BY <1>1, <1>3, <1>5, <1>6, <1>8 DEF WholeInv, ReaderSide, w
<1> QED
  BY <1>7, <1>9, <1>10 DEF StreamKept

(* What is pending goes with the output.                                   *)
LEMMA OutputCloses ==
  ASSUME FilesInv, JourneyInv, CloseOutput
  PROVE  StreamKept
<1>1. /\ writer.at = "outside" /\ closed' = TRUE /\ pending' = << >>
      /\ UNCHANGED << ReaderSide, pipe, writer, written >> /\ thrown \subseteq thrown'
  BY DEF CloseOutput, inputVars, ReaderSide
<1> DEFINE b == (Bytes(taken) \o InBuffer) \o pipe
<1>2. Journey = b \o pending /\ Journey' = b \o << >>
  BY <1>1, InputKept DEF Journey
<1>3. pipe \in Stream /\ pending \in Stream /\ << >> \in Stream
  BY EmptySeq DEF FilesInv, FileTypes, Stream
<1>4. b \in Stream
  <2> DEFINE a == Bytes(taken) \o InBuffer
  <2>1. a \in Stream
    BY JourneyParts, Joined DEF PartsOfJourney
  <2> HIDE DEF a
  <2>2. a \o pipe \in Stream
    BY <1>3, <2>1, Joined
  <2> QED
    BY <2>2 DEF a
<1> HIDE DEF b
<1>5. FilesInv'
  BY <1>1, <1>3, WriterFiles DEF FilesInv, FileTypes, WriterInv
<1>6. b \o << >> = b /\ Journey \o << >> = Journey
  BY <1>4, JourneyTypes, ConcatEmptySeq DEF Stream
<1>7. JourneyInv'
  <2> SUFFICES ASSUME "mixed" \notin thrown PROVE Ordered(Journey', written * ElementSize)
    BY <1>1 DEF JourneyInv
  <2>1. written * ElementSize \in Nat
    BY FileNumbers
  <2>2. Ordered((b \o pending) \o << >>, written * ElementSize)
    BY <1>2, <1>6 DEF JourneyInv
  <2>3. Ordered(b \o << >>, written * ElementSize)
    BY <1>3, <1>4, <2>1, <2>2, Dropped
  <2> QED
    BY <1>2, <2>3
<1>8. WholeInv => WholeInv'
  <2>1. Numbered(Journey) => Numbered(Journey')
    BY <1>2, <1>3, <1>4, <1>6, Cut
  <2> QED
    BY <1>1, <2>1 DEF WholeInv, ReaderSide
<1> QED
  BY <1>5, <1>7, <1>8 DEF StreamKept

(* What one operation of the reader leaves alone.                          *)
WriterSide == << pending, writer, written, closed >>

(* A step of the reader keeps FilesInv if it keeps its own part.           *)
LEMMA ReaderFiles ==
  ASSUME FilesInv, UNCHANGED WriterSide, pipe' \in Stream, m_buff' \in Stream,
         taken' \in Elements, m_carry' \in Nat, m_size' \in Nat, bytes_read' \in Nat,
         reader' \in [at : {"outside", "read", "read_poll", "holding"}, want : Nat],
         BufferInv'
  PROVE  FilesInv'
<1>1. FileTypes'
  BY DEF FilesInv, FileTypes, WriterSide
<1>2. WriterInv'
  BY DEF FilesInv, WriterInv, WriterSide
<1> QED
  BY <1>1, <1>2 DEF FilesInv

(* What was taken stays what it is.                                        *)
LEMMA BytesKept == taken' = taken => Bytes(taken)' = Bytes(taken)
BY DEF Bytes

(* A piece in the middle goes.                                             *)
LEMMA PieceDropped ==
  ASSUME NEW t \in Stream, NEW a \in Stream, NEW b \in Stream, NEW p \in Stream,
         NEW q \in Stream, NEW w \in Nat, Ordered(((t \o (a \o b)) \o p) \o q, w)
  PROVE  Ordered(((t \o a) \o p) \o q, w)
<1>0. (t \o a) \o b = t \o (a \o b)
  BY ConcatAssoc
<1> DEFINE x == t \o a  y == p \o q
<1>1. x \in Stream /\ y \in Stream
  BY Joined
<1>2. t \o (a \o b) = x \o b
  BY <1>0
<1> HIDE DEF x
<1> DEFINE z == x \o b
<1>5. z \in Stream
  BY <1>1, Joined
<1> HIDE DEF y, z
<1>6. (x \o p) \o q = x \o (p \o q)
  <2>1. x \in Stream
    BY <1>1
  <2> QED
    BY <2>1, ConcatAssoc
<1>7. (z \o p) \o q = z \o (p \o q)
  BY <1>5, ConcatAssoc
<1>3. Ordered((x \o b) \o y, w)
  BY <1>2, <1>7 DEF y, z
<1>4. Ordered(x \o y, w)
  BY <1>1, <1>3, Dropped
<1> QED
  BY <1>4, <1>6 DEF x, y

(* The end of what is in the buffer is forgotten.                          *)
LEMMA LosesTail ==
  ASSUME FilesInv, FilesInv', NEW a \in Stream, NEW b \in Stream,
         NEW p \in Stream, NEW q \in Stream,
         "mixed" \notin thrown =>
           Ordered(((Bytes(taken) \o (a \o b)) \o p) \o q, written * ElementSize),
         Journey' = ((Bytes(taken) \o a) \o p) \o q,
         UNCHANGED << written, closed >>, thrown \subseteq thrown',
         WholeInv =>
           /\ bytes_read' % ElementSize = 0
           /\ \/ "reader" \in thrown' \/ "grant" \in thrown'
              \/ b = << >> /\ Journey = ((Bytes(taken) \o (a \o b)) \o p) \o q
  PROVE  StreamKept
<1> DEFINE t == Bytes(taken)  w == written * ElementSize
<1>1. t \in Stream /\ w \in Nat
  BY JourneyParts, FileNumbers DEF PartsOfJourney
<1>2. "mixed" \notin thrown => Ordered(((t \o (a \o b)) \o p) \o q, w)
  OBVIOUS
<1> HIDE DEF t, w
<1>3. "mixed" \notin thrown => Ordered(((t \o a) \o p) \o q, w)
  BY <1>1, <1>2, PieceDropped
<1>6. JourneyInv'
  BY <1>3 DEF JourneyInv, t, w
<1>7. b = << >> /\ Journey = ((t \o (a \o b)) \o p) \o q => Journey' = Journey
  <2>1. a \o << >> = a
    BY ConcatEmptySeq DEF Stream
  <2> QED
    BY <2>1 DEF t
<1>8. WholeInv => WholeInv'
  <2> SUFFICES ASSUME WholeInv PROVE WholeInv'
    OBVIOUS
  <2>1. CASE "reader" \in thrown' \/ "grant" \in thrown'
    BY <2>1 DEF WholeInv
  <2>2. CASE b = << >> /\ Journey = ((t \o (a \o b)) \o p) \o q
    BY <1>7, <2>2, Stays
  <2> QED
    BY <2>1, <2>2 DEF t
<1> QED
  BY <1>6, <1>8 DEF StreamKept

(* begin_read reads behind what end_read left, and counts what it has read *)
(* from the first read() on.                                               *)
LEMMA ReadsBehind ==
  ASSUME FilesInv, JourneyInv, Reading
  PROVE  LET s == ((Bytes(taken) \o First(m_buff, Position)) \o pipe) \o pending IN
         /\ "mixed" \notin thrown => Ordered(s, written * ElementSize)
         /\ m_size = m_carry \/ bytes_read > 0 => Journey = s
<1> DEFINE t == Bytes(taken)  kept == m_size * ElementSize
           a == First(m_buff, Position)  s == ((t \o a) \o pipe) \o pending
<1>1. /\ t \in Stream /\ pipe \in Stream /\ pending \in Stream /\ bytes_read \in Nat
      /\ Journey = ((t \o InBuffer) \o pipe) \o pending
      /\ InBuffer = IF bytes_read > 0 THEN a ELSE First(m_buff, kept)
  BY JourneyParts DEF PartsOfJourney, FilesInv, FileTypes
<1>2. CASE bytes_read > 0
  BY <1>1, <1>2 DEF JourneyInv
<1>3. CASE ~ bytes_read > 0
  <2> DEFINE b == SubSeq(m_buff, Position + 1, kept)
  <2>1. /\ Position = m_carry * ElementSize /\ Position \in Nat /\ kept \in Nat
        /\ Position <= kept /\ kept <= Len(m_buff) /\ m_buff \in Stream
    BY <1>1, <1>3, FileNumbers DEF FilesInv, FileTypes, BufferInv
  <2>2. a \in Stream /\ b \in Stream /\ First(m_buff, kept) = a \o b
    <3> DEFINE h == Position
    <3>1. h \in Nat /\ h <= kept
      BY <2>1
    <3> HIDE DEF h, kept
    <3>2. First(m_buff, h) \in Stream /\ SubSeq(m_buff, h + 1, kept) \in Stream
      BY <2>1, <3>1, SplitOff
    <3>3. First(m_buff, kept) = First(m_buff, h) \o SubSeq(m_buff, h + 1, kept)
      BY <2>1, <3>1, Longer
    <3> QED
      BY <3>2, <3>3 DEF h
  <2>3. m_size = m_carry => First(m_buff, kept) = a
    BY <2>1
  <2>4. Journey = ((t \o First(m_buff, kept)) \o pipe) \o pending
    BY <1>1, <1>3
  <2>5. "mixed" \notin thrown => Ordered(((t \o (a \o b)) \o pipe) \o pending, written * ElementSize)
    BY <2>2, <2>4 DEF JourneyInv
  <2>6. written * ElementSize \in Nat
    BY FileNumbers
  <2> HIDE DEF t, a, b, kept
  <2>7. "mixed" \notin thrown => Ordered(((t \o a) \o pipe) \o pending, written * ElementSize)
    BY <1>1, <2>2, <2>5, <2>6, PieceDropped
  <2> QED
    BY <1>3, <2>3, <2>4, <2>7 DEF t, a
<1> QED
  BY <1>2, <1>3

(* begin_read is called: it lends what it has, or begins to read.          *)
LEMMA BeginReadCall ==
  ASSUME FilesInv, JourneyInv, NEW n \in Nat, CallBeginRead(n)
  PROVE  StreamKept
<1>1. /\ reader.at = "outside" /\ bytes_read' = 0
      /\ UNCHANGED << WriterSide, pipe, m_buff, m_carry, m_size, taken, thrown >>
      /\ \/ reader' = [at |-> "holding", want |-> m_carry]
         \/ reader' = [at |-> "read", want |-> n]
  BY DEF CallBeginRead, Lent, outputVars, WriterSide
<1>2. /\ m_carry <= m_size /\ m_size * ElementSize <= Len(m_buff)
      /\ m_carry \in Nat /\ m_size \in Nat
      /\ pipe \in Stream /\ m_buff \in Stream /\ taken \in Elements /\ pending \in Stream
  BY <1>1 DEF FilesInv, FileTypes, BufferInv
<1>3. /\ m_carry * ElementSize \in Nat /\ Position' = m_carry * ElementSize
      /\ m_carry * ElementSize <= m_size * ElementSize /\ m_size * ElementSize \in Nat
      /\ Len(m_buff) \in Nat
  BY <1>1, FileNumbers DEF Position
<1>4. FilesInv'
  <2>1. Position' <= Len(m_buff)
    BY <1>2, <1>3
  <2>2. BufferInv'
    BY <1>1, <1>2, <2>1 DEF BufferInv, Reading
  <2> QED
    BY <1>1, <1>2, <2>2, ReaderFiles
<1>5. InBuffer = First(m_buff, m_size * ElementSize)
  BY <1>1, JourneyParts DEF PartsOfJourney, Reading
<1>6. InBuffer' = First(m_buff, m_size * ElementSize)
  <2>1. PartsOfJourney'
    BY <1>4, JourneyPartsAfter
  <2> QED
    BY <1>1, <2>1 DEF PartsOfJourney, Reading
<1>7. Journey' = Journey
  BY <1>1, <1>5, <1>6, BytesKept DEF Journey, WriterSide
<1>8. WholeInv => bytes_read' % ElementSize = 0
  BY <1>1, FileNumbers
<1> QED
  BY <1>1, <1>4, <1>7, <1>8, Stays DEF StreamKept, WriterSide

(* An exception leaves begin_read.                                         *)
LEMMA ReaderThrows ==
  ASSUME FilesInv, JourneyInv, Reading, ReadThrows,
         UNCHANGED << WriterSide, m_carry, taken >>
  PROVE  StreamKept
<1>1. /\ reader' = [at |-> "outside", want |-> 0] /\ thrown \subseteq thrown'
      /\ bytes_read > 0 => "reader" \in thrown'
      /\ bytes_read > 0 /\ m_size # m_carry => "mixed" \in thrown'
      /\ UNCHANGED << m_buff, m_size, bytes_read, pipe >>
  BY DEF ReadThrows, Outside
<1>2. /\ m_carry <= m_size /\ Position <= Len(m_buff) /\ m_carry \in Nat /\ bytes_read \in Nat
      /\ m_size * ElementSize <= Len(m_buff) /\ m_size \in Nat
      /\ pipe \in Stream /\ m_buff \in Stream /\ taken \in Elements /\ pending \in Stream
  BY DEF FilesInv, FileTypes, BufferInv, Reading
<1>3. FilesInv'
  <2>1. BufferInv'
    BY <1>1, <1>2 DEF BufferInv, Reading
  <2> QED
    BY <1>1, <1>2, <2>1, ReaderFiles
<1> DEFINE kept == m_size * ElementSize
           a == First(m_buff, kept)  b == SubSeq(m_buff, kept + 1, Position)
<1>4. InBuffer' = a
  <2>1. PartsOfJourney'
    BY <1>3, JourneyPartsAfter
  <2> QED
    BY <1>1, <2>1 DEF PartsOfJourney, Reading
<1>5. UNCHANGED << written, closed, pending, taken >>
  BY DEF WriterSide
<1>6. CASE bytes_read = 0
  <2>1. InBuffer = a
    BY <1>6, JourneyParts DEF PartsOfJourney
  <2>2. Journey' = Journey
    BY <1>1, <1>4, <1>5, <2>1, BytesKept DEF Journey
  <2> QED
    BY <1>1, <1>3, <1>5, <2>2, Stays DEF StreamKept, WholeInv
<1>7. CASE bytes_read > 0 /\ m_size # m_carry
  BY <1>1, <1>2, <1>3, <1>7 DEF StreamKept, JourneyInv, WholeInv
<1>8. CASE bytes_read > 0 /\ m_size = m_carry
  <2>1. kept \in Nat /\ Position \in Nat /\ kept <= Position
    BY <1>2, <1>8, FileNumbers
  <2>2. Journey = ((Bytes(taken) \o First(m_buff, Position)) \o pipe) \o pending
    BY <1>8, ReadsBehind
  <2>3. a \in Stream /\ b \in Stream /\ First(m_buff, Position) = a \o b
    <3> DEFINE m == Position
    <3>1. m \in Nat /\ kept <= m /\ m <= Len(m_buff)
      BY <1>2, <2>1
    <3> HIDE DEF m, kept
    <3>2. First(m_buff, kept) \in Stream /\ SubSeq(m_buff, kept + 1, m) \in Stream
      BY <1>2, <2>1, <3>1, SplitOff
    <3>3. First(m_buff, m) = First(m_buff, kept) \o SubSeq(m_buff, kept + 1, m)
      BY <1>2, <2>1, <3>1, Longer
    <3> QED
      BY <3>2, <3>3 DEF m
  <2> HIDE DEF a, b, kept
  <2>4. /\ Journey = ((Bytes(taken) \o (a \o b)) \o pipe) \o pending
        /\ Journey' = ((Bytes(taken) \o a) \o pipe) \o pending
    BY <1>1, <1>4, <1>5, <2>2, <2>3, BytesKept DEF Journey
  <2>5. "mixed" \notin thrown =>
          Ordered(((Bytes(taken) \o (a \o b)) \o pipe) \o pending, written * ElementSize)
    BY <2>4 DEF JourneyInv
  <2>6. WholeInv => bytes_read' % ElementSize = 0 /\ "reader" \in thrown'
    BY <1>1, <1>8 DEF WholeInv
  <2> QED
    BY <1>1, <1>2, <1>3, <1>5, <2>3, <2>4, <2>5, <2>6, LosesTail
<1> QED
  BY <1>2, <1>6, <1>7, <1>8

(* The k whole elements among d bytes that come after c elements.          *)
LEMMA WholeElements ==
  ASSUME NEW e \in Nat, NEW c \in Nat, NEW k \in Nat, NEW r \in Nat
  PROVE  /\ (c + k) * e \in Nat /\ c * e \in Nat /\ e * k \in Nat
         /\ (c + k) * e = c * e + e * k
OBVIOUS

(* n bytes more come behind those that were read, over what was there.     *)
LEMMA MoreRead ==
  ASSUME FilesInv, Reading, NEW n \in Nat, n <= Len(pipe),
         m_buff' = (First(m_buff, Position) \o First(pipe, n)) \o Rest(m_buff, Position + n),
         pipe' = Rest(pipe, n)
  PROVE  /\ m_buff' \in Stream /\ pipe' \in Stream
         /\ Position + n <= Len(m_buff') /\ Len(m_buff) <= Len(m_buff')
         /\ First(m_buff', Position + n) \in Stream
         /\ ((Bytes(taken) \o First(m_buff, Position)) \o pipe) \o pending
              = ((Bytes(taken) \o First(m_buff', Position + n)) \o pipe') \o pending
<1> DEFINE t == Bytes(taken)  h == Position
           a == First(m_buff, h)  f == First(pipe, n)  r == Rest(pipe, n)
           g == Rest(m_buff, h + n)
<1>1. /\ h \in Nat /\ h <= Len(m_buff) /\ m_buff \in Stream /\ pipe \in Stream
      /\ Len(pipe) \in Nat /\ Len(m_buff) \in Nat
  BY FileNumbers DEF FilesInv, FileTypes, BufferInv, Reading
<1>2. m_buff' = (a \o f) \o g /\ pipe' = r
  OBVIOUS
<1>3. t \in Stream /\ pending \in Stream
  BY JourneyParts DEF PartsOfJourney
<1> HIDE DEF h
<1>4. a \in Stream /\ Len(a) = h
  <2>1. h <= h
    BY <1>1
  <2>2. First(m_buff, h) \in Stream /\ Len(First(m_buff, h)) = h
    BY <1>1, <2>1, SplitOff
  <2> QED
    BY <2>2
<1>5. f \in Stream /\ r \in Stream /\ Len(f) = n /\ f \o r = pipe
  <2>1. n <= n /\ Len(pipe) <= Len(pipe)
    BY <1>1
  <2>2. First(pipe, n) \in Stream /\ Len(First(pipe, n)) = n
    BY <1>1, <2>1, SplitOff
  <2>3. Rest(pipe, n) \in Stream /\ First(pipe, n) \o Rest(pipe, n) = pipe
    BY <1>1, CutInTwo
  <2> QED
    BY <2>2, <2>3
<1>6. /\ g \in Stream /\ Len(g) \in Nat /\ Len(m_buff) <= h + n + Len(g)
  <2> DEFINE l == Len(m_buff)  k == h + n
  <2>1. l \in Nat /\ k \in Nat /\ g = SubSeq(m_buff, k + 1, l) /\ m_buff \in Seq(Nat)
    BY <1>1 DEF Rest, Stream
  <2>2. \A i \in 1 .. l : m_buff[i] \in Nat
    BY <2>1
  <2> HIDE DEF l, k, g
  <2>3. CASE k < l
    <3>1. \A i \in k + 1 .. l : i \in 1 .. l
      BY <2>1
    <3>2. g \in Seq(Nat) /\ Len(g) = l - k
      BY <2>1, <2>2, <2>3, <3>1, SubSeqProperties
    <3> QED
      BY <2>1, <2>3, <3>2 DEF Stream, l, k
  <2>4. CASE ~ k < l
    <3>1. g = << >>
      BY <2>1, <2>4, SubSeqEmpty
    <3> QED
      BY <2>1, <2>4, <3>1 DEF Stream, l, k
  <2> QED
    BY <2>3, <2>4
<1> HIDE DEF a, f, r, g, t
<1> DEFINE af == a \o f
<1>7. af \in Stream /\ Len(af) = h + n
  BY <1>4, <1>5, Joined
<1> HIDE DEF af
<1> DEFINE m == af \o g
<1>8. m \in Stream /\ Len(m) = h + n + Len(g) /\ \A i \in 1 .. Len(af) : m[i] = af[i]
  BY <1>6, <1>7, Joined
<1>9. m_buff' = m
  BY <1>2 DEF af
<1> HIDE DEF m
<1>10. First(m, h + n) = af
  <2> DEFINE k == h + n
  <2>1. k \in Nat /\ k <= Len(m) /\ k = Len(af)
    BY <1>1, <1>6, <1>7, <1>8
  <2> HIDE DEF k
  <2>2. /\ SubSeq(m, 1, k) \in Stream /\ Len(SubSeq(m, 1, k)) = k
        /\ \A i \in 1 .. k : SubSeq(m, 1, k)[i] = m[i]
    BY <1>8, <2>1 DEF Stream
  <2> DEFINE s == SubSeq(m, 1, k)
  <2>3. s \in Seq(Nat) /\ af \in Seq(Nat) /\ Len(s) = Len(af) /\ \A i \in 1 .. Len(s) : s[i] = af[i]
    BY <1>7, <1>8, <2>1, <2>2 DEF Stream
  <2> HIDE DEF s
  <2>4. s = af
    BY <2>3, SeqEqual
  <2> QED
    BY <2>4 DEF First, s, k
<1>11. (t \o a) \o (f \o r) = (t \o af) \o r
  <2> DEFINE ta == t \o a
  <2>1. ta \in Stream
    BY <1>3, <1>4, Joined
  <2>2. ta \o f = t \o (a \o f)
    BY <1>3, <1>4, <1>5, ConcatAssoc
  <2> HIDE DEF ta
  <2>3. (ta \o f) \o r = ta \o (f \o r)
    BY <1>5, <2>1, ConcatAssoc
  <2> QED
    BY <2>2, <2>3 DEF ta, af
<1>12. ((t \o a) \o pipe) \o pending = ((t \o af) \o pipe') \o pending
  <2>1. pipe = f \o r /\ pipe' = r
    BY <1>2, <1>5
  <2> QED
    BY <1>11, <2>1
<1>13. Len(m_buff) <= Len(m) /\ h + n <= Len(m)
  BY <1>1, <1>6, <1>8
<1> QED
  BY <1>2, <1>5, <1>7, <1>8, <1>9, <1>10, <1>12, <1>13 DEF h, t, a

(* Where begin_read is after n bytes more.                                 *)
LEMMA PositionAfter ==
  ASSUME FilesInv, NEW n \in Nat, n > 0, n % Granule = 0,
         bytes_read' = bytes_read + n, m_carry' = m_carry
  PROVE  /\ Position' = Position + n /\ Position' \in Nat /\ bytes_read' \in Nat /\ bytes_read' > 0
         /\ Position' = m_carry * ElementSize + bytes_read'
         /\ WholeInv => bytes_read' % ElementSize = 0
<1>1. /\ m_carry * ElementSize \in Nat /\ Position = m_carry * ElementSize + bytes_read
      /\ ElementSize \in Nat \ {0} /\ Granule \in Nat \ {0} /\ bytes_read \in Nat
      /\ m_carry \in Nat
  BY FileNumbers DEF FilesInv, FileTypes
<1>2. Position' = m_carry * ElementSize + bytes_read'
  BY DEF Position
<1>3. Position' = Position + n /\ Position' \in Nat /\ bytes_read' \in Nat /\ bytes_read' > 0
  BY <1>1, <1>2
<1>4. WholeInv => bytes_read' % ElementSize = 0
  BY <1>1, Multiple DEF WholeInv
<1> QED
  BY <1>2, <1>3, <1>4

(* The pass of the loop that does not have enough.                         *)
LEMMA ReadsOn ==
  ASSUME FilesInv, JourneyInv, Reading, NEW n \in Nat, n > 0, n <= Len(pipe), n % Granule = 0,
         m_buff' = (First(m_buff, Position) \o First(pipe, n)) \o Rest(m_buff, Position + n),
         pipe' = Rest(pipe, n), bytes_read' = bytes_read + n,
         ~ bytes_read' >= (reader.want - m_carry) * ElementSize,
         ReadsOver, UNCHANGED << WriterSide, m_carry, taken, m_size, reader >>
  PROVE  StreamKept
<1> DEFINE a == First(m_buff', Position + n)
           s == ((Bytes(taken) \o First(m_buff, Position)) \o pipe) \o pending
<1>1. /\ m_buff' \in Stream /\ pipe' \in Stream /\ Position + n <= Len(m_buff')
      /\ Len(m_buff) <= Len(m_buff') /\ a \in Stream
      /\ s = ((Bytes(taken) \o a) \o pipe') \o pending
  BY MoreRead
<1>2. /\ m_carry \in Nat /\ m_size \in Nat /\ bytes_read \in Nat /\ taken \in Elements
      /\ reader \in [at : {"outside", "read", "read_poll", "holding"}, want : Nat]
      /\ pending \in Stream /\ m_carry <= m_size /\ m_size * ElementSize <= Len(m_buff)
  BY DEF FilesInv, FileTypes, BufferInv, Reading
<1>3. /\ m_carry * ElementSize \in Nat /\ ElementSize \in Nat \ {0}
      /\ m_size * ElementSize \in Nat /\ Len(m_buff) \in Nat
  BY FileNumbers
<1>4. /\ Position' = Position + n /\ bytes_read' \in Nat /\ bytes_read' > 0
      /\ WholeInv => bytes_read' % ElementSize = 0
  BY PositionAfter
<1>5. reader.want # 0
  <2>1. ASSUME reader.want = 0 PROVE FALSE
    <3>1. (0 - m_carry) * ElementSize = 0 - m_carry * ElementSize
      BY <1>2, <1>3
    <3>2. ~ bytes_read' >= 0 - m_carry * ElementSize
      BY <2>1, <3>1
    <3> QED
      BY <1>3, <1>4, <3>2
  <2> QED
    BY <2>1
<1>6. thrown \subseteq thrown' /\ (m_size # m_carry => "grant" \in thrown')
  BY DEF ReadsOver
<1>7. FilesInv'
  <2>1. Len(m_buff') \in Nat
    BY <1>1 DEF Stream
  <2>2. m_size' * ElementSize <= Len(m_buff') /\ Position' <= Len(m_buff')
    BY <1>1, <1>2, <1>3, <1>4, <2>1
  <2>3. BufferInv'
    BY <1>2, <1>5, <2>2 DEF BufferInv, Reading
  <2> QED
    BY <1>1, <1>2, <1>4, <2>3, ReaderFiles
<1>8. InBuffer' = a
  <2>1. PartsOfJourney'
    BY <1>7, JourneyPartsAfter
  <2> QED
    BY <1>4, <2>1 DEF PartsOfJourney, Reading
<1>9. "mixed" \notin thrown => Ordered(s, written * ElementSize)
  BY ReadsBehind
<1>10. m_size = m_carry => Journey = s
  BY ReadsBehind
<1> HIDE DEF a, s
<1>11. << >> \in Stream /\ a \o << >> = a
  BY <1>1, ConcatEmptySeq, EmptySeq DEF Stream
<1>12. /\ Journey' = ((Bytes(taken) \o a) \o pipe') \o pending
       /\ s = ((Bytes(taken) \o (a \o << >>)) \o pipe') \o pending
  BY <1>1, <1>8, <1>11, BytesKept DEF Journey, WriterSide
<1>13. WholeInv => /\ bytes_read' % ElementSize = 0
                   /\ "grant" \in thrown' \/ Journey = s
  BY <1>4, <1>6, <1>10
<1> QED
  BY <1>1, <1>2, <1>6, <1>7, <1>9, <1>11, <1>12, <1>13, LosesTail DEF WriterSide

(* The pass that has enough: a part of an element at the end is forgotten. *)
LEMMA ReadsEnough ==
  ASSUME FilesInv, JourneyInv, Reading, NEW n \in Nat, n > 0, n <= Len(pipe), n % Granule = 0,
         m_buff' = (First(m_buff, Position) \o First(pipe, n)) \o Rest(m_buff, Position + n),
         pipe' = Rest(pipe, n), bytes_read' = bytes_read + n,
         m_size' = m_carry + bytes_read' \div ElementSize,
         reader' = [at |-> "holding", want |-> m_size'],
         ReadsOver, UNCHANGED << WriterSide, m_carry, taken >>
  PROVE  StreamKept
<1> DEFINE len == Position + n  kept == m_size' * ElementSize  new == m_buff'
           a == First(new, kept)  b == SubSeq(new, kept + 1, len)
           s == ((Bytes(taken) \o First(m_buff, Position)) \o pipe) \o pending
<1>1. /\ new \in Stream /\ pipe' \in Stream /\ len <= Len(new)
      /\ s = ((Bytes(taken) \o First(new, len)) \o pipe') \o pending
  BY MoreRead
<1>2. /\ m_carry \in Nat /\ bytes_read \in Nat /\ taken \in Elements /\ pending \in Stream
  BY DEF FilesInv, FileTypes
<1>3. m_carry * ElementSize \in Nat /\ ElementSize \in Nat \ {0}
  BY FileNumbers
<1>4. /\ len = m_carry * ElementSize + bytes_read' /\ len \in Nat
      /\ bytes_read' \in Nat
      /\ WholeInv => bytes_read' % ElementSize = 0
  BY PositionAfter
<1>5. /\ m_size' \in Nat /\ m_carry <= m_size' /\ kept \in Nat
      /\ kept <= m_carry * ElementSize + bytes_read'
      /\ bytes_read' % ElementSize = 0 => kept = m_carry * ElementSize + bytes_read'
  <2> DEFINE e == ElementSize  c == m_carry  d == bytes_read'  quot == d \div e  r == d % e
  <2>1. e \in Nat \ {0} /\ c \in Nat /\ d \in Nat /\ m_size' = c + quot /\ kept = m_size' * e
    BY <1>2, <1>3, <1>4
  <2> HIDE DEF e, c, d, kept
  <2>2. quot \in Nat /\ r \in Nat /\ d = e * quot + r
    <3>1. r \in 0 .. e - 1
      BY <2>1, Division
    <3>2. r \in Nat
      BY <2>1, <3>1
    <3> QED
      BY <2>1, <3>2, Division
  <2> HIDE DEF quot, r
  <2>3. /\ (c + quot) * e \in Nat /\ c * e \in Nat /\ e * quot \in Nat
        /\ (c + quot) * e = c * e + e * quot
    BY <2>1, <2>2, WholeElements
  <2>4. kept = c * e + e * quot /\ kept \in Nat
    BY <2>1, <2>3
  <2>5. kept <= c * e + d /\ (r = 0 => kept = c * e + d) /\ c <= m_size' /\ m_size' \in Nat
    BY <2>1, <2>2, <2>3, <2>4
  <2> QED
    BY <2>4, <2>5 DEF e, c, d, r
<1>6. Len(new) \in Nat /\ kept <= len /\ kept <= Len(new)
  <2>1. Len(new) \in Nat
    BY <1>1 DEF Stream
  <2> HIDE DEF kept, len, new
  <2> QED
    BY <1>1, <1>4, <1>5, <2>1
<1>7. FilesInv'
  <2>1. BufferInv'
    BY <1>5, <1>6 DEF BufferInv, Reading
  <2> QED
    BY <1>1, <1>2, <1>4, <1>5, <2>1, ReaderFiles
<1>8. InBuffer' = a
  <2>1. PartsOfJourney'
    BY <1>7, JourneyPartsAfter
  <2> QED
    BY <2>1 DEF PartsOfJourney, Reading
<1>9. "mixed" \notin thrown => Ordered(s, written * ElementSize)
  BY ReadsBehind
<1>10. m_size = m_carry => Journey = s
  BY ReadsBehind
<1>11. a \in Stream /\ b \in Stream /\ First(new, len) = a \o b /\ Len(b) = len - kept
  <2>0. /\ new \in Stream /\ kept \in Nat /\ len \in Nat /\ kept <= len /\ len <= Len(new)
    BY <1>1, <1>4, <1>5, <1>6
  <2> HIDE DEF kept, len, new
  <2>1. First(new, kept) \in Stream /\ SubSeq(new, kept + 1, len) \in Stream
    BY <2>0, SplitOff
  <2>2. Len(SubSeq(new, kept + 1, len)) = len - kept
    BY <2>0, SplitOff
  <2>3. First(new, len) = First(new, kept) \o SubSeq(new, kept + 1, len)
    BY <2>0, Longer
  <2> QED
    BY <2>1, <2>2, <2>3
<1> HIDE DEF a, b, s
<1>12. WholeInv => bytes_read' % ElementSize = 0 /\ b = << >>
  <2> SUFFICES ASSUME WholeInv PROVE bytes_read' % ElementSize = 0 /\ b = << >>
    OBVIOUS
  <2>1. bytes_read' % ElementSize = 0
    BY <1>4
  <2>2. len = kept
    BY <1>4, <1>5, <2>1
  <2> HIDE DEF kept, len
  <2>3. Len(b) = 0
    BY <1>4, <1>11, <2>2
  <2> QED
    BY <1>11, <2>1, <2>3, EmptySeq DEF Stream
<1>13. /\ Journey' = ((Bytes(taken) \o a) \o pipe') \o pending
       /\ s = ((Bytes(taken) \o (a \o b)) \o pipe') \o pending
  BY <1>1, <1>8, <1>11, BytesKept DEF Journey, WriterSide
<1>14. thrown \subseteq thrown' /\ (m_size # m_carry => "grant" \in thrown')
  BY DEF ReadsOver
<1>15. WholeInv => /\ bytes_read' % ElementSize = 0
                   /\ "grant" \in thrown' \/ (b = << >> /\ Journey = s)
  BY <1>10, <1>12, <1>14
<1> QED
  BY <1>1, <1>2, <1>7, <1>9, <1>11, <1>13, <1>14, <1>15, LosesTail DEF WriterSide

(* One read() that returns bytes.                                          *)
LEMMA ReadSomeStep ==
  ASSUME FilesInv, JourneyInv, Reading, ReadSome, UNCHANGED << WriterSide, m_carry, taken >>
  PROVE  StreamKept
<1>1. PICK n \in Moves(Len(pipe), InCapacity * ElementSize - Position) \ {0} :
        /\ m_buff' = (First(m_buff, Position) \o First(pipe, n)) \o Rest(m_buff, Position + n)
        /\ pipe' = Rest(pipe, n) /\ bytes_read' = bytes_read + n
  BY DEF ReadSome
<1>2. InCapacity * ElementSize - Position \in Int /\ Len(pipe) \in Nat
  <2>1. InCapacity \in Nat
    BY FileQueuesAssumption
  <2> QED
    BY <2>1, FileNumbers
<1>3. n \in Nat /\ n > 0 /\ n <= Len(pipe) /\ n % Granule = 0
  BY <1>1, <1>2, MovesAre
<1>4. CASE bytes_read' >= (reader.want - m_carry) * ElementSize
  BY <1>1, <1>3, <1>4, ReadsEnough DEF ReadSome, Lent
<1>5. CASE ~ bytes_read' >= (reader.want - m_carry) * ElementSize
  BY <1>1, <1>3, <1>5, ReadsOn DEF ReadSome
<1> QED
  BY <1>4, <1>5

(* A step of the reader that leaves the buffer and the pipe as they are.   *)
LEMMA ReaderWaits ==
  ASSUME FilesInv, JourneyInv, Reading,
         UNCHANGED << WriterSide, m_carry, taken, m_buff, m_size, pipe, bytes_read, thrown >>,
         reader' \in [at : {"read", "read_poll"}, want : Nat], reader'.want = reader.want
  PROVE  StreamKept
<1>1. /\ m_carry \in Nat /\ m_size \in Nat /\ bytes_read \in Nat
      /\ pipe \in Stream /\ m_buff \in Stream /\ taken \in Elements
  BY DEF FilesInv, FileTypes
<1>2. Position' = Position /\ BufferInv
  BY DEF Position, FilesInv
<1>3. FilesInv'
  <2>1. BufferInv'
    BY <1>2 DEF BufferInv, Reading
  <2> QED
    BY <1>1, <2>1, ReaderFiles
<1>4. InBuffer' = InBuffer
  BY <1>2 DEF InBuffer, Reading
<1>5. Journey' = Journey
  BY <1>4, BytesKept DEF Journey, WriterSide
<1> QED
  BY <1>3, <1>5, Stays DEF StreamKept, WriterSide, WholeInv

(* A begin_read(0) that finds nothing lends what end_read left.            *)
LEMMA ReturnsWhatItHas ==
  ASSUME FilesInv, JourneyInv, Reading, reader.want = 0, m_size' = m_carry,
         reader' = [at |-> "holding", want |-> m_size'], ReadsOver,
         UNCHANGED << WriterSide, m_carry, taken, m_buff, pipe, bytes_read >>
  PROVE  StreamKept
<1> DEFINE a == First(m_buff, Position)
           s == ((Bytes(taken) \o a) \o pipe) \o pending
<1>1. /\ m_carry \in Nat /\ m_carry <= m_size /\ bytes_read = 0
      /\ Position <= Len(m_buff)
      /\ pipe \in Stream /\ m_buff \in Stream /\ taken \in Elements /\ pending \in Stream
  BY DEF FilesInv, FileTypes, BufferInv, Reading
<1>2. Position = m_carry * ElementSize /\ Position \in Nat
  BY <1>1, FileNumbers
<1>3. FilesInv'
  <2>1. m_size' * ElementSize <= Len(m_buff)
    BY <1>1, <1>2
  <2>2. BufferInv'
    BY <1>1, <2>1 DEF BufferInv, Reading
  <2> QED
    BY <1>1, <2>2, ReaderFiles
<1>4. InBuffer' = a
  <2>1. PartsOfJourney'
    BY <1>3, JourneyPartsAfter
  <2> QED
    BY <1>2, <2>1 DEF PartsOfJourney, Reading
<1>5. a \in Stream
  <2> DEFINE h == Position
  <2>1. h \in Nat /\ h <= h /\ h <= Len(m_buff)
    BY <1>1, <1>2
  <2> HIDE DEF h
  <2>2. First(m_buff, h) \in Stream
    BY <1>1, <2>1, SplitOff
  <2> QED
    BY <2>2 DEF h
<1>6. "mixed" \notin thrown => Ordered(s, written * ElementSize)
  BY ReadsBehind
<1>7. m_size = m_carry => Journey = s
  BY ReadsBehind
<1> HIDE DEF a
<1>8. << >> \in Stream /\ a \o << >> = a
  BY <1>5, ConcatEmptySeq, EmptySeq DEF Stream
<1>9. /\ Journey' = ((Bytes(taken) \o a) \o pipe) \o pending
      /\ s = ((Bytes(taken) \o (a \o << >>)) \o pipe) \o pending
  BY <1>4, <1>8, BytesKept DEF Journey, WriterSide
<1> HIDE DEF s
<1>10. thrown \subseteq thrown' /\ (m_size # m_carry => "grant" \in thrown')
  BY DEF ReadsOver
<1>11. WholeInv => bytes_read' % ElementSize = 0 /\ ("grant" \in thrown' \/ Journey = s)
  BY <1>7, <1>10 DEF WholeInv
<1> QED
  BY <1>1, <1>3, <1>5, <1>6, <1>8, <1>9, <1>10, <1>11, LosesTail DEF WriterSide

(* One read() that returns none.                                           *)
LEMMA ReadNothingStep ==
  ASSUME FilesInv, JourneyInv, Reading, ReadNothing, UNCHANGED << WriterSide, m_carry, taken >>
  PROVE  StreamKept
<1>1. CASE ReadThrows
  BY <1>1, ReaderThrows
<1>2. CASE reader.want = 0 /\ ~ ReadThrows
  BY <1>2, ReturnsWhatItHas DEF ReadNothing, Lent
<1>3. CASE reader.want # 0 /\ ~ ReadThrows
  <2>1. reader \in [at : {"outside", "read", "read_poll", "holding"}, want : Nat]
    BY DEF FilesInv, FileTypes
  <2>2. /\ UNCHANGED << m_buff, m_size, pipe, bytes_read, thrown >>
        /\ reader' = [reader EXCEPT !.at = "read_poll"]
    BY <1>3 DEF ReadNothing
  <2>3. reader' \in [at : {"read", "read_poll"}, want : Nat] /\ reader'.want = reader.want
    BY <2>1, <2>2
  <2> QED
    BY <2>2, <2>3, ReaderWaits
<1> QED
  BY <1>1, <1>2, <1>3

(* The steps of begin_read after its call.                                 *)
LEMMA ReaderStep ==
  ASSUME FilesInv, JourneyInv, ReaderSteps
  PROVE  StreamKept
<1>1. Reading /\ UNCHANGED << WriterSide, m_carry, taken >>
  BY DEF ReaderSteps, BeginRead, PollReadable, Reading, outputVars, WriterSide
<1>2. CASE BeginRead
  BY <1>1, <1>2, ReadSomeStep, ReadNothingStep DEF BeginRead
<1>3. CASE PollReadable
  <2>1. CASE ReadThrows
    BY <1>1, <2>1, ReaderThrows
  <2>2. CASE ~ ReadThrows
    <3>1. /\ reader \in [at : {"outside", "read", "read_poll", "holding"}, want : Nat]
          /\ reader' = [reader EXCEPT !.at = "read"]
          /\ UNCHANGED << m_buff, m_size, bytes_read, pipe, thrown >>
      BY <1>3, <2>2 DEF PollReadable, FilesInv, FileTypes
    <3>2. reader' \in [at : {"read", "read_poll"}, want : Nat] /\ reader'.want = reader.want
      BY <3>1
    <3> QED
      BY <1>1, <3>1, <3>2, ReaderWaits
  <2> QED
    BY <2>1, <2>2
<1> QED
  BY <1>2, <1>3 DEF ReaderSteps

(* end_read of at least one element: what was lent goes to the reader and  *)
(* the rest to the front.                                                  *)
LEMMA ElementsTaken ==
  ASSUME FilesInv, JourneyInv, NEW c \in Nat, EndRead(c), c > 0
  PROVE  StreamKept
<1> DEFINE kept == m_size * ElementSize  out == c * ElementSize
           t == [i \in 1 .. c |-> Element(i)]
           x == First(m_buff, out)  y == SubSeq(m_buff, out + 1, kept)
<1>1. /\ reader.at = "holding" /\ c <= reader.want /\ reader' = [at |-> "outside", want |-> 0]
      /\ taken' = taken \o t /\ m_carry' = m_size - c /\ m_size' = m_size - c /\ m_buff' = y
      /\ UNCHANGED << WriterSide, pipe, closed, thrown, bytes_read >>
  BY DEF EndRead, Outside, outputVars, WriterSide
<1>2. /\ reader.want <= m_size /\ m_size \in Nat /\ kept <= Len(m_buff) /\ bytes_read \in Nat
      /\ reader.want \in Nat
      /\ pipe \in Stream /\ m_buff \in Stream /\ taken \in Elements /\ pending \in Stream
  BY <1>1 DEF FilesInv, FileTypes, BufferInv
<1>3. ElementSize \in Nat \ {0} /\ kept \in Nat /\ Len(m_buff) \in Nat
  BY FileNumbers
<1>4. /\ m_size - c \in Nat /\ out \in Nat /\ out <= kept
      /\ (m_size - c) * ElementSize = kept - out
  BY <1>1, <1>2, <1>3
<1>5. t \in Elements /\ Bytes(t) = x
  <2>1. m_buff \in Seq(Nat) /\ out <= Len(m_buff)
    <3> HIDE DEF out, kept
    <3> QED
      BY <1>2, <1>3, <1>4 DEF Stream
  <2>2. t = [i \in 1 .. c |-> SubSeq(m_buff, (i - 1) * ElementSize + 1, i * ElementSize)]
    BY DEF Element
  <2> QED
    BY <2>1, <2>2, BytesOfBuffer DEF First
<1>6. taken' \in Elements /\ Bytes(taken') = Bytes(taken) \o x
  <2> HIDE DEF t, x
  <2> QED
    BY <1>1, <1>2, <1>5, BytesOfMore
<1> HIDE DEF t
<1>7. /\ x \in Stream /\ y \in Stream /\ Len(y) = kept - out
      /\ First(m_buff, kept) = x \o y
  <2> HIDE DEF kept, out
  <2>1. First(m_buff, out) \in Stream /\ SubSeq(m_buff, out + 1, kept) \in Stream
    BY <1>2, <1>3, <1>4, SplitOff
  <2>2. Len(SubSeq(m_buff, out + 1, kept)) = kept - out
    BY <1>2, <1>3, <1>4, SplitOff
  <2>3. First(m_buff, kept) = First(m_buff, out) \o SubSeq(m_buff, out + 1, kept)
    BY <1>2, <1>3, <1>4, Longer
  <2> QED
    BY <2>1, <2>2, <2>3
<1> HIDE DEF x, y
<1>8. m_size' * ElementSize = Len(m_buff') /\ m_size' \in Nat
  BY <1>1, <1>4, <1>7
<1>9. FilesInv'
  <2>1. m_size' * ElementSize \in Nat
    <3> HIDE DEF out, kept
    <3>1. kept - out \in Nat
      BY <1>3, <1>4
    <3> QED
      BY <1>1, <1>4, <3>1
  <2>2. BufferInv'
    BY <1>1, <1>4, <1>8, <2>1 DEF BufferInv, Reading
  <2> QED
    BY <1>1, <1>2, <1>4, <1>6, <1>7, <2>2, ReaderFiles
<1>10. InBuffer = x \o y
  BY <1>1, <1>7, JourneyParts DEF PartsOfJourney, Reading
<1>11. InBuffer' = y
  <2>1. PartsOfJourney'
    BY <1>9, JourneyPartsAfter
  <2>2. InBuffer' = SubSeq(m_buff', 1, Len(m_buff'))
    BY <1>1, <1>8, <2>1 DEF PartsOfJourney, Reading, First
  <2> QED
    BY <1>1, <1>7, <2>2, SubSeqFull DEF Stream
<1>12. Journey' = Journey
  <2> DEFINE b == Bytes(taken)
  <2>1. Journey = ((b \o (x \o y)) \o pipe) \o pending
    BY <1>10 DEF Journey
  <2>2. Journey' = (((b \o x) \o y) \o pipe) \o pending
    BY <1>1, <1>6, <1>11 DEF Journey, WriterSide, Bytes
  <2>3. b \in Stream
    BY JourneyParts DEF PartsOfJourney
  <2> HIDE DEF b
  <2>4. (b \o x) \o y = b \o (x \o y)
    BY <1>7, <2>3, ConcatAssoc
  <2> QED
    BY <2>1, <2>2, <2>4
<1> QED
  BY <1>1, <1>9, <1>12, Stays DEF StreamKept, WriterSide, WholeInv

(* The reader leaves its grant where it is.                                *)
LEMMA GrantLeft ==
  ASSUME FilesInv, JourneyInv, LeaveGrant
  PROVE  StreamKept
<1>1. /\ reader.at = "holding" /\ reader' = [at |-> "outside", want |-> 0]
      /\ UNCHANGED << WriterSide, taken, m_carry, m_buff, m_size, pipe, thrown, bytes_read >>
  BY DEF LeaveGrant, Outside, outputVars, WriterSide
<1>2. /\ m_size \in Nat /\ m_carry \in Nat /\ bytes_read \in Nat /\ BufferInv
      /\ pipe \in Stream /\ m_buff \in Stream /\ taken \in Elements
  BY DEF FilesInv, FileTypes
<1>3. FilesInv'
  <2>1. BufferInv'
    BY <1>1, <1>2 DEF BufferInv, Reading
  <2> QED
    BY <1>1, <1>2, <2>1, ReaderFiles
<1>4. InBuffer' = InBuffer
  BY <1>1 DEF InBuffer
<1>5. Journey' = Journey
  BY <1>1, <1>4, BytesKept DEF Journey, WriterSide
<1> QED
  BY <1>1, <1>3, <1>5, Stays DEF StreamKept, WriterSide, WholeInv

(* The scheduler touches nothing of the queues.                            *)
LEMMA NothingMoves ==
  ASSUME FilesInv, JourneyInv, UNCHANGED << pipe, closed, thrown, outputVars, inputVars >>
  PROVE  StreamKept
<1>1. UNCHANGED << ReaderSide, WriterSide, pipe, thrown >>
  BY DEF outputVars, inputVars, ReaderSide, WriterSide
<1>2. FilesInv'
  <2>1. /\ pipe \in Stream /\ pending \in Stream /\ written \in Nat /\ WriterInv
        /\ writer \in [at : {"outside", "begin", "begin_poll", "holding", "end", "end_poll"},
                       want : Nat]
    BY DEF FilesInv, FileTypes
  <2> QED
    BY <1>1, <2>1, WriterFiles DEF WriterInv, WriterSide
<1>3. Journey' = Journey
  BY <1>1, InputKept DEF Journey, WriterSide
<1> QED
  BY <1>1, <1>2, <1>3, Stays DEF StreamKept, WriterSide, ReaderSide, WholeInv

(* The steps of the writer, the reader and the scheduler.                  *)
LEMMA NextStream == FilesInv /\ JourneyInv /\ [Next]_fileVars => StreamKept
<1> SUFFICES ASSUME FilesInv, JourneyInv, [Next]_fileVars PROVE StreamKept
  OBVIOUS
<1>1. CASE WriterSteps
  BY <1>1, WriterStep, WriterWaits DEF WriterSteps
<1>2. CASE ReaderSteps
  BY <1>2, ReaderStep
<1>3. ASSUME NEW n \in Counts, CallBeginWrite(n) \/ CallBeginRead(n)
      PROVE  StreamKept
  <2>1. n \in Nat
    BY FileQueuesAssumption
  <2> QED
    BY <1>3, <2>1, WriterWaits, BeginReadCall
<1>4. ASSUME NEW c \in 0 .. OutCapacity, CallEndWrite(c) PROVE StreamKept
  <2>1. c \in Nat
    BY FileQueuesAssumption
  <2> QED
    BY <1>4, <2>1, EndWriteCall
<1>5. ASSUME NEW c \in 1 .. InCapacity, EndRead(c) PROVE StreamKept
  <2>1. c \in Nat /\ c > 0
    BY FileQueuesAssumption
  <2> QED
    BY <1>5, <2>1, ElementsTaken
<1>6. CASE CloseOutput \/ LeaveGrant
  BY <1>6, OutputCloses, GrantLeft
<1>7. CASE UNCHANGED << pipe, closed, thrown, outputVars, inputVars >>
  BY <1>7, NothingMoves
<1> QED
  BY <1>1, <1>2, <1>3, <1>4, <1>5, <1>6, <1>7 DEF Next, fileVars

(* What the invariants say of the stream.                                  *)
LEMMA JourneyInOrder == FilesInv /\ JourneyInv => NoneOvertakes
<1> SUFFICES ASSUME FilesInv, JourneyInv, "mixed" \notin thrown,
                    NEW i \in DOMAIN Journey, NEW j \in DOMAIN Journey, i < j
             PROVE  Journey[i] < Journey[j]
  BY DEF NoneOvertakes
<1>1. DOMAIN Journey = 1 .. Len(Journey) /\ Len(Journey) \in Nat
  BY JourneyTypes DEF Stream
<1>2. j \in 1 .. Len(Journey) /\ i \in 1 .. j - 1
  BY <1>1
<1> QED
  BY <1>2 DEF JourneyInv, Ordered

(* Whole elements, numbered without a gap, are all that were written.      *)
LEMMA JourneyComplete == FilesInv /\ WholeInv => NoneMissing
<1> SUFFICES ASSUME FilesInv, WholeInv, thrown \cap {"reader", "grant"} = {}
             PROVE  /\ Journey = [i \in 1 .. Len(Journey) |-> i]
                    /\ ~ closed => Len(Journey) = written * ElementSize
  BY DEF NoneMissing
<1>1. Journey = [i \in 1 .. Len(Journey) |-> Journey[i]]
  BY JourneyTypes DEF Stream
<1>2. \A i \in 1 .. Len(Journey) : Journey[i] = i
  BY DEF WholeInv, Numbered
<1>3. [i \in 1 .. Len(Journey) |-> Journey[i]] = [i \in 1 .. Len(Journey) |-> i]
  BY <1>2
<1> QED
  BY <1>1, <1>3 DEF WholeInv

(* However the operating system divides the bytes, whichever grants are    *)
(* left and whenever the output is closed, no byte overtakes another or    *)
(* comes out twice, also through exceptions in the middle of a transfer,   *)
(* until one meets begin_read half way through reading over a grant that   *)
(* was left: FileOutputQueue and FileInputQueue keep the order of the      *)
(* stream.                                                                 *)
THEOREM BytesDoNotOvertake == Spec => []NoneOvertakes
<1>1. Init => FilesInv /\ JourneyInv
  BY StreamBegins
<1>2. FilesInv /\ JourneyInv /\ [Next]_fileVars => (FilesInv /\ JourneyInv)'
  BY NextStream DEF StreamKept
<1>3. FilesInv /\ JourneyInv => NoneOvertakes
  BY JourneyInOrder
<1> QED
  BY <1>1, <1>2, <1>3, PTL DEF Spec

(* When the operating system moves whole elements, none is missing either, *)
(* until begin_read reads over a grant that was left, as it does after the *)
(* begin_write of StaticProcessor::process threw, or is met by an          *)
(* exception half way; and but for those pending when the output was       *)
(* closed.                                                                 *)
THEOREM FilesInOrder ==
  ASSUME Granule = ElementSize
  PROVE  Spec => []InOrder
<1> DEFINE Inv == FilesInv /\ JourneyInv /\ WholeInv
<1>1. Init => Inv
  BY StreamBegins
<1>2. Inv /\ [Next]_fileVars => Inv'
  BY NextStream DEF StreamKept
<1>3. Inv => InOrder
  BY JourneyInOrder, JourneyComplete DEF InOrder
<1> QED
  BY <1>1, <1>2, <1>3, PTL DEF Spec
=============================================================================
