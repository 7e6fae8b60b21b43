---------------------- MODULE CooperativePipeline_proofs ----------------------
(***************************************************************************)
(* A chain of cooperative processes neither doubles, reorders nor loses an *)
(* element: proof, for any number of processes, any capacities and block   *)
(* sizes, and any nesting of the calls on the stack.                       *)
(*                                                                         *)
(* The argument moves blocks between the parts of the chain: what a part   *)
(* holds is compared with all that is beyond it.  First what a move, a     *)
(* push and an exception do to such parts, then the control of the stack,  *)
(* then each step of the chain as one of the three.                        *)
(***************************************************************************)
EXTENDS CooperativePipeline, SequenceTheorems, TLAPS

(* The chain is looked at as parts 0 .. N + 1: what waits in each queue,   *)
(* and what was received. An element is the number of the push it came     *)
(* from.                                                                   *)
Item  == Nat \ {0}
Chain == [0 .. N + 1 -> Seq(Item)]

(* What is in a part or beyond it: the elements of those parts.            *)
LEMMA BeyondHas ==
  ASSUME NEW S \in Chain, NEW q \in 0 .. N + 2
  PROVE  \A x : x \in Beyond(S, q) <=>
                  \E r \in q .. N + 1 : \E i \in 1 .. Len(S[r]) : x = S[r][i]
<1>1. N \in Nat
  BY PipelineAssumption
<1>2. ASSUME NEW r \in q .. N + 1 PROVE DOMAIN S[r] = 1 .. Len(S[r])
  BY <1>1 DEF Chain
<1> QED
  BY <1>2 DEF Beyond, ToSet

(* What is in a place or beyond it.                                        *)
LEMMA BeyondNext ==
  ASSUME NEW S \in Chain, NEW q \in 0 .. N + 1
  PROVE  Beyond(S, q) = ToSet(S[q]) \cup Beyond(S, q + 1)
<1>1. q .. N + 1 = {q} \cup (q + 1 .. N + 1)
  BY PipelineAssumption
<1> QED
  BY <1>1 DEF Beyond

(* ... are elements.                                                       *)
LEMMA BeyondTypes ==
  ASSUME NEW S \in Chain, NEW q \in 0 .. N + 2
  PROVE  Beyond(S, q) \subseteq Item
<1>1. N \in Nat
  BY PipelineAssumption
<1>2. ASSUME NEW r \in q .. N + 1, NEW i \in 1 .. Len(S[r]) PROVE S[r][i] \in Item
  BY <1>1 DEF Chain
<1> QED
  BY <1>2, BeyondHas

(* A block goes from the front of a part to the end of the next.           *)
Moves(S, T, q, n) ==
  /\ T[q] = SubSeq(S[q], n + 1, Len(S[q])) /\ T[q + 1] = S[q + 1] \o SubSeq(S[q], 1, n)
  /\ \A r \in 0 .. N + 1 : r \notin {q, q + 1} => T[r] = S[r]

(* The elements of the two parts after a block has moved.                  *)
LEMMA MovedElements ==
  ASSUME NEW S \in Chain, NEW q \in 0 .. N, NEW n \in 0 .. Len(S[q]), NEW T, Moves(S, T, q, n)
  PROVE  /\ T[q] \in Seq(Item) /\ T[q + 1] \in Seq(Item)
         /\ Len(T[q]) = Len(S[q]) - n /\ Len(T[q + 1]) = Len(S[q + 1]) + n
         /\ \A i \in 1 .. Len(S[q]) - n : T[q][i] = S[q][n + i]
         /\ \A i \in 1 .. Len(S[q + 1]) : T[q + 1][i] = S[q + 1][i]
         /\ \A i \in 1 .. n : T[q + 1][Len(S[q + 1]) + i] = S[q][i]
<1> DEFINE s == S[q]  t == S[q + 1]
<1>1. N \in Nat /\ s \in Seq(Item) /\ t \in Seq(Item) /\ n \in 0 .. Len(s) /\ Len(s) \in Nat
  BY PipelineAssumption DEF Chain
<1>2. T[q] = SubSeq(s, n + 1, Len(s)) /\ T[q + 1] = t \o SubSeq(s, 1, n)
  BY DEF Moves
<1> HIDE DEF s, t
<1>3. /\ SubSeq(s, n + 1, Len(s)) \in Seq(Item) /\ Len(SubSeq(s, n + 1, Len(s))) = Len(s) - n
      /\ \A i \in 1 .. Len(s) - n : SubSeq(s, n + 1, Len(s))[i] = s[n + i]
  BY <1>1
<1>4. /\ SubSeq(s, 1, n) \in Seq(Item) /\ Len(SubSeq(s, 1, n)) = n
      /\ \A i \in 1 .. n : SubSeq(s, 1, n)[i] = s[i]
  BY <1>1
<1> DEFINE b == SubSeq(s, 1, n)
<1> HIDE DEF b
<1>5. /\ t \o b \in Seq(Item) /\ Len(t \o b) = Len(t) + Len(b)
      /\ \A i \in 1 .. Len(t) : (t \o b)[i] = t[i]
      /\ \A i \in 1 .. Len(b) : (t \o b)[Len(t) + i] = b[i]
  BY <1>1, <1>4 DEF b
<1> QED
  BY <1>2, <1>3, <1>4, <1>5 DEF s, t, b

(* A block that moves is now beyond the part it left, and no other set of  *)
(* elements changes.                                                       *)
LEMMA MovedBeyond ==
  ASSUME NEW S \in Chain, NEW T \in Chain, NEW q \in 0 .. N, NEW n \in 0 .. Len(S[q]),
         Moves(S, T, q, n)
  PROVE  /\ \A r \in 0 .. N + 2 : r # q + 1 => Beyond(T, r) = Beyond(S, r)
         /\ Beyond(T, q + 1) = Beyond(S, q + 1) \cup {S[q][i] : i \in 1 .. n}
<1>1. N \in Nat /\ Len(S[q]) \in Nat /\ Len(S[q + 1]) \in Nat
  BY PipelineAssumption DEF Chain
<1> DEFINE s == S[q]  t == S[q + 1]  v == T[q]  w == T[q + 1]
<1>9. /\ Len(v) = Len(s) - n /\ Len(w) = Len(t) + n
      /\ \A i \in 1 .. Len(s) - n : v[i] = s[n + i]
      /\ \A i \in 1 .. Len(t) : w[i] = t[i]
      /\ \A i \in 1 .. n : w[Len(t) + i] = s[i]
  BY MovedElements
<1>10. /\ DOMAIN w = 1 .. Len(t) + n /\ DOMAIN t = 1 .. Len(t)
       /\ DOMAIN v = 1 .. Len(s) - n /\ DOMAIN s = 1 .. Len(s)
       /\ Len(s) \in Nat /\ Len(t) \in Nat /\ n \in Nat /\ n <= Len(s)
  <2>1. s \in Seq(Item) /\ t \in Seq(Item) /\ v \in Seq(Item) /\ w \in Seq(Item)
    BY <1>1 DEF Chain
  <2> HIDE DEF s, t, v, w
  <2> QED
    BY <1>9, <2>1
<1>2. ToSet(T[q + 1]) = ToSet(S[q + 1]) \cup {S[q][i] : i \in 1 .. n}
  <2> HIDE DEF s, t, v, w
  <2>1. ASSUME NEW i \in DOMAIN w PROVE w[i] \in ToSet(t) \cup {s[k] : k \in 1 .. n}
    <3>1. CASE i <= Len(t)
      BY <1>9, <1>10, <3>1 DEF ToSet
    <3>2. CASE i > Len(t)
      <4> DEFINE k == i - Len(t)
      <4>1. k \in 1 .. n /\ i = Len(t) + k
        BY <1>10, <3>2
      <4> HIDE DEF k
      <4> QED
        BY <1>9, <4>1
    <3> QED
      BY <1>10, <3>1, <3>2
  <2>2. \A i \in 1 .. Len(t) : t[i] \in ToSet(w)
    <3>1. \A i \in 1 .. Len(t) : i \in DOMAIN w /\ w[i] = t[i]
      BY <1>9, <1>10
    <3> QED
      BY <3>1 DEF ToSet
  <2>3. \A i \in 1 .. n : s[i] \in ToSet(w)
    <3>1. \A i \in 1 .. n : Len(t) + i \in DOMAIN w /\ w[Len(t) + i] = s[i]
      BY <1>9, <1>10
    <3> QED
      BY <3>1 DEF ToSet
  <2>4. ToSet(w) = ToSet(t) \cup {s[k] : k \in 1 .. n}
    BY <1>10, <2>1, <2>2, <2>3 DEF ToSet
  <2> QED
    BY <2>4 DEF s, t, w
<1>3. ToSet(S[q]) = ToSet(T[q]) \cup {S[q][i] : i \in 1 .. n}
  <2> HIDE DEF s, t, v, w
  <2>1. ASSUME NEW i \in 1 .. Len(s) PROVE s[i] \in ToSet(v) \cup {s[k] : k \in 1 .. n}
    <3>1. CASE i > n
      <4> DEFINE k == i - n
      <4>1. k \in 1 .. Len(s) - n /\ i = n + k
        BY <1>10, <3>1
      <4> HIDE DEF k
      <4> QED
        BY <1>9, <1>10, <4>1 DEF ToSet
    <3> QED
      BY <1>10, <3>1
  <2>2. \A i \in 1 .. Len(s) - n : v[i] \in ToSet(s)
    <3>1. \A i \in 1 .. Len(s) - n : n + i \in DOMAIN s /\ v[i] = s[n + i]
      BY <1>9, <1>10
    <3> QED
      BY <3>1 DEF ToSet
  <2>3. \A i \in 1 .. n : s[i] \in ToSet(s)
    BY <1>10 DEF ToSet
  <2>4. ToSet(s) = ToSet(v) \cup {s[k] : k \in 1 .. n}
    BY <1>10, <2>1, <2>2, <2>3 DEF ToSet
  <2> QED
    BY <2>4 DEF s, v
<1>4. ASSUME NEW r \in q + 2 .. N + 2 PROVE Beyond(T, r) = Beyond(S, r)
  <2>1. \A k \in r .. N + 1 : T[k] = S[k]
    BY <1>1 DEF Moves
  <2> QED
    BY <2>1 DEF Beyond
<1>5. Beyond(T, q + 1) = Beyond(S, q + 1) \cup {S[q][i] : i \in 1 .. n}
  <2>1. q + 1 \in 0 .. N + 1 /\ q + 2 \in q + 2 .. N + 2 /\ (q + 1) + 1 = q + 2
    BY <1>1
  <2> QED
    BY <1>2, <1>4, <2>1, BeyondNext
<1>6. Beyond(T, q) = Beyond(S, q)
  <2>1. q \in 0 .. N + 1
    BY <1>1
  <2> QED
    <3>1. /\ Beyond(S, q) = ToSet(S[q]) \cup Beyond(S, q + 1)
          /\ Beyond(T, q) = ToSet(T[q]) \cup Beyond(T, q + 1)
      BY <2>1, BeyondNext
    <3> QED
      BY <1>3, <1>5, <3>1
<1>7. ASSUME NEW r \in 0 .. q - 1 PROVE Beyond(T, r) = Beyond(S, r)
  <2>1. /\ r .. N + 1 = (r .. q - 1) \cup (q .. N + 1)
        /\ \A k \in r .. q - 1 : T[k] = S[k]
    BY <1>1 DEF Moves
  <2>2. ASSUME NEW P \in {S, T}
        PROVE  \A x : x \in Beyond(P, r) <=>
                        x \in Beyond(P, q) \/ \E k \in r .. q - 1 : x \in ToSet(P[k])
    BY <2>1 DEF Beyond
  <2>3. \A x : x \in Beyond(T, r) <=> x \in Beyond(S, r)
    BY <1>6, <2>1, <2>2
  <2> QED
    BY <2>3
<1>8. \A r \in 0 .. N + 2 : r \in 0 .. q - 1 \/ r = q \/ r = q + 1 \/ r \in q + 2 .. N + 2
  BY <1>1
<1> QED
  BY <1>4, <1>5, <1>6, <1>7, <1>8

(* A block that moves from the front of one part to the end of the next    *)
(* keeps every element in one place and in order: all that is beyond the   *)
(* part it left is older than it.                                          *)
LEMMA MovedOnce ==
  ASSUME NEW S \in Chain, NEW T \in Chain, NEW q \in 0 .. N, NEW n \in 0 .. Len(S[q]),
         Moves(S, T, q, n), NEW m \in Nat, OnceInOrder(S, m)
  PROVE  OnceInOrder(T, m)
<1> DEFINE s == S[q]  t == S[q + 1]  v == T[q]  w == T[q + 1]
<1>1. /\ Len(v) = Len(s) - n /\ Len(w) = Len(t) + n
      /\ \A i \in 1 .. Len(s) - n : v[i] = s[n + i]
      /\ \A i \in 1 .. Len(t) : w[i] = t[i]
      /\ \A i \in 1 .. n : w[Len(t) + i] = s[i]
  BY MovedElements
<1>2. /\ N \in Nat /\ q \in 0 .. N + 1 /\ q + 1 \in 0 .. N + 1 /\ 0 \in 0 .. N + 2
      /\ 0 # q + 1 /\ (q + 1) + 1 = q + 2 /\ q + 2 \in 0 .. N + 2 /\ q + 2 # q + 1
  BY PipelineAssumption
<1>3. /\ DOMAIN w = 1 .. Len(t) + n /\ DOMAIN t = 1 .. Len(t)
      /\ DOMAIN v = 1 .. Len(s) - n /\ DOMAIN s = 1 .. Len(s)
      /\ Len(s) \in Nat /\ Len(t) \in Nat /\ n \in Nat /\ n <= Len(s)
      /\ \A i \in 1 .. Len(s) : s[i] \in Nat
      /\ \A i \in 1 .. Len(t) : t[i] \in Nat
  <2>1. s \in Seq(Item) /\ t \in Seq(Item) /\ v \in Seq(Item) /\ w \in Seq(Item)
    BY <1>2 DEF Chain
  <2> HIDE DEF s, t, v, w
  <2> QED
    BY <1>1, <2>1 DEF Item
<1>4. /\ Beyond(T, q + 1) = Beyond(S, q + 1) \cup {s[i] : i \in 1 .. n}
      /\ \A r \in 0 .. N + 2 : r # q + 1 => Beyond(T, r) = Beyond(S, r)
      /\ Beyond(S, q + 1) = ToSet(t) \cup Beyond(S, q + 2)
  <2>1. /\ Beyond(T, q + 1) = Beyond(S, q + 1) \cup {s[i] : i \in 1 .. n}
        /\ \A r \in 0 .. N + 2 : r # q + 1 => Beyond(T, r) = Beyond(S, r)
    BY MovedBeyond
  <2>2. Beyond(S, q + 1) = ToSet(S[q + 1]) \cup Beyond(S, (q + 1) + 1)
    BY <1>2, BeyondNext
  <2> QED
    BY <1>2, <2>1, <2>2
<1>5. /\ \A i \in 1 .. Len(s) : /\ \A x \in Beyond(S, q + 1) : x < s[i]
                                /\ \A j \in 1 .. i - 1 : s[j] < s[i]
      /\ \A i \in 1 .. Len(t) : /\ \A x \in Beyond(S, q + 2) : x < t[i]
                                /\ \A j \in 1 .. i - 1 : t[j] < t[i]
  BY <1>2, <1>3 DEF OnceInOrder
<1> HIDE DEF s, t, v, w
<1>6. ASSUME NEW i \in DOMAIN v
      PROVE  (\A x \in Beyond(T, q + 1) : x < v[i]) /\ \A j \in 1 .. i - 1 : v[j] < v[i]
  <2>1. n + i \in 1 .. Len(s) /\ v[i] = s[n + i] /\ i \in Nat
    BY <1>1, <1>3
  <2>2. \A k \in 1 .. n : s[k] < s[n + i]
    BY <1>3, <1>5, <2>1
  <2>3. ASSUME NEW j \in 1 .. i - 1 PROVE v[j] < v[i]
    <3>1. j \in 1 .. Len(s) - n /\ n + j \in 1 .. (n + i) - 1
      BY <1>3, <2>1
    <3> QED
      BY <1>1, <1>5, <2>1, <3>1
  <2> QED
    BY <1>4, <1>5, <2>1, <2>2, <2>3
<1>7. ASSUME NEW i \in DOMAIN w
      PROVE  (\A x \in Beyond(T, q + 2) : x < w[i]) /\ \A j \in 1 .. i - 1 : w[j] < w[i]
  <2>1. CASE i <= Len(t)
    <3>1. i \in 1 .. Len(t) /\ w[i] = t[i] /\ \A j \in 1 .. i - 1 : w[j] = t[j]
      BY <1>1, <1>3, <2>1
    <3> QED
      BY <1>2, <1>4, <1>5, <3>1
  <2>2. CASE i > Len(t)
    <3>1. PICK k \in 1 .. n : i = Len(t) + k /\ w[i] = s[k] /\ k \in 1 .. Len(s)
      <4> DEFINE k == i - Len(t)
      <4>1. k \in 1 .. n /\ i = Len(t) + k /\ k \in 1 .. Len(s)
        BY <1>3, <2>2
      <4> HIDE DEF k
      <4> QED
        BY <1>1, <4>1
    <3>2. ASSUME NEW j \in 1 .. i - 1 PROVE w[j] < w[i]
      <4>1. CASE j <= Len(t)
        <5>1. j \in 1 .. Len(t) /\ w[j] = t[j]
          BY <1>1, <1>3, <3>1, <4>1
        <5>2. t[j] \in Beyond(S, q + 1)
          BY <1>3, <1>4, <5>1 DEF ToSet
        <5> QED
          BY <1>5, <3>1, <5>1, <5>2
      <4>2. CASE j > Len(t)
        <5> DEFINE l == j - Len(t)
        <5>1. l \in 1 .. k - 1 /\ l \in 1 .. n /\ j = Len(t) + l
          BY <1>3, <3>1, <4>2
        <5> HIDE DEF l
        <5> QED
          BY <1>1, <1>5, <3>1, <5>1
      <4> QED
        BY <1>3, <3>1, <4>1, <4>2
    <3> QED
      BY <1>2, <1>4, <1>5, <3>1, <3>2
  <2> QED
    BY <1>3, <2>1, <2>2
<1>8. ASSUME NEW r \in 0 .. N + 1, r \notin {q, q + 1}, NEW i \in DOMAIN T[r]
      PROVE  /\ \A x \in Beyond(T, r + 1) : x < T[r][i]
             /\ \A j \in 1 .. i - 1 : T[r][j] < T[r][i]
  <2>1. r + 1 \in 0 .. N + 2 /\ r + 1 # q + 1 /\ T[r] = S[r]
    BY <1>2, <1>8 DEF Moves
  <2> QED
    BY <1>4, <2>1 DEF OnceInOrder
<1>9. Beyond(T, 0) = 1 .. m
  BY <1>2, <1>4 DEF OnceInOrder
<1>10. ASSUME NEW r \in 0 .. N + 1, NEW i \in DOMAIN T[r]
       PROVE  /\ \A x \in Beyond(T, r + 1) : x < T[r][i]
              /\ \A j \in 1 .. i - 1 : T[r][j] < T[r][i]
  <2>1. CASE r = q
    BY <1>6, <1>10, <2>1 DEF v
  <2>2. CASE r = q + 1
    BY <1>2, <1>7, <1>10, <2>2 DEF w
  <2> QED
    BY <1>8, <1>10, <2>1, <2>2
<1> QED
  BY <1>9, <1>10 DEF OnceInOrder

(* And it leaves no gap: what is missing before an element of the block is *)
(* beyond the part it left, or in front of it in the block.                *)
LEMMA MovedNone ==
  ASSUME NEW S \in Chain, NEW T \in Chain, NEW q \in 0 .. N, NEW n \in 0 .. Len(S[q]),
         Moves(S, T, q, n), NEW m \in Nat, NoneMissing(S, m)
  PROVE  NoneMissing(T, m)
<1> DEFINE s == S[q]  t == S[q + 1]  v == T[q]  w == T[q + 1]
<1>1. /\ Len(v) = Len(s) - n /\ Len(w) = Len(t) + n
      /\ \A i \in 1 .. Len(s) - n : v[i] = s[n + i]
      /\ \A i \in 1 .. Len(t) : w[i] = t[i]
      /\ \A i \in 1 .. n : w[Len(t) + i] = s[i]
  BY MovedElements
<1>2. /\ N \in Nat /\ q \in 0 .. N + 1 /\ q + 1 \in 0 .. N + 1 /\ 0 \in 0 .. N + 2
      /\ 0 # q + 1 /\ (q + 1) + 1 = q + 2 /\ q + 2 \in 0 .. N + 2 /\ q + 2 # q + 1
  BY PipelineAssumption
<1>3. /\ DOMAIN w = 1 .. Len(t) + n /\ DOMAIN t = 1 .. Len(t)
      /\ DOMAIN v = 1 .. Len(s) - n /\ DOMAIN s = 1 .. Len(s)
      /\ Len(s) \in Nat /\ Len(t) \in Nat /\ n \in Nat /\ n <= Len(s)
      /\ \A i \in 1 .. Len(s) : s[i] \in Nat
      /\ \A i \in 1 .. Len(t) : t[i] \in Nat
  <2>1. s \in Seq(Item) /\ t \in Seq(Item) /\ v \in Seq(Item) /\ w \in Seq(Item)
    BY <1>2 DEF Chain
  <2> HIDE DEF s, t, v, w
  <2> QED
    BY <1>1, <2>1 DEF Item
<1>4. /\ Beyond(T, q + 1) = Beyond(S, q + 1) \cup {s[i] : i \in 1 .. n}
      /\ \A r \in 0 .. N + 2 : r # q + 1 => Beyond(T, r) = Beyond(S, r)
      /\ Beyond(S, q + 1) = ToSet(t) \cup Beyond(S, q + 2)
  <2>1. /\ Beyond(T, q + 1) = Beyond(S, q + 1) \cup {s[i] : i \in 1 .. n}
        /\ \A r \in 0 .. N + 2 : r # q + 1 => Beyond(T, r) = Beyond(S, r)
    BY MovedBeyond
  <2>2. Beyond(S, q + 1) = ToSet(S[q + 1]) \cup Beyond(S, (q + 1) + 1)
    BY <1>2, BeyondNext
  <2> QED
    BY <1>2, <2>1, <2>2
<1>5. /\ \A i \in 1 .. Len(s) : \A x \in 1 .. s[i] - 1 :
            x \in Beyond(S, q + 1) \/ \E j \in 1 .. i - 1 : s[j] = x
      /\ \A i \in 1 .. Len(t) : \A x \in 1 .. t[i] - 1 :
            x \in Beyond(S, q + 2) \/ \E j \in 1 .. i - 1 : t[j] = x
  <2>1. \A i \in 1 .. Len(s) : \A x \in 1 .. s[i] - 1 :
          x \in Beyond(S, q + 1) \/ \E j \in 1 .. i - 1 : s[j] = x
    BY <1>2, <1>3 DEF NoneMissing
  <2>2. \A i \in 1 .. Len(t) : \A x \in 1 .. t[i] - 1 :
          x \in Beyond(S, (q + 1) + 1) \/ \E j \in 1 .. i - 1 : t[j] = x
    BY <1>2, <1>3 DEF NoneMissing
  <2> QED
    BY <1>2, <2>1, <2>2
<1> HIDE DEF s, t, v, w
<1>6. ASSUME NEW i \in DOMAIN v, NEW x \in 1 .. v[i] - 1
      PROVE  x \in Beyond(T, q + 1) \/ \E j \in 1 .. i - 1 : v[j] = x
  <2>1. n + i \in 1 .. Len(s) /\ v[i] = s[n + i] /\ i \in Nat
    BY <1>1, <1>3
  <2>2. ASSUME NEW j \in 1 .. (n + i) - 1, s[j] = x, j > n
        PROVE  \E k \in 1 .. i - 1 : v[k] = x
    <3> DEFINE k == j - n
    <3>1. k \in 1 .. i - 1 /\ k \in 1 .. Len(s) - n /\ j = n + k
      BY <1>3, <2>1, <2>2
    <3> HIDE DEF k
    <3> QED
      BY <1>1, <2>2, <3>1
  <2>3. ASSUME NEW j \in 1 .. (n + i) - 1, s[j] = x, ~ j > n
        PROVE  x \in Beyond(T, q + 1)
    <3>1. j \in 1 .. n
      BY <1>3, <2>1, <2>3
    <3> QED
      BY <1>4, <2>3, <3>1
  <2>4. x \in Beyond(S, q + 1) \/ \E j \in 1 .. (n + i) - 1 : s[j] = x
    BY <1>5, <2>1
  <2> QED
    BY <1>4, <2>2, <2>3, <2>4
<1>7. ASSUME NEW i \in DOMAIN w, NEW x \in 1 .. w[i] - 1
      PROVE  x \in Beyond(T, q + 2) \/ \E j \in 1 .. i - 1 : w[j] = x
  <2>1. CASE i <= Len(t)
    <3>1. i \in 1 .. Len(t) /\ w[i] = t[i] /\ \A j \in 1 .. i - 1 : w[j] = t[j]
      BY <1>1, <1>3, <2>1
    <3> QED
      BY <1>2, <1>4, <1>5, <3>1
  <2>2. CASE i > Len(t)
    <3>1. PICK k \in 1 .. n : i = Len(t) + k /\ w[i] = s[k] /\ k \in 1 .. Len(s)
      <4> DEFINE k == i - Len(t)
      <4>1. k \in 1 .. n /\ i = Len(t) + k /\ k \in 1 .. Len(s)
        BY <1>3, <2>2
      <4> HIDE DEF k
      <4> QED
        BY <1>1, <4>1
    <3>2. CASE x \in ToSet(t)
      <4>1. PICK j \in 1 .. Len(t) : t[j] = x
        BY <1>3, <3>2 DEF ToSet
      <4>2. j \in 1 .. i - 1 /\ w[j] = x
        BY <1>1, <1>3, <3>1, <4>1
      <4> QED
        BY <4>2
    <3>3. ASSUME NEW l \in 1 .. k - 1, s[l] = x PROVE \E j \in 1 .. i - 1 : w[j] = x
      <4>1. l \in 1 .. n /\ Len(t) + l \in 1 .. i - 1
        BY <1>3, <3>1
      <4>2. w[Len(t) + l] = x
        BY <1>1, <3>3, <4>1
      <4> QED
        BY <4>1, <4>2
    <3>4. x \in Beyond(S, q + 1) \/ \E j \in 1 .. k - 1 : s[j] = x
      BY <1>5, <3>1
    <3> QED
      BY <1>2, <1>4, <3>2, <3>3, <3>4
  <2> QED
    BY <1>3, <2>1, <2>2
<1>8. ASSUME NEW r \in 0 .. N + 1, r \notin {q, q + 1}, NEW i \in DOMAIN T[r],
             NEW x \in 1 .. T[r][i] - 1
      PROVE  x \in Beyond(T, r + 1) \/ \E j \in 1 .. i - 1 : T[r][j] = x
  <2>1. r + 1 \in 0 .. N + 2 /\ r + 1 # q + 1 /\ T[r] = S[r]
    BY <1>2, <1>8 DEF Moves
  <2> QED
    BY <1>4, <2>1 DEF NoneMissing
<1>9. Beyond(T, 0) = 1 .. m
  BY <1>2, <1>4 DEF NoneMissing
<1>10. ASSUME NEW r \in 0 .. N + 1, NEW i \in DOMAIN T[r], NEW x \in 1 .. T[r][i] - 1
       PROVE  x \in Beyond(T, r + 1) \/ \E j \in 1 .. i - 1 : T[r][j] = x
  <2>1. CASE r = q
    BY <1>6, <1>10, <2>1 DEF v
  <2>2. CASE r = q + 1
    BY <1>2, <1>7, <1>10, <2>2 DEF w
  <2> QED
    BY <1>8, <1>10, <2>1, <2>2
<1> QED
  BY <1>9, <1>10 DEF NoneMissing

(* push_one puts the next number at the end of part 0: it is later than    *)
(* all there is, and nothing before it is missing.                         *)
LEMMA Pushed ==
  ASSUME NEW S \in Chain, NEW T \in Chain, NEW m \in Nat, T[0] = Append(S[0], m + 1),
         \A r \in 1 .. N + 1 : T[r] = S[r]
  PROVE  /\ \A r \in 1 .. N + 2 : Beyond(T, r) = Beyond(S, r)
         /\ OnceInOrder(S, m) => OnceInOrder(T, m + 1)
         /\ NoneMissing(S, m) => NoneMissing(T, m + 1)
<1> DEFINE s == S[0]  t == T[0]
<1>1. N \in Nat /\ 0 \in 0 .. N + 1 /\ 0 + 1 = 1 /\ 1 \in 1 .. N + 2
  BY PipelineAssumption
<1>2. /\ Len(s) \in Nat /\ Len(t) = Len(s) + 1 /\ t[Len(s) + 1] = m + 1
      /\ DOMAIN s = 1 .. Len(s) /\ DOMAIN t = 1 .. Len(s) + 1
      /\ \A i \in 1 .. Len(s) : t[i] = s[i] /\ s[i] \in Nat
  <2>1. s \in Seq(Item) /\ t = Append(s, m + 1)
    BY <1>1 DEF Chain
  <2> HIDE DEF s, t
  <2> QED
    BY <2>1 DEF Item
<1>3. ASSUME NEW r \in 1 .. N + 2 PROVE Beyond(T, r) = Beyond(S, r)
  <2>1. \A k \in r .. N + 1 : T[k] = S[k]
    BY <1>1
  <2> QED
    BY <2>1 DEF Beyond
<1>4. Beyond(S, 0) = ToSet(s) \cup Beyond(S, 1) /\ Beyond(T, 0) = ToSet(t) \cup Beyond(S, 1)
  <2>1. /\ Beyond(S, 0) = ToSet(S[0]) \cup Beyond(S, 0 + 1)
        /\ Beyond(T, 0) = ToSet(T[0]) \cup Beyond(T, 0 + 1)
    BY <1>1, BeyondNext
  <2> QED
    BY <1>1, <1>3, <2>1
<1> HIDE DEF s, t
<1>5. Beyond(T, 0) = Beyond(S, 0) \cup {m + 1}
  <2>1. ToSet(t) = ToSet(s) \cup {m + 1}
    BY <1>2 DEF ToSet
  <2> QED
    BY <1>4, <2>1
<1>6. ASSUME Beyond(S, 0) = 1 .. m
      PROVE  /\ Beyond(T, 0) = 1 .. m + 1
             /\ \A x \in Beyond(S, 1) : x < m + 1
             /\ \A i \in 1 .. Len(s) : s[i] < m + 1
             /\ \A x \in 1 .. m : x \in Beyond(S, 1) \/ \E j \in 1 .. Len(s) : s[j] = x
  <2>1. (1 .. m) \cup {m + 1} = 1 .. m + 1 /\ \A x \in 1 .. m : x < m + 1
    OBVIOUS
  <2>2. ToSet(s) \subseteq 1 .. m /\ Beyond(S, 1) \subseteq 1 .. m
    BY <1>4, <1>6
  <2>3. \A i \in 1 .. Len(s) : s[i] \in ToSet(s)
    BY <1>2 DEF ToSet
  <2>4. \A x \in 1 .. m : x \in Beyond(S, 1) \/ x \in ToSet(s)
    BY <1>4, <1>6
  <2>5. \A x \in ToSet(s) : \E j \in 1 .. Len(s) : s[j] = x
    BY <1>2 DEF ToSet
  <2>6. \A i \in 1 .. Len(s) : s[i] < m + 1
    BY <2>1, <2>2, <2>3
  <2>7. Beyond(T, 0) = 1 .. m + 1 /\ \A x \in Beyond(S, 1) : x < m + 1
    BY <1>5, <1>6, <2>1, <2>2
  <2> QED
    BY <2>4, <2>5, <2>6, <2>7
<1>7. ASSUME OnceInOrder(S, m) PROVE OnceInOrder(T, m + 1)
  <2>1. Beyond(S, 0) = 1 .. m
    BY <1>7 DEF OnceInOrder
  <2>2. ASSUME NEW i \in DOMAIN t
        PROVE  (\A x \in Beyond(T, 1) : x < t[i]) /\ \A j \in 1 .. i - 1 : t[j] < t[i]
    <3>1. CASE i \in 1 .. Len(s)
      <4>1. \A x \in Beyond(S, 0 + 1) : x < s[i]
        BY <1>1, <1>2, <1>7, <3>1 DEF OnceInOrder, s
      <4>2. \A j \in 1 .. i - 1 : s[j] < s[i]
        BY <1>1, <1>2, <1>7, <3>1 DEF OnceInOrder, s
      <4>3. \A j \in 1 .. i - 1 : j \in 1 .. Len(s)
        BY <1>2, <3>1
      <4> QED
        BY <1>1, <1>2, <1>3, <3>1, <4>1, <4>2, <4>3
    <3>2. CASE i = Len(s) + 1
      <4>1. \A j \in 1 .. i - 1 : j \in 1 .. Len(s)
        BY <1>2, <3>2
      <4> QED
        BY <1>1, <1>2, <1>3, <1>6, <2>1, <3>2, <4>1
    <3> QED
      BY <1>2, <3>1, <3>2
  <2>3. ASSUME NEW r \in 0 .. N + 1, NEW i \in DOMAIN T[r]
        PROVE  /\ \A x \in Beyond(T, r + 1) : x < T[r][i]
               /\ \A j \in 1 .. i - 1 : T[r][j] < T[r][i]
    <3>1. CASE r = 0
      BY <1>1, <2>2, <2>3, <3>1 DEF t
    <3>2. CASE r # 0
      <4>1. r + 1 \in 1 .. N + 2 /\ T[r] = S[r]
        BY <1>1, <3>2
      <4> QED
        BY <1>3, <1>7, <2>3, <4>1 DEF OnceInOrder
    <3> QED
      BY <3>1, <3>2
  <2> QED
    BY <1>6, <2>1, <2>3 DEF OnceInOrder
<1>8. ASSUME NoneMissing(S, m) PROVE NoneMissing(T, m + 1)
  <2>1. Beyond(S, 0) = 1 .. m
    BY <1>8 DEF NoneMissing
  <2>2. ASSUME NEW i \in DOMAIN t, NEW x \in 1 .. t[i] - 1
        PROVE  x \in Beyond(T, 1) \/ \E j \in 1 .. i - 1 : t[j] = x
    <3>1. CASE i \in 1 .. Len(s)
      <4>1. x \in Beyond(S, 0 + 1) \/ \E j \in 1 .. i - 1 : s[j] = x
        BY <1>1, <1>2, <1>8, <3>1 DEF NoneMissing, s
      <4>2. \A j \in 1 .. i - 1 : t[j] = s[j]
        BY <1>2, <3>1
      <4> QED
        BY <1>1, <1>3, <4>1, <4>2
    <3>2. CASE i = Len(s) + 1
      <4>1. x \in 1 .. m /\ i - 1 = Len(s)
        BY <1>2, <3>2
      <4> QED
        BY <1>1, <1>2, <1>3, <1>6, <2>1, <4>1
    <3> QED
      BY <1>2, <3>1, <3>2
  <2>3. ASSUME NEW r \in 0 .. N + 1, NEW i \in DOMAIN T[r], NEW x \in 1 .. T[r][i] - 1
        PROVE  x \in Beyond(T, r + 1) \/ \E j \in 1 .. i - 1 : T[r][j] = x
    <3>1. CASE r = 0
      BY <1>1, <2>2, <2>3, <3>1 DEF t
    <3>2. CASE r # 0
      <4>1. r + 1 \in 1 .. N + 2 /\ T[r] = S[r]
        BY <1>1, <3>2
      <4> QED
        BY <1>3, <1>8, <2>3, <4>1 DEF NoneMissing
    <3> QED
      BY <3>1, <3>2
  <2> QED
    BY <1>6, <2>1, <2>3 DEF NoneMissing
<1> QED
  BY <1>3, <1>7, <1>8

(* An exception leaves blocks at the front of the parts they came from,    *)
(* which have gone on already.                                             *)
LEMMA Doubled ==
  ASSUME NEW S \in Chain, NEW T \in Chain, NEW m \in Nat, NEW k \in [0 .. N + 1 -> Nat],
         \A r \in 0 .. N + 1 :
           /\ Len(T[r]) = k[r] + Len(S[r])
           /\ \A i \in 1 .. Len(S[r]) : T[r][k[r] + i] = S[r][i]
           /\ \A i \in 1 .. k[r] : 1 .. T[r][i] \subseteq Beyond(S, r + 1),
         NoneMissing(S, m)
  PROVE  NoneMissing(T, m)
<1>1. N \in Nat /\ 0 \in 0 .. N + 2 /\ \A r \in 0 .. N + 1 : r + 1 \in 0 .. N + 2
  BY PipelineAssumption
<1>2. \A r \in 0 .. N + 1 : /\ DOMAIN S[r] = 1 .. Len(S[r]) /\ Len(S[r]) \in Nat /\ k[r] \in Nat
                            /\ DOMAIN T[r] = 1 .. k[r] + Len(S[r])
                            /\ \A i \in DOMAIN T[r] : T[r][i] \in Nat \ {0}
  <2>1. ASSUME NEW r \in 0 .. N + 1
        PROVE  /\ S[r] \in Seq(Item) /\ T[r] \in Seq(Item)
    BY DEF Chain
  <2> QED
    BY <2>1 DEF Item
<1>3. ASSUME NEW r \in 0 .. N + 2 PROVE Beyond(S, r) \subseteq Beyond(T, r)
  <2>1. ASSUME NEW l \in r .. N + 1, NEW i \in 1 .. Len(S[l])
        PROVE  \E j \in 1 .. Len(T[l]) : S[l][i] = T[l][j]
    <3>1. l \in 0 .. N + 1
      BY <1>1
    <3>2. k[l] \in Nat /\ Len(S[l]) \in Nat /\ Len(T[l]) = k[l] + Len(S[l])
      BY <1>2, <3>1
    <3>3. T[l][k[l] + i] = S[l][i]
      BY <3>1
    <3>4. k[l] + i \in 1 .. Len(T[l])
      BY <3>2
    <3> QED
      BY <3>3, <3>4
  <2>2. /\ \A x : x \in Beyond(S, r) <=> \E l \in r .. N + 1 : \E i \in 1 .. Len(S[l]) : x = S[l][i]
        /\ \A x : x \in Beyond(T, r) <=> \E l \in r .. N + 1 : \E i \in 1 .. Len(T[l]) : x = T[l][i]
    BY BeyondHas
  <2>3. ASSUME NEW x \in Beyond(S, r) PROVE x \in Beyond(T, r)
    <3>1. PICK l \in r .. N + 1 : \E i \in 1 .. Len(S[l]) : x = S[l][i]
      BY <2>2
    <3>3. PICK i \in 1 .. Len(S[l]) : x = S[l][i]
      BY <3>1
    <3>2. PICK j \in 1 .. Len(T[l]) : S[l][i] = T[l][j]
      BY <2>1
    <3> QED
      BY <2>2, <3>2, <3>3
  <2> QED
    BY <2>3
<1>4. ASSUME NEW r \in 0 .. N + 1, NEW i \in 1 .. k[r]
      PROVE  T[r][i] \in Beyond(S, 0) /\ T[r][i] \in Nat \ {0}
  <2>1. i \in DOMAIN T[r]
    BY <1>2
  <2>2. T[r][i] \in Nat \ {0}
    BY <1>2, <2>1
  <2>3. T[r][i] \in 1 .. T[r][i]
    BY <2>2
  <2>4. T[r][i] \in Beyond(S, r + 1)
    BY <2>3
  <2>5. r + 1 .. N + 1 \subseteq 0 .. N + 1
    BY <1>1
  <2>6. Beyond(S, r + 1) \subseteq Beyond(S, 0)
    BY <2>5 DEF Beyond
  <2> QED
    BY <2>2, <2>4, <2>6
<1>5. ASSUME NEW r \in 0 .. N + 1, NEW i \in DOMAIN T[r], ~ i \in 1 .. k[r]
      PROVE  \E j \in 1 .. Len(S[r]) : i = k[r] + j /\ T[r][i] = S[r][j]
  <2> DEFINE j == i - k[r]
  <2>2. k[r] \in Nat /\ Len(S[r]) \in Nat /\ i \in 1 .. k[r] + Len(S[r])
    BY <1>2
  <2>1. j \in 1 .. Len(S[r]) /\ i = k[r] + j
    BY <1>5, <2>2
  <2> HIDE DEF j
  <2> QED
    BY <2>1
<1>6. Beyond(T, 0) = Beyond(S, 0)
  <2>1. ASSUME NEW r \in 0 .. N + 1, NEW i \in 1 .. Len(T[r]) PROVE T[r][i] \in Beyond(S, 0)
    <3>1. i \in DOMAIN T[r]
      BY <1>2
    <3>2. ASSUME NEW j \in 1 .. Len(S[r]) PROVE S[r][j] \in Beyond(S, 0)
      BY <1>1, BeyondHas
    <3>3. CASE i \in 1 .. k[r]
      BY <1>4, <3>3
    <3>4. CASE ~ i \in 1 .. k[r]
      BY <1>5, <3>1, <3>2, <3>4
    <3> QED
      BY <3>3, <3>4
  <2>2. Beyond(T, 0) \subseteq Beyond(S, 0)
    <3>1. \A x : x \in Beyond(T, 0) <=> \E l \in 0 .. N + 1 : \E i \in 1 .. Len(T[l]) : x = T[l][i]
      BY <1>1, BeyondHas
    <3> QED
      BY <2>1, <3>1
  <2> QED
    BY <1>1, <1>3, <2>2
<1>7. ASSUME NEW r \in 0 .. N + 1, NEW i \in DOMAIN T[r], NEW x \in 1 .. T[r][i] - 1
      PROVE  x \in Beyond(T, r + 1) \/ \E j \in 1 .. i - 1 : T[r][j] = x
  <2>1. CASE i \in 1 .. k[r]
    <3>1. x \in 1 .. T[r][i]
      BY <1>4, <2>1
    <3> QED
      BY <1>1, <1>3, <2>1, <3>1
  <2>2. CASE ~ i \in 1 .. k[r]
    <3>1. PICK j \in 1 .. Len(S[r]) : i = k[r] + j /\ T[r][i] = S[r][j]
      BY <1>5, <1>7, <2>2
    <3>2. x \in Beyond(S, r + 1) \/ \E l \in 1 .. j - 1 : S[r][l] = x
      BY <1>2, <3>1 DEF NoneMissing
    <3>3. ASSUME NEW l \in 1 .. j - 1, S[r][l] = x PROVE \E h \in 1 .. i - 1 : T[r][h] = x
      <4>1. k[r] + l \in 1 .. i - 1 /\ l \in 1 .. Len(S[r])
        BY <1>2, <3>1
      <4> QED
        BY <3>3, <4>1
    <3> QED
      BY <1>1, <1>3, <3>2, <3>3
  <2> QED
    BY <2>1, <2>2
<1> QED
  BY <1>6, <1>7 DEF NoneMissing

(* Where an actor can be.                                                  *)
Places == {"outside", "begin_read", "begin_write", "end_write", "end_read", "return"}

(* The types, with no bound on what was pushed or popped.                  *)
TypeInv ==
  /\ fifo \in [Queues -> Seq(Item)] /\ received \in Seq(Item) /\ sent \in Nat
  /\ m_last \in [Queues -> Nat] /\ active \in 0 .. N + 1 /\ thrown \in BOOLEAN
  /\ pc \in [Queues -> Places]

(* Who is not on the stack is outside, and resume_write is called with     *)
(* nobody below.                                                           *)
StackInv ==
  \A a \in Queues :
    /\ a >= active => pc[a] = "outside"
    /\ pc[a] = "return" => \A b \in 0 .. a - 1 : pc[b] = "outside"

(* A queue holds no more than its capacity, and begin_write left room for  *)
(* the block that end_write will commit.                                   *)
RoomInv ==
  \A q \in Queues :
    /\ Len(fifo[q]) <= Capacity[q] /\ m_last[q] < Capacity[q]
    /\ pc[q] = "end_write" => Len(fifo[q]) + Count(q) <= Capacity[q]

(* Between begin_read and end_read the block of process p stays at the     *)
(* front of its queue, without wrapping: nobody else reads that queue,     *)
(* whatever the calls in between do.                                       *)
BlockInv ==
  \A p \in Processes : pc[p] \in {"begin_write", "end_write", "end_read"} =>
    Len(fifo[p - 1]) >= Blocksize[p] /\ m_last[p - 1] + Blocksize[p] <= Capacity[p - 1]

(* The invariant of the control: where the stack is and what it may rely   *)
(* on.                                                                     *)
Control == TypeInv /\ StackInv /\ RoomInv /\ BlockInv

(* A process that is about to call end_read has committed the result of    *)
(* its block: the elements of the block, and all before them, are in the   *)
(* queue it writes or beyond. An exception that finds it there doubles its *)
(* block, and this is why nothing is missing then.                         *)
Handed ==
  \A p \in Processes : pc[p] = "end_read" =>
    \A i \in 1 .. Blocksize[p] : 1 .. fifo[p - 1][i] \subseteq Beyond(Parts, p)

(* The invariant of the data.                                              *)
ChainInv == NoneMissing(Parts, sent) /\ (~ thrown => OnceInOrder(Parts, sent)) /\ Handed

(* The constants.                                                          *)
LEMMA PipelineTypes ==
  /\ N \in Nat /\ Queues = 0 .. N /\ Processes = 1 .. N
  /\ \A q \in Queues : Capacity[q] \in Nat \ {0} /\ Count(q) \in Nat
  /\ \A p \in Processes : /\ Blocksize[p] \in Nat \ {0} /\ Count(p) = Blocksize[p]
                          /\ p \in Queues /\ p - 1 \in Queues /\ p # 0
BY PipelineAssumption DEF Queues, Processes, Count

(* The variables.                                                          *)
LEMMA ControlTypes ==
  ASSUME Control
  PROVE  /\ active \in Nat
         /\ \A q \in Queues :
              /\ fifo[q] \in Seq(Item) /\ Len(fifo[q]) \in Nat /\ m_last[q] \in Nat
              /\ pc[q] \in Places
BY PipelineTypes DEF Control, TypeInv

(* What begin_read offers is there, and does not wrap.                     *)
LEMMA OfferedIsThere ==
  ASSUME Control, NEW p \in Processes, ReadOffered(p) >= Blocksize[p]
  PROVE  /\ Len(fifo[p - 1]) >= Blocksize[p]
         /\ m_last[p - 1] + Blocksize[p] <= Capacity[p - 1]
<1> DEFINE cap == Capacity[p - 1]  last == m_last[p - 1]  size == Len(fifo[p - 1])
<1>1. /\ cap \in Nat \ {0} /\ last \in Nat /\ size \in Nat /\ last < cap /\ size <= cap
      /\ Blocksize[p] \in Nat \ {0}
  BY PipelineTypes, ControlTypes DEF Control, RoomInv
<1>2. ReadOffered(p) = ReadRoom(cap, Wrap(cap, last + size), last, size)
  BY DEF ReadOffered, m_first, m_size
<1> HIDE DEF cap, last, size
<1>3. size >= Blocksize[p] /\ last + Blocksize[p] <= cap
  BY <1>1, <1>2 DEF ReadRoom, Wrap
<1> QED
  BY <1>3 DEF cap, last, size

(* Actor a goes on at another place.                                       *)
LEMMA GoesTo ==
  ASSUME Control, NEW a \in Queues, active = a + 1, NEW place,
         place \in Places,
         pc' = [pc EXCEPT ![a] = place]
  PROVE  /\ pc' \in [Queues -> Places]
         /\ pc'[a] = place /\ \A b \in Queues : b # a => pc'[b] = pc[b]
BY PipelineTypes DEF Control, TypeInv

(* The actor at the top of the stack goes on, or returns.                  *)
LEMMA StackGoes ==
  ASSUME Control, NEW a \in Queues, active = a + 1, NEW place,
         place \in Places,
         pc' = [pc EXCEPT ![a] = place],
         \/ active' = active
         \/ place = "outside" /\ active' = a,
         place = "return" => a = 0
  PROVE  StackInv'
<1>1. pc'[a] = place /\ \A b \in Queues : b # a => pc'[b] = pc[b]
  BY GoesTo
<1>2. N \in Nat /\ Queues = 0 .. N /\ a \in Nat
  BY PipelineTypes
<1>3. ASSUME NEW b \in Queues, b >= active' PROVE pc'[b] = "outside"
  BY <1>1, <1>2, <1>3 DEF Control, StackInv
<1>4. ASSUME NEW b \in Queues, pc'[b] = "return", NEW c \in 0 .. b - 1 PROVE pc'[c] = "outside"
  <2>1. CASE b = a
    BY <1>1, <1>2, <1>4, <2>1
  <2>2. CASE b # a
    <3>1. pc[b] = "return" /\ b < active
      BY <1>1, <1>2, <1>4, <2>2 DEF Control, StackInv
    <3>2. c \in Queues /\ c # a
      BY <1>2, <3>1
    <3> QED
      BY <1>1, <3>1, <3>2 DEF Control, StackInv
  <2> QED
    BY <2>1, <2>2
<1> QED
  BY <1>3, <1>4 DEF StackInv

(* Actor a calls the process that reads its queue.                         *)
LEMMA StackCalls ==
  ASSUME Control, NEW a \in Queues, a < N, active = a + 1, NEW place,
         place \in {"begin_write", "end_read", "return"}, place = "return" => a = 0,
         GoToAndCall(a, place)
  PROVE  /\ StackInv' /\ active' \in 0 .. N + 1
         /\ pc' \in [Queues -> Places]
         /\ pc'[a] = place /\ pc[a + 1] = "outside" /\ pc'[a + 1] = "begin_read"
         /\ \A b \in Queues : b \notin {a, a + 1} => pc'[b] = pc[b]
<1>1. N \in Nat /\ Queues = 0 .. N /\ a \in Nat /\ a + 1 \in Queues /\ active' = active + 1
  BY PipelineTypes DEF GoToAndCall
<1>2. /\ pc' \in [Queues -> Places]
      /\ pc'[a] = place /\ pc'[a + 1] = "begin_read"
      /\ \A b \in Queues : b \notin {a, a + 1} => pc'[b] = pc[b]
  <2>1. pc \in [Queues -> Places] /\ place \in Places /\ "begin_read" \in Places
    BY DEF Control, TypeInv, Places
  <2>2. pc' = [pc EXCEPT ![a] = place, ![a + 1] = "begin_read"] /\ a + 1 # a
    BY <1>1 DEF GoToAndCall
  <2> QED
    BY <1>1, <2>1, <2>2
<1>3. ASSUME NEW b \in Queues, b >= active' PROVE pc'[b] = "outside"
  BY <1>1, <1>2, <1>3 DEF Control, StackInv
<1>4. ASSUME NEW b \in Queues, pc'[b] = "return", NEW c \in 0 .. b - 1 PROVE pc'[c] = "outside"
  <2>1. CASE b = a
    BY <1>1, <1>2, <1>4, <2>1
  <2>2. CASE b # a
    <3>1. b # a + 1 /\ pc[b] = "return" /\ b < active
      BY <1>1, <1>2, <1>4, <2>2 DEF Control, StackInv
    <3>2. c \in Queues /\ c \notin {a, a + 1}
      BY <1>1, <2>2, <3>1
    <3> QED
      BY <1>2, <3>1, <3>2 DEF Control, StackInv
  <2> QED
    BY <2>1, <2>2
<1>5. pc[a + 1] = "outside"
  BY <1>1 DEF Control, StackInv
<1> QED
  BY <1>1, <1>2, <1>3, <1>4, <1>5 DEF StackInv

(* A step that moves no element.                                           *)
LEMMA NothingMoves ==
  ASSUME Control, UNCHANGED << fifo, m_last, received, sent >>, active' \in 0 .. N + 1,
         thrown' \in BOOLEAN, pc' \in [Queues -> Places], StackInv',
         \A q \in Queues : pc'[q] = "end_write" =>
           pc[q] = "end_write" \/ Len(fifo[q]) + Count(q) <= Capacity[q],
         \A p \in Processes : pc'[p] \in {"begin_write", "end_write", "end_read"} =>
           \/ pc[p] \in {"begin_write", "end_write", "end_read"}
           \/ Len(fifo[p - 1]) >= Blocksize[p] /\ m_last[p - 1] + Blocksize[p] <= Capacity[p - 1]
  PROVE  Control'
<1>1. TypeInv'
  BY DEF Control, TypeInv
<1>2. RoomInv'
  BY DEF Control, RoomInv, Count
<1>3. BlockInv'
  BY DEF Control, BlockInv
<1> QED
  BY <1>1, <1>2, <1>3 DEF Control

(* process_one returns, or has a block to process.                         *)
LEMMA BeginReadControl ==
  ASSUME Control, NEW p \in Processes, BeginRead(p)
  PROVE  Control'
<1>1. /\ p \in Queues /\ active = p + 1 /\ pc[p] = "begin_read" /\ active \in 0 .. N + 1
      /\ UNCHANGED << fifo, m_last, received, sent, thrown >> /\ thrown \in BOOLEAN
      /\ p \in Nat
  BY PipelineTypes DEF BeginRead, At, Control, TypeInv
<1>2. CASE ReadOffered(p) < Blocksize[p]
  <2>1. pc' = [pc EXCEPT ![p] = "outside"] /\ active' = p
    BY <1>1, <1>2 DEF BeginRead
  <2>2. StackInv'
    BY <1>1, <2>1, StackGoes DEF Places
  <2>3. /\ pc' \in [Queues -> Places] /\ pc'[p] = "outside"
        /\ \A b \in Queues : b # p => pc'[b] = pc[b]
    BY <1>1, <2>1, GoesTo DEF Places
  <2>4. active' \in 0 .. N + 1
    BY <1>1, <2>1, PipelineTypes
  <2>5. /\ \A q \in Queues : pc'[q] = "end_write" => pc[q] = "end_write"
        /\ \A b \in Processes : pc'[b] \in {"begin_write", "end_write", "end_read"} =>
             pc[b] \in {"begin_write", "end_write", "end_read"}
    BY <2>3, PipelineTypes
  <2> QED
    BY <1>1, <2>2, <2>3, <2>4, <2>5, NothingMoves
<1>3. CASE ~ ReadOffered(p) < Blocksize[p]
  <2>1. pc' = [pc EXCEPT ![p] = "begin_write"] /\ active' = active
    BY <1>3 DEF BeginRead, GoTo
  <2>2. StackInv'
    BY <1>1, <2>1, StackGoes DEF Places
  <2>3. /\ pc' \in [Queues -> Places] /\ pc'[p] = "begin_write"
        /\ \A b \in Queues : b # p => pc'[b] = pc[b]
    BY <1>1, <2>1, GoesTo DEF Places
  <2>4. ReadOffered(p) >= Blocksize[p]
    <3>1. ReadOffered(p) \in Nat /\ Blocksize[p] \in Nat
      <4>1. /\ Capacity[p - 1] \in Nat /\ m_last[p - 1] \in Nat /\ Len(fifo[p - 1]) \in Nat
            /\ m_last[p - 1] < Capacity[p - 1] /\ Len(fifo[p - 1]) <= Capacity[p - 1]
            /\ Blocksize[p] \in Nat
        BY PipelineTypes, ControlTypes DEF Control, RoomInv
      <4> QED
        BY <4>1 DEF ReadOffered, ReadRoom, m_first, m_size, Wrap
    <3> QED
      BY <1>3, <3>1
  <2>5. /\ Len(fifo[p - 1]) >= Blocksize[p]
        /\ m_last[p - 1] + Blocksize[p] <= Capacity[p - 1]
    BY <2>4, OfferedIsThere
  <2>6. /\ \A q \in Queues : pc'[q] = "end_write" => pc[q] = "end_write"
        /\ \A b \in Processes : b # p => pc'[b] = pc[b]
    BY <2>3, PipelineTypes
  <2> QED
    BY <1>1, <2>1, <2>2, <2>3, <2>5, <2>6, NothingMoves
<1> QED
  BY <1>2, <1>3

(* begin_write returns with room, or calls the next process.               *)
LEMMA BeginWriteControl ==
  ASSUME Control, NEW a \in Queues, BeginWriteReturns(a) \/ BeginWriteRunsNext(a)
  PROVE  Control'
<1>1. /\ active = a + 1 /\ pc[a] = "begin_write" /\ active \in 0 .. N + 1
      /\ UNCHANGED << fifo, m_last, received, sent, thrown >> /\ thrown \in BOOLEAN
  BY DEF BeginWriteReturns, BeginWriteRunsNext, At, Control, TypeInv
<1>2. CASE BeginWriteReturns(a)
  <2>1. pc' = [pc EXCEPT ![a] = "end_write"] /\ active' = active
    BY <1>2 DEF BeginWriteReturns, GoTo
  <2>2. StackInv'
    BY <1>1, <2>1, StackGoes DEF Places
  <2>3. /\ pc' \in [Queues -> Places] /\ pc'[a] = "end_write"
        /\ \A b \in Queues : b # a => pc'[b] = pc[b]
    BY <1>1, <2>1, GoesTo DEF Places
  <2>4. Len(fifo[a]) + Count(a) <= Capacity[a]
    <3>1. Capacity[a] - Len(fifo[a]) >= Count(a)
      BY <1>2 DEF BeginWriteReturns, available, m_size
    <3> QED
      BY <3>1, PipelineTypes, ControlTypes
  <2>5. /\ \A q \in Queues : q # a => pc'[q] = pc[q]
        /\ \A b \in Processes : pc'[b] \in {"begin_write", "end_write", "end_read"} =>
             pc[b] \in {"begin_write", "end_write", "end_read"}
    BY <1>1, <2>3, PipelineTypes
  <2> QED
    BY <1>1, <2>1, <2>2, <2>3, <2>4, <2>5, NothingMoves
<1>3. CASE BeginWriteRunsNext(a)
  <2>1. GoToAndCall(a, "begin_write") /\ a < N
    BY <1>3 DEF BeginWriteRunsNext
  <2>2. /\ StackInv' /\ active' \in 0 .. N + 1 /\ pc' \in [Queues -> Places]
        /\ pc'[a] = "begin_write" /\ pc'[a + 1] = "begin_read"
        /\ \A b \in Queues : b \notin {a, a + 1} => pc'[b] = pc[b]
    BY <1>1, <2>1, StackCalls
  <2>3. /\ \A q \in Queues : pc'[q] = "end_write" => pc[q] = "end_write"
        /\ \A b \in Processes : pc'[b] \in {"begin_write", "end_write", "end_read"} =>
             pc[b] \in {"begin_write", "end_write", "end_read"}
    BY <1>1, <2>2, PipelineTypes
  <2> QED
    BY <1>1, <2>2, <2>3, NothingMoves
<1> QED
  BY <1>2, <1>3

(* Nobody is on the stack afterwards.                                      *)
LEMMA NobodyStays ==
  ASSUME Control, active' = 0, pc' = [a \in Queues |-> "outside"], thrown' \in BOOLEAN,
         UNCHANGED << fifo, m_last, received, sent >>
  PROVE  Control'
<1>1. pc' \in [Queues -> Places] /\ \A a \in Queues : pc'[a] = "outside"
  BY DEF Places
<1>2. StackInv'
  BY <1>1, PipelineTypes DEF StackInv
<1>3. active' \in 0 .. N + 1 /\ \A p \in Processes : pc'[p] = "outside"
  BY <1>1, PipelineTypes
<1> QED
  BY <1>1, <1>2, <1>3, NothingMoves

(* push_one and resume_write return to an empty stack.                     *)
LEMMA ReturnControl ==
  ASSUME Control, NEW a \in Queues, Return(a)
  PROVE  Control'
<1>1. /\ active = a + 1 /\ pc[a] = "return" /\ pc' = [pc EXCEPT ![a] = "outside"] /\ active' = 0
      /\ UNCHANGED << fifo, m_last, received, sent, thrown >> /\ thrown \in BOOLEAN
      /\ pc \in [Queues -> Places]
  BY DEF Return, At, Control, TypeInv
<1>2. ASSUME NEW b \in Queues, b # a PROVE pc[b] = "outside"
  <2>1. b \in 0 .. a - 1 \/ b >= active
    BY <1>1, <1>2, PipelineTypes
  <2> QED
    BY <1>1, <2>1 DEF Control, StackInv
<1>3. pc' = [b \in Queues |-> "outside"]
  BY <1>1, <1>2
<1> QED
  BY <1>1, <1>3, NobodyStays

(* They are called from an empty stack.                                    *)
LEMMA CallControl ==
  ASSUME Control, push_one \/ \E q \in 0 .. N - 1 : resume_write(q)
  PROVE  Control'
<1>1. /\ active = 0 /\ thrown \in BOOLEAN /\ pc \in [Queues -> Places] /\ 0 \in Queues
      /\ UNCHANGED << fifo, m_last, received, sent, thrown >>
      /\ \A a \in Queues : pc[a] = "outside"
  BY PipelineTypes DEF push_one, resume_write, Control, TypeInv, StackInv
<1>2. CASE push_one
  <2>1. pc' = [pc EXCEPT ![0] = "begin_write"] /\ active' = 1
    BY <1>2 DEF push_one
  <2>2. /\ pc' \in [Queues -> Places] /\ pc'[0] = "begin_write"
        /\ \A a \in Queues : a # 0 => pc'[a] = "outside"
    BY <1>1, <2>1 DEF Places
  <2>3. StackInv'
    BY <2>1, <2>2, PipelineTypes DEF StackInv
  <2>4. /\ active' \in 0 .. N + 1 /\ \A p \in Processes : pc'[p] = "outside"
        /\ \A q \in Queues : pc'[q] # "end_write"
    BY <2>1, <2>2, PipelineTypes
  <2> QED
    BY <1>1, <2>2, <2>3, <2>4, NothingMoves
<1>3. ASSUME NEW q \in 0 .. N - 1, resume_write(q) PROVE Control'
  <2>1. /\ pc' = [pc EXCEPT ![q] = "return", ![q + 1] = "begin_read"] /\ active' = q + 2
        /\ q \in Queues /\ q + 1 \in Queues /\ q # q + 1 /\ q \in Nat
    BY <1>3, PipelineTypes DEF resume_write
  <2>2. /\ pc' \in [Queues -> Places] /\ pc'[q] = "return" /\ pc'[q + 1] = "begin_read"
        /\ \A a \in Queues : a \notin {q, q + 1} => pc'[a] = "outside"
    BY <1>1, <2>1 DEF Places
  <2>3. StackInv'
    BY <2>1, <2>2, PipelineTypes DEF StackInv
  <2>4. \A p \in Queues : pc'[p] \in {"return", "begin_read", "outside"}
    BY <2>2
  <2>5. /\ \A p \in Processes : pc'[p] \notin {"begin_write", "end_write", "end_read"}
        /\ \A p \in Queues : pc'[p] # "end_write"
    BY <2>4, PipelineTypes
  <2>6. active' \in 0 .. N + 1
    BY <2>1, PipelineTypes
  <2> QED
    BY <1>1, <2>2, <2>3, <2>5, <2>6, NothingMoves
<1> QED
  BY <1>2, <1>3

(* A sequence without its first n elements, and those.                     *)
LEMMA BlockOfSeq ==
  ASSUME NEW s \in Seq(Item), NEW n \in 0 .. Len(s)
  PROVE  /\ SubSeq(s, n + 1, Len(s)) \in Seq(Item) /\ Len(SubSeq(s, n + 1, Len(s))) = Len(s) - n
         /\ \A i \in 1 .. Len(s) - n : SubSeq(s, n + 1, Len(s))[i] = s[n + i]
         /\ SubSeq(s, 1, n) \in Seq(Item) /\ Len(SubSeq(s, 1, n)) = n
OBVIOUS

(* What the parts are in terms of the queues.                              *)
PartsOK ==
  /\ Parts \in Chain /\ Parts[N + 1] = received /\ N + 1 \notin Queues
  /\ \A q \in Queues :
       /\ q \in 0 .. N + 1 /\ q # N + 1
       /\ (q = N \/ pc[q + 1] # "end_read") => Parts[q] = fifo[q]
       /\ (q < N /\ pc[q + 1] = "end_read") =>
            /\ Parts[q] = SubSeq(fifo[q], Blocksize[q + 1] + 1, Len(fifo[q]))
            /\ Blocksize[q + 1] \in 0 .. Len(fifo[q])

(* The places of the chain hold sequences of elements.                     *)
LEMMA PartsAre == Control => PartsOK
<1> SUFFICES ASSUME Control PROVE PartsOK
  OBVIOUS
<1>1. N \in Nat /\ Queues = 0 .. N /\ \A q \in Queues : q \in 0 .. N + 1 /\ q # N + 1
  BY PipelineTypes
<1>2. \A q \in 0 .. N + 1 : Parts[q] = IF q = N + 1 THEN received ELSE Pending(q)
  BY DEF Parts
<1>3. \A q \in Queues :
        /\ (q = N \/ pc[q + 1] # "end_read") => Parts[q] = fifo[q]
        /\ (q < N /\ pc[q + 1] = "end_read") =>
             Parts[q] = SubSeq(fifo[q], Blocksize[q + 1] + 1, Len(fifo[q]))
  <2> SUFFICES ASSUME NEW q \in Queues
               PROVE  /\ (q = N \/ pc[q + 1] # "end_read") => Parts[q] = fifo[q]
                      /\ (q < N /\ pc[q + 1] = "end_read") =>
                           Parts[q] = SubSeq(fifo[q], Blocksize[q + 1] + 1, Len(fifo[q]))
    OBVIOUS
  <2>1. Parts[q] = Pending(q) /\ q \in 0 .. N /\ ~ (q = N /\ q < N)
    BY <1>1, <1>2
  <2> QED
    BY <2>1 DEF Pending, m_size
<1>4. \A q \in Queues : q < N /\ pc[q + 1] = "end_read" => Blocksize[q + 1] \in 0 .. Len(fifo[q])
  <2> SUFFICES ASSUME NEW q \in Queues, q < N, pc[q + 1] = "end_read"
               PROVE  Blocksize[q + 1] \in 0 .. Len(fifo[q])
    OBVIOUS
  <2>1. q + 1 \in Processes /\ (q + 1) - 1 = q
    BY <1>1, PipelineTypes
  <2>2. Len(fifo[q]) >= Blocksize[q + 1]
    BY <2>1 DEF Control, BlockInv
  <2> QED
    BY <2>1, <2>2, PipelineTypes, ControlTypes
<1>5. received \in Seq(Item) /\ \A q \in Queues : Parts[q] \in Seq(Item)
  <2>1. received \in Seq(Item) /\ \A q \in Queues : fifo[q] \in Seq(Item)
    BY ControlTypes DEF Control, TypeInv
  <2>2. ASSUME NEW q \in Queues, q < N, pc[q + 1] = "end_read" PROVE Parts[q] \in Seq(Item)
    BY <1>3, <1>4, <2>1, <2>2, BlockOfSeq
  <2> QED
    BY <1>1, <1>3, <2>1, <2>2
<1>6. Parts \in Chain
  <2>1. ASSUME NEW q \in 0 .. N + 1 PROVE Parts[q] \in Seq(Item)
    BY <1>1, <1>2, <1>5
  <2> QED
    BY <2>1 DEF Parts, Chain
<1>7. Parts[N + 1] = received /\ N + 1 \notin Queues
  BY <1>1, <1>2
<1> QED
  BY <1>1, <1>3, <1>4, <1>6, <1>7 DEF PartsOK

(* ... also after a step.                                                  *)
LEMMA PartsAfter == Control' => PartsOK'
BY PartsAre, PTL

(* What leaves the parts as they are.                                      *)
LEMMA PartsKept ==
  ASSUME Control, Control', UNCHANGED << received, sent >>, ChainInv,
         thrown => thrown',
         \A q \in Queues : Parts'[q] = Parts[q],
         \A p \in Processes : pc'[p] = "end_read" =>
           pc[p] = "end_read" /\ fifo'[p - 1] = fifo[p - 1]
  PROVE  ChainInv'
<1>1. Parts' = Parts
  <2>1. Parts \in Chain /\ Parts' \in Chain /\ Parts'[N + 1] = Parts[N + 1]
    BY PartsAre, PartsAfter DEF PartsOK
  <2>2. \A q \in 0 .. N + 1 : Parts'[q] = Parts[q]
    BY <2>1, PipelineTypes
  <2>3. /\ Parts = [q \in 0 .. N + 1 |-> Parts[q]]
        /\ Parts' = [q \in 0 .. N + 1 |-> Parts'[q]]
    BY <2>1 DEF Chain
  <2> QED
    BY <2>2, <2>3
<1>2. Handed'
  BY <1>1 DEF ChainInv, Handed
<1> QED
  BY <1>1, <1>2 DEF ChainInv

(* A step that leaves the queues alone, and nobody on his way into or out  *)
(* of end_read, leaves the parts as they are.                              *)
LEMMA ParkedKept ==
  ASSUME Control, Control', ChainInv, UNCHANGED << fifo, received, sent, thrown >>,
         \A p \in Processes : pc'[p] = "end_read" <=> pc[p] = "end_read"
  PROVE  ChainInv'
<1>1. ASSUME NEW q \in Queues PROVE Parts'[q] = Parts[q]
  <2>1. q < N => q + 1 \in Processes
    BY PipelineTypes
  <2>2. /\ q \in 0 .. N + 1 /\ q # N + 1
        /\ q < N => (pc'[q + 1] = "end_read" <=> pc[q + 1] = "end_read")
    BY <2>1, PipelineTypes
  <2>3. Parts[q] = Pending(q) /\ Parts'[q] = Pending(q)'
    BY <2>2 DEF Parts
  <2>4. Pending(q)' = Pending(q)
    BY <2>2 DEF Pending, m_size
  <2> QED
    BY <2>3, <2>4
<1> QED
  BY <1>1, PartsKept

(* end_read takes the block out of the queue it was in. It had gone on     *)
(* when its result was committed, so no part changes.                      *)
LEMMA EndReadStep ==
  ASSUME Control, ChainInv, NEW p \in Processes, EndRead(p)
  PROVE  Control' /\ ChainInv'
<1> DEFINE q == p - 1  s == fifo[q]  n == Blocksize[p]  rest == SubSeq(s, n + 1, Len(s))
<1>1. /\ p \in Queues /\ q \in Queues /\ q # p /\ q < N /\ q + 1 = p /\ n \in Nat \ {0}
      /\ Capacity[q] \in Nat /\ m_last[q] \in Nat
      /\ s \in Seq(Item) /\ Len(s) \in Nat /\ p \in Nat /\ N \in Nat
  BY PipelineTypes, ControlTypes
<1>2. /\ active = p + 1 /\ pc[p] = "end_read" /\ active' = active /\ active \in 0 .. N + 1
      /\ pc' = [pc EXCEPT ![p] = "begin_read"]
      /\ fifo' = [fifo EXCEPT ![q] = rest]
      /\ m_last' = [m_last EXCEPT ![q] = Increment(Capacity[q], m_last[q], n)]
      /\ UNCHANGED << received, sent, thrown >> /\ thrown \in BOOLEAN /\ received \in Seq(Item)
      /\ sent \in Nat
  BY DEF EndRead, At, GoTo, Control, TypeInv
<1>3. Len(s) >= n /\ m_last[q] + n <= Capacity[q] /\ n \in 0 .. Len(s)
  <2>1. Len(s) >= n /\ m_last[q] + n <= Capacity[q]
    BY <1>2 DEF Control, BlockInv
  <2> QED
    BY <1>1, <2>1
<1>4. rest \in Seq(Item) /\ Len(rest) = Len(s) - n
  <2> HIDE DEF s, n
  <2> QED
    BY <1>1, <1>3, BlockOfSeq
<1> HIDE DEF rest, s, n, q
<1>5. /\ fifo' \in [Queues -> Seq(Item)] /\ fifo'[q] = rest
      /\ \A r \in Queues : r # q => fifo'[r] = fifo[r]
  BY <1>1, <1>2, <1>4 DEF Control, TypeInv
<1>6. /\ m_last' \in [Queues -> Nat] /\ m_last'[q] < Capacity[q]
      /\ \A r \in Queues : r # q => m_last'[r] = m_last[r]
  <2>1. /\ Increment(Capacity[q], m_last[q], n) \in Nat
        /\ Increment(Capacity[q], m_last[q], n) < Capacity[q]
    BY <1>1, <1>3 DEF Increment
  <2> QED
    BY <1>1, <1>2, <2>1 DEF Control, TypeInv
<1>7. StackInv'
  BY <1>1, <1>2, StackGoes DEF Places
<1>8. /\ pc' \in [Queues -> Places] /\ pc'[p] = "begin_read"
      /\ \A r \in Queues : r # p => pc'[r] = pc[r]
  BY <1>1, <1>2, GoesTo DEF Places
<1>9. RoomInv'
  <2>1. ASSUME NEW r \in Queues
        PROVE  /\ Len(fifo'[r]) <= Capacity[r] /\ m_last'[r] < Capacity[r]
               /\ pc'[r] = "end_write" => Len(fifo'[r]) + Count(r) <= Capacity[r]
    <3>1. /\ Len(fifo[r]) <= Capacity[r] /\ m_last[r] < Capacity[r]
          /\ pc[r] = "end_write" => Len(fifo[r]) + Count(r) <= Capacity[r]
      BY DEF Control, RoomInv
    <3>2. Len(fifo'[r]) <= Len(fifo[r]) /\ Len(fifo'[r]) \in Nat /\ Len(fifo[r]) \in Nat
          /\ Capacity[r] \in Nat /\ Count(r) \in Nat
      <4>1. r = q => Len(fifo'[r]) = Len(fifo[r]) - n
        BY <1>4, <1>5 DEF s
      <4>2. Len(fifo'[r]) \in Nat
        BY <1>5
      <4>3. Len(fifo[r]) \in Nat /\ Capacity[r] \in Nat /\ Count(r) \in Nat /\ n \in Nat
        BY <1>1, PipelineTypes, ControlTypes
      <4>4. r # q => Len(fifo'[r]) = Len(fifo[r])
        BY <1>5
      <4> QED
        BY <4>1, <4>2, <4>3, <4>4
    <3>3. m_last'[r] < Capacity[r] /\ (pc'[r] = "end_write" => pc[r] = "end_write")
      BY <1>6, <1>8, <3>1
    <3> QED
      BY <3>1, <3>2, <3>3
  <2> QED
    BY <2>1 DEF RoomInv, Count
<1>10. BlockInv'
  <2>1. ASSUME NEW r \in Processes, pc'[r] \in {"begin_write", "end_write", "end_read"}
        PROVE  /\ Len(fifo'[r - 1]) >= Blocksize[r]
               /\ m_last'[r - 1] + Blocksize[r] <= Capacity[r - 1]
    <3>1. r # p /\ r \in Queues /\ r - 1 \in Queues /\ r - 1 # q
      BY <1>1, <1>8, <2>1, PipelineTypes DEF q
    <3> QED
      BY <1>5, <1>6, <1>8, <2>1, <3>1 DEF Control, BlockInv
  <2> QED
    BY <2>1 DEF BlockInv
<1>11. Control'
  BY <1>2, <1>5, <1>6, <1>7, <1>8, <1>9, <1>10 DEF Control, TypeInv
<1>12. ASSUME NEW r \in Queues PROVE Parts'[r] = Parts[r]
  <2>1. CASE r = q
    <3>1. Parts[q] = rest
      BY <1>1, <1>2, PartsAre DEF PartsOK, rest, s, n
    <3>2. Parts'[q] = fifo'[q]
      BY <1>1, <1>8, <1>11, PartsAfter DEF PartsOK
    <3> QED
      BY <1>5, <2>1, <3>1, <3>2
  <2>2. CASE r # q
    <3>1. fifo'[r] = fifo[r] /\ (r < N => pc'[r + 1] = pc[r + 1])
      <4>1. r < N => r + 1 \in Queues /\ r + 1 # p
        BY <1>1, <2>2, PipelineTypes
      <4> QED
        BY <1>5, <1>8, <2>2, <4>1
    <3>2. r \in 0 .. N + 1 /\ r # N + 1
      BY PipelineTypes
    <3>3. Parts[r] = Pending(r) /\ Parts'[r] = Pending(r)'
      BY <3>2 DEF Parts
    <3> QED
      BY <3>1, <3>3 DEF Pending, m_size
  <2> QED
    BY <2>1, <2>2
<1>13. \A r \in Processes : pc'[r] = "end_read" =>
         pc[r] = "end_read" /\ fifo'[r - 1] = fifo[r - 1]
  <2>1. ASSUME NEW r \in Processes, pc'[r] = "end_read" PROVE r # p /\ r \in Queues
                                                             /\ r - 1 \in Queues /\ r - 1 # q
    BY <1>1, <1>8, <2>1, PipelineTypes DEF q
  <2> QED
    BY <1>5, <1>8, <2>1
<1>14. ChainInv'
  BY <1>2, <1>11, <1>12, <1>13, PartsKept
<1> QED
  BY <1>11, <1>14

(* The block that end_write commits: a new element, or the result of a     *)
(* block.                                                                  *)
LEMMA MadeTypes ==
  ASSUME Control, NEW a \in Queues, pc[a] = "end_write"
  PROVE  /\ Made(a) \in Seq(Item) /\ Len(Made(a)) = Count(a)
         /\ a # 0 => Blocksize[a] \in 0 .. Len(fifo[a - 1])
<1>1. CASE a = 0
  <2>1. sent \in Nat
    BY DEF Control, TypeInv
  <2>2. Made(a) = << sent + 1 >> /\ Count(a) = 1
    BY <1>1 DEF Made, Count
  <2> DEFINE x == sent + 1
  <2>3. x \in Item
    BY <2>1 DEF Item
  <2> HIDE DEF x
  <2>4. << x >> \in Seq(Item) /\ Len(<< x >>) = 1
    BY <2>3
  <2> QED
    BY <1>1, <2>2, <2>4 DEF x
<1>2. CASE a # 0
  <2>1. /\ a \in Processes /\ a - 1 \in Queues /\ Count(a) = Blocksize[a] /\ Blocksize[a] \in Nat
    BY <1>2, PipelineTypes
  <2>2. Len(fifo[a - 1]) >= Blocksize[a]
    BY <2>1 DEF Control, BlockInv
  <2>3. fifo[a - 1] \in Seq(Item) /\ Len(fifo[a - 1]) \in Nat
    BY <2>1, ControlTypes
  <2>4. Blocksize[a] \in 0 .. Len(fifo[a - 1])
    BY <2>1, <2>2, <2>3
  <2>5. Made(a) = SubSeq(fifo[a - 1], 1, Blocksize[a])
    BY <1>2 DEF Made
  <2> QED
    BY <2>1, <2>3, <2>4, <2>5, BlockOfSeq
<1> QED
  BY <1>1, <1>2

(* end_write commits the block where begin_write found room for it, and    *)
(* calls the process that reads it.                                        *)
LEMMA EndWriteControl ==
  ASSUME Control, NEW a \in Queues, EndWrite(a)
  PROVE  /\ Control' /\ pc[a] = "end_write" /\ UNCHANGED << received, thrown >>
         /\ fifo'[a] = fifo[a] \o Made(a)
         /\ \A q \in Queues : q # a => fifo'[q] = fifo[q]
         /\ pc'[a] = IF a = 0 THEN "return" ELSE "end_read"
         /\ a < N => pc[a + 1] = "outside" /\ pc'[a + 1] = "begin_read"
         /\ \A b \in Queues : b \notin {a, a + 1} => pc'[b] = pc[b]
<1> DEFINE next == IF a = 0 THEN "return" ELSE "end_read"
<1>1. /\ active = a + 1 /\ pc[a] = "end_write" /\ active \in 0 .. N + 1
      /\ fifo' = [fifo EXCEPT ![a] = fifo[a] \o Made(a)]
      /\ UNCHANGED << m_last, received, thrown >> /\ thrown \in BOOLEAN /\ received \in Seq(Item)
      /\ sent \in Nat /\ sent' = (IF a = 0 THEN sent + 1 ELSE sent)
      /\ m_last \in [Queues -> Nat] /\ fifo \in [Queues -> Seq(Item)]
  BY DEF EndWrite, At, Control, TypeInv
<1>2. /\ Made(a) \in Seq(Item) /\ Len(Made(a)) = Count(a) /\ fifo[a] \in Seq(Item)
      /\ Len(fifo[a]) \in Nat /\ Count(a) \in Nat
  BY <1>1, MadeTypes, PipelineTypes, ControlTypes
<1> DEFINE longer == fifo[a] \o Made(a)
<1>3. longer \in Seq(Item) /\ Len(longer) = Len(fifo[a]) + Count(a)
  <2> DEFINE s == fifo[a]  t == Made(a)
  <2>1. s \in Seq(Item) /\ t \in Seq(Item) /\ Len(t) = Count(a)
    BY <1>2
  <2> HIDE DEF s, t
  <2>2. s \o t \in Seq(Item) /\ Len(s \o t) = Len(s) + Len(t)
    BY <2>1
  <2> QED
    BY <2>1, <2>2 DEF s, t
<1> HIDE DEF longer
<1>4. /\ fifo' \in [Queues -> Seq(Item)] /\ fifo'[a] = longer
      /\ \A q \in Queues : q # a => fifo'[q] = fifo[q]
  BY <1>1, <1>3 DEF longer
<1>5. sent' \in Nat
  BY <1>1
<1>6. next \in {"end_read", "return"} /\ (next = "return" => a = 0) /\ next \in Places
  BY DEF Places
<1>7. /\ StackInv' /\ active' \in 0 .. N + 1 /\ pc' \in [Queues -> Places] /\ pc'[a] = next
      /\ a < N => pc[a + 1] = "outside" /\ pc'[a + 1] = "begin_read"
      /\ \A b \in Queues : b \notin {a, a + 1} => pc'[b] = pc[b]
  <2>1. CASE a < N
    <3>1. GoToAndCall(a, next)
      BY <2>1 DEF EndWrite
    <3> HIDE DEF next
    <3> QED
      BY <1>1, <1>6, <2>1, <3>1, StackCalls
  <2>2. CASE ~ a < N
    <3>1. pc' = [pc EXCEPT ![a] = next] /\ active' = active
      BY <2>2 DEF EndWrite, GoTo
    <3> HIDE DEF next
    <3>2. StackInv'
      BY <1>1, <1>6, <3>1, StackGoes
    <3>3. /\ pc' \in [Queues -> Places] /\ pc'[a] = next
          /\ \A b \in Queues : b # a => pc'[b] = pc[b]
      BY <1>1, <1>6, <3>1, GoesTo
    <3> QED
      BY <1>1, <2>2, <3>1, <3>2, <3>3
  <2> QED
    BY <2>1, <2>2
<1> HIDE DEF next
<1>8. RoomInv'
  <2>1. ASSUME NEW q \in Queues
        PROVE  /\ Len(fifo'[q]) <= Capacity[q] /\ m_last'[q] < Capacity[q]
               /\ pc'[q] = "end_write" => Len(fifo'[q]) + Count(q) <= Capacity[q]
    <3>1. /\ Len(fifo[q]) <= Capacity[q] /\ m_last'[q] < Capacity[q]
          /\ pc[q] = "end_write" => Len(fifo[q]) + Count(q) <= Capacity[q]
      BY <1>1 DEF Control, RoomInv
    <3>2. CASE q = a
      <4>1. pc'[q] # "end_write"
        BY <1>6, <1>7, <3>2
      <4>2. Len(fifo'[q]) = Len(fifo[a]) + Count(a)
        BY <1>3, <1>4, <3>2
      <4> QED
        BY <1>1, <3>1, <3>2, <4>1, <4>2
    <3>3. CASE q # a
      <4>1. fifo'[q] = fifo[q] /\ (pc'[q] = "end_write" => pc[q] = "end_write")
        <5>1. q # a + 1 \/ (q = a + 1 /\ a < N)
          BY PipelineTypes
        <5> QED
          BY <1>4, <1>7, <3>3, <5>1
      <4> QED
        BY <3>1, <4>1
    <3> QED
      BY <3>2, <3>3
  <2> QED
    BY <2>1 DEF RoomInv, Count
<1>9. BlockInv'
  <2>1. ASSUME NEW p \in Processes, pc'[p] \in {"begin_write", "end_write", "end_read"}
        PROVE  /\ Len(fifo'[p - 1]) >= Blocksize[p]
               /\ m_last'[p - 1] + Blocksize[p] <= Capacity[p - 1]
    <3>1. p \in Queues /\ p - 1 \in Queues /\ (p = a + 1 => a < N)
      BY PipelineTypes
    <3>2. p # a + 1
      BY <1>7, <2>1, <3>1
    <3>3. p - 1 # a
      BY <3>1, <3>2, PipelineTypes
    <3>4. fifo'[p - 1] = fifo[p - 1] /\ m_last' = m_last
      BY <1>1, <1>4, <3>1, <3>3
    <3>5. pc[p] \in {"begin_write", "end_write", "end_read"}
      BY <1>1, <1>7, <2>1, <3>1, <3>2
    <3> QED
      BY <3>4, <3>5 DEF Control, BlockInv
  <2> QED
    BY <2>1 DEF BlockInv
<1>10. Control'
  BY <1>1, <1>4, <1>5, <1>7, <1>8, <1>9 DEF Control, TypeInv
<1> QED
  BY <1>1, <1>4, <1>7, <1>10 DEF longer, next

(* The parts that a step does not touch.                                   *)
LEMMA OtherPart ==
  ASSUME Control, Control', NEW q \in Queues, fifo'[q] = fifo[q],
         q < N => (pc'[q + 1] = "end_read" <=> pc[q + 1] = "end_read")
  PROVE  Parts'[q] = Parts[q]
<1>1. q \in 0 .. N + 1 /\ q # N + 1
  BY PipelineTypes
<1>2. Parts[q] = Pending(q) /\ Parts'[q] = Pending(q)'
  BY <1>1 DEF Parts
<1> QED
  BY <1>2 DEF Pending, m_size

(* What the blocks that are about to leave were made into stays where it   *)
(* is, or goes on.                                                         *)
LEMMA HandedKept ==
  ASSUME Handed, NEW p \in Processes, pc[p] = "end_read", fifo'[p - 1] = fifo[p - 1],
         Beyond(Parts, p) \subseteq Beyond(Parts', p)
  PROVE  \A i \in 1 .. Blocksize[p] : 1 .. fifo'[p - 1][i] \subseteq Beyond(Parts', p)
BY DEF Handed

(* The end_write of push_one: a new element is at the end of part 0.       *)
LEMMA EndWriteFirst ==
  ASSUME Control, ChainInv, EndWrite(0)
  PROVE  ChainInv'
<1>1. N \in Nat \ {0} /\ 0 \in Queues /\ Queues = 0 .. N /\ Processes = 1 .. N /\ 0 < N
  BY PipelineTypes, PipelineAssumption
<1>2. /\ Control' /\ UNCHANGED << received, thrown >>
      /\ fifo'[0] = fifo[0] \o Made(0)
      /\ \A q \in Queues : q # 0 => fifo'[q] = fifo[q]
      /\ pc'[0] = "return"
      /\ pc[1] = "outside" /\ pc'[1] = "begin_read"
      /\ \A b \in Queues : b \notin {0, 1} => pc'[b] = pc[b]
  <2>1. 0 + 1 = 1
    OBVIOUS
  <2> QED
    BY <1>1, <2>1, EndWriteControl
<1>3. PartsOK /\ PartsOK'
  BY <1>2, PartsAre, PartsAfter
<1>4. sent' = sent + 1 /\ sent \in Nat /\ Made(0) = << sent + 1 >> /\ fifo[0] \in Seq(Item)
  BY <1>1, ControlTypes DEF EndWrite, Made, Control, TypeInv
<1>5. Parts'[0] = Append(Parts[0], sent + 1)
  <2>1. Parts[0] = fifo[0] /\ Parts'[0] = fifo'[0]
    <3>1. 0 + 1 = 1
      OBVIOUS
    <3> QED
      BY <1>1, <1>2, <1>3, <3>1 DEF PartsOK
  <2>2. fifo[0] \o << sent + 1 >> = Append(fifo[0], sent + 1)
    <3> DEFINE s == fifo[0]
    <3>1. s \in Seq(Item) /\ sent + 1 \in Item
      BY <1>4 DEF Item
    <3> HIDE DEF s
    <3>2. s \o << sent + 1 >> = Append(s, sent + 1)
      BY <3>1
    <3> QED
      BY <3>2 DEF s
  <2> QED
    BY <1>2, <1>4, <2>1, <2>2
<1>6. \A r \in 1 .. N + 1 : Parts'[r] = Parts[r]
  <2>1. ASSUME NEW r \in 1 .. N PROVE Parts'[r] = Parts[r]
    <3>1. r \in Queues /\ fifo'[r] = fifo[r] /\ (r < N => pc'[r + 1] = pc[r + 1])
      BY <1>1, <1>2
    <3> QED
      BY <1>2, <3>1, OtherPart
  <2>2. Parts'[N + 1] = Parts[N + 1]
    BY <1>2, <1>3 DEF PartsOK
  <2> QED
    BY <1>1, <2>1, <2>2
<1>7. Parts \in Chain /\ Parts' \in Chain
  BY <1>3 DEF PartsOK
<1>8. /\ \A r \in 1 .. N + 2 : Beyond(Parts', r) = Beyond(Parts, r)
      /\ OnceInOrder(Parts, sent) => OnceInOrder(Parts', sent + 1)
      /\ NoneMissing(Parts, sent) => NoneMissing(Parts', sent + 1)
  BY <1>4, <1>5, <1>6, <1>7, Pushed
<1>9. Handed'
  <2>1. ASSUME NEW p \in Processes, pc'[p] = "end_read"
        PROVE  \A i \in 1 .. Blocksize[p] : 1 .. fifo'[p - 1][i] \subseteq Beyond(Parts', p)
    <3>1. p # 1 /\ p # 0 /\ p \in Queues /\ p - 1 \in Queues /\ p - 1 # 0 /\ p \in 1 .. N + 2
      BY <1>1, <1>2, <2>1
    <3>2. pc[p] = "end_read" /\ fifo'[p - 1] = fifo[p - 1]
      BY <1>2, <2>1, <3>1
    <3>3. Beyond(Parts', p) = Beyond(Parts, p)
      BY <1>8, <3>1
    <3> QED
      BY <3>2, <3>3, HandedKept DEF ChainInv
  <2> QED
    BY <2>1 DEF Handed
<1> QED
  BY <1>2, <1>4, <1>8, <1>9 DEF ChainInv

(* The end_write of process a: its block goes on to the next part, and is  *)
(* handed on until end_read takes it away.                                 *)
LEMMA EndWriteNext ==
  ASSUME Control, ChainInv, NEW a \in Processes, EndWrite(a)
  PROVE  ChainInv'
<1> DEFINE q == a - 1  n == Blocksize[a]  S == Parts  T == Parts'
<1>1. /\ N \in Nat /\ a \in Queues /\ a # 0 /\ q \in Queues /\ Queues = 0 .. N
      /\ Processes = 1 .. N /\ q + 1 = a /\ q # a /\ q < N /\ q \in 0 .. N
  BY PipelineTypes
<1>2. /\ Control' /\ pc[a] = "end_write" /\ UNCHANGED << received, thrown >>
      /\ fifo'[a] = fifo[a] \o Made(a)
      /\ \A r \in Queues : r # a => fifo'[r] = fifo[r]
      /\ pc'[a] = "end_read"
      /\ a < N => pc[a + 1] = "outside" /\ pc'[a + 1] = "begin_read"
      /\ \A b \in Queues : b \notin {a, a + 1} => pc'[b] = pc[b]
  BY <1>1, EndWriteControl
<1>3. PartsOK /\ PartsOK'
  BY <1>2, PartsAre, PartsAfter
<1>4. /\ sent' = sent /\ sent \in Nat /\ Made(a) = SubSeq(fifo[q], 1, n)
      /\ n \in 0 .. Len(fifo[q])
  BY <1>1, <1>2, MadeTypes DEF EndWrite, Made, Control, TypeInv
<1>5. /\ S[q] = fifo[q] /\ T[q] = SubSeq(fifo[q], n + 1, Len(fifo[q]))
      /\ S[a] = fifo[a] /\ T[a] = fifo'[a]
  <2>1. S[q] = fifo[q]
    BY <1>1, <1>2, <1>3 DEF PartsOK
  <2>2. T[q] = SubSeq(fifo'[q], Blocksize[q + 1] + 1, Len(fifo'[q])) /\ fifo'[q] = fifo[q]
    BY <1>1, <1>2, <1>3 DEF PartsOK
  <2>3. S[a] = fifo[a] /\ T[a] = fifo'[a]
    <3>1. a = N \/ a < N
      BY <1>1
    <3>2. (a = N \/ pc[a + 1] # "end_read") /\ (a = N \/ pc'[a + 1] # "end_read")
      BY <1>2, <3>1
    <3> QED
      BY <1>1, <1>3, <3>2 DEF PartsOK
  <2> QED
    BY <1>1, <2>1, <2>2, <2>3
<1>6. \A r \in 0 .. N + 1 : r \notin {q, q + 1} => T[r] = S[r]
  <2>1. ASSUME NEW r \in Queues, r \notin {q, a} PROVE T[r] = S[r]
    <3>1. fifo'[r] = fifo[r] /\ (r < N => (pc'[r + 1] = "end_read" <=> pc[r + 1] = "end_read"))
      <4>1. r < N => r + 1 \in Queues /\ r + 1 # a /\ r + 1 # a + 1
        BY <1>1, <2>1
      <4> QED
        BY <1>2, <2>1, <4>1
    <3> QED
      BY <1>2, <3>1, OtherPart
  <2>2. T[N + 1] = S[N + 1]
    BY <1>2, <1>3 DEF PartsOK
  <2> QED
    BY <1>1, <2>1, <2>2
<1>7. S \in Chain /\ T \in Chain /\ n \in 0 .. Len(S[q])
  BY <1>3, <1>4, <1>5 DEF PartsOK
<1>8. Moves(S, T, q, n)
  BY <1>1, <1>2, <1>4, <1>5, <1>6 DEF Moves
<1>10. NoneMissing(S, sent) /\ (~ thrown => OnceInOrder(S, sent)) /\ Handed
  BY DEF ChainInv
<1> HIDE DEF S, T, q, n
<1>9. /\ NoneMissing(T, sent) /\ (~ thrown => OnceInOrder(T, sent))
  BY <1>1, <1>4, <1>7, <1>8, <1>10, MovedOnce, MovedNone
<1>11. /\ \A r \in 0 .. N + 2 : r # a => Beyond(T, r) = Beyond(S, r)
       /\ Beyond(T, a) = Beyond(S, a) \cup {S[q][i] : i \in 1 .. n}
  <2>1. /\ \A r \in 0 .. N + 2 : r # q + 1 => Beyond(T, r) = Beyond(S, r)
        /\ Beyond(T, q + 1) = Beyond(S, q + 1) \cup {S[q][i] : i \in 1 .. n}
    BY <1>1, <1>7, <1>8, MovedBeyond
  <2> QED
    BY <1>1, <2>1
<1>12. ASSUME NEW i \in 1 .. n PROVE 1 .. S[q][i] \subseteq Beyond(T, a)
  <2>1. S[q] \in Seq(Item) /\ q \in 0 .. N + 1
    BY <1>1, <1>7 DEF Chain
  <2>2. i \in DOMAIN S[q] /\ S[q][i] \in Nat \ {0} /\ \A j \in 1 .. i - 1 : j \in 1 .. n
    <3> DEFINE s == S[q]
    <3>1. s \in Seq(Item) /\ n \in 0 .. Len(s)
      BY <1>7, <2>1
    <3> HIDE DEF s
    <3>2. i \in DOMAIN s /\ s[i] \in Nat \ {0} /\ \A j \in 1 .. i - 1 : j \in 1 .. n
      BY <3>1 DEF Item
    <3> QED
      BY <3>2 DEF s
  <2>3. \A x \in 1 .. S[q][i] - 1 : x \in Beyond(S, q + 1) \/ \E j \in 1 .. i - 1 : S[q][j] = x
    BY <1>10, <2>1, <2>2 DEF NoneMissing
  <2>4. \A x \in 1 .. S[q][i] - 1 : x \in Beyond(T, a)
    BY <1>1, <1>11, <2>2, <2>3
  <2>5. S[q][i] \in Beyond(T, a)
    BY <1>11
  <2>6. \A x \in 1 .. S[q][i] : x = S[q][i] \/ x \in 1 .. S[q][i] - 1
    BY <2>2
  <2> QED
    BY <2>4, <2>5, <2>6
<1>13. Handed'
  <2>1. ASSUME NEW p \in Processes, pc'[p] = "end_read"
        PROVE  \A i \in 1 .. Blocksize[p] : 1 .. fifo'[p - 1][i] \subseteq Beyond(Parts', p)
    <3>1. CASE p = a
      <4>1. fifo'[p - 1] = S[q] /\ Blocksize[p] = n
        BY <1>1, <1>2, <1>5, <3>1 DEF q, n
      <4> QED
        BY <1>12, <3>1, <4>1 DEF T
    <3>2. CASE p # a
      <4>1. /\ p \in Queues /\ p - 1 \in Queues /\ p # a + 1 /\ p - 1 # a /\ p \in 0 .. N + 2
        <5>1. p = a + 1 => a < N
          BY <1>1
        <5> QED
          BY <1>1, <1>2, <2>1, <5>1
      <4>2. pc[p] = "end_read" /\ fifo'[p - 1] = fifo[p - 1]
        BY <1>2, <2>1, <3>2, <4>1
      <4>3. Beyond(Parts', p) = Beyond(Parts, p)
        BY <1>11, <3>2, <4>1 DEF S, T
      <4> QED
        BY <1>10, <4>2, <4>3, HandedKept
    <3> QED
      BY <3>1, <3>2
  <2> QED
    BY <2>1 DEF Handed
<1> QED
  BY <1>2, <1>4, <1>9, <1>13 DEF ChainInv, T

(* pop_one: an element goes from the last queue to what was received.      *)
LEMMA PopStep ==
  ASSUME Control, ChainInv, pop_one
  PROVE  Control' /\ ChainInv'
<1> DEFINE s == fifo[N]  S == Parts  T == Parts'
<1>1. /\ N \in Nat \ {0} /\ N \in Queues /\ Queues = 0 .. N /\ Processes = 1 .. N
      /\ s \in Seq(Item) /\ Len(s) \in Nat /\ Len(s) > 0
      /\ Capacity[N] \in Nat \ {0} /\ m_last[N] \in Nat /\ m_last[N] < Capacity[N]
  <2>1. N \in Queues
    BY PipelineTypes
  <2> QED
    BY <2>1, PipelineTypes, PipelineAssumption, ControlTypes
    DEF pop_one, m_size, Control, RoomInv
<1>2. /\ received' = Append(received, s[1]) /\ fifo' = [fifo EXCEPT ![N] = Tail(s)]
      /\ m_last' = [m_last EXCEPT ![N] = Increment(Capacity[N], m_last[N], 1)]
      /\ UNCHANGED << active, pc, sent, thrown >>
      /\ received \in Seq(Item) /\ sent \in Nat
      /\ fifo \in [Queues -> Seq(Item)] /\ m_last \in [Queues -> Nat]
  BY DEF pop_one, Control, TypeInv
<1> DEFINE rest == SubSeq(s, 2, Len(s))  first == SubSeq(s, 1, 1)
<1> HIDE DEF s
<1>3. /\ Tail(s) = rest /\ rest \in Seq(Item) /\ Len(rest) = Len(s) - 1
      /\ first = << s[1] >> /\ s[1] \in Item
  <2>1. s # << >>
    BY <1>1
  <2>5. /\ rest \in Seq(Item) /\ Len(rest) = Len(s) - 1
        /\ \A i \in 1 .. Len(s) - 1 : rest[i] = s[i + 1]
    <3>1. 1 \in 0 .. Len(s) /\ \A i \in Nat : 1 + i = i + 1
      BY <1>1
    <3>2. /\ SubSeq(s, 1 + 1, Len(s)) \in Seq(Item)
          /\ Len(SubSeq(s, 1 + 1, Len(s))) = Len(s) - 1
          /\ \A i \in 1 .. Len(s) - 1 : SubSeq(s, 1 + 1, Len(s))[i] = s[1 + i]
      BY <1>1, <3>1, BlockOfSeq
    <3>3. 1 + 1 = 2 /\ \A i \in 1 .. Len(s) - 1 : s[1 + i] = s[i + 1]
      BY <1>1
    <3> QED
      BY <3>2, <3>3
  <2>2. Tail(s) = rest
    <3>1. /\ Tail(s) \in Seq(Item) /\ Len(Tail(s)) = Len(s) - 1
          /\ \A i \in 1 .. Len(s) - 1 : Tail(s)[i] = s[i + 1]
      BY <1>1, <2>1
    <3>2. \A i \in 1 .. Len(s) - 1 : rest[i] = s[i + 1]
      BY <2>5
    <3> HIDE DEF rest
    <3> QED
      BY <2>5, <3>1, <3>2, SeqEqual
  <2>3. s[1] \in Item
    BY <1>1
  <2>4. first = << s[1] >>
    <3>1. first \in Seq(Item) /\ Len(first) = 1 /\ first[1] = s[1]
      BY <1>1
    <3>2. << s[1] >> \in Seq(Item) /\ Len(<< s[1] >>) = 1 /\ << s[1] >>[1] = s[1]
      BY <2>3
    <3> HIDE DEF first
    <3>3. \A i \in 1 .. Len(first) : first[i] = << s[1] >>[i]
      BY <3>1, <3>2
    <3> QED
      BY <3>1, <3>2, <3>3, SeqEqual
  <2> QED
    BY <2>2, <2>3, <2>4, <2>5
<1> HIDE DEF rest, first
<1>4. /\ fifo' \in [Queues -> Seq(Item)] /\ fifo'[N] = rest
      /\ \A q \in Queues : q # N => fifo'[q] = fifo[q]
  BY <1>1, <1>2, <1>3
<1>5. /\ m_last' \in [Queues -> Nat] /\ m_last'[N] < Capacity[N]
      /\ \A q \in Queues : q # N => m_last'[q] = m_last[q]
  <2>1. /\ Increment(Capacity[N], m_last[N], 1) \in Nat
        /\ Increment(Capacity[N], m_last[N], 1) < Capacity[N]
    BY <1>1 DEF Increment
  <2> QED
    BY <1>1, <1>2, <2>1
<1>6. received' \in Seq(Item) /\ received' = received \o first
  <2> DEFINE x == s[1]
  <2>1. received \in Seq(Item) /\ x \in Item
    BY <1>2, <1>3
  <2> HIDE DEF x
  <2>2. Append(received, x) \in Seq(Item) /\ Append(received, x) = received \o << x >>
    BY <2>1
  <2> QED
    BY <1>2, <1>3, <2>2 DEF x
<1>7. TypeInv' /\ StackInv'
  BY <1>2, <1>4, <1>5, <1>6 DEF Control, TypeInv, StackInv
<1>8. RoomInv'
  <2>1. ASSUME NEW q \in Queues
        PROVE  /\ Len(fifo'[q]) <= Capacity[q] /\ m_last'[q] < Capacity[q]
               /\ pc'[q] = "end_write" => Len(fifo'[q]) + Count(q) <= Capacity[q]
    <3>1. /\ Len(fifo[q]) <= Capacity[q] /\ m_last[q] < Capacity[q]
          /\ pc[q] = "end_write" => Len(fifo[q]) + Count(q) <= Capacity[q]
      BY DEF Control, RoomInv
    <3>2. CASE q = N
      <4>1. Len(fifo'[q]) = Len(fifo[q]) - 1 /\ Len(fifo[q]) \in Nat
        BY <1>1, <1>3, <1>4, <3>2 DEF s
      <4>2. Capacity[q] \in Nat /\ Count(q) \in Nat
        BY PipelineTypes
      <4>3. m_last'[q] < Capacity[q] /\ pc' = pc
        BY <1>2, <1>5, <3>2
      <4> QED
        BY <3>1, <4>1, <4>2, <4>3
    <3>3. CASE q # N
      BY <1>2, <1>4, <1>5, <3>1, <3>3
    <3> QED
      BY <3>2, <3>3
  <2> QED
    BY <2>1 DEF RoomInv, Count
<1>9. \A p \in Processes : p - 1 \in Queues /\ p - 1 # N /\ fifo'[p - 1] = fifo[p - 1]
                           /\ m_last'[p - 1] = m_last[p - 1]
  <2>1. \A p \in Processes : p - 1 \in Queues /\ p - 1 # N
    BY <1>1
  <2> QED
    BY <1>4, <1>5, <2>1
<1>10. BlockInv'
  BY <1>2, <1>9 DEF Control, BlockInv
<1>11. Control'
  BY <1>7, <1>8, <1>10 DEF Control
<1>12. PartsOK /\ PartsOK'
  BY <1>11, PartsAre, PartsAfter
<1>13. S[N] = s /\ T[N] = rest /\ S[N + 1] = received /\ T[N + 1] = received'
  BY <1>1, <1>4, <1>12 DEF PartsOK, s
<1>14. S \in Chain /\ T \in Chain
  BY <1>12 DEF PartsOK
<1>15. Moves(S, T, N, 1)
  <2>1. ASSUME NEW r \in 0 .. N + 1, r \notin {N, N + 1} PROVE T[r] = S[r]
    <3>1. r \in Queues /\ r # N
      BY <1>1, <2>1
    <3> QED
      BY <1>2, <1>4, <1>11, <3>1, OtherPart
  <2>2. 1 + 1 = 2
    OBVIOUS
  <2> QED
    BY <1>6, <1>13, <2>1, <2>2 DEF Moves, rest, first
<1>16. NoneMissing(S, sent) /\ (~ thrown => OnceInOrder(S, sent)) /\ Handed
  BY DEF ChainInv
<1> HIDE DEF S, T
<1>17. N \in 0 .. N /\ 1 \in 0 .. Len(S[N])
  BY <1>1, <1>13
<1>18. /\ NoneMissing(T, sent) /\ (~ thrown => OnceInOrder(T, sent))
       /\ \A r \in 0 .. N + 2 : r # N + 1 => Beyond(T, r) = Beyond(S, r)
  BY <1>2, <1>14, <1>15, <1>16, <1>17, MovedOnce, MovedNone, MovedBeyond
<1>19. Handed'
  <2>1. ASSUME NEW p \in Processes, pc'[p] = "end_read"
        PROVE  \A i \in 1 .. Blocksize[p] : 1 .. fifo'[p - 1][i] \subseteq Beyond(Parts', p)
    <3>1. p \in 0 .. N + 2 /\ p # N + 1
      BY <1>1
    <3>2. Beyond(Parts', p) = Beyond(Parts, p)
      BY <1>18, <3>1 DEF S, T
    <3> QED
      BY <1>2, <1>9, <1>16, <2>1, <3>2, HandedKept
  <2> QED
    BY <2>1 DEF Handed
<1> QED
  BY <1>2, <1>11, <1>18, <1>19 DEF ChainInv, T

(* The exception of the last queue unwinds the stack: the processes that   *)
(* had committed a result and had not called end_read find its block       *)
(* again.                                                                  *)
LEMMA ThrowStep ==
  ASSUME Control, ChainInv, BeginWriteThrows
  PROVE  Control' /\ ChainInv'
<1> DEFINE S == Parts  T == Parts'
<1>1. /\ active' = 0 /\ pc' = [a \in Queues |-> "outside"] /\ thrown' = TRUE
      /\ UNCHANGED << fifo, m_last, received, sent >> /\ sent \in Nat
  BY DEF BeginWriteThrows, Control, TypeInv
<1>2. Control'
  BY <1>1, NobodyStays
<1>3. PartsOK /\ PartsOK'
  BY <1>2, PartsAre, PartsAfter
<1>4. N \in Nat /\ Queues = 0 .. N /\ \A p \in Processes : p \in Queues
  BY PipelineTypes
<1>5. \A p \in Processes : pc'[p] = "outside"
  BY <1>1, <1>4
<1>6. S[N + 1] = received /\ T[N + 1] = received /\ S \in Chain /\ T \in Chain
  BY <1>1, <1>3 DEF PartsOK
<1>7. ASSUME NEW r \in Queues PROVE T[r] = fifo[r]
  <2>1. r = N \/ r + 1 \in Processes
    BY <1>4, PipelineTypes
  <2> QED
    BY <1>1, <1>3, <1>5, <2>1 DEF PartsOK
<1> DEFINE k == [r \in 0 .. N + 1 |-> IF r < N /\ pc[r + 1] = "end_read"
                                     THEN Blocksize[r + 1] ELSE 0]
<1>8. k \in [0 .. N + 1 -> Nat]
  <2>1. \A r \in 0 .. N + 1 : r < N => Blocksize[r + 1] \in Nat
    BY <1>4, PipelineTypes
  <2> QED
    BY <2>1
<1>9. ASSUME NEW r \in 0 .. N + 1
      PROVE  /\ Len(T[r]) = k[r] + Len(S[r])
             /\ \A i \in 1 .. Len(S[r]) : T[r][k[r] + i] = S[r][i]
             /\ \A i \in 1 .. k[r] : 1 .. T[r][i] \subseteq Beyond(S, r + 1)
  <2>1. Len(S[r]) \in Nat
    <3>1. S[r] \in Seq(Item)
      BY <1>6 DEF Chain
    <3> HIDE DEF S
    <3> QED
      BY <3>1
  <2>2. CASE r < N /\ pc[r + 1] = "end_read"
    <3> DEFINE s == fifo[r]  n == Blocksize[r + 1]
    <3>1. /\ r \in Queues /\ r + 1 \in Processes /\ (r + 1) - 1 = r
          /\ S[r] = SubSeq(s, n + 1, Len(s)) /\ n \in 0 .. Len(s) /\ T[r] = s /\ k[r] = n
          /\ s \in Seq(Item)
      <4>1. r \in Queues /\ r + 1 \in Processes /\ (r + 1) - 1 = r
        BY <1>4, <2>2, PipelineTypes
      <4>2. S[r] = SubSeq(s, n + 1, Len(s)) /\ n \in 0 .. Len(s)
        BY <1>3, <2>2, <4>1 DEF PartsOK
      <4>3. T[r] = s /\ k[r] = n /\ s \in Seq(Item)
        BY <1>7, <2>2, <4>1, ControlTypes
      <4> QED
        BY <4>1, <4>2, <4>3
    <3>2. \A i \in 1 .. n : 1 .. s[i] \subseteq Beyond(S, r + 1)
      BY <2>2, <3>1 DEF ChainInv, Handed
    <3> HIDE DEF s, n, S, T, k
    <3>3. /\ Len(SubSeq(s, n + 1, Len(s))) = Len(s) - n
          /\ \A i \in 1 .. Len(s) - n : SubSeq(s, n + 1, Len(s))[i] = s[n + i]
      BY <3>1, BlockOfSeq
    <3>4. Len(s) \in Nat /\ n \in Nat
      BY <3>1
    <3> QED
      BY <3>1, <3>2, <3>3, <3>4
  <2>3. CASE ~ (r < N /\ pc[r + 1] = "end_read")
    <3>1. k[r] = 0
      BY <2>3
    <3>2. T[r] = S[r]
      <4>1. CASE r = N + 1
        BY <1>6, <4>1
      <4>2. CASE r # N + 1
        <5>1. r \in Queues /\ (r = N \/ pc[r + 1] # "end_read")
          BY <1>4, <2>3, <4>2
        <5> QED
          BY <1>3, <1>7, <5>1 DEF PartsOK
      <4> QED
        BY <4>1, <4>2
    <3> HIDE DEF S, T, k
    <3>3. 1 .. 0 = {} /\ \A i \in 1 .. Len(S[r]) : 0 + i = i
      OBVIOUS
    <3> QED
      BY <2>1, <3>1, <3>2, <3>3
  <2> QED
    BY <2>2, <2>3
<1>10. NoneMissing(S, sent)
  BY DEF ChainInv
<1> HIDE DEF S, T, k
<1>11. NoneMissing(T, sent)
  BY <1>1, <1>6, <1>8, <1>9, <1>10, Doubled
<1>12. Handed'
  BY <1>5 DEF Handed
<1> QED
  BY <1>1, <1>2, <1>11, <1>12 DEF ChainInv, T

(* The chain begins empty.                                                 *)
LEMMA ChainBegins == Init => Control /\ ChainInv
<1> SUFFICES ASSUME Init PROVE Control /\ ChainInv
  OBVIOUS
<1>1. /\ fifo = [q \in Queues |-> << >>] /\ m_last = [q \in Queues |-> 0] /\ active = 0
      /\ pc = [a \in Queues |-> "outside"] /\ sent = 0 /\ received = << >> /\ thrown = FALSE
      /\ N \in Nat /\ Queues = 0 .. N
  BY PipelineTypes DEF Init
<1>2. Control
  <2>1. TypeInv
    BY <1>1 DEF TypeInv, Places
  <2>2. StackInv
    BY <1>1 DEF StackInv
  <2>3. RoomInv
    BY <1>1, PipelineTypes DEF RoomInv
  <2>4. BlockInv
    BY <1>1, PipelineTypes DEF BlockInv
  <2> QED
    BY <2>1, <2>2, <2>3, <2>4 DEF Control
<1>3. PartsOK
  BY <1>2, PartsAre
<1>4. \A q \in 0 .. N + 1 : Parts[q] = << >>
  <2>1. ASSUME NEW q \in Queues PROVE Parts[q] = << >>
    <3>1. q = N \/ q + 1 \in Queues
      BY <1>1
    <3>2. fifo[q] = << >> /\ (q = N \/ pc[q + 1] # "end_read")
      BY <1>1, <3>1
    <3> QED
      BY <1>3, <3>2 DEF PartsOK
  <2>2. Parts[N + 1] = << >>
    BY <1>1, <1>3 DEF PartsOK
  <2> QED
    BY <1>1, <2>1, <2>2
<1>5. \A q \in 0 .. N + 1 : DOMAIN Parts[q] = {} /\ ToSet(Parts[q]) = {}
  BY <1>4 DEF ToSet
<1>6. Beyond(Parts, 0) = 1 .. 0
  BY <1>5 DEF Beyond
<1>7. Handed
  BY <1>1, PipelineTypes DEF Handed
<1> QED
  BY <1>1, <1>2, <1>5, <1>6, <1>7 DEF ChainInv, NoneMissing, OnceInOrder

(* Every step keeps the invariant.                                         *)
LEMMA ChainSteps == Control /\ ChainInv /\ [Next]_vars => Control' /\ ChainInv'
<1> SUFFICES ASSUME Control, ChainInv, [Next]_vars PROVE Control' /\ ChainInv'
  OBVIOUS
<1>1. thrown \in BOOLEAN /\ active \in 0 .. N + 1 /\ pc \in [Queues -> Places]
  BY DEF Control, TypeInv
<1>2. ASSUME NEW p \in Processes, BeginRead(p) PROVE Control' /\ ChainInv'
  <2>1. Control'
    BY <1>2, BeginReadControl
  <2>2. /\ p \in Queues /\ active = p + 1 /\ pc[p] = "begin_read"
        /\ \E place \in Places : place # "end_read" /\ pc' = [pc EXCEPT ![p] = place]
        /\ UNCHANGED << fifo, received, sent, thrown >>
    BY <1>2, PipelineTypes DEF BeginRead, At, GoTo, Places
  <2>3. \A r \in Processes : r \in Queues /\ (pc'[r] = "end_read" <=> pc[r] = "end_read")
    BY <1>1, <2>2, PipelineTypes
  <2> QED
    BY <2>1, <2>2, <2>3, ParkedKept
<1>3. ASSUME NEW p \in Processes, EndRead(p) PROVE Control' /\ ChainInv'
  BY <1>3, EndReadStep
<1>4. ASSUME NEW a \in Queues, BeginWriteReturns(a) PROVE Control' /\ ChainInv'
  <2>1. Control'
    BY <1>4, BeginWriteControl
  <2>2. /\ active = a + 1 /\ pc[a] = "begin_write" /\ pc' = [pc EXCEPT ![a] = "end_write"]
        /\ UNCHANGED << fifo, received, sent, thrown >>
    BY <1>4 DEF BeginWriteReturns, At, GoTo
  <2>3. \A r \in Processes : r \in Queues /\ (pc'[r] = "end_read" <=> pc[r] = "end_read")
    BY <1>1, <2>2, PipelineTypes
  <2> QED
    BY <2>1, <2>2, <2>3, ParkedKept
<1>5. ASSUME NEW a \in Queues, BeginWriteRunsNext(a) PROVE Control' /\ ChainInv'
  <2>1. Control'
    BY <1>5, BeginWriteControl
  <2>2. /\ active = a + 1 /\ pc[a] = "begin_write" /\ a < N
        /\ GoToAndCall(a, "begin_write") /\ UNCHANGED << fifo, received, sent, thrown >>
    BY <1>5 DEF BeginWriteRunsNext, At
  <2>3. /\ pc'[a] = "begin_write" /\ pc[a + 1] = "outside" /\ pc'[a + 1] = "begin_read"
        /\ \A b \in Queues : b \notin {a, a + 1} => pc'[b] = pc[b]
    BY <2>2, StackCalls
  <2>4. \A r \in Processes : r \in Queues /\ (pc'[r] = "end_read" <=> pc[r] = "end_read")
    BY <2>2, <2>3, PipelineTypes
  <2> QED
    BY <2>1, <2>2, <2>4, ParkedKept
<1>6. ASSUME NEW a \in Queues, EndWrite(a) PROVE Control' /\ ChainInv'
  <2>1. Control'
    BY <1>6, EndWriteControl
  <2>2. CASE a = 0
    BY <1>6, <2>1, <2>2, EndWriteFirst
  <2>3. CASE a # 0
    <3>1. a \in Processes
      BY <2>3, PipelineTypes
    <3> QED
      BY <1>6, <2>1, <3>1, EndWriteNext
  <2> QED
    BY <2>2, <2>3
<1>7. ASSUME NEW a \in Queues, Return(a) PROVE Control' /\ ChainInv'
  <2>1. Control'
    BY <1>7, ReturnControl
  <2>2. /\ active = a + 1 /\ pc[a] = "return" /\ pc' = [pc EXCEPT ![a] = "outside"]
        /\ UNCHANGED << fifo, received, sent, thrown >>
    BY <1>7 DEF Return, At
  <2>3. \A r \in Processes : r \in Queues /\ (pc'[r] = "end_read" <=> pc[r] = "end_read")
    BY <1>1, <2>2, PipelineTypes
  <2> QED
    BY <2>1, <2>2, <2>3, ParkedKept
<1>8. ASSUME BeginWriteThrows PROVE Control' /\ ChainInv'
  BY <1>8, ThrowStep
<1>9. ASSUME push_one \/ \E q \in 0 .. N - 1 : resume_write(q) PROVE Control' /\ ChainInv'
  <2>1. Control'
    BY <1>9, CallControl
  <2>2. /\ active = 0 /\ UNCHANGED << fifo, received, sent, thrown >>
        /\ \A a \in Queues : pc[a] = "outside"
    BY <1>9, PipelineTypes DEF push_one, resume_write, Control, StackInv
  <2>3. \A r \in Processes : r \in Queues /\ pc'[r] # "end_read"
    <3>1. CASE push_one
      BY <1>1, <2>2, <3>1, PipelineTypes DEF push_one
    <3>2. ASSUME NEW q \in 0 .. N - 1, resume_write(q)
          PROVE  \A r \in Processes : r \in Queues /\ pc'[r] # "end_read"
      BY <1>1, <2>2, <3>2, PipelineTypes DEF resume_write
    <3> QED
      BY <1>9, <3>1, <3>2
  <2> QED
    BY <2>1, <2>2, <2>3, ParkedKept
<1>10. ASSUME interrupt_write \/ resume_output \/ UNCHANGED vars PROVE Control' /\ ChainInv'
  <2>1. UNCHANGED << fifo, m_last, active, pc, sent, received, thrown >>
    BY <1>10 DEF interrupt_write, resume_output, vars
  <2>2. Control'
    BY <2>1 DEF Control, TypeInv, StackInv, RoomInv, BlockInv, Count
  <2> QED
    BY <2>1, <2>2, ParkedKept
<1>11. ASSUME pop_one PROVE Control' /\ ChainInv'
  BY <1>11, PopStep
<1> QED
  BY <1>2, <1>3, <1>4, <1>5, <1>6, <1>7, <1>8, <1>9, <1>10, <1>11 DEF Next, StackNext

(* However the calls of process_one nest on the stack, and whoever is      *)
(* interrupted, every element that was pushed is in one place of the chain *)
(* and behind the later ones, as long as no exception crossed the stack:   *)
(* nothing is processed twice, or overtakes.                               *)
THEOREM ChainDeliversOnce == Spec => []ExactlyOnce
<1>1. Control /\ ChainInv => ExactlyOnce
  BY DEF ChainInv, ExactlyOnce
<1> QED
  BY <1>1, ChainBegins, ChainSteps, PTL DEF Spec

(* Exceptions or not, nothing is lost: an element reaches a place of the   *)
(* chain only after all those that were pushed before it.                  *)
THEOREM ChainLosesNothing == Spec => []NothingLost
<1>1. Control /\ ChainInv => NothingLost
  BY DEF ChainInv, NothingLost
<1> QED
  BY <1>1, ChainBegins, ChainSteps, PTL DEF Spec

-----------------------------------------------------------------------------
(* The memory a process writes its block to.                               *)

(* The last queue of a process is a whole number of its blocks.            *)
WholeBlocks == \A p \in Processes : Capacity[p] % Blocksize[p] = 0

(* Then its pointer stays at the beginning of a block: nobody else writes  *)
(* the queue, and who reads it moves m_last only.                          *)
AlignedInv == \A p \in Processes : m_first(p) % Blocksize[p] = 0

(* What is added, or taken, in whole blocks leaves a whole number of them. *)
LEMMA BlocksAdd ==
  ASSUME NEW B \in Nat \ {0}, NEW x \in Nat, NEW y \in Nat, x % B = 0, y % B = 0
  PROVE  /\ (x + B) % B = 0
         /\ x < y => x + B <= y
         /\ x >= y => (x - y) % B = 0
<1> DEFINE j == x \div B  k == y \div B
<1>1. j \in Nat /\ k \in Nat /\ x = B * j /\ y = B * k
  OBVIOUS
<1> HIDE DEF j, k
<1>2. \A m \in Nat : (B * m) % B = 0
  OBVIOUS
<1>3. (x + B) % B = 0
  <2>1. x + B = B * (j + 1) /\ j + 1 \in Nat
    BY <1>1
  <2> QED
    BY <1>2, <2>1
<1>4. x < y => x + B <= y
  <2> SUFFICES ASSUME x < y PROVE x + B <= y
    OBVIOUS
  <2>1. j < k
    <3> SUFFICES ASSUME j >= k PROVE FALSE
      BY <1>1
    <3>1. B * j >= B * k
      BY <1>1
    <3> QED
      BY <1>1, <3>1
  <2>2. B * (j + 1) <= B * k
    BY <1>1, <2>1
  <2> QED
    BY <1>1, <2>2
<1>5. x >= y => (x - y) % B = 0
  <2> SUFFICES ASSUME x >= y PROVE (x - y) % B = 0
    OBVIOUS
  <2>1. j >= k
    <3> SUFFICES ASSUME j < k PROVE FALSE
      BY <1>1
    <3>1. B * (j + 1) <= B * k
      BY <1>1
    <3> QED
      BY <1>1, <3>1
  <2>2. x - y = B * (j - k) /\ j - k \in Nat
    BY <1>1, <2>1
  <2> QED
    BY <1>2, <2>2
<1> QED
  BY <1>3, <1>4, <1>5

(* The numbers of the queue a process writes.                              *)
LEMMA OutputTypes ==
  ASSUME Control, NEW p \in Processes
  PROVE  /\ Capacity[p] \in Nat \ {0} /\ Blocksize[p] \in Nat \ {0} /\ Count(p) = Blocksize[p]
         /\ m_last[p] \in Nat /\ Len(fifo[p]) \in Nat /\ m_last[p] < Capacity[p]
         /\ Len(fifo[p]) <= Capacity[p] /\ m_first(p) = Wrap(Capacity[p], m_last[p] + Len(fifo[p]))
         /\ m_first(p) \in Nat /\ m_first(p) < Capacity[p] /\ p \in Queues
<1>1. /\ Capacity[p] \in Nat \ {0} /\ Blocksize[p] \in Nat \ {0} /\ Count(p) = Blocksize[p]
      /\ p \in Queues
  BY PipelineTypes
<1>2. /\ m_last[p] \in Nat /\ Len(fifo[p]) \in Nat /\ m_last[p] < Capacity[p]
      /\ Len(fifo[p]) <= Capacity[p]
  BY <1>1, ControlTypes DEF Control, RoomInv
<1>3. m_first(p) = Wrap(Capacity[p], m_last[p] + Len(fifo[p]))
  BY DEF m_first, m_size
<1> QED
  BY <1>1, <1>2, <1>3 DEF Wrap

(* A step that does not move the pointer.                                  *)
LEMMA AlignedStays ==
  ASSUME AlignedInv, \A p \in Processes : m_first(p)' = m_first(p)
  PROVE  AlignedInv'
BY DEF AlignedInv

LEMMA AlignedWrite ==
  ASSUME WholeBlocks, Control, AlignedInv, NEW a \in Queues, EndWrite(a)
  PROVE  AlignedInv'
<1>1. /\ fifo'[a] = fifo[a] \o Made(a) /\ \A q \in Queues : q # a => fifo'[q] = fifo[q]
      /\ m_last' = m_last /\ pc[a] = "end_write" /\ active = a + 1 /\ sent \in Nat
  BY EndWriteControl DEF EndWrite, At, Control, TypeInv
<1> SUFFICES ASSUME NEW p \in Processes PROVE m_first(p)' % Blocksize[p] = 0
  BY DEF AlignedInv
<1>2. CASE p # a
  BY <1>1, <1>2, PipelineTypes DEF AlignedInv, m_first, m_size
<1>3. CASE p = a
  <2> DEFINE cap == Capacity[p]  B == Blocksize[p]  last == m_last[p]  size == Len(fifo[p])
             first == m_first(p)  x == first + B
  <2>1. /\ cap \in Nat \ {0} /\ B \in Nat \ {0} /\ last \in Nat /\ size \in Nat /\ last < cap
        /\ first = Wrap(cap, last + size) /\ first \in Nat /\ Count(p) = B /\ p \in Queues
    BY OutputTypes
  <2>2. size + B <= cap
    BY <1>1, <1>3, <2>1 DEF Control, RoomInv
  <2>3. Len(fifo'[p]) = size + B
    <3>1. Made(p) \in Seq(Item) /\ Len(Made(p)) = B /\ fifo[p] \in Seq(Item)
      BY <1>1, <1>3, <2>1, MadeTypes, ControlTypes
    <3> DEFINE s == fifo[p]  t == Made(p)
    <3>2. s \in Seq(Item) /\ t \in Seq(Item) /\ fifo'[p] = s \o t
      BY <1>1, <1>3, <3>1
    <3> HIDE DEF s, t
    <3>3. Len(s \o t) = Len(s) + Len(t)
      BY <3>2
    <3> QED
      BY <3>1, <3>2, <3>3 DEF s, t
  <2>4. m_first(p)' = Wrap(cap, last + (size + B))
    BY <1>1, <2>3 DEF m_first, m_size
  <2>5. first % B = 0 /\ cap % B = 0
    BY DEF AlignedInv, WholeBlocks
  <2> DEFINE old == Wrap(cap, last + size)  new == Wrap(cap, last + (size + B))
  <2>a. new = IF old + B >= cap THEN (old + B) - cap ELSE old + B
    <3>1. cap \in Nat \ {0} /\ last \in Nat /\ size \in Nat /\ B \in Nat /\ last < cap
      BY <2>1
    <3> HIDE DEF cap, B, last, size
    <3> QED
      BY <2>2, <3>1 DEF Wrap
  <2>b. new = m_first(p)' /\ old = first
    BY <2>1, <2>4
  <2> HIDE DEF cap, B, last, size, first, old, new
  <2>6. x \in Nat /\ m_first(p)' = IF x >= cap THEN x - cap ELSE x
    BY <2>1, <2>a, <2>b
  <2>7. x % B = 0
    BY <2>1, <2>5, BlocksAdd
  <2> HIDE DEF x
  <2>8. x >= cap => (x - cap) % B = 0
    BY <2>1, <2>5, <2>6, <2>7, BlocksAdd
  <2>9. m_first(p)' % B = 0
    BY <2>6, <2>7, <2>8
  <2> QED
    BY <2>9 DEF B
<1> QED
  BY <1>2, <1>3

(* end_read of the next process.                                           *)
LEMMA AlignedRead ==
  ASSUME Control, AlignedInv, NEW r \in Processes, EndRead(r)
  PROVE  AlignedInv'
<1> DEFINE q == r - 1  c == Blocksize[r]  cap == Capacity[q]  last == m_last[q]
           size == Len(fifo[q])
<1>1. /\ fifo' = [fifo EXCEPT ![q] = SubSeq(fifo[q], c + 1, Len(fifo[q]))]
      /\ m_last' = [m_last EXCEPT ![q] = Increment(cap, last, c)]
      /\ pc[r] = "end_read" /\ fifo \in [Queues -> Seq(Item)] /\ m_last \in [Queues -> Nat]
  BY DEF EndRead, At, Control, TypeInv
<1>2. /\ q \in Queues /\ cap \in Nat \ {0} /\ c \in Nat /\ last \in Nat /\ size \in Nat
      /\ fifo[q] \in Seq(Item) /\ last < cap /\ size <= cap
  BY PipelineTypes, ControlTypes DEF Control, RoomInv
<1>3. c <= size /\ last + c <= cap
  BY <1>1, <1>2 DEF Control, BlockInv
<1>4. /\ fifo'[q] = SubSeq(fifo[q], c + 1, Len(fifo[q])) /\ m_last'[q] = Increment(cap, last, c)
      /\ \A p \in Queues : p # q => fifo'[p] = fifo[p] /\ m_last'[p] = m_last[p]
  BY <1>1, <1>2
<1>5. Len(fifo'[q]) = size - c
  <2> DEFINE s == fifo[q]
  <2>1. s \in Seq(Item) /\ c \in 0 .. Len(s) /\ fifo'[q] = SubSeq(s, c + 1, Len(s))
    BY <1>2, <1>3, <1>4
  <2> HIDE DEF s, c
  <2>2. Len(SubSeq(s, c + 1, Len(s))) = Len(s) - c
    BY <2>1, BlockOfSeq
  <2> QED
    BY <2>1, <2>2 DEF s
<1> SUFFICES ASSUME NEW p \in Processes PROVE m_first(p)' = m_first(p)
  BY AlignedStays
<1>6. CASE p # q
  BY <1>4, <1>6, PipelineTypes DEF m_first, m_size
<1>7. CASE p = q
  <2>1. m_first(p) = Wrap(cap, last + size)
    BY <1>7 DEF m_first, m_size
  <2>2. m_first(p)' = Wrap(cap, Increment(cap, last, c) + (size - c))
    BY <1>4, <1>5, <1>7 DEF m_first, m_size
  <2>3. Wrap(cap, Increment(cap, last, c) + (size - c)) = Wrap(cap, last + size)
    <3>1. /\ cap \in Nat \ {0} /\ c \in Nat /\ last \in Nat /\ size \in Nat
          /\ last < cap /\ size <= cap /\ c <= size /\ last + c <= cap
      BY <1>2, <1>3
    <3> HIDE DEF cap, last, size, c
    <3> QED
      BY <3>1 DEF Wrap, Increment
  <2> QED
    BY <2>1, <2>2, <2>3
<1> QED
  BY <1>6, <1>7

(* pop_one at the end of the chain.                                        *)
LEMMA AlignedPop ==
  ASSUME Control, AlignedInv, pop_one
  PROVE  AlignedInv'
<1> DEFINE cap == Capacity[N]  last == m_last[N]  size == Len(fifo[N])
<1>1. /\ fifo' = [fifo EXCEPT ![N] = Tail(fifo[N])] /\ size > 0
      /\ m_last' = [m_last EXCEPT ![N] = Increment(cap, last, 1)]
      /\ fifo \in [Queues -> Seq(Item)] /\ m_last \in [Queues -> Nat]
  BY DEF pop_one, m_size, Control, TypeInv
<1>2. /\ N \in Queues /\ cap \in Nat \ {0} /\ last \in Nat /\ size \in Nat
      /\ fifo[N] \in Seq(Item) /\ last < cap /\ size <= cap
  BY PipelineTypes, ControlTypes DEF Control, RoomInv
<1>3. /\ fifo'[N] = Tail(fifo[N]) /\ m_last'[N] = Increment(cap, last, 1)
      /\ \A p \in Queues : p # N => fifo'[p] = fifo[p] /\ m_last'[p] = m_last[p]
  BY <1>1, <1>2
<1>4. Len(fifo'[N]) = size - 1
  BY <1>1, <1>2, <1>3
<1> SUFFICES ASSUME NEW p \in Processes PROVE m_first(p)' = m_first(p)
  BY AlignedStays
<1>5. CASE p # N
  BY <1>3, <1>5, PipelineTypes DEF m_first, m_size
<1>6. CASE p = N
  <2>1. m_first(p) = Wrap(cap, last + size)
    BY <1>6 DEF m_first, m_size
  <2>2. m_first(p)' = Wrap(cap, Increment(cap, last, 1) + (size - 1))
    BY <1>3, <1>4, <1>6 DEF m_first, m_size
  <2>3. Wrap(cap, Increment(cap, last, 1) + (size - 1)) = Wrap(cap, last + size)
    <3>1. /\ cap \in Nat \ {0} /\ last \in Nat /\ size \in Nat
          /\ last < cap /\ size <= cap /\ 1 <= size /\ last + 1 <= cap
      BY <1>1, <1>2
    <3> HIDE DEF cap, last, size
    <3> QED
      BY <3>1 DEF Wrap, Increment
  <2> QED
    BY <2>1, <2>2, <2>3
<1> QED
  BY <1>5, <1>6

LEMMA AlignedNext ==
  ASSUME WholeBlocks
  PROVE  Control /\ AlignedInv /\ [Next]_vars => AlignedInv'
<1> SUFFICES ASSUME Control, AlignedInv, [Next]_vars PROVE AlignedInv'
  OBVIOUS
<1>1. CASE UNCHANGED << fifo, m_last >>
  BY <1>1, AlignedStays DEF m_first, m_size
<1>2. CASE \E p \in Processes : BeginRead(p)
  BY <1>1, <1>2 DEF BeginRead
<1>3. CASE \E a \in Queues : BeginWriteReturns(a) \/ BeginWriteRunsNext(a) \/ Return(a)
  BY <1>1, <1>3 DEF BeginWriteReturns, BeginWriteRunsNext, Return
<1>4. CASE BeginWriteThrows \/ push_one \/ interrupt_write \/ resume_output \/ UNCHANGED vars
  BY <1>1, <1>4 DEF BeginWriteThrows, push_one, interrupt_write, resume_output, vars
<1>5. CASE \E q \in 0 .. N - 1 : resume_write(q)
  BY <1>1, <1>5 DEF resume_write
<1> QED
  BY <1>2, <1>3, <1>4, <1>5, AlignedWrite, AlignedRead, AlignedPop DEF Next, StackNext

(* process_one does not look at what begin_write returns. In queues that   *)
(* are a whole number of blocks it is never less than the block that       *)
(* ProcessBlockFunction writes, however the stack was unwound before.      *)
THEOREM ChainGrantsHoldBlocks ==
  ASSUME WholeBlocks
  PROVE  Spec => []GrantHoldsBlock
<1>1. Init => AlignedInv
  <2> SUFFICES ASSUME Init, NEW p \in Processes PROVE m_first(p) % Blocksize[p] = 0
    BY DEF AlignedInv
  <2>1. /\ fifo[p] = << >> /\ m_last[p] = 0 /\ Capacity[p] \in Nat \ {0}
        /\ Blocksize[p] \in Nat \ {0}
    BY PipelineTypes DEF Init
  <2>2. m_first(p) = 0
    BY <2>1 DEF m_first, m_size, Wrap
  <2> QED
    BY <2>1, <2>2
<1>2. Control /\ AlignedInv => GrantHoldsBlock
  <2> SUFFICES ASSUME Control, AlignedInv, NEW p \in Processes, pc[p] = "end_write"
               PROVE  WriteRoom(Capacity[p], m_first(p), m_last[p], m_size(p)) >= Blocksize[p]
    BY DEF GrantHoldsBlock
  <2> DEFINE cap == Capacity[p]  B == Blocksize[p]  last == m_last[p]  size == Len(fifo[p])
             first == m_first(p)
  <2>1. /\ cap \in Nat \ {0} /\ B \in Nat \ {0} /\ last \in Nat /\ size \in Nat /\ last < cap
        /\ first = Wrap(cap, last + size) /\ first \in Nat /\ first < cap
    BY OutputTypes
  <2>2. size + B <= cap
    BY OutputTypes DEF Control, RoomInv
  <2>3. first % B = 0 /\ cap % B = 0
    BY DEF AlignedInv, WholeBlocks
  <2> HIDE DEF cap, B, last, size, first
  <2>4. first + B <= cap
    BY <2>1, <2>3, BlocksAdd
  <2>5. WriteRoom(cap, first, last, size) >= B
    BY <2>1, <2>2, <2>4 DEF WriteRoom, Wrap
  <2> QED
    BY <2>5 DEF cap, B, last, size, first, m_size
<1> QED
  BY <1>1, <1>2, AlignedNext, ChainBegins, ChainSteps, PTL DEF Spec
=============================================================================
