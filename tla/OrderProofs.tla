---------------------------- MODULE OrderProofs ----------------------------
(***************************************************************************)
(* Facts about sets of natural numbers and about sequences that the proofs *)
(* share: least and greatest elements, the ordered-map lookups, and the     *)
(* layout of sections.                                                     *)
(***************************************************************************)
EXTENDS Integers, Sequences, Lookup, Layout, WellFoundedInduction, TLAPS

\* A set of natural numbers that is not empty has a least element.
LEMMA LeastExists ==
  ASSUME NEW S \in SUBSET Nat, S # {}
  PROVE  \E m \in S : \A n \in S : m <= n
<1>1. \E m \in S : \A n \in S : <<n, m>> \notin OpToRel(<, Nat)
  BY NatLessThanWellFounded, WFMin
<1>2. PICK m \in S : \A n \in S : <<n, m>> \notin OpToRel(<, Nat)
  BY <1>1
<1>3. ASSUME NEW n \in S PROVE m <= n
  <2>1. ~(n < m)
    BY <1>2 DEF OpToRel
  <2> QED BY <2>1
<1> QED BY <1>3

\* A set of natural numbers that is bounded and not empty has a greatest one:
\* the least distance from the bound is its distance.
LEMMA GreatestExists ==
  ASSUME NEW S \in SUBSET Nat, S # {}, NEW b \in Nat, \A n \in S : n <= b
  PROVE  \E m \in S : \A n \in S : n <= m
<1> DEFINE D == {b - n : n \in S}
<1>1. D \in SUBSET Nat /\ D # {}
  <2>1. \A n \in S : b - n \in Nat
    OBVIOUS
  <2> QED BY <2>1
<1>2. PICK d \in D : \A e \in D : d <= e
  BY <1>1, LeastExists
<1>3. PICK m \in S : d = b - m
  BY <1>2
<1>4. \A n \in S : b - m <= b - n
  BY <1>2, <1>3
<1>5. \A n \in S : n <= m
  BY <1>4
<1> QED BY <1>5

\* A property of 0 that each number hands to the next holds of all: stated of
\* the set of numbers that have it.
LEMMA Induction ==
  ASSUME NEW S, 0 \in S, \A n \in Nat : n \in S => n + 1 \in S
  PROVE  Nat \subseteq S
<1> DEFINE T == Nat \ S
<1>1. CASE T = {}
  BY <1>1
<1>2. CASE T # {}
  <2>1. PICK m \in T : \A n \in T : m <= n
    BY <1>2, LeastExists
  <2>2. m # 0 /\ m - 1 \in Nat /\ m - 1 \notin T
    BY <2>1
  <2>3. (m - 1) + 1 \in S
    BY <2>2
  <2> QED BY <2>1, <2>2, <2>3
<1> QED BY <1>1, <1>2

\* A lookup below a number has an answer if any key is at or below it.
LEMMA PredecessorExists ==
  ASSUME NEW keys \in SUBSET Nat, NEW rva \in Nat, NEW k \in keys, k <= rva
  PROVE  \E p \in Predecessor(keys, rva) : k <= p
<1> DEFINE below == {j \in keys : j <= rva}
<1>1. below \in SUBSET Nat /\ k \in below /\ \A n \in below : n <= rva
  OBVIOUS
<1>2. PICK p \in below : \A n \in below : n <= p
  BY <1>1, GreatestExists
<1> QED BY <1>1, <1>2 DEF Predecessor

\* The rest of a sequence is the sequence, one place on.
LEMMA TailFacts ==
  ASSUME NEW S, NEW seq \in Seq(S), seq # <<>>
  PROVE  /\ Head(seq) = seq[1] /\ Head(seq) \in S /\ 1 \in DOMAIN seq
         /\ Tail(seq) \in Seq(S)
         /\ DOMAIN seq = 1 .. Len(seq) /\ Len(seq) \in Nat
         /\ \A n \in DOMAIN Tail(seq) :
              n \in Nat /\ n + 1 \in DOMAIN seq /\ Tail(seq)[n] = seq[n + 1]
         /\ \A n \in DOMAIN seq \ {1} :
              n - 1 \in DOMAIN Tail(seq) /\ Tail(seq)[n - 1] = seq[n]
<1>1. /\ Len(seq) \in Nat \ {0} /\ DOMAIN seq = 1 .. Len(seq)
      /\ Tail(seq) \in Seq(S) /\ Head(seq) = seq[1] /\ Head(seq) \in S
  OBVIOUS
<1>2. DOMAIN Tail(seq) = 1 .. Len(seq) - 1
  OBVIOUS
<1>3. \A n \in 1 .. Len(seq) - 1 : Tail(seq)[n] = seq[n + 1]
  OBVIOUS
<1>4. \A n \in 2 .. Len(seq) : Tail(seq)[n - 1] = seq[n]
  <2> TAKE n \in 2 .. Len(seq)
  <2>1. n - 1 \in 1 .. Len(seq) - 1 /\ (n - 1) + 1 = n
    BY <1>1
  <2> QED BY <1>3, <2>1
<1> QED BY <1>1, <1>2, <1>3, <1>4
-----------------------------------------------------------------------------
(* The layout of sections.                                                 *)

\* Division with remainder, for a divisor that is not a number written out.
LEMMA Division ==
  ASSUME NEW v \in Nat, NEW r \in Nat \ {0}
  PROVE  /\ v \div r \in Nat /\ v % r \in 0 .. r - 1
         /\ v = r * (v \div r) + (v % r)
OBVIOUS

\* Rounding up gives a multiple that is not below.
LEMMA AlignUpFacts ==
  ASSUME NEW x \in Nat, NEW n \in Nat \ {0}
  PROVE  AlignUp(x, n) \in Nat /\ x <= AlignUp(x, n) /\ AlignUp(x, n) % n = 0
<1> DEFINE v == x + n - 1
           q == v \div n
<1>1. v \in Nat /\ v = x + (n - 1)
  OBVIOUS
<1>2. q \in Nat /\ v % n \in 0 .. n - 1 /\ v = n * q + (v % n)
  <2> HIDE DEF v
  <2> QED BY <1>1
<1> HIDE DEF q
<1>3. n * q \in Nat /\ n * q = q * n
  BY <1>2
<1>4. x <= q * n
  BY <1>1, <1>2, <1>3
<1>5. (q * n) % n = 0
  <2> DEFINE m == n * q
             d == m \div n
             r == m % n
             k == q - d
  <2>1. d \in Nat /\ r \in 0 .. n - 1 /\ m = n * d + r
    <3> HIDE DEF m
    <3>1. m \in Nat
      BY <1>3 DEF m
    <3> QED BY <3>1, Division
  <2>2. r = n * k /\ k \in Int
    <3> HIDE DEF d, r
    <3> QED BY <1>2, <2>1
  <2> HIDE DEF d, k, r
  <2>3. ~(k >= 1)
    BY <2>1, <2>2
  <2>4. ~(k <= -1)
    BY <2>1, <2>2
  <2>5. r = 0
    BY <2>2, <2>3, <2>4
  <2> QED BY <1>3, <2>5 DEF r
<1> QED BY <1>3, <1>4, <1>5 DEF AlignUp, q

\* The recursion of the running end has a solution, whatever the order holds.
LEMMA SectionEndFacts ==
  ASSUME NEW order, Len(order) \in Nat, NEW object, NEW section, NEW pad_rdata,
         NEW end, end = SectionEnd(order, object, section, pad_rdata)
  PROVE  /\ end[0] = Padding(section, pad_rdata)
         /\ \A m \in 1 .. Len(order) :
              end[m] = IF order[m].object = object /\ order[m].storage = section
                       THEN AlignUp(end[m - 1], order[m].alignment) + order[m].size
                       ELSE end[m - 1]
<1> DEFINE N == Len(order)
           Next(before, m) ==
             IF order[m].object = object /\ order[m].storage = section
             THEN AlignUp(before, order[m].alignment) + order[m].size
             ELSE before
           step(g, m) == IF m = 0 THEN Padding(section, pad_rdata)
                         ELSE IF order[m].object = object /\ order[m].storage = section
                              THEN AlignUp(g[m - 1], order[m].alignment) + order[m].size
                              ELSE g[m - 1]
           chosen == CHOOSE g : g = [m \in 0 .. N |-> step(g, m)]
           Runs(g, k) == /\ g[0] = Padding(section, pad_rdata)
                         /\ \A m \in 1 .. k : g[m] = Next(g[m - 1], m)
           S == {k \in Nat : \E g : g = [m \in 0 .. k |-> g[m]] /\ Runs(g, k)}
<1>1. 0 \in S
  <2>1. PICK g : g = [m \in 0 .. 0 |-> Padding(section, pad_rdata)]
    OBVIOUS
  <2>2. g = [m \in 0 .. 0 |-> g[m]] /\ Runs(g, 0)
    BY <2>1
  <2> QED BY <2>2
<1>2. ASSUME NEW k \in Nat, k \in S PROVE k + 1 \in S
  <2> HIDE DEF Next
  <2>1. PICK g : g = [m \in 0 .. k |-> g[m]] /\ Runs(g, k)
    BY <1>2
  <2>2. PICK h : h = [m \in 0 .. k + 1 |-> IF m = k + 1 THEN Next(g[k], k + 1) ELSE g[m]]
    OBVIOUS
  <2>3. /\ \A m \in 0 .. k : h[m] = g[m]
        /\ h[k + 1] = Next(g[k], k + 1)
        /\ h = [m \in 0 .. k + 1 |-> h[m]]
    BY <2>2
  <2>4. Runs(h, k + 1)
    <3>1. h[0] = Padding(section, pad_rdata)
      BY <2>1, <2>3
    <3>2. \A m \in 1 .. k : h[m] = Next(h[m - 1], m)
      <4> TAKE m \in 1 .. k
      <4>1. m \in 0 .. k /\ m - 1 \in 0 .. k
        OBVIOUS
      <4>2. g[m] = Next(g[m - 1], m)
        BY <2>1
      <4> QED BY <2>3, <4>1, <4>2
    <3>3. h[k + 1] = Next(h[(k + 1) - 1], k + 1)
      <4>1. k \in 0 .. k /\ (k + 1) - 1 = k
        OBVIOUS
      <4> QED BY <2>3, <4>1
    <3>4. \A m \in 1 .. k + 1 : m \in 1 .. k \/ m = k + 1
      OBVIOUS
    <3> QED BY <3>1, <3>2, <3>3, <3>4
  <2> HIDE DEF Runs
  <2>5. \E f : f = [m \in 0 .. k + 1 |-> f[m]] /\ Runs(f, k + 1)
    BY <2>3, <2>4
  <2> QED BY <2>5
<1>3. N \in S
  <2> HIDE DEF S
  <2> QED BY <1>1, <1>2, Induction
<1>4. PICK g : g = [m \in 0 .. N |-> g[m]] /\ Runs(g, N)
  BY <1>3
<1>5. g = [m \in 0 .. N |-> step(g, m)]
  <2>1. \A m \in 0 .. N : g[m] = step(g, m)
    <3> TAKE m \in 0 .. N
    <3>1. m = 0 \/ m \in 1 .. N
      OBVIOUS
    <3> QED BY <1>4, <3>1
  <2> HIDE DEF step
  <2> QED BY <1>4, <2>1
<1>6. chosen = [m \in 0 .. N |-> step(chosen, m)]
  BY <1>5
<1>7. end = chosen
  BY DEF SectionEnd
<1>8. end = [m \in 0 .. N |-> step(end, m)]
  BY <1>6, <1>7
<1>9. \A m \in 0 .. N : end[m] = step(end, m)
  <2> HIDE DEF step
  <2> QED BY <1>8
<1>10. end[0] = Padding(section, pad_rdata)
  <2>1. 0 \in 0 .. N
    OBVIOUS
  <2> QED BY <1>9, <2>1
<1>11. \A m \in 1 .. N : m \in 0 .. N /\ m # 0
  OBVIOUS
<1> QED BY <1>9, <1>10, <1>11
=============================================================================
