--------------------------- MODULE SequenceLemmas ---------------------------
(***************************************************************************)
(* Induction over the natural numbers for a set instead of a predicate,    *)
(* what a concatenation is, place by place, and what FlattenSeq of the     *)
(* community modules yields, which the proofs about pbuf chains and        *)
(* fragments use.                                                          *)
(***************************************************************************)
EXTENDS Naturals, Sequences, SequencesExt, WellFoundedInduction, TLAPS

-----------------------------------------------------------------------------
(* Induction.                                                              *)

LEMMA LeastElement ==
  ASSUME NEW B, B \subseteq Nat, B # {}
  PROVE  \E n \in B : \A m \in B : n <= m
<1> DEFINE R == {pair \in Nat \X Nat : pair[1] < pair[2]}
<1>1. IsWellFoundedOn(R, Nat)
  BY NatLessThanWellFounded DEF OpToRel
<1> HIDE DEF R
<1>2. PICK n \in B : \A m \in B : <<m, n>> \notin R
  BY <1>1, WFMin
<1>3. \A m \in B : ~(m < n)
  BY <1>2 DEF R
<1> QED
  BY <1>3

\* Every number up to n is in a set that holds 0 and, of each number below n, the
\* next one.
LEMMA Induction ==
  ASSUME NEW S, NEW n \in Nat, 0 \in S, \A k \in 0..n : k \in S /\ k < n => k + 1 \in S
  PROVE  \A k \in 0..n : k \in S
<1> DEFINE B == (0..n) \ S
<1>1. CASE B = {}
  BY <1>1
<1>2. CASE B # {}
  <2> B \subseteq Nat
    OBVIOUS
  <2> HIDE DEF B
  <2>1. PICK k \in B : \A m \in B : k <= m
    BY <1>2, LeastElement
  <2> USE DEF B
  <2>2. k # 0 /\ k - 1 \in 0..n /\ k - 1 \notin B /\ k - 1 < n
    BY <2>1
  <2>3. k - 1 \in S
    BY <2>2
  <2> QED
    BY <2>1, <2>2, <2>3
<1> QED
  BY <1>1, <1>2

-----------------------------------------------------------------------------
(* Concatenation.                                                          *)
\* SMT is at home with concatenation only where it is not spelled out.
Join(s, t) == s \o t

LEMMA JoinType ==
  ASSUME NEW S, NEW s \in Seq(S), NEW t \in Seq(S)
  PROVE  Join(s, t) \in Seq(S)
  BY DEF Join

LEMMA JoinNone ==
  ASSUME NEW S, NEW s \in Seq(S)
  PROVE  Join(<<>>, s) = s /\ Join(s, <<>>) = s
  BY DEF Join

LEMMA JoinAssociative ==
  ASSUME NEW S, NEW r \in Seq(S), NEW s \in Seq(S), NEW t \in Seq(S)
  PROVE  Join(Join(r, s), t) = Join(r, Join(s, t))
  BY DEF Join

\* What is at each place of two sequences of these lengths together.
Joined(r, s, t, m, n) ==
  /\ Len(r) = m + n
  /\ \A i \in 1..m : r[i] = s[i]
  /\ \A i \in 1..n : r[m + i] = t[i]

LEMMA JoinIs ==
  ASSUME NEW S, NEW s \in Seq(S), NEW t \in Seq(S)
  PROVE  Joined(Join(s, t), s, t, Len(s), Len(t))
  BY DEF Join, Joined

LEMMA EmptyIs ==
  ASSUME NEW S, NEW s \in Seq(S), Len(s) = 0
  PROVE  s = <<>>
  OBVIOUS

LEMMA TailIs ==
  ASSUME NEW S, NEW s \in Seq(S), s # <<>>
  PROVE  /\ Tail(s) \in Seq(S) /\ Len(Tail(s)) \in Nat /\ Len(s) = Len(Tail(s)) + 1
         /\ Head(s) \in S /\ Head(s) = s[1]
         /\ \A i \in 1..Len(Tail(s)) : Tail(s)[i] = s[i + 1]
  OBVIOUS

LEMMA SameSeq ==
  ASSUME NEW S, NEW s \in Seq(S), NEW t \in Seq(S), Len(s) = Len(t),
         \A i \in 1..Len(s) : s[i] = t[i]
  PROVE  s = t
  OBVIOUS

LEMMA HeadJoinsTail ==
  ASSUME NEW S, NEW s \in Seq(S), s # <<>>
  PROVE  s = Join(<<Head(s)>>, Tail(s))
<1>1. PICK a, t : a = <<Head(s)>> /\ t = Tail(s)
  OBVIOUS
<1>2. PICK k \in Nat : k = Len(t) /\ Len(s) = k + 1
  BY <1>1, TailIs
<1>3. /\ a \in Seq(S) /\ Len(a) = 1 /\ a[1] = s[1]
      /\ t \in Seq(S) /\ \A i \in 1..k : t[i] = s[i + 1]
  BY <1>1, <1>2, TailIs
<1>4. PICK b : b = Join(a, t)
  OBVIOUS
<1>5. Joined(b, a, t, 1, k) /\ b \in Seq(S)
  <2>1. Joined(b, a, t, Len(a), Len(t))
    BY <1>3, <1>4, JoinIs
  <2> QED
    BY <1>2, <1>3, <1>4, <2>1, JoinType
<1>6. Len(b) = k + 1
  BY <1>5 DEF Joined
<1>7. ASSUME NEW i \in 1..(k + 1) PROVE b[i] = s[i]
  <2>1. CASE i = 1
    BY <1>3, <1>5, <2>1 DEF Joined
  <2>2. CASE i # 1
    <3>1. PICK j : j = i - 1
      OBVIOUS
    <3>2. j \in 1..k /\ 1 + j = i /\ j + 1 = i
      BY <2>2, <3>1
    <3>3. b[1 + j] = t[j] /\ t[j] = s[j + 1]
      BY <1>3, <1>5, <3>2 DEF Joined
    <3> QED
      BY <3>2, <3>3
  <2> QED
    BY <2>1, <2>2
<1>8. b = s
  BY <1>2, <1>5, <1>6, <1>7, SameSeq
<1> QED
  BY <1>1, <1>4, <1>8

LEMMA JoinSet ==
  ASSUME NEW S, NEW s \in Seq(S), NEW t \in Seq(S)
  PROVE  ToSet(Join(s, t)) = ToSet(s) \cup ToSet(t)
<1>1. PICK m \in Nat, n \in Nat : m = Len(s) /\ n = Len(t)
  OBVIOUS
<1>2. PICK b : b = Join(s, t)
  OBVIOUS
<1>3. Joined(b, s, t, m, n) /\ b \in Seq(S)
  BY <1>1, <1>2, JoinIs, JoinType
<1>4. /\ ToSet(b) = {b[i] : i \in 1..(m + n)}
      /\ ToSet(s) = {s[i] : i \in 1..m} /\ ToSet(t) = {t[i] : i \in 1..n}
  <2>1. Len(b) = m + n
    BY <1>3 DEF Joined
  <2>2. DOMAIN b = 1..(m + n) /\ DOMAIN s = 1..m /\ DOMAIN t = 1..n
    BY <1>1, <1>3, <2>1
  <2> QED
    BY <2>2 DEF ToSet
<1>5. ASSUME NEW i \in 1..(m + n) PROVE b[i] \in ToSet(s) \cup ToSet(t)
  <2>1. CASE i <= m
    <3>1. i \in 1..m /\ b[i] = s[i]
      BY <1>3, <2>1 DEF Joined
    <3> QED
      BY <1>4, <3>1
  <2>2. CASE ~(i <= m)
    <3>1. PICK j : j = i - m
      OBVIOUS
    <3>2. j \in 1..n /\ m + j = i
      BY <2>2, <3>1
    <3>3. b[m + j] = t[j]
      BY <1>3, <3>2 DEF Joined
    <3> QED
      BY <1>4, <3>2, <3>3
  <2> QED
    BY <2>1, <2>2
<1>6. ASSUME NEW i \in 1..m PROVE s[i] \in ToSet(b)
  <2>1. i \in 1..(m + n) /\ b[i] = s[i]
    BY <1>3 DEF Joined
  <2> QED
    BY <1>4, <2>1
<1>7. ASSUME NEW i \in 1..n PROVE t[i] \in ToSet(b)
  <2>1. PICK j : j = m + i
    OBVIOUS
  <2>2. j \in 1..(m + n) /\ b[j] = t[i]
    BY <1>3, <2>1 DEF Joined
  <2>3. b[j] \in ToSet(b)
    BY <1>4, <2>2
  <2> QED
    BY <2>2, <2>3
<1>8. ToSet(b) \subseteq ToSet(s) \cup ToSet(t)
  BY <1>4, <1>5
<1>9. ToSet(s) \subseteq ToSet(b)
  BY <1>4, <1>6
<1>10. ToSet(t) \subseteq ToSet(b)
  BY <1>4, <1>7
<1> QED
  BY <1>2, <1>8, <1>9, <1>10

-----------------------------------------------------------------------------
(* FlattenSeq.                                                             *)

\* g[i] is what the first i sequences of q are together.
Flattens(g, q, n, S) ==
  /\ g \in [0..n -> Seq(S)] /\ g[0] = <<>>
  /\ \A i \in 0..(n - 1) : g[i + 1] = Join(g[i], q[i + 1])

LEMMA FlattensStep ==
  ASSUME NEW S, NEW q, NEW n \in Nat, NEW g, Flattens(g, q, n, S), NEW i \in 0..(n - 1),
         NEW j, j = i + 1
  PROVE  g[j] = Join(g[i], q[j]) /\ g[i] \in Seq(S) /\ g[j] \in Seq(S)
<1>1. i \in 0..n /\ i + 1 \in 0..n
  OBVIOUS
<1> QED
  BY <1>1 DEF Flattens

LEMMA FlattensLonger ==
  ASSUME NEW S, NEW q, NEW k \in Nat, NEW g, Flattens(g, q, k, S), q[k + 1] \in Seq(S)
  PROVE  \E h : Flattens(h, q, k + 1, S)
<1>1. PICK c : c = Join(g[k], q[k + 1])
  OBVIOUS
<1>2. g \in [0..k -> Seq(S)] /\ g[0] = <<>>
  BY DEF Flattens
<1>3. c \in Seq(S)
  <2>1. g[k] \in Seq(S)
    BY <1>2
  <2> QED
    BY <1>1, <2>1, JoinType
<1>4. PICK h : h = [i \in 0..(k + 1) |-> IF i = k + 1 THEN c ELSE g[i]]
  OBVIOUS
<1>5. h \in [0..(k + 1) -> Seq(S)]
  BY <1>2, <1>3, <1>4
<1>6. h[0] = <<>>
  BY <1>2, <1>4
<1>7. ASSUME NEW i \in 0..(k + 1 - 1)
      PROVE  h[i + 1] = Join(h[i], q[i + 1])
  <2>1. CASE i = k
    <3>1. h[i + 1] = c /\ h[i] = g[k]
      BY <1>4, <2>1
    <3> QED
      BY <1>1, <2>1, <3>1
  <2>2. CASE i # k
    <3>1. i \in 0..(k - 1) /\ h[i + 1] = g[i + 1] /\ h[i] = g[i]
      BY <1>4, <2>2
    <3>2. g[i + 1] = Join(g[i], q[i + 1])
      BY <3>1, FlattensStep
    <3> QED
      BY <3>1, <3>2
  <2> QED
    BY <2>1, <2>2
<1>8. Flattens(h, q, k + 1, S)
  BY <1>5, <1>6, <1>7 DEF Flattens
<1> QED
  BY <1>8

LEMMA FlattensExists ==
  ASSUME NEW S, NEW q, NEW n \in Nat, \A i \in 1..n : q[i] \in Seq(S)
  PROVE  \E g : Flattens(g, q, n, S)
<1> DEFINE Done == {k \in 0..n : \E g : Flattens(g, q, k, S)}
<1>1. 0 \in Done
  <2>1. PICK g : g = [i \in 0..0 |-> <<>>]
    OBVIOUS
  <2>2. Flattens(g, q, 0, S)
    BY <2>1 DEF Flattens
  <2> QED
    BY <2>2
<1>2. ASSUME NEW k \in 0..n, k \in Done, k < n
      PROVE  k + 1 \in Done
  <2>1. PICK g : Flattens(g, q, k, S)
    BY <1>2
  <2>2. k \in Nat /\ k + 1 \in 0..n /\ q[k + 1] \in Seq(S)
    BY <1>2
  <2>3. \E h : Flattens(h, q, k + 1, S)
    BY <2>1, <2>2, FlattensLonger
  <2> QED
    BY <2>2, <2>3
<1>3. \A k \in 0..n : k \in Done /\ k < n => k + 1 \in Done
  BY <1>2
<1>4. \A k \in 0..n : k \in Done
  <2> HIDE DEF Done
  <2> QED
    BY <1>1, <1>3, Induction
<1> QED
  BY <1>4

Agree(q, r, n) == \A i \in 1..n : q[i] = r[i]

\* Two sequences of sums of the same sequences are the same.
LEMMA FlattensOnce ==
  ASSUME NEW S, NEW n \in Nat, NEW q, NEW r, NEW g, NEW h,
         Flattens(g, q, n, S), Flattens(h, r, n, S),
         Agree(q, r, n)
  PROVE  g[n] = h[n]
<1> DEFINE Same == {k \in 0..n : g[k] = h[k]}
<1>1. 0 \in Same
  BY DEF Flattens
<1>2. ASSUME NEW k \in 0..n, k \in Same, k < n
      PROVE  k + 1 \in Same
  <2> HIDE DEF Same
  <2>1. k \in 0..(n - 1)
    BY <1>2
  <2>2. PICK j : j = k + 1
    OBVIOUS
  <2>3. g[j] = Join(g[k], q[j])
    BY <2>1, <2>2 DEF Flattens
  <2>4. h[j] = Join(h[k], r[j])
    BY <2>1, <2>2 DEF Flattens
  <2>5. q[j] = r[j]
    BY <2>1, <2>2 DEF Agree
  <2>6. g[k] = h[k]
    BY <1>2 DEF Same
  <2>7. g[j] = h[j] /\ j \in 0..n
    BY <2>1, <2>2, <2>3, <2>4, <2>5, <2>6
  <2> QED
    BY <2>2, <2>7 DEF Same
<1>3. \A k \in 0..n : k \in Same /\ k < n => k + 1 \in Same
  BY <1>2
<1>4. \A k \in 0..n : k \in Same
  <2> HIDE DEF Same
  <2> QED
    BY <1>1, <1>3, Induction
<1> QED
  BY <1>4

LEMMA FlattenOfNone == FlattenSeq(<<>>) = <<>>
  BY DEF FlattenSeq

\* The recursive definition of FlattenSeq has a solution, the sums.
FlattenSolves(f, q, n) ==
  f = [i \in 1..n |-> IF i = 1 THEN q[i] ELSE Join(f[i - 1], q[i])]

LEMMA FlattenUnfolds ==
  ASSUME NEW q, Len(q) # 0
  PROVE  FlattenSeq(q) = (CHOOSE f : FlattenSolves(f, q, Len(q)))[Len(q)]
  BY DEF FlattenSeq, FlattenSolves, Join

LEMMA SumsSolve ==
  ASSUME NEW S, NEW q, NEW n \in Nat, \A i \in 1..n : q[i] \in Seq(S), NEW g,
         Flattens(g, q, n, S)
  PROVE  FlattenSolves([i \in 1..n |-> g[i]], q, n)
<1>1. PICK h : h = [i \in 1..n |-> g[i]]
  OBVIOUS
<1>2. ASSUME NEW i \in 1..n
      PROVE  g[i] = IF i = 1 THEN q[i] ELSE Join(h[i - 1], q[i])
  <2>1. PICK k \in 0..(n - 1) : i = k + 1
    <3>1. i - 1 \in 0..(n - 1) /\ i = (i - 1) + 1
      OBVIOUS
    <3> QED
      BY <3>1
  <2>2. g[i] = Join(g[k], q[i])
    <3>1. i = k + 1
      BY <2>1
    <3> QED
      BY <3>1, FlattensStep
  <2>3. CASE k = 0
    <3>1. g[k] = <<>> /\ q[i] \in Seq(S)
      BY <2>3 DEF Flattens
    <3> QED
      BY <2>1, <2>2, <2>3, <3>1, JoinNone
  <2>4. CASE k # 0
    <3>1. h[i - 1] = g[k] /\ i # 1
      BY <1>1, <2>1, <2>4
    <3> QED
      BY <2>2, <3>1
  <2> QED
    BY <2>3, <2>4
<1>3. FlattenSolves(h, q, n)
  BY <1>1, <1>2 DEF FlattenSolves
<1> QED
  BY <1>1, <1>3

\* FlattenSeq(q) is the last of the sums.
LEMMA FlattenIs ==
  ASSUME NEW S, NEW q \in Seq(Seq(S)), NEW n \in Nat, n = Len(q), NEW g,
         Flattens(g, q, n, S)
  PROVE  FlattenSeq(q) = g[n]
<1>1. CASE n = 0
  <2>1. q = <<>>
    BY <1>1, EmptyIs
  <2> QED
    BY <1>1, <2>1, FlattenOfNone DEF Flattens
<1>2. CASE n # 0
  <2>1. PICK f : FlattenSolves(f, q, n) /\ FlattenSeq(q) = f[n]
    <3>1. \E f : FlattenSolves(f, q, n)
      <4>1. \A i \in 1..n : q[i] \in Seq(S)
        OBVIOUS
      <4> QED
        BY <4>1, SumsSolve
    <3>2. FlattenSolves(CHOOSE f : FlattenSolves(f, q, n), q, n)
      BY <3>1, Zenon
    <3>3. FlattenSeq(q) = (CHOOSE f : FlattenSolves(f, q, n))[n]
      BY <1>2, FlattenUnfolds
    <3> QED
      BY <3>2, <3>3, Zenon
  <2> DEFINE Same == {k \in 0..(n - 1) : f[k + 1] = g[k + 1]}
  <2>2. \A i \in 1..n : f[i] = IF i = 1 THEN q[i] ELSE Join(f[i - 1], q[i])
    <3>1. f = [i \in 1..n |-> IF i = 1 THEN q[i] ELSE Join(f[i - 1], q[i])]
      BY <2>1 DEF FlattenSolves
    <3> QED
      BY <3>1
  <2>3. 0 \in Same
    <3>1. f[1] = q[1] /\ q[1] \in Seq(S)
      BY <1>2, <2>2
    <3>2. g[1] = Join(g[0], q[1])
      <4>1. 0 \in 0..(n - 1)
        BY <1>2
      <4>2. g[0 + 1] = Join(g[0], q[0 + 1])
        BY <4>1, FlattensStep
      <4> QED
        BY <4>2
    <3>3. g[0] = <<>>
      BY DEF Flattens
    <3>4. g[1] = q[1]
      BY <3>1, <3>2, <3>3, JoinNone
    <3> QED
      BY <1>2, <3>1, <3>4
  <2>4. ASSUME NEW k \in 0..(n - 1), k \in Same, k < n - 1
        PROVE  k + 1 \in Same
    <3>1. k + 1 \in 0..(n - 1) /\ k + 2 \in 1..n /\ k + 2 # 1 /\ k + 2 - 1 = k + 1
      BY <2>4
    <3>2. f[k + 2] = Join(f[k + 1], q[k + 2])
      BY <2>2, <3>1
    <3>3. g[k + 2] = Join(g[k + 1], q[k + 2])
      <4>1. PICK j : j = k + 1
        OBVIOUS
      <4>2. j \in 0..(n - 1) /\ k + 2 = j + 1
        BY <3>1, <4>1
      <4>3. g[k + 2] = Join(g[j], q[k + 2])
        BY <4>2, FlattensStep
      <4> QED
        BY <4>1, <4>3
    <3>4. f[k + 1] = g[k + 1]
      BY <2>4
    <3>5. f[k + 2] = g[k + 2] /\ k + 1 + 1 = k + 2
      BY <3>2, <3>3, <3>4
    <3> QED
      BY <3>1, <3>5
  <2>5. \A k \in 0..(n - 1) : k \in Same
    <3>1. \A k \in 0..(n - 1) : k \in Same /\ k < n - 1 => k + 1 \in Same
      BY <2>4
    <3>2. n - 1 \in Nat
      BY <1>2
    <3> HIDE DEF Same
    <3> QED
      BY <2>3, <3>1, <3>2, Induction
  <2>6. n - 1 \in Same
    <3>1. n - 1 \in 0..(n - 1)
      BY <1>2
    <3> HIDE DEF Same
    <3> QED
      BY <2>5, <3>1
  <2>7. f[n] = g[n]
    BY <2>6
  <2> QED
    BY <2>1, <2>7
<1> QED
  BY <1>1, <1>2

LEMMA FlattenSums ==
  ASSUME NEW S, NEW q \in Seq(Seq(S)), NEW n \in Nat, n = Len(q)
  PROVE  \E g : Flattens(g, q, n, S) /\ FlattenSeq(q) = g[n]
<1>1. \A i \in 1..n : q[i] \in Seq(S)
  OBVIOUS
<1>2. PICK g : Flattens(g, q, n, S)
  BY <1>1, FlattensExists
<1> QED
  BY <1>2, FlattenIs

LEMMA FlattenType ==
  ASSUME NEW S, NEW q \in Seq(Seq(S))
  PROVE  FlattenSeq(q) \in Seq(S)
<1>1. PICK n \in Nat : n = Len(q)
  OBVIOUS
<1>2. PICK g : Flattens(g, q, n, S) /\ FlattenSeq(q) = g[n]
  BY <1>1, FlattenSums
<1> QED
  BY <1>2 DEF Flattens

LEMMA FlattenAppend ==
  ASSUME NEW S, NEW q \in Seq(Seq(S)), NEW c \in Seq(S)
  PROVE  FlattenSeq(Append(q, c)) = FlattenSeq(q) \o c
<1>1. PICK n \in Nat : n = Len(q)
  OBVIOUS
<1>2. PICK r : r = Append(q, c)
  OBVIOUS
<1>3. r \in Seq(Seq(S)) /\ n + 1 = Len(r) /\ r[n + 1] = c /\ \A i \in 1..n : r[i] = q[i]
  BY <1>1, <1>2
<1>4. PICK g : Flattens(g, q, n, S) /\ FlattenSeq(q) = g[n]
  BY <1>1, FlattenSums
<1>5. PICK h : Flattens(h, r, n + 1, S) /\ FlattenSeq(r) = h[n + 1]
  BY <1>3, FlattenSums
<1>6. PICK m : m = [i \in 0..n |-> h[i]]
  OBVIOUS
<1>7. Flattens(m, r, n, S)
  <2>1. h \in [0..(n + 1) -> Seq(S)] /\ h[0] = <<>>
    BY <1>5 DEF Flattens
  <2>2. ASSUME NEW i \in 0..(n - 1) PROVE m[i + 1] = Join(m[i], r[i + 1])
    <3>1. i \in 0..(n + 1 - 1) /\ n + 1 \in Nat
      OBVIOUS
    <3>2. h[i + 1] = Join(h[i], r[i + 1])
      BY <1>5, <3>1, FlattensStep
    <3> QED
      BY <1>6, <3>2
  <2>3. m \in [0..n -> Seq(S)] /\ m[0] = <<>>
    BY <1>6, <2>1
  <2> QED
    BY <2>2, <2>3 DEF Flattens
<1>8. m[n] = g[n]
  <2>1. Agree(r, q, n)
    BY <1>3 DEF Agree
  <2> QED
    BY <1>4, <1>7, <2>1, FlattensOnce
<1>9. h[n + 1] = Join(h[n], c)
  <2>1. n \in 0..(n + 1 - 1) /\ n + 1 \in Nat
    OBVIOUS
  <2>2. h[n + 1] = Join(h[n], r[n + 1])
    BY <1>5, <2>1, FlattensStep
  <2> QED
    BY <1>3, <2>2
<1>10. FlattenSeq(r) = Join(FlattenSeq(q), c)
  BY <1>4, <1>5, <1>6, <1>8, <1>9
<1> QED
  BY <1>2, <1>10 DEF Join

LEMMA FlattenHeadTail ==
  ASSUME NEW S, NEW q \in Seq(Seq(S)), q # <<>>
  PROVE  FlattenSeq(q) = Head(q) \o FlattenSeq(Tail(q))
<1>1. PICK t, a : t = Tail(q) /\ a = Head(q)
  OBVIOUS
<1>2. PICK n \in Nat : n = Len(t) /\ n + 1 = Len(q)
  BY <1>1, TailIs
<1>3. t \in Seq(Seq(S)) /\ a \in Seq(S) /\ q[1] = a /\ \A i \in 1..n : t[i] = q[i + 1]
  BY <1>1, <1>2, TailIs
<1>4. PICK g : Flattens(g, q, n + 1, S) /\ FlattenSeq(q) = g[n + 1]
  BY <1>2, FlattenSums
<1>5. PICK h : Flattens(h, t, n, S) /\ FlattenSeq(t) = h[n]
  BY <1>2, <1>3, FlattenSums
<1> DEFINE Good == {k \in 0..n : g[k + 1] = Join(a, h[k])}
<1>6. 0 \in Good
  <2>1. g[0] = <<>> /\ h[0] = <<>>
    BY <1>4, <1>5 DEF Flattens
  <2>2. g[0 + 1] = Join(g[0], q[0 + 1])
    <3>1. 0 \in 0..(n + 1 - 1) /\ n + 1 \in Nat
      OBVIOUS
    <3> QED
      BY <1>4, <3>1, FlattensStep
  <2>3. Join(<<>>, a) = Join(a, <<>>)
    BY <1>3, JoinNone
  <2> QED
    BY <1>3, <2>1, <2>2, <2>3
<1>7. ASSUME NEW k \in 0..n, k \in Good, k < n
      PROVE  k + 1 \in Good
  <2>1. PICK j : j = k + 1
    OBVIOUS
  <2>2. j \in 0..n /\ j \in 0..(n + 1 - 1) /\ k \in 0..(n - 1) /\ j \in 1..n
    BY <1>7, <2>1
  <2>3. g[j + 1] = Join(g[j], q[j + 1])
    <3>1. n + 1 \in Nat
      OBVIOUS
    <3> QED
      BY <1>4, <2>2, <3>1, FlattensStep
  <2>4. h[j] = Join(h[k], t[j]) /\ h[k] \in Seq(S)
    BY <1>5, <2>1, <2>2, FlattensStep
  <2>5. t[j] = q[j + 1] /\ t[j] \in Seq(S)
    BY <1>2, <1>3, <2>2
  <2>6. g[j] = Join(a, h[k])
    BY <1>7, <2>1
  <2>7. Join(Join(a, h[k]), t[j]) = Join(a, Join(h[k], t[j]))
    BY <1>3, <2>4, <2>5, JoinAssociative
  <2>8. g[j + 1] = Join(a, h[j])
    BY <2>3, <2>4, <2>5, <2>6, <2>7
  <2> QED
    BY <2>1, <2>2, <2>8
<1>8. \A k \in 0..n : k \in Good
  <2>1. \A k \in 0..n : k \in Good /\ k < n => k + 1 \in Good
    BY <1>7
  <2> HIDE DEF Good
  <2> QED
    BY <1>6, <2>1, Induction
<1>9. g[n + 1] = Join(a, h[n])
  BY <1>8
<1> QED
  BY <1>1, <1>4, <1>5, <1>9 DEF Join

\* What the first sequences hold is among what all of them hold.
LEMMA FlattenPrefix ==
  ASSUME NEW S, NEW q \in Seq(Seq(S)), NEW m \in 0..Len(q)
  PROVE  ToSet(FlattenSeq(SubSeq(q, 1, m))) \subseteq ToSet(FlattenSeq(q))
<1>1. PICK n \in Nat : n = Len(q)
  OBVIOUS
<1>2. PICK r : r = SubSeq(q, 1, m)
  OBVIOUS
<1>3. m \in Nat /\ m <= n /\ r \in Seq(Seq(S)) /\ m = Len(r) /\ \A i \in 1..m : r[i] = q[i]
  BY <1>1, <1>2
<1>4. PICK g : Flattens(g, q, n, S) /\ FlattenSeq(q) = g[n]
  BY <1>1, FlattenSums
<1>5. PICK h : Flattens(h, r, m, S) /\ FlattenSeq(r) = h[m]
  BY <1>3, FlattenSums
<1>6. PICK f : f = [i \in 0..m |-> g[i]]
  OBVIOUS
<1>7. Flattens(f, q, m, S)
  <2>1. g \in [0..n -> Seq(S)] /\ g[0] = <<>>
    BY <1>4 DEF Flattens
  <2>2. ASSUME NEW i \in 0..(m - 1) PROVE f[i + 1] = Join(f[i], q[i + 1])
    <3>1. i \in 0..(n - 1) /\ i \in 0..m /\ i + 1 \in 0..m
      BY <1>3
    <3>2. g[i + 1] = Join(g[i], q[i + 1])
      BY <1>4, <3>1 DEF Flattens
    <3> QED
      BY <1>6, <3>1, <3>2
  <2>3. f \in [0..m -> Seq(S)] /\ f[0] = <<>>
    BY <1>3, <1>6, <2>1
  <2> QED
    BY <2>2, <2>3 DEF Flattens
<1>8. h[m] = g[m]
  <2>1. Agree(r, q, m)
    BY <1>3 DEF Agree
  <2>2. h[m] = f[m]
    BY <1>3, <1>5, <1>7, <2>1, FlattensOnce
  <2> QED
    BY <1>3, <1>6, <2>2
<1>9. PICK l \in Nat : n = m + l
  <2>1. n - m \in Nat /\ n = m + (n - m)
    BY <1>3
  <2> QED
    BY <2>1
<1> DEFINE Holding == {k \in 0..l : ToSet(g[m]) \subseteq ToSet(g[m + k])}
<1>10. 0 \in Holding
  BY <1>3
<1>11. ASSUME NEW k \in 0..l, k \in Holding, k < l PROVE k + 1 \in Holding
  <2>1. PICK i : i = m + k
    OBVIOUS
  <2>2. i \in 0..(n - 1) /\ m + (k + 1) = i + 1 /\ i + 1 \in 1..n
    BY <1>3, <1>9, <1>11, <2>1
  <2>3. g[i + 1] = Join(g[i], q[i + 1]) /\ g[i] \in Seq(S)
    BY <1>4, <2>2 DEF Flattens
  <2>4. q[i + 1] \in Seq(S)
    BY <1>1, <2>2
  <2>5. ToSet(g[i]) \subseteq ToSet(g[i + 1])
    BY <2>3, <2>4, JoinSet
  <2>6. ToSet(g[m]) \subseteq ToSet(g[i])
    BY <1>11, <2>1
  <2>7. ToSet(g[m]) \subseteq ToSet(g[m + (k + 1)])
    BY <2>2, <2>5, <2>6
  <2> QED
    BY <1>11, <2>7
<1>12. \A k \in 0..l : k \in Holding
  <2>1. \A k \in 0..l : k \in Holding /\ k < l => k + 1 \in Holding
    BY <1>11
  <2> HIDE DEF Holding
  <2> QED
    BY <1>10, <2>1, Induction
<1>13. ToSet(g[m]) \subseteq ToSet(g[n])
  <2>1. l \in Holding
    BY <1>12
  <2> QED
    BY <1>9, <2>1
<1> QED
  BY <1>2, <1>4, <1>5, <1>8, <1>13

-----------------------------------------------------------------------------
(* A sequence that comes in pieces.                                        *)

LEMMA PieceIs ==
  ASSUME NEW S, NEW d \in Seq(S), NEW a \in 0..Len(d), NEW b \in a..Len(d),
         NEW t, t = SubSeq(d, a + 1, b)
  PROVE  t \in Seq(S) /\ Len(t) = b - a /\ \A i \in 1..(b - a) : t[i] = d[a + i]
<1>1. Len(t) = b - a
  OBVIOUS
<1>2. ASSUME NEW i \in 1..(b - a) PROVE t[i] = d[a + i] /\ t[i] \in S
  <2>1. a + 1 + i - 1 = a + i /\ a + i \in 1..Len(d)
    OBVIOUS
  <2> QED
    BY <1>1, <2>1
<1>3. t \in Seq(S)
  OBVIOUS
<1> QED
  BY <1>1, <1>2, <1>3

LEMMA PieceNext ==
  ASSUME NEW S, NEW d \in Seq(S), NEW a \in 0..Len(d), NEW b \in a..Len(d)
  PROVE  Join(SubSeq(d, 1, a), SubSeq(d, a + 1, b)) = SubSeq(d, 1, b)
<1>1. PICK s, t, r : /\ s = SubSeq(d, 0 + 1, a) /\ t = SubSeq(d, a + 1, b)
                     /\ r = SubSeq(d, 0 + 1, b)
  OBVIOUS
<1>2. PICK n \in Nat : n = Len(d) /\ a \in 0..n /\ b \in a..n /\ 0 \in 0..n
                       /\ a \in 0..n /\ b \in 0..n
  OBVIOUS
<1>3. s \in Seq(S) /\ Len(s) = a - 0 /\ \A i \in 1..(a - 0) : s[i] = d[0 + i]
  BY <1>1, <1>2, PieceIs
<1>4. t \in Seq(S) /\ Len(t) = b - a /\ \A i \in 1..(b - a) : t[i] = d[a + i]
  BY <1>1, <1>2, PieceIs
<1>5. r \in Seq(S) /\ Len(r) = b - 0 /\ \A i \in 1..(b - 0) : r[i] = d[0 + i]
  BY <1>1, <1>2, PieceIs
<1>6. PICK c : c = Join(s, t)
  OBVIOUS
<1>7. c \in Seq(S) /\ Joined(c, s, t, a, b - a)
  <2>1. Joined(c, s, t, Len(s), Len(t))
    BY <1>3, <1>4, <1>6, JoinIs
  <2>2. Len(s) = a /\ Len(t) = b - a
    BY <1>2, <1>3, <1>4
  <2> QED
    BY <1>3, <1>4, <1>6, <2>1, <2>2, JoinType
<1>8. /\ Len(c) = b
      /\ \A i \in 1..a : c[i] = s[i]
      /\ \A i \in 1..(b - a) : c[a + i] = t[i]
  <2>1. Len(c) = a + (b - a)
    BY <1>7 DEF Joined
  <2> QED
    BY <1>2, <1>7, <2>1 DEF Joined
<1>9. ASSUME NEW i \in 1..b PROVE c[i] = d[i]
  <2>1. CASE i <= a
    <3>1. i \in 1..a /\ i \in 1..(a - 0) /\ 0 + i = i
      BY <1>2, <2>1
    <3> QED
      BY <1>3, <1>8, <3>1
  <2>2. CASE ~(i <= a)
    <3>1. PICK j : j = i - a
      OBVIOUS
    <3>2. j \in 1..(b - a) /\ a + j = i
      BY <1>2, <2>2, <3>1
    <3>3. c[a + j] = t[j] /\ t[j] = d[a + j]
      BY <1>4, <1>8, <3>2
    <3> QED
      BY <3>2, <3>3
  <2> QED
    BY <2>1, <2>2
<1>10. Len(r) = b /\ \A i \in 1..b : r[i] = d[i]
  <2>1. b - 0 = b /\ \A i \in 1..b : 0 + i = i
    BY <1>2
  <2> QED
    BY <1>5, <2>1
<1>11. c = r
  <2>1. Len(c) = Len(r) /\ \A i \in 1..Len(c) : c[i] = r[i]
    BY <1>8, <1>9, <1>10
  <2> QED
    BY <1>5, <1>7, <2>1, SameSeq
<1> QED
  BY <1>1, <1>6, <1>11

\* `to` are the places where the pieces of d end, from its beginning to its end.
Pieces(q, d, to, n) ==
  /\ to \in [0..n -> 0..Len(d)] /\ to[0] = 0 /\ to[n] = Len(d)
  /\ \A k \in 0..(n - 1) :
       to[k] <= to[k + 1] /\ q[k + 1] = SubSeq(d, to[k] + 1, to[k + 1])

LEMMA FlattenPieces ==
  ASSUME NEW S, NEW d \in Seq(S), NEW q \in Seq(Seq(S)), NEW n \in Nat, n = Len(q),
         NEW to, Pieces(q, d, to, n)
  PROVE  FlattenSeq(q) = d
<1>1. PICK g : Flattens(g, q, n, S) /\ FlattenSeq(q) = g[n]
  BY FlattenSums
<1>2. to \in [0..n -> 0..Len(d)] /\ to[0] = 0 /\ to[n] = Len(d)
  BY DEF Pieces
<1> DEFINE Begun == {k \in 0..n : g[k] = SubSeq(d, 1, to[k])}
<1>3. 0 \in Begun
  <2>1. g[0] = <<>>
    BY <1>1 DEF Flattens
  <2>2. SubSeq(d, 1, 0) = <<>>
    OBVIOUS
  <2>3. 0 \in 0..n /\ to[0] = 0
    BY <1>2
  <2> QED
    BY <2>1, <2>2, <2>3, Zenon
<1>4. ASSUME NEW k \in 0..n, k \in Begun, k < n
      PROVE  k + 1 \in Begun
  <2>1. PICK j : j = k + 1
    OBVIOUS
  <2>2. k \in 0..(n - 1) /\ j \in 0..n
    BY <1>4, <2>1
  <2>3. to[k] <= to[j] /\ q[j] = SubSeq(d, to[k] + 1, to[j])
    BY <2>1, <2>2 DEF Pieces
  <2>4. PICK a, b : a = to[k] /\ b = to[j]
    OBVIOUS
  <2>5. a \in 0..Len(d) /\ b \in a..Len(d)
    <3>1. a \in 0..Len(d) /\ b \in 0..Len(d)
      <4>1. \A i \in 0..n : to[i] \in 0..Len(d)
        BY <1>2
      <4> HIDE DEF Begun
      <4> QED
        BY <2>2, <2>4, <4>1
    <3>2. a <= b
      BY <2>3, <2>4
    <3> QED
      BY <3>1, <3>2
  <2>6. g[j] = Join(g[k], q[j])
    <3>1. Flattens(g, q, n, S) /\ n \in Nat
      BY <1>1
    <3>2. k \in 0..(n - 1) /\ j = k + 1
      BY <2>1, <2>2
    <3> QED
      BY <3>1, <3>2 DEF Flattens
  <2>7. g[k] = SubSeq(d, 1, a)
    BY <1>4, <2>4
  <2>8. Join(SubSeq(d, 1, a), SubSeq(d, a + 1, b)) = SubSeq(d, 1, b)
    BY <2>5, PieceNext
  <2>9. q[j] = SubSeq(d, a + 1, b)
    BY <2>3, <2>4
  <2>10. g[j] = SubSeq(d, 1, b)
    BY <2>6, <2>7, <2>8, <2>9
  <2> QED
    BY <2>1, <2>2, <2>4, <2>10
<1>5. n \in Begun
  <2>1. \A k \in 0..n : k \in Begun /\ k < n => k + 1 \in Begun
    BY <1>4
  <2>2. n \in 0..n
    OBVIOUS
  <2> HIDE DEF Begun
  <2> QED
    BY <1>3, <2>1, <2>2, Induction
<1>6. g[n] = SubSeq(d, 1, Len(d))
  BY <1>2, <1>5
<1>7. SubSeq(d, 1, Len(d)) = d
  OBVIOUS
<1> QED
  BY <1>1, <1>6, <1>7

=============================================================================
