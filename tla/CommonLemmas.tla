------------------------------ MODULE CommonLemmas -----------------------------
(* Lemmas on sets of naturals and on sequences, for the proof modules.         *)
EXTENDS Integers, SequencesExt, FiniteSetTheorems, SequenceTheorems, TLAPS

\* Every non-empty set of naturals has a least element.
LEMMA LeastNatural ==
  ASSUME NEW T \in SUBSET Nat, T # {}
  PROVE  \E m \in T : \A n \in T : m <= n
<1> DEFINE R == StrictSubsetOrdering(Nat)
           Ivs == {0 .. n : n \in T}
<1>1. IsWellFoundedOn(R, FiniteSubsetsOf(Nat))
  BY FS_StrictSubsetOrderingWellFounded
<1>2. Ivs \subseteq FiniteSubsetsOf(Nat) /\ Ivs # {}
  <2>1. \A n \in T : IsFiniteSet(0 .. n)
    <3> TAKE n \in T
    <3>1. n \in Int /\ 0 \in Int
      OBVIOUS
    <3> QED BY <3>1, FS_Interval
  <2>2. \A n \in T : 0 .. n \in SUBSET Nat
    OBVIOUS
  <2>3. \A n \in T : 0 .. n \in FiniteSubsetsOf(Nat)
    BY <2>1, <2>2 DEF FiniteSubsetsOf
  <2> QED BY <2>3
<1>3. \E x \in Ivs : \A y \in Ivs : ~ (<<y, x>> \in R)
  <2> HIDE DEF R, Ivs
  <2> QED BY <1>1, <1>2, WFMin
<1>4. PICK m \in T : \A n \in T : <<0 .. n, 0 .. m>> \notin R
  BY <1>3
<1>5. \A n \in T : m <= n
  <2> SUFFICES ASSUME NEW n \in T, n < m PROVE FALSE
    OBVIOUS
  <2>1. 0 .. n \subseteq 0 .. m /\ 0 .. n \subseteq Nat /\ 0 .. m \subseteq Nat
    OBVIOUS
  <2>2. m \in 0 .. m /\ m \notin 0 .. n
    OBVIOUS
  <2> QED BY <1>4, <2>1, <2>2 DEF StrictSubsetOrdering
<1> QED BY <1>5

\* Every non-empty set of naturals with an upper bound has a greatest element.
LEMMA GreatestNatural ==
  ASSUME NEW n \in Nat, NEW T \in SUBSET (0 .. n), T # {}
  PROVE  \E m \in T : \A k \in T : m >= k
<1> DEFINE Rest == {n - t : t \in T}
<1>1. Rest \in SUBSET Nat /\ Rest # {}
  <2>1. \A t \in T : t \in Int /\ 0 <= t /\ t <= n
    OBVIOUS
  <2>2. \A t \in T : n - t \in Nat
    BY <2>1
  <2> QED BY <2>2
<1>2. PICK r \in Rest : \A s \in Rest : r <= s
  <2> HIDE DEF Rest
  <2> QED BY <1>1, LeastNatural
<1>3. PICK m \in T : r = n - m
  BY <1>2
<1>4. \A k \in T : n - k \in Rest /\ k \in Int
  OBVIOUS
<1>5. \A k \in T : m >= k
  BY <1>2, <1>3, <1>4
<1> QED BY <1>5

\* The smaller of two lengths.
LEMMA MinOfTwo ==
  ASSUME NEW a \in Int, NEW b \in Int
  PROVE  Min({a, b}) \in Int /\ Min({a, b}) <= a /\ Min({a, b}) <= b
<1>1. \E m \in {a, b} : \A j \in {a, b} : m <= j
  OBVIOUS
<1>2. Min({a, b}) \in {a, b} /\ \A j \in {a, b} : Min({a, b}) <= j
  BY <1>1 DEF Min
<1> QED BY <1>2

\* The least of a set of naturals, and the greater of two numbers.
LEMMA MinOfSet ==
  ASSUME NEW T \in SUBSET Nat, T # {}
  PROVE  Min(T) \in T /\ \A n \in T : Min(T) <= n
<1>1. \E m \in T : \A n \in T : m <= n
  BY LeastNatural
<1> QED BY <1>1 DEF Min

\* The greatest of a set of naturals that has a bound.
LEMMA MaxOfSet ==
  ASSUME NEW n \in Nat, NEW T \in SUBSET (0 .. n), T # {}
  PROVE  Max(T) \in T /\ \A k \in T : Max(T) >= k
<1>1. \E m \in T : \A k \in T : m >= k
  BY GreatestNatural
<1> QED BY <1>1 DEF Max

\* The greater of two numbers.
LEMMA MaxOfTwo ==
  ASSUME NEW a \in Int, NEW b \in Int
  PROVE  Max({a, b}) = IF a >= b THEN a ELSE b
<1>1. \E m \in {a, b} : \A j \in {a, b} : m >= j
  OBVIOUS
<1>2. Max({a, b}) \in {a, b} /\ \A j \in {a, b} : Max({a, b}) >= j
  BY <1>1 DEF Max
<1> QED BY <1>2

-----------------------------------------------------------------------------
\* A list and its last node, or its first one.
LEMMA LastOfList ==
  ASSUME NEW S, NEW q \in Seq(S), q # <<>>
  PROVE  /\ Front(q) \in Seq(S) /\ Last(q) \in S /\ q = Append(Front(q), Last(q))
         /\ Len(q) \in 1 .. Len(q) /\ Last(q) = q[Len(q)] /\ Len(Front(q)) = Len(q) - 1
         /\ \A i \in 1 .. Len(q) - 1 : Front(q)[i] = q[i]
<1>1. Len(q) \in Nat /\ Len(q) # 0
  OBVIOUS
<1>2. Front(q) = SubSeq(q, 1, Len(q) - 1) /\ Last(q) = q[Len(q)]
  BY DEF Front, Last
<1>3. /\ Front(q) \in Seq(S) /\ Len(Front(q)) = Len(q) - 1
      /\ \A i \in 1 .. Len(q) - 1 : Front(q)[i] = q[i]
  <2>1. \A i \in 1 .. Len(q) - 1 : q[i] \in S
    BY <1>1
  <2>2. /\ SubSeq(q, 1, Len(q) - 1) \in Seq(S)
        /\ Len(SubSeq(q, 1, Len(q) - 1)) = IF 1 <= Len(q) - 1 THEN (Len(q) - 1) - 1 + 1 ELSE 0
        /\ \A i \in 1 .. (Len(q) - 1) - 1 + 1 : SubSeq(q, 1, Len(q) - 1)[i] = q[1 + i - 1]
    BY <1>1, <2>1, SubSeqProperties
  <2>3. /\ (Len(q) - 1) - 1 + 1 = Len(q) - 1
        /\ (IF 1 <= Len(q) - 1 THEN (Len(q) - 1) - 1 + 1 ELSE 0) = Len(q) - 1
    <3>1. \A k \in Nat : k # 0 =>
            k - 1 - 1 + 1 = k - 1 /\ (IF 1 <= k - 1 THEN k - 1 - 1 + 1 ELSE 0) = k - 1
      OBVIOUS
    <3> QED BY <1>1, <3>1
  <2>4. ASSUME NEW i \in 1 .. Len(q) - 1 PROVE 1 + i - 1 = i
    BY <1>1
  <2> QED BY <1>2, <2>2, <2>3, <2>4
<1>4. Len(q) \in 1 .. Len(q) /\ Last(q) \in S
  BY <1>1, <1>2
<1> DEFINE r == Append(Front(q), Last(q))
<1>5. r \in Seq(S) /\ Len(r) = Len(q)
  BY <1>1, <1>3, <1>4, AppendProperties
<1>6. \A i \in 1 .. Len(q) : q[i] = r[i]
  <2>1. \A i \in 1 .. Len(Front(q)) : r[i] = Front(q)[i]
    BY <1>3, <1>4, AppendProperties
  <2>2. r[Len(Front(q)) + 1] = Last(q)
    BY <1>3, <1>4, AppendProperties
  <2>3. ASSUME NEW i \in 1 .. Len(q) PROVE i = Len(q) \/ i \in 1 .. Len(q) - 1
    BY <1>1
  <2> HIDE DEF r
  <2> QED BY <1>1, <1>2, <1>3, <2>1, <2>2, <2>3
<1>7. q = r
  <2> HIDE DEF r
  <2> QED BY <1>5, <1>6, SeqEqual
<1> QED BY <1>2, <1>3, <1>4, <1>7

\* The part of a text that a failing write sends.
LEMMA PartType ==
  ASSUME NEW S, NEW q \in Seq(S), NEW k \in Int, 0 <= k, k <= Len(q)
  PROVE  SubSeq(q, 1, k) \in Seq(S) /\ (k = 0 => SubSeq(q, 1, k) = <<>>)
<1>1. Len(q) \in Nat /\ \A i \in 1 .. k : q[i] \in S
  OBVIOUS
<1>2. SubSeq(q, 1, k) \in Seq(S) /\ Len(SubSeq(q, 1, k)) = (IF 1 <= k THEN k - 1 + 1 ELSE 0)
  <2>1. k \in 1 - 1 .. Len(q)
    BY <1>1
  <2> QED BY <1>1, <2>1, SubSeqProperties
<1>3. k = 0 => SubSeq(q, 1, k) = <<>>
  <2>1. k = 0 => Len(SubSeq(q, 1, k)) = 0
    BY <1>2
  <2> QED BY <1>2, <2>1
<1> QED BY <1>2, <1>3

\* What FlattenSeq returns: every concatenation adds one text of the list.
Flattens(f, q) ==
  f = [i \in 1 .. Len(q) |-> IF i = 1 THEN q[i] ELSE f[i - 1] \o q[i]]

\* Such a function exists for every list of texts.
LEMMA FlattensExists ==
  ASSUME NEW S, NEW q \in Seq(Seq(S))
  PROVE  \E f : Flattens(f, q)
<1> DEFINE upto(f, n) == f = [i \in 1 .. n |-> IF i = 1 THEN q[i] ELSE f[i - 1] \o q[i]]
           Bad == {n \in Nat : ~ \E f : upto(f, n)}
<1>1. SUFFICES ASSUME Bad # {} PROVE FALSE
  <2>1. Len(q) \in Nat
    OBVIOUS
  <2> QED BY <2>1 DEF Flattens
<1>2. PICK n \in Bad : \A m \in Bad : n <= m
  BY <1>1, LeastNatural
<1>3. n # 0
  <2> DEFINE e == [i \in 1 .. 0 |-> i]
  <2>1. e = [i \in 1 .. 0 |-> IF i = 1 THEN q[i] ELSE e[i - 1] \o q[i]]
    OBVIOUS
  <2>2. upto(e, 0)
    <3> HIDE DEF e
    <3> QED BY <2>1
  <2> QED BY <2>2
<1>4. n - 1 \in Nat /\ n - 1 \notin Bad
  <2>1. n \in Nat
    OBVIOUS
  <2> HIDE DEF Bad
  <2> QED BY <1>2, <1>3, <2>1
<1>5. PICK f : upto(f, n - 1)
  BY <1>4
<1> DEFINE last == IF n = 1 THEN q[n] ELSE f[n - 1] \o q[n]
           g == [i \in 1 .. n |-> IF i = n THEN last ELSE f[i]]
<1>6. \A i \in 1 .. n - 1 : f[i] = IF i = 1 THEN q[i] ELSE f[i - 1] \o q[i]
  BY <1>5
<1>7. \A i \in 1 .. n : g[i] = IF i = 1 THEN q[i] ELSE g[i - 1] \o q[i]
  <2> SUFFICES ASSUME NEW i \in 1 .. n PROVE g[i] = IF i = 1 THEN q[i] ELSE g[i - 1] \o q[i]
    OBVIOUS
  <2>1. CASE i = n
    BY <2>1, <1>4
  <2>2. CASE i # n
    BY <2>2, <1>4, <1>6
  <2> QED BY <2>1, <2>2
<1>8. upto(g, n)
  <2> HIDE DEF last
  <2>1. g = [i \in 1 .. n |-> g[i]]
    OBVIOUS
  <2> HIDE DEF g
  <2> QED BY <2>1, <1>7
<1> QED BY <1>8, <1>2

\* FlattenSeq is the last value of such a function.
LEMMA FlattenSeqIs ==
  ASSUME NEW S, NEW q \in Seq(Seq(S)), q # <<>>
  PROVE  \E f : Flattens(f, q) /\ FlattenSeq(q) = f[Len(q)]
<1> DEFINE f == CHOOSE f : Flattens(f, q)
<1>1. Flattens(f, q)
  BY FlattensExists
<1>2. FlattenSeq(q) = f[Len(q)]
  BY DEF FlattenSeq, Flattens
<1> QED BY <1>1, <1>2

\* Concatenation is associative, and the empty text is its unit.
LEMMA Regroup ==
  ASSUME NEW S
  PROVE  \A x, y, z \in Seq(S) : (x \o y) \o z = x \o (y \o z)
<1> SUFFICES ASSUME NEW x \in Seq(S), NEW y \in Seq(S), NEW z \in Seq(S)
             PROVE  (x \o y) \o z = x \o (y \o z)
  OBVIOUS
<1> QED BY ConcatAssociative

\* One text, one more text at the end, and one less in front.
LEMMA FlattenType ==
  ASSUME NEW S, NEW q \in Seq(Seq(S))
  PROVE  FlattenSeq(q) \in Seq(S)
<1>1. CASE q = <<>>
  BY <1>1 DEF FlattenSeq
<1>2. CASE q # <<>>
  <2>1. PICK f : Flattens(f, q) /\ FlattenSeq(q) = f[Len(q)]
    BY <1>2, FlattenSeqIs
  <2>2. \A i \in 1 .. Len(q) : f[i] = IF i = 1 THEN q[i] ELSE f[i - 1] \o q[i]
    BY <2>1 DEF Flattens
  <2> DEFINE Bad == {i \in 1 .. Len(q) : f[i] \notin Seq(S)}
  <2>3. SUFFICES ASSUME Bad # {} PROVE FALSE
    BY <1>2, <2>1
  <2>4. PICK i \in Bad : \A j \in Bad : i <= j
    <3>1. Bad \in SUBSET Nat
      OBVIOUS
    <3> HIDE DEF Bad
    <3> QED BY <2>3, <3>1, LeastNatural
  <2>5. i \in 1 .. Len(q) /\ f[i] \notin Seq(S) /\ q[i] \in Seq(S)
    OBVIOUS
  <2>6. i # 1
    BY <2>2, <2>5
  <2>7. i - 1 \in 1 .. Len(q) /\ i - 1 \notin Bad
    <3> HIDE DEF Bad
    <3> QED BY <2>4, <2>5, <2>6
  <2>8. f[i] = f[i - 1] \o q[i] /\ f[i - 1] \in Seq(S)
    BY <2>2, <2>5, <2>6, <2>7
  <2> QED BY <2>5, <2>8, ConcatProperties
<1> QED BY <1>1, <1>2

\* Two such functions agree as far as their lists do.
LEMMA FlattenAgree ==
  ASSUME NEW q, NEW r, NEW f, NEW g,
         Flattens(f, q), Flattens(g, r), Len(q) \in Nat, Len(r) \in Nat, Len(q) <= Len(r),
         \A i \in 1 .. Len(q) : q[i] = r[i]
  PROVE  \A i \in 1 .. Len(q) : f[i] = g[i]
<1> DEFINE Bad == {i \in 1 .. Len(q) : f[i] # g[i]}
<1>1. SUFFICES ASSUME Bad # {} PROVE FALSE
  OBVIOUS
<1>2. PICK i \in Bad : \A j \in Bad : i <= j
  <2>1. Bad \in SUBSET Nat
    OBVIOUS
  <2> HIDE DEF Bad
  <2> QED BY <1>1, <2>1, LeastNatural
<1>3. i \in 1 .. Len(q) /\ f[i] # g[i] /\ q[i] = r[i] /\ i \in 1 .. Len(r)
  OBVIOUS
<1>4. /\ f[i] = IF i = 1 THEN q[i] ELSE f[i - 1] \o q[i]
      /\ g[i] = IF i = 1 THEN r[i] ELSE g[i - 1] \o r[i]
  BY <1>3 DEF Flattens
<1>5. i # 1
  BY <1>3, <1>4
<1>6. i - 1 \in 1 .. Len(q) /\ i - 1 \notin Bad
  <2> HIDE DEF Bad
  <2> QED BY <1>2, <1>3, <1>5
<1>7. f[i - 1] = g[i - 1]
  BY <1>6
<1> QED BY <1>3, <1>4, <1>5, <1>7

\* A text at the end of the list comes at the end of the bytes.
LEMMA FlattenAppend ==
  ASSUME NEW S, NEW q \in Seq(Seq(S)), NEW x \in Seq(S)
  PROVE  FlattenSeq(Append(q, x)) = FlattenSeq(q) \o x
<1> DEFINE r == Append(q, x)
           n == Len(q)
<1>1. /\ r \in Seq(Seq(S)) /\ Len(r) = n + 1 /\ n \in Nat
      /\ \A i \in 1 .. n : r[i] = q[i]
      /\ r[n + 1] = x
  BY AppendProperties
<1>6. r # <<>>
  <2>1. Len(<<>>) = 0 /\ n + 1 # 0
    BY <1>1
  <2> QED BY <1>1, <2>1
<1> HIDE DEF r
<1>2. PICK g : Flattens(g, r) /\ FlattenSeq(r) = g[n + 1]
  BY <1>1, <1>6, FlattenSeqIs
<1>3. g[n + 1] = IF n + 1 = 1 THEN r[n + 1] ELSE g[(n + 1) - 1] \o r[n + 1]
  <2>1. \A i \in 1 .. n + 1 : g[i] = IF i = 1 THEN r[i] ELSE g[i - 1] \o r[i]
    BY <1>1, <1>2 DEF Flattens
  <2>2. n + 1 \in 1 .. n + 1
    BY <1>1
  <2> QED BY <2>1, <2>2
<1>4. CASE q = <<>>
  <2>1. n = 0 /\ FlattenSeq(q) = <<>>
    BY <1>4 DEF FlattenSeq
  <2>2. FlattenSeq(r) = x
    BY <1>1, <1>2, <1>3, <2>1
  <2>3. <<>> \o x = x
    BY ConcatEmptySeq
  <2> QED BY <2>1, <2>2, <2>3 DEF r
<1>5. CASE q # <<>>
  <2>1. PICK f : Flattens(f, q) /\ FlattenSeq(q) = f[n]
    BY <1>5, FlattenSeqIs
  <2>2. n \in 1 .. n /\ n + 1 # 1 /\ (n + 1) - 1 = n
    BY <1>1, <1>5
  <2>3. f[n] = g[n]
    <3>1. Len(q) <= Len(r) /\ \A i \in 1 .. Len(q) : q[i] = r[i]
      BY <1>1
    <3>2. \A i \in 1 .. Len(q) : f[i] = g[i]
      <4>1. Len(r) \in Nat /\ Len(q) \in Nat /\ Flattens(f, q) /\ Flattens(g, r)
        BY <1>1, <1>2, <2>1
      <4> HIDE DEF n
      <4> QED BY <3>1, <4>1, FlattenAgree
    <3> QED BY <2>2, <3>2
  <2> QED BY <1>1, <1>2, <1>3, <2>1, <2>2, <2>3 DEF r
<1> QED BY <1>4, <1>5

\* The first text of the list comes first.
LEMMA FlattenFirst ==
  ASSUME NEW S, NEW q \in Seq(Seq(S)), q # <<>>
  PROVE  FlattenSeq(q) = q[1] \o FlattenSeq(Tail(q))
<1>0. \A x, y, z \in Seq(S) : (x \o y) \o z = x \o (y \o z)
  BY Regroup
<1> DEFINE r == Tail(q)
           n == Len(r)
<1>1. /\ r \in Seq(Seq(S)) /\ Len(q) = n + 1 /\ n \in Nat
      /\ \A i \in 1 .. n : r[i] = q[i + 1]
      /\ \A i \in 1 .. n + 1 : q[i] \in Seq(S)
  OBVIOUS
<1> HIDE DEF r
<1>2. PICK g : Flattens(g, q) /\ FlattenSeq(q) = g[n + 1]
  BY <1>1, FlattenSeqIs
<1>3. \A i \in 1 .. n + 1 : g[i] = IF i = 1 THEN q[i] ELSE g[i - 1] \o q[i]
  BY <1>1, <1>2 DEF Flattens
<1>4. CASE r = <<>>
  <2>1. n = 0 /\ FlattenSeq(r) = <<>>
    BY <1>4 DEF FlattenSeq
  <2>2. FlattenSeq(q) = q[1] /\ q[1] \in Seq(S)
    BY <1>1, <1>2, <1>3, <2>1
  <2>3. q[1] \o <<>> = q[1]
    BY <2>2, ConcatEmptySeq
  <2> QED BY <2>1, <2>2, <2>3 DEF r
<1>5. CASE r # <<>>
  <2>1. PICK f : Flattens(f, r) /\ FlattenSeq(r) = f[n]
    BY <1>1, <1>5, FlattenSeqIs
  <2>2. \A i \in 1 .. n : f[i] = IF i = 1 THEN r[i] ELSE f[i - 1] \o r[i]
    BY <2>1 DEF Flattens
  <2> DEFINE Bad == {i \in 1 .. n : f[i] \notin Seq(S) \/ g[i + 1] # q[1] \o f[i]}
  <2>3. Bad = {}
    <3>1. SUFFICES ASSUME Bad # {} PROVE FALSE
      OBVIOUS
    <3>2. PICK i \in Bad : \A j \in Bad : i <= j
      <4>1. Bad \in SUBSET Nat
        <5>1. 1 .. n \subseteq Nat
          BY <1>1
        <5> HIDE DEF n
        <5> QED BY <5>1
      <4> HIDE DEF Bad
      <4> QED BY <3>1, <4>1, LeastNatural
    <3>3. i \in 1 .. n /\ (f[i] \notin Seq(S) \/ g[i + 1] # q[1] \o f[i])
      OBVIOUS
    <3>4. i + 1 \in 1 .. n + 1 /\ i + 1 # 1 /\ (i + 1) - 1 = i /\ 1 \in 1 .. n + 1
      BY <1>1, <3>3
    <3>5. g[i + 1] = g[i] \o r[i] /\ r[i] \in Seq(S) /\ q[1] \in Seq(S)
      BY <1>1, <1>3, <3>3, <3>4
    <3>6. CASE i = 1
      <4>1. f[1] = r[1] /\ g[1] = q[1]
        BY <1>3, <2>2, <3>3, <3>4, <3>6
      <4> QED BY <3>3, <3>5, <3>6, <4>1
    <3>7. CASE i # 1
      <4>1. i - 1 \in 1 .. n /\ i - 1 \notin Bad /\ (i - 1) + 1 = i
        <5> HIDE DEF Bad
        <5> QED BY <1>1, <3>2, <3>3, <3>7
      <4>2. f[i] = f[i - 1] \o r[i]
        BY <2>2, <3>3, <3>7
      <4>3. f[i - 1] \in Seq(S) /\ g[i] = q[1] \o f[i - 1]
        BY <4>1
      <4>4. f[i] \in Seq(S)
        BY <3>5, <4>2, <4>3, ConcatProperties
      <4>5. (q[1] \o f[i - 1]) \o r[i] = q[1] \o (f[i - 1] \o r[i])
        BY <1>0, <3>5, <4>3
      <4> QED BY <3>3, <3>5, <4>2, <4>3, <4>4, <4>5
    <3> QED BY <3>6, <3>7
  <2>4. n \in 1 .. n
    BY <1>1, <1>5
  <2>5. g[n + 1] = q[1] \o f[n]
    BY <2>3, <2>4
  <2> QED BY <1>2, <2>1, <2>5 DEF r
<1> QED BY <1>4, <1>5


-----------------------------------------------------------------------------
\* A sequence with one element more, with one less, and with its last in front.
LEMMA InsertAtIs ==
  ASSUME NEW S, NEW s \in Seq(S), NEW e \in S, NEW i \in 1 .. Len(s) + 1
  PROVE  /\ InsertAt(s, i, e) \in Seq(S) /\ Len(InsertAt(s, i, e)) = Len(s) + 1
         /\ \A j \in 1 .. Len(s) + 1 :
              InsertAt(s, i, e)[j] = IF j < i THEN s[j] ELSE IF j = i THEN e ELSE s[j - 1]
<1> DEFINE n == Len(s)
           a == SubSeq(s, 1, i - 1)
           b == <<e>>
           c == SubSeq(s, i, n)
           ab == a \o b
           abc == ab \o c
<1>1. n \in Nat /\ i \in Nat /\ i >= 1 /\ i <= n + 1 /\ \A j \in 1 .. n : s[j] \in S
  OBVIOUS
<1>2. a \in Seq(S) /\ Len(a) = i - 1 /\ \A j \in 1 .. i - 1 : a[j] = s[j]
  <2>1. \A j \in 1 .. i - 1 : s[j] \in S
    BY <1>1
  <2>2. /\ a \in Seq(S) /\ Len(a) = IF 1 <= i - 1 THEN i - 1 - 1 + 1 ELSE 0
        /\ \A j \in 1 .. i - 1 - 1 + 1 : a[j] = s[1 + j - 1]
    BY <1>1, <2>1, SubSeqProperties
  <2> HIDE DEF a
  <2> QED BY <1>1, <2>2
<1>3. c \in Seq(S) /\ Len(c) = n - i + 1 /\ \A j \in 1 .. n - i + 1 : c[j] = s[i + j - 1]
  <2>1. \A j \in i .. n : s[j] \in S
    BY <1>1
  <2>2. /\ c \in Seq(S) /\ Len(c) = IF i <= n THEN n - i + 1 ELSE 0
        /\ \A j \in 1 .. n - i + 1 : c[j] = s[i + j - 1]
    BY <1>1, <2>1, SubSeqProperties
  <2> HIDE DEF c, n
  <2> QED BY <1>1, <2>2
<1>4. b \in Seq(S) /\ Len(b) = 1 /\ b[1] = e
  OBVIOUS
<1> HIDE DEF a, b, c, n
<1>5. /\ ab \in Seq(S) /\ Len(ab) = i
      /\ \A j \in 1 .. i : ab[j] = IF j < i THEN s[j] ELSE e
  <2>1. /\ ab \in Seq(S) /\ Len(ab) = Len(a) + Len(b)
        /\ \A j \in 1 .. Len(a) + Len(b) : ab[j] = IF j <= Len(a) THEN a[j] ELSE b[j - Len(a)]
    BY <1>2, <1>4, ConcatProperties
  <2> HIDE DEF ab
  <2> QED BY <1>1, <1>2, <1>4, <2>1
<1> HIDE DEF ab
<1>6. /\ abc \in Seq(S) /\ Len(abc) = n + 1
      /\ \A j \in 1 .. n + 1 : abc[j] = IF j < i THEN s[j] ELSE IF j = i THEN e ELSE s[j - 1]
  <2>1. /\ abc \in Seq(S) /\ Len(abc) = Len(ab) + Len(c)
        /\ \A j \in 1 .. Len(ab) + Len(c) : abc[j] = IF j <= Len(ab) THEN ab[j] ELSE c[j - Len(ab)]
    BY <1>3, <1>5, ConcatProperties
  <2> HIDE DEF abc
  <2>2. Len(ab) + Len(c) = n + 1
    BY <1>1, <1>3, <1>5
  <2>3. ASSUME NEW j \in 1 .. n + 1
        PROVE  abc[j] = IF j < i THEN s[j] ELSE IF j = i THEN e ELSE s[j - 1]
    <3>1. CASE j <= i
      BY <1>1, <1>5, <2>1, <2>2, <3>1
    <3>2. CASE j > i
      <4>1. j - i \in 1 .. n - i + 1 /\ i + (j - i) - 1 = j - 1
        BY <1>1, <3>2
      <4>2. abc[j] = c[j - i]
        BY <1>1, <1>5, <2>1, <2>2, <3>2
      <4> QED BY <1>1, <1>3, <3>2, <4>1, <4>2
    <3> QED BY <1>1, <3>1, <3>2
  <2> QED BY <2>1, <2>2, <2>3
<1> QED BY <1>6 DEF InsertAt, abc, ab, a, b, c, n

\* A sequence with one element less, place by place.
LEMMA RemoveAtIs ==
  ASSUME NEW S, NEW s \in Seq(S), NEW i \in 1 .. Len(s)
  PROVE  /\ RemoveAt(s, i) \in Seq(S) /\ Len(RemoveAt(s, i)) = Len(s) - 1
         /\ \A j \in 1 .. Len(s) - 1 : RemoveAt(s, i)[j] = IF j < i THEN s[j] ELSE s[j + 1]
<1> DEFINE n == Len(s)
           k == i + 1
           a == SubSeq(s, 1, i - 1)
           c == SubSeq(s, k, n)
           ac == a \o c
<1>1. n \in Nat /\ i \in Nat /\ i >= 1 /\ i <= n /\ k \in Nat /\ \A j \in 1 .. n : s[j] \in S
  OBVIOUS
<1>2. a \in Seq(S) /\ Len(a) = i - 1 /\ \A j \in 1 .. i - 1 : a[j] = s[j]
  <2>1. \A j \in 1 .. i - 1 : s[j] \in S
    BY <1>1
  <2>2. /\ a \in Seq(S) /\ Len(a) = IF 1 <= i - 1 THEN i - 1 - 1 + 1 ELSE 0
        /\ \A j \in 1 .. i - 1 - 1 + 1 : a[j] = s[1 + j - 1]
    BY <1>1, <2>1, SubSeqProperties
  <2> HIDE DEF a
  <2> QED BY <1>1, <2>2
<1>3. c \in Seq(S) /\ Len(c) = n - i /\ \A j \in 1 .. n - i : c[j] = s[i + j]
  <2>1. \A j \in k .. n : s[j] \in S
    BY <1>1
  <2>2. /\ c \in Seq(S) /\ Len(c) = IF k <= n THEN n - k + 1 ELSE 0
        /\ \A j \in 1 .. n - k + 1 : c[j] = s[k + j - 1]
    <3> HIDE DEF k
    <3> QED BY <1>1, <2>1, SubSeqProperties
  <2> HIDE DEF c, n
  <2>3. n - k + 1 = n - i /\ \A j \in 1 .. n - i : k + j - 1 = i + j
    BY <1>1
  <2> QED BY <1>1, <2>2, <2>3
<1> HIDE DEF a, c, n
<1>4. /\ ac \in Seq(S) /\ Len(ac) = n - 1
      /\ \A j \in 1 .. n - 1 : ac[j] = IF j < i THEN s[j] ELSE s[j + 1]
  <2>1. /\ ac \in Seq(S) /\ Len(ac) = Len(a) + Len(c)
        /\ \A j \in 1 .. Len(a) + Len(c) : ac[j] = IF j <= Len(a) THEN a[j] ELSE c[j - Len(a)]
    BY <1>2, <1>3, ConcatProperties
  <2> HIDE DEF ac
  <2>2. Len(a) + Len(c) = n - 1
    BY <1>1, <1>2, <1>3
  <2>3. ASSUME NEW j \in 1 .. n - 1 PROVE ac[j] = IF j < i THEN s[j] ELSE s[j + 1]
    <3>1. CASE j < i
      BY <1>1, <1>2, <2>1, <2>2, <3>1
    <3>2. CASE j >= i
      <4> DEFINE m == j - (i - 1)
      <4>1. m \in 1 .. n - i /\ i + m = j + 1
        BY <1>1, <3>2
      <4>2. ac[j] = c[m]
        BY <1>1, <1>2, <2>1, <2>2, <3>2
      <4> HIDE DEF m
      <4>3. c[m] = s[i + m]
        BY <1>3, <4>1
      <4>4. ~(j < i)
        BY <1>1, <3>2
      <4> QED BY <4>1, <4>2, <4>3, <4>4
    <3> QED BY <1>1, <3>1, <3>2
  <2> QED BY <2>1, <2>2, <2>3
<1> QED BY <1>4 DEF RemoveAt, ac, a, c, k, n

\* A sequence whose last element comes first, place by place.
LEMMA LastInFront ==
  ASSUME NEW S, NEW s \in Seq(S), s # <<>>
  PROVE  /\ <<Last(s)>> \o Front(s) \in Seq(S) /\ Len(<<Last(s)>> \o Front(s)) = Len(s)
         /\ \A j \in 1 .. Len(s) : (<<Last(s)>> \o Front(s))[j] = IF j = 1 THEN s[Len(s)] ELSE s[j - 1]
<1> DEFINE a == <<Last(s)>>
           f == Front(s)
           af == a \o f
           n == Len(s)
<1>1. /\ f \in Seq(S) /\ Last(s) \in S /\ Last(s) = s[n] /\ Len(f) = n - 1 /\ n \in Nat
      /\ \A i \in 1 .. n - 1 : f[i] = s[i]
  BY LastOfList
<1>2. a \in Seq(S) /\ Len(a) = 1 /\ a[1] = s[n]
  BY <1>1
<1> HIDE DEF a, f
<1>3. /\ af \in Seq(S) /\ Len(af) = Len(a) + Len(f)
      /\ \A j \in 1 .. Len(a) + Len(f) : af[j] = IF j <= Len(a) THEN a[j] ELSE f[j - Len(a)]
  BY <1>1, <1>2, ConcatProperties
<1> HIDE DEF af
<1>4. Len(a) + Len(f) = n
  BY <1>1, <1>2
<1>5. ASSUME NEW j \in 1 .. n PROVE af[j] = IF j = 1 THEN s[n] ELSE s[j - 1]
  <2>1. CASE j = 1
    BY <1>2, <1>3, <1>4, <2>1
  <2>2. CASE j # 1
    <3>1. j - 1 \in 1 .. n - 1 /\ ~(j <= 1)
      BY <1>1, <2>2
    <3> QED BY <1>1, <1>2, <1>3, <1>4, <2>2, <3>1
  <2> QED BY <2>1, <2>2
<1> QED BY <1>3, <1>4, <1>5 DEF af, a, f

-----------------------------------------------------------------------------
\* A recursive function on the numbers up to n exists, its step given as a function.
Recurs(f, V, v, n, G) ==
  /\ f \in [0 .. n -> V]
  /\ \A i \in 0 .. n : f[i] = IF i = 0 THEN v ELSE G[<<i, f[i - 1]>>]

\* So it does.
LEMMA RecursionExists ==
  ASSUME NEW V, NEW v \in V, NEW n \in Nat, NEW G \in [(1 .. n) \X V -> V]
  PROVE  \E f : Recurs(f, V, v, n, G)
<1> DEFINE Fits(f, m) ==
             /\ f \in [0 .. m -> V]
             /\ \A i \in 0 .. m : f[i] = IF i = 0 THEN v ELSE G[<<i, f[i - 1]>>]
           Bad == {m \in 0 .. n : ~ \E f : Fits(f, m)}
<1>1. SUFFICES ASSUME Bad # {} PROVE FALSE
  BY DEF Recurs
<1>2. PICK m \in Bad : \A k \in Bad : m <= k
  <2>1. Bad \in SUBSET Nat
    OBVIOUS
  <2> HIDE DEF Bad
  <2> QED BY <1>1, <2>1, LeastNatural
<1>3. m # 0
  <2> DEFINE e == [k \in 0 .. 0 |-> v]
  <2>1. e \in [0 .. 0 -> V] /\ \A k \in 0 .. 0 : k = 0 /\ e[k] = v
    OBVIOUS
  <2> HIDE DEF e
  <2>2. Fits(e, 0)
    BY <2>1
  <2> QED BY <2>2
<1>4. m \in 0 .. n /\ m - 1 \in 0 .. n /\ m - 1 \notin Bad
  <2>1. m \in 0 .. n
    OBVIOUS
  <2>2. m - 1 \in 0 .. n /\ ~(m <= m - 1)
    BY <1>3, <2>1
  <2> HIDE DEF Bad
  <2> QED BY <1>2, <2>1, <2>2
<1>5. PICK f : Fits(f, m - 1)
  BY <1>4
<1> DEFINE last == G[<<m, f[m - 1]>>]
           g == [k \in 0 .. m |-> IF k = m THEN last ELSE f[k]]
<1>6. last \in V
  <2>1. m - 1 \in 0 .. m - 1 /\ m \in 1 .. n
    BY <1>3, <1>4
  <2>2. f[m - 1] \in V
    BY <1>5, <2>1
  <2> QED BY <2>1, <2>2
<1>7. ASSUME NEW k \in 0 .. m
      PROVE  g[k] \in V /\ g[k] = IF k = 0 THEN v ELSE G[<<k, g[k - 1]>>]
  <2>1. CASE k = m
    <3>1. g[k] = last /\ k # 0 /\ k - 1 \in 0 .. m - 1 /\ g[k - 1] = f[k - 1] /\ k - 1 = m - 1
      BY <1>3, <1>4, <2>1
    <3> HIDE DEF g
    <3> QED BY <1>6, <2>1, <3>1
  <2>2. CASE k # m
    <3>1. k \in 0 .. m - 1 /\ g[k] = f[k]
      BY <1>4, <2>2
    <3>2. k # 0 => k - 1 \in 0 .. m /\ k - 1 # m
      BY <3>1
    <3>3. k # 0 => g[k - 1] = f[k - 1]
      BY <3>2
    <3> HIDE DEF g, last
    <3> QED BY <1>5, <3>1, <3>3
  <2> QED BY <2>1, <2>2
<1>8. Fits(g, m)
  <2>1. g = [k \in 0 .. m |-> g[k]]
    OBVIOUS
  <2> HIDE DEF g, last
  <2> QED BY <1>7, <2>1
<1> QED BY <1>2, <1>8

-----------------------------------------------------------------------------
\* Both parts of a text, by position.
Joined(z, x, y) ==
  /\ Len(z) = Len(x) + Len(y) /\ Len(x) \in Nat /\ Len(y) \in Nat
  /\ \A i \in 1 .. Len(x) : z[i] = x[i]
  /\ \A i \in 1 .. Len(y) : z[Len(x) + i] = y[i]

\* A concatenation has both.
LEMMA JoinedIs ==
  ASSUME NEW S, NEW x \in Seq(S), NEW y \in Seq(S)
  PROVE  x \o y \in Seq(S) /\ Joined(x \o y, x, y)
<1>1. Len(x) \in Nat /\ Len(y) \in Nat
  OBVIOUS
<1>2. /\ x \o y \in Seq(S) /\ Len(x \o y) = Len(x) + Len(y)
      /\ \A i \in 1 .. Len(x) + Len(y) : (x \o y)[i] = IF i <= Len(x) THEN x[i] ELSE y[i - Len(x)]
  BY ConcatProperties
<1>3. \A i \in 1 .. Len(x) : (x \o y)[i] = x[i]
  BY <1>1, <1>2
<1>4. ASSUME NEW i \in 1 .. Len(y) PROVE (x \o y)[Len(x) + i] = y[i]
  <2>1. Len(x) + i \in 1 .. Len(x) + Len(y) /\ ~(Len(x) + i <= Len(x)) /\ (Len(x) + i) - Len(x) = i
    BY <1>1
  <2> QED BY <1>2, <2>1
<1> QED BY <1>1, <1>2, <1>3, <1>4 DEF Joined

\* How many elements are in front of the text after the first n.
Offset(q, n) == Len(FlattenSeq(SubSeq(q, 1, n)))

\* The first texts of a list are the first elements of the whole.
FrontOf(f, i, m) ==
  Len(f[m]) <= Len(f[i]) /\ \A k \in 1 .. Len(f[m]) : f[i][k] = f[m][k]

\* What FlattenSeq has reached after one text it still has after any later one.
LEMMA FlattenGrows ==
  ASSUME NEW S, NEW q \in Seq(Seq(S)), NEW f, Flattens(f, q)
  PROVE  /\ \A i \in 1 .. Len(q) : f[i] \in Seq(S) /\ Len(f[i]) \in Nat
         /\ \A i \in 1 .. Len(q) : f[i] = IF i = 1 THEN q[i] ELSE f[i - 1] \o q[i]
         /\ \A m \in 1 .. Len(q) : \A i \in m .. Len(q) : FrontOf(f, i, m)
<1>0. Len(q) \in Nat /\ \A i \in 1 .. Len(q) : q[i] \in Seq(S)
  OBVIOUS
<1>1. \A i \in 1 .. Len(q) : f[i] = IF i = 1 THEN q[i] ELSE f[i - 1] \o q[i]
  BY DEF Flattens
<1>2. \A i \in 1 .. Len(q) : f[i] \in Seq(S)
  <2> DEFINE Bad == {i \in 1 .. Len(q) : f[i] \notin Seq(S)}
  <2>1. SUFFICES ASSUME Bad # {} PROVE FALSE
    OBVIOUS
  <2>2. PICK i \in Bad : \A j \in Bad : i <= j
    <3>1. Bad \in SUBSET Nat
      BY <1>0
    <3> HIDE DEF Bad
    <3> QED BY <2>1, <3>1, LeastNatural
  <2>3. i \in 1 .. Len(q) /\ f[i] \notin Seq(S) /\ q[i] \in Seq(S)
    BY <1>0
  <2>4. i # 1
    BY <1>1, <2>3
  <2>5. i - 1 \in 1 .. Len(q) /\ i - 1 \notin Bad
    <3>1. i - 1 \in 1 .. Len(q) /\ ~(i <= i - 1)
      BY <1>0, <2>3, <2>4
    <3> HIDE DEF Bad
    <3> QED BY <2>2, <3>1
  <2>6. f[i] = f[i - 1] \o q[i] /\ f[i - 1] \in Seq(S)
    BY <1>1, <2>3, <2>4, <2>5
  <2> QED BY <2>3, <2>6, ConcatProperties
<1>3. \A i \in 1 .. Len(q) : Len(f[i]) \in Nat
  BY <1>2
<1>4. ASSUME NEW i \in 2 .. Len(q), NEW k \in 1 .. Len(f[i - 1])
      PROVE  f[i][k] = f[i - 1][k]
  <2>1. i - 1 \in 1 .. Len(q) /\ i \in 1 .. Len(q) /\ i # 1
    BY <1>0
  <2>2. f[i] = f[i - 1] \o q[i] /\ f[i - 1] \in Seq(S) /\ q[i] \in Seq(S)
    BY <1>0, <1>1, <1>2, <2>1
  <2> DEFINE x == f[i - 1]
             y == q[i]
  <2>3. x \in Seq(S) /\ y \in Seq(S) /\ Len(x) \in Nat /\ Len(y) \in Nat
    BY <2>2
  <2> HIDE DEF x, y
  <2>4. Len(x) <= Len(x \o y) /\ \A j \in 1 .. Len(x) : (x \o y)[j] = x[j]
    BY <2>3, ConcatProperties
  <2> QED BY <2>2, <2>4 DEF x, y
<1>5. \A i \in 2 .. Len(q) : Len(f[i - 1]) <= Len(f[i])
  <2> SUFFICES ASSUME NEW i \in 2 .. Len(q) PROVE Len(f[i - 1]) <= Len(f[i])
    OBVIOUS
  <2>1. i - 1 \in 1 .. Len(q) /\ i \in 1 .. Len(q) /\ i # 1
    BY <1>0
  <2>2. f[i] = f[i - 1] \o q[i] /\ f[i - 1] \in Seq(S) /\ q[i] \in Seq(S)
    BY <1>0, <1>1, <1>2, <2>1
  <2> DEFINE x == f[i - 1]
             y == q[i]
  <2>3. x \in Seq(S) /\ y \in Seq(S) /\ Len(x) \in Nat /\ Len(y) \in Nat
    BY <2>2
  <2> HIDE DEF x, y
  <2>4. Len(x) <= Len(x \o y) /\ \A j \in 1 .. Len(x) : (x \o y)[j] = x[j]
    BY <2>3, ConcatProperties
  <2> QED BY <2>2, <2>4 DEF x, y
<1>6. ASSUME NEW m \in 1 .. Len(q)
      PROVE  \A i \in m .. Len(q) : FrontOf(f, i, m)
  <2> DEFINE Bad == {i \in m .. Len(q) : ~FrontOf(f, i, m)}
  <2>1. SUFFICES ASSUME Bad # {} PROVE FALSE
    OBVIOUS
  <2>2. PICK i \in Bad : \A j \in Bad : i <= j
    <3>1. Bad \in SUBSET Nat
      BY <1>0
    <3> HIDE DEF Bad
    <3> QED BY <2>1, <3>1, LeastNatural
  <2>3. i \in m .. Len(q) /\ ~FrontOf(f, i, m)
    OBVIOUS
  <2>4. i # m
    BY <1>3, <2>3 DEF FrontOf
  <2>5. i - 1 \in m .. Len(q) /\ i \in 2 .. Len(q) /\ i - 1 \in 1 .. Len(q) /\ ~(i <= i - 1)
    BY <1>0, <2>3, <2>4
  <2>6. i - 1 \notin Bad
    <3> HIDE DEF Bad
    <3> QED BY <2>2, <2>5
  <2>7. FrontOf(f, i - 1, m)
    BY <2>5, <2>6
  <2>8. Len(f[m]) <= Len(f[i - 1]) /\ \A k \in 1 .. Len(f[m]) : f[i - 1][k] = f[m][k]
    BY <2>7 DEF FrontOf
  <2>9. Len(f[i - 1]) <= Len(f[i]) /\ \A k \in 1 .. Len(f[i - 1]) : f[i][k] = f[i - 1][k]
    BY <1>4, <1>5, <2>5
  <2>10. Len(f[m]) \in Nat /\ Len(f[i - 1]) \in Nat /\ Len(f[i]) \in Nat
    BY <1>3, <2>5
  <2>11. FrontOf(f, i, m)
    <3> DEFINE a == Len(f[m])
               b == Len(f[i - 1])
               c == Len(f[i])
    <3>1. a \in Nat /\ b \in Nat /\ c \in Nat /\ a <= b /\ b <= c
      BY <2>8, <2>9, <2>10
    <3> HIDE DEF a, b, c
    <3>2. a <= c /\ \A k \in 1 .. a : k \in 1 .. b
      BY <3>1
    <3>3. \A k \in 1 .. a : f[i][k] = f[m][k]
      BY <2>8, <2>9, <3>2 DEF a, b
    <3> QED BY <3>2, <3>3 DEF FrontOf, a, c
  <2> QED BY <2>3, <2>11
<1> QED BY <1>1, <1>2, <1>3, <1>6

\* The length of the first texts together.
LEMMA OffsetIs ==
  ASSUME NEW S, NEW q \in Seq(Seq(S)), NEW f, Flattens(f, q), NEW m \in 0 .. Len(q)
  PROVE  Offset(q, m) = IF m = 0 THEN 0 ELSE Len(f[m])
<1> DEFINE p == SubSeq(q, 1, m)
<1>1. p \in Seq(Seq(S)) /\ (m = 0 => p = <<>>)
  <2>1. m \in Int /\ 0 <= m /\ m <= Len(q)
    OBVIOUS
  <2> QED BY <2>1, PartType
<1>2. Len(p) = m /\ \A i \in 1 .. m : p[i] = q[i]
  OBVIOUS
<1> HIDE DEF p
<1>3. CASE m = 0
  BY <1>1, <1>3 DEF Offset, FlattenSeq, p
<1>4. CASE m # 0
  <2>1. p # <<>>
    BY <1>1, <1>2, <1>4
  <2>2. PICK g : Flattens(g, p) /\ FlattenSeq(p) = g[Len(p)]
    BY <1>1, <2>1, FlattenSeqIs
  <2>3. Len(p) \in Nat /\ Len(q) \in Nat /\ Len(p) <= Len(q) /\ m \in 1 .. Len(p)
    BY <1>2, <1>4
  <2>4. g[m] = f[m]
    <3>1. Len(p) <= Len(q) /\ \A i \in 1 .. Len(p) : p[i] = q[i]
      BY <1>2, <2>3
    <3>2. \A i \in 1 .. Len(p) : g[i] = f[i]
      <4>1. Len(q) \in Nat /\ Len(p) \in Nat /\ Flattens(g, p) /\ Flattens(f, q)
        BY <2>2, <2>3
      <4> QED BY ONLY <3>1, <4>1, FlattenAgree
    <3> QED BY <2>3, <3>2
  <2>5. Offset(q, m) = Len(g[m])
    BY <1>2, <2>2 DEF Offset, p
  <2> QED BY <1>4, <2>4, <2>5
<1> QED BY <1>3, <1>4

\* Where a text of the list is in the whole.
LEMMA FlattenPlace ==
  ASSUME NEW S, NEW q \in Seq(Seq(S)), NEW n \in Nat, n < Len(q)
  PROVE  /\ Offset(q, n) \in Nat /\ Offset(q, n + 1) = Offset(q, n) + Len(q[n + 1])
         /\ Offset(q, n + 1) <= Len(FlattenSeq(q))
         /\ \A k \in 1 .. Len(q[n + 1]) : FlattenSeq(q)[Offset(q, n) + k] = q[n + 1][k]
<1>1. Len(q) \in Nat /\ n + 1 \in 1 .. Len(q) /\ q[n + 1] \in Seq(S) /\ Len(q[n + 1]) \in Nat /\ q # <<>>
  OBVIOUS
<1>2. PICK f : Flattens(f, q) /\ FlattenSeq(q) = f[Len(q)]
  BY <1>1, FlattenSeqIs
<1>3. /\ \A i \in 1 .. Len(q) : f[i] \in Seq(S) /\ Len(f[i]) \in Nat
      /\ \A i \in 1 .. Len(q) : f[i] = IF i = 1 THEN q[i] ELSE f[i - 1] \o q[i]
      /\ \A m \in 1 .. Len(q) : \A i \in m .. Len(q) : FrontOf(f, i, m)
  BY <1>2, FlattenGrows
<1>4. n \in 0 .. Len(q) /\ n + 1 \in 0 .. Len(q) /\ n + 1 # 0
  BY <1>1
<1>5. Offset(q, n) = IF n = 0 THEN 0 ELSE Len(f[n])
  BY <1>2, <1>4, OffsetIs
<1>6. Offset(q, n + 1) = Len(f[n + 1])
  BY <1>2, <1>4, OffsetIs
<1>7. /\ Offset(q, n) \in Nat /\ Len(f[n + 1]) = Offset(q, n) + Len(q[n + 1])
      /\ \A k \in 1 .. Len(q[n + 1]) : f[n + 1][Offset(q, n) + k] = q[n + 1][k]
  <2>1. CASE n = 0
    <3>1. f[n + 1] = q[n + 1] /\ Offset(q, n) = 0
      BY <1>1, <1>3, <1>5, <2>1
    <3> QED BY <1>1, <3>1
  <2>2. CASE n # 0
    <3>1. n \in 1 .. Len(q) /\ n + 1 # 1 /\ (n + 1) - 1 = n
      BY <1>1, <2>2
    <3>2. f[n + 1] = f[n] \o q[n + 1] /\ f[n] \in Seq(S) /\ Len(f[n]) \in Nat /\ Offset(q, n) = Len(f[n])
      BY <1>1, <1>3, <1>5, <2>2, <3>1
    <3> DEFINE x == f[n]
               y == q[n + 1]
    <3>3. x \in Seq(S) /\ y \in Seq(S) /\ Len(x) \in Nat /\ Len(y) \in Nat
      BY <1>1, <3>2
    <3> HIDE DEF x, y
    <3>4. Len(x \o y) = Len(x) + Len(y) /\ \A k \in 1 .. Len(y) : (x \o y)[Len(x) + k] = y[k]
      BY <3>3, ConcatProperties
    <3> QED BY <3>2, <3>4 DEF x, y
  <2> QED BY <2>1, <2>2
<1>8. FrontOf(f, Len(q), n + 1)
  <2>1. Len(q) \in n + 1 .. Len(q)
    BY <1>1
  <2> QED BY <1>1, <1>3, <2>1
<1>9. Len(f[n + 1]) <= Len(FlattenSeq(q)) /\ \A k \in 1 .. Len(f[n + 1]) : FlattenSeq(q)[k] = f[n + 1][k]
  BY <1>2, <1>8 DEF FrontOf
<1>10. \A k \in 1 .. Len(q[n + 1]) : Offset(q, n) + k \in 1 .. Len(f[n + 1])
  BY <1>1, <1>7
<1> QED BY <1>6, <1>7, <1>9, <1>10

\* The whole has all its texts.
LEMMA OffsetEnds ==
  ASSUME NEW S, NEW q \in Seq(Seq(S))
  PROVE  /\ Offset(q, 0) = 0 /\ Offset(q, Len(q)) = Len(FlattenSeq(q))
         /\ \A m \in 0 .. Len(q) : Offset(q, m) \in Nat /\ Offset(q, m) <= Len(FlattenSeq(q))
<1>1. Len(q) \in Nat /\ FlattenSeq(q) \in Seq(S) /\ Len(FlattenSeq(q)) \in Nat
  BY FlattenType
<1>2. Offset(q, 0) = 0
  <2>1. PICK f : Flattens(f, q)
    BY FlattensExists
  <2>2. 0 \in 0 .. Len(q)
    BY <1>1
  <2> QED BY <2>1, <2>2, OffsetIs
<1>3. Offset(q, Len(q)) = Len(FlattenSeq(q))
  <2>1. CASE q = <<>>
    BY <1>2, <2>1 DEF FlattenSeq
  <2>2. CASE q # <<>>
    <3>1. PICK f : Flattens(f, q) /\ FlattenSeq(q) = f[Len(q)]
      BY <2>2, FlattenSeqIs
    <3>2. Len(q) \in 0 .. Len(q) /\ Len(q) # 0
      BY <1>1, <2>2
    <3> QED BY <3>1, <3>2, OffsetIs
  <2> QED BY <2>1, <2>2
<1>4. ASSUME NEW m \in 0 .. Len(q)
      PROVE  Offset(q, m) \in Nat /\ Offset(q, m) <= Len(FlattenSeq(q))
  <2>1. CASE m = 0
    BY <1>1, <1>2, <2>1
  <2>2. CASE m # 0
    <3>1. m - 1 \in Nat /\ m - 1 < Len(q) /\ (m - 1) + 1 = m /\ q[m] \in Seq(S) /\ Len(q[m]) \in Nat
      BY <1>1, <2>2
    <3> DEFINE d == m - 1
    <3>2. d \in Nat /\ d < Len(q) /\ d + 1 = m
      BY <3>1
    <3> HIDE DEF d
    <3>3. Offset(q, d) \in Nat /\ Offset(q, d + 1) = Offset(q, d) + Len(q[d + 1])
          /\ Offset(q, d + 1) <= Len(FlattenSeq(q))
      BY <3>2, FlattenPlace
    <3> QED BY <1>1, <3>1, <3>2, <3>3
  <2> QED BY <2>1, <2>2
<1> QED BY <1>2, <1>3, <1>4

-----------------------------------------------------------------------------
\* The member of a set of numbers that so many are not above.
Ranked(W, w) == CHOOSE x \in W : Cardinality({y \in W : y <= x}) = w

\* The members of a set of numbers by their rank.
LEMMA RankOf ==
  ASSUME NEW k \in Nat, NEW p \in [1 .. k -> Nat],
         \A i, j \in 1 .. k : i < j => p[i] < p[j],
         NEW W, W = {p[i] : i \in 1 .. k}
  PROVE  Cardinality(W) = k /\ \A w \in 1 .. k : Ranked(W, w) = p[w]
<1>1. \A i \in 1 .. k : p[i] \in W /\ p[i] \in Nat
  OBVIOUS
<1>2. ASSUME NEW w \in 0 .. k
      PROVE  Cardinality({p[i] : i \in 1 .. w}) = w
  <2> DEFINE V == {p[i] : i \in 1 .. w}
             g == [i \in 1 .. w |-> p[i]]
  <2>1. \A i \in 1 .. w : i \in 1 .. k
    OBVIOUS
  <2>2. \A i, j \in 1 .. w : p[i] = p[j] => i = j
    <3> SUFFICES ASSUME NEW i \in 1 .. w, NEW j \in 1 .. w, i # j PROVE p[i] # p[j]
      OBVIOUS
    <3>1. i \in 1 .. k /\ j \in 1 .. k /\ (i < j \/ j < i)
      OBVIOUS
    <3>2. p[i] \in Nat /\ p[j] \in Nat /\ (p[i] < p[j] \/ p[j] < p[i])
      BY <1>1, <3>1
    <3> QED BY <3>2
  <2>3. g \in [1 .. w -> V] /\ (\A i, j \in 1 .. w : g[i] = g[j] => i = j)
        /\ \A v \in V : \E i \in 1 .. w : g[i] = v
    BY <2>2
  <2>4. g \in Bijection(1 .. w, V)
    <3> HIDE DEF g, V
    <3> QED BY <2>3 DEF Bijection, Injection, Surjection, IsInjective
  <2>5. IsFiniteSet(1 .. w) /\ Cardinality(1 .. w) = w
    <3>1. Cardinality(1 .. w) = IF 1 > w THEN 0 ELSE w - 1 + 1
      BY FS_Interval
    <3>2. IsFiniteSet(1 .. w)
      BY FS_Interval
    <3>3. w \in Nat
      OBVIOUS
    <3> QED BY <3>1, <3>2, <3>3
  <2> HIDE DEF g, V
  <2>6. Cardinality(V) = w
    BY <2>4, <2>5, FS_Bijection DEF ExistsBijection
  <2> QED BY <2>6 DEF V
<1>3. Cardinality(W) = k
  <2>1. k \in 0 .. k
    OBVIOUS
  <2> QED BY <1>2, <2>1
<1>4. ASSUME NEW w \in 1 .. k
      PROVE  Cardinality({y \in W : y <= p[w]}) = w
  <2>1. {y \in W : y <= p[w]} = {p[i] : i \in 1 .. w}
    <3>1. ASSUME NEW i \in 1 .. k, p[i] <= p[w] PROVE i \in 1 .. w
      <4>1. ~(p[w] < p[i])
        BY <1>1, <3>1
      <4>2. ~(w < i) /\ i \in Int /\ w \in Int
        BY <4>1
      <4> QED BY <4>2
    <3>2. ASSUME NEW i \in 1 .. w PROVE i \in 1 .. k /\ p[i] <= p[w]
      <4>1. i \in 1 .. k /\ (i = w \/ i < w)
        OBVIOUS
      <4>2. p[w] \in Nat /\ p[i] \in Nat
        BY <1>1, <4>1
      <4>3. i < w => p[i] < p[w]
        BY <4>1
      <4> QED BY <4>1, <4>2, <4>3
    <3>3. \A y : y \in {z \in W : z <= p[w]} => y \in {p[i] : i \in 1 .. w}
      BY <3>1
    <3>4. \A y : y \in {p[i] : i \in 1 .. w} => y \in {z \in W : z <= p[w]}
      BY <3>2
    <3> QED BY <3>3, <3>4
  <2>2. w \in 0 .. k
    OBVIOUS
  <2> QED BY <1>2, <2>1, <2>2
<1>5. ASSUME NEW w \in 1 .. k
      PROVE  (CHOOSE x \in W : Cardinality({y \in W : y <= x}) = w) = p[w]
  <2>1. p[w] \in W /\ Cardinality({y \in W : y <= p[w]}) = w
    BY <1>1, <1>4
  <2>2. ASSUME NEW x \in W, Cardinality({y \in W : y <= x}) = w PROVE x = p[w]
    <3>1. PICK i \in 1 .. k : x = p[i]
      OBVIOUS
    <3>2. Cardinality({y \in W : y <= p[i]}) = i
      BY <1>4
    <3> QED BY <2>2, <3>1, <3>2
  <2> QED BY <2>1, <2>2
<1> QED BY <1>3, <1>5 DEF Ranked

=============================================================================
