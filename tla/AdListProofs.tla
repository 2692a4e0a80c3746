----------------------------- MODULE AdListProofs -----------------------------
(***************************************************************************)
(* The linked list, for any values and any number of nodes: its links are  *)
(* those of a sequence of nodes, which the iterators walk through, and     *)
(* which every call changes as that of ListSeq.                            *)
(***************************************************************************)
EXTENDS AdListCalls, CommonLemmas

-----------------------------------------------------------------------------
\* The node at a place of a sequence, if there is one.
At(p, i) == IF i \in 1 .. Len(p) THEN p[i] ELSE None

Distinct(p) == p \in Seq(Nodes) /\ \A i, j \in 1 .. Len(p) : p[i] = p[j] => i = j

\* No node is None, and a sequence of distinct nodes is no longer than there are.
LEMMA NodesAre == MaxNodes \in Nat /\ None \notin Nodes /\ None \notin Vals /\ Nodes = 1 .. MaxNodes
BY AdListAssumption DEF Nodes

\* The pigeonhole: distinct nodes are no more than there are nodes.
LEMMA DistinctFit ==
  ASSUME NEW p, Distinct(p)
  PROVE  Len(p) \in 0 .. MaxNodes
<1>1. p \in Seq(Nodes) /\ Len(p) \in Nat /\ DOMAIN p = 1 .. Len(p) /\ MaxNodes \in Nat
  BY NodesAre DEF Distinct
<1> DEFINE n == Len(p)
<1>2. n \in Nat /\ IsFiniteSet(1 .. n) /\ Cardinality(1 .. n) = n
  <2>1. n \in Nat /\ 1 \in Int /\ n \in Int
    BY <1>1
  <2> HIDE DEF n
  <2>2. IsFiniteSet(1 .. n) /\ Cardinality(1 .. n) = IF 1 > n THEN 0 ELSE n - 1 + 1
    BY <2>1, FS_Interval
  <2> QED BY <2>1, <2>2
<1>3. IsFiniteSet(Nodes) /\ Cardinality(Nodes) = MaxNodes
  <2>1. 1 \in Int /\ MaxNodes \in Int
    BY <1>1
  <2>2. IsFiniteSet(1 .. MaxNodes) /\ Cardinality(1 .. MaxNodes) = IF 1 > MaxNodes THEN 0 ELSE MaxNodes - 1 + 1
    BY <2>1, FS_Interval
  <2> QED BY <1>1, <2>2, NodesAre
<1>4. p \in Injection(1 .. n, Nodes)
  <2>1. p \in [1 .. n -> Nodes]
    <3>1. p = [i \in 1 .. n |-> p[i]] /\ \A i \in 1 .. n : p[i] \in Nodes
      BY <1>1
    <3> HIDE DEF n
    <3> QED BY <3>1
  <2>2. \A a, b \in DOMAIN p : p[a] = p[b] => a = b
    BY <1>1 DEF Distinct
  <2> QED BY <2>1, <2>2 DEF Injection, IsInjective
<1>5. Cardinality(1 .. n) <= Cardinality(Nodes)
  <2> HIDE DEF n
  <2> QED BY <1>3, <1>4, FS_Injection
<1> QED BY <1>1, <1>2, <1>3, <1>5

-----------------------------------------------------------------------------
\* What following a link from a node meets, for any link and any start.
Following1(m, link) == IF m = None THEN None ELSE link[m]
Steps1(f, link, first, n) ==
  f = [k \in 0 .. n |-> IF k = 0 THEN first ELSE Following1(f[k - 1], link)]

\* The recursive function of Steps exists.
LEMMA StepsExist ==
  ASSUME NEW link, NEW first
  PROVE  \E f : Steps1(f, link, first, MaxNodes)
<1> DEFINE Bad == {m \in 0 .. MaxNodes : ~ \E f : Steps1(f, link, first, m)}
<1>0. MaxNodes \in Nat
  BY NodesAre
<1>1. SUFFICES ASSUME Bad # {} PROVE FALSE
  BY <1>0
<1>2. PICK m \in Bad : \A k \in Bad : m <= k
  <2>1. Bad \in SUBSET Nat
    OBVIOUS
  <2> HIDE DEF Bad
  <2> QED BY <1>1, <2>1, LeastNatural
<1>3. m # 0
  <2> DEFINE e == [k \in 0 .. 0 |-> first]
  <2>1. e = [k \in 0 .. 0 |-> IF k = 0 THEN first ELSE Following1(e[k - 1], link)]
    OBVIOUS
  <2> HIDE DEF e
  <2>2. Steps1(e, link, first, 0)
    BY <2>1 DEF Steps1
  <2> QED BY <2>2
<1>4. m \in Nat /\ m - 1 \in 0 .. MaxNodes /\ m - 1 \notin Bad
  <2>1. m \in 0 .. MaxNodes
    OBVIOUS
  <2> HIDE DEF Bad
  <2> QED BY <1>0, <1>2, <1>3, <2>1
<1>5. PICK f : Steps1(f, link, first, m - 1)
  BY <1>4
<1> DEFINE last == Following1(f[m - 1], link)
           g == [k \in 0 .. m |-> IF k = m THEN last ELSE f[k]]
<1>6. \A k \in 0 .. m - 1 : f[k] = IF k = 0 THEN first ELSE Following1(f[k - 1], link)
  BY <1>5 DEF Steps1
<1>7. \A k \in 0 .. m : g[k] = IF k = 0 THEN first ELSE Following1(g[k - 1], link)
  <2> SUFFICES ASSUME NEW k \in 0 .. m
               PROVE  g[k] = IF k = 0 THEN first ELSE Following1(g[k - 1], link)
    OBVIOUS
  <2>1. CASE k = m
    <3>1. g[m] = last /\ g[m - 1] = f[m - 1]
      BY <1>3, <1>4
    <3> QED BY <1>3, <2>1, <3>1
  <2>2. CASE k # m
    <3>1. k \in 0 .. m - 1 /\ g[k] = f[k]
      BY <1>4, <2>2
    <3>2. k # 0 => k - 1 \in 0 .. m /\ k - 1 # m
      BY <1>4, <2>2
    <3>3. k # 0 => g[k - 1] = f[k - 1]
      BY <3>2
    <3> HIDE DEF g
    <3> QED BY <1>6, <3>1, <3>3
  <2> QED BY <2>1, <2>2
<1>8. Steps1(g, link, first, m)
  <2> HIDE DEF last
  <2>1. g = [k \in 0 .. m |-> g[k]]
    OBVIOUS
  <2> HIDE DEF g
  <2> QED BY <2>1, <1>7 DEF Steps1
<1> QED BY <1>8, <1>2

\* What it is at each number of steps.
LEMMA StepsAre ==
  ASSUME NEW link, NEW first
  PROVE  \A k \in 0 .. MaxNodes :
           Steps(link, first)[k] = IF k = 0 THEN first ELSE Following1(Steps(link, first)[k - 1], link)
<1> DEFINE f == CHOOSE f : Steps1(f, link, first, MaxNodes)
<1>1. Steps(link, first) = f
  BY DEF Steps, Steps1, Following1
<1>2. Steps1(f, link, first, MaxNodes)
  BY StepsExist
<1> HIDE DEF f
<1> QED BY <1>1, <1>2 DEF Steps1

\* A link that goes through the nodes of a sequence: the walk is the sequence.
Through(link, first, p) ==
  first = At(p, 1) /\ \A i \in 1 .. Len(p) : link[p[i]] = At(p, i + 1)

\* The walk along such a link meets the nodes in their order.
LEMMA WalkIs ==
  ASSUME NEW link, NEW first, NEW p, Distinct(p), Through(link, first, p)
  PROVE  /\ Walk(link, first) = p
         /\ \A k \in 0 .. MaxNodes : Steps(link, first)[k] = At(p, k + 1)
<1> DEFINE step == Steps(link, first)
           n == Len(p)
           Bad == {k \in 0 .. MaxNodes : step[k] # At(p, k + 1)}
<1>1. /\ n \in 0 .. MaxNodes /\ MaxNodes \in Nat /\ n \in Nat
      /\ \A i \in 1 .. n : p[i] \in Nodes /\ p[i] # None
  BY DistinctFit, NodesAre DEF Distinct
<1>2. \A k \in 0 .. MaxNodes : step[k] = IF k = 0 THEN first ELSE Following1(step[k - 1], link)
  BY StepsAre
<1>3. first = At(p, 1) /\ \A i \in 1 .. n : link[p[i]] = At(p, i + 1)
  BY DEF Through
<1>4. \A i \in Int : At(p, i) = IF i \in 1 .. n THEN p[i] ELSE None
  BY DEF At
<1> HIDE DEF step, n
<1>5. Bad = {}
  <2> SUFFICES ASSUME Bad # {} PROVE FALSE
    OBVIOUS
  <2>1. PICK k \in Bad : \A j \in Bad : k <= j
    <3>1. Bad \in SUBSET Nat
      OBVIOUS
    <3> HIDE DEF Bad
    <3> QED BY <3>1, LeastNatural
  <2>2. k \in 0 .. MaxNodes /\ step[k] # At(p, k + 1)
    OBVIOUS
  <2>3. k # 0
    BY <1>2, <1>3, <2>2
  <2>4. k - 1 \in 0 .. MaxNodes /\ k - 1 \notin Bad /\ (k - 1) + 1 = k
    <3> HIDE DEF Bad
    <3> QED BY <1>1, <2>1, <2>2, <2>3
  <2>5. step[k - 1] = At(p, k)
    BY <2>4
  <2>6. step[k] = Following1(At(p, k), link)
    BY <1>2, <2>2, <2>3, <2>5
  <2>7. CASE k \in 1 .. n
    <3>1. At(p, k) = p[k] /\ p[k] # None /\ link[p[k]] = At(p, k + 1)
      BY <1>1, <1>3, <1>4, <2>7
    <3> QED BY <2>2, <2>6, <3>1 DEF Following1
  <2>8. CASE k \notin 1 .. n
    <3>1. k \in Int /\ k + 1 \in Int /\ k + 1 \notin 1 .. n
      BY <1>1, <2>2, <2>3, <2>8
    <3>2. At(p, k) = None /\ At(p, k + 1) = None
      BY <1>4, <2>8, <3>1
    <3> QED BY <2>2, <2>6, <3>2 DEF Following1
  <2> QED BY <2>7, <2>8
<1>6. \A k \in 0 .. MaxNodes : step[k] = At(p, k + 1)
  BY <1>5
<1> DEFINE steps == {k \in 0 .. MaxNodes : step[k] # None}
<1>7. steps = 0 .. n - 1
  <2>1. \A k \in 0 .. MaxNodes : step[k] # None <=> k \in 0 .. n - 1
    <3> SUFFICES ASSUME NEW k \in 0 .. MaxNodes PROVE step[k] # None <=> k \in 0 .. n - 1
      OBVIOUS
    <3>1. k + 1 \in Int /\ (k + 1 \in 1 .. n <=> k \in 0 .. n - 1)
      BY <1>1
    <3>2. step[k] = IF k + 1 \in 1 .. n THEN p[k + 1] ELSE None
      BY <1>4, <1>6, <3>1
    <3> QED BY <1>1, <3>1, <3>2
  <2>2. 0 .. n - 1 \subseteq 0 .. MaxNodes
    BY <1>1
  <2> QED BY <2>1, <2>2
<1>8. Cardinality(steps) = n
  <2>1. 0 \in Int /\ n - 1 \in Int
    BY <1>1
  <2> DEFINE m == n - 1
  <2>2. m \in Int
    BY <2>1
  <2> HIDE DEF m
  <2>3. Cardinality(0 .. m) = IF 0 > m THEN 0 ELSE m - 0 + 1
    BY <2>2, FS_Interval
  <2>4. (IF 0 > m THEN 0 ELSE m - 0 + 1) = n
    BY <1>1 DEF m
  <2> QED BY <1>7, <2>3, <2>4 DEF m
<1>9. Walk(link, first) = [i \in 1 .. Cardinality(steps) |-> step[i - 1]]
  BY DEF Walk, step
<1>10. \A i \in 1 .. n : step[i - 1] = p[i]
  <2> SUFFICES ASSUME NEW i \in 1 .. n PROVE step[i - 1] = p[i]
    OBVIOUS
  <2>1. i - 1 \in 0 .. MaxNodes /\ (i - 1) + 1 = i /\ i \in Int
    BY <1>1
  <2> QED BY <1>4, <1>6, <2>1
<1>11. p = [i \in 1 .. n |-> p[i]]
  BY DEF Distinct, n
<1>12. Walk(link, first) = p
  <2> HIDE DEF steps
  <2> QED BY <1>8, <1>9, <1>10, <1>11
<1> QED BY <1>6, <1>12 DEF step


-----------------------------------------------------------------------------
\* The list s is the sequence p of nodes: its links, read in both directions, its
\* ends and its length are those of p, and the nodes of p hold values.
ListFields == {"head", "tail", "len", "prev", "next", "value"}
Links == [Nodes -> Nodes \cup {None}]
ListType(s) ==
  /\ DOMAIN s = ListFields /\ s.prev \in Links /\ s.next \in Links
  /\ s.value \in [Nodes -> Vals \cup {None}]

ThroughBack(link, last, p) ==
  last = At(p, Len(p)) /\ \A i \in 1 .. Len(p) : link[p[i]] = At(p, i - 1)

Chain(s, p) ==
  /\ ListType(s) /\ Distinct(p) /\ s.len = Len(p)
  /\ Through(s.next, s.head, p) /\ ThroughBack(s.prev, s.tail, p)
  /\ \A i \in 1 .. Len(p) : s.value[p[i]] \in Vals

\* The facts of a sequence that the lemmas below use.
LEMMA PlacesAre ==
  ASSUME NEW p, Distinct(p)
  PROVE  /\ Len(p) \in Nat /\ Len(p) <= MaxNodes /\ p \in Seq(Nodes)
         /\ \A i \in 1 .. Len(p) : p[i] \in Nodes /\ p[i] # None
         /\ \A i, j \in 1 .. Len(p) : p[i] = p[j] => i = j
         /\ \A i \in Int : i \in 1 .. Len(p) => At(p, i) = p[i]
         /\ \A i \in Int : i \notin 1 .. Len(p) => At(p, i) = None
         /\ \A i \in Int : At(p, i) \in Nodes \cup {None}
         /\ \A i, j \in Int : At(p, i) = At(p, j) /\ At(p, i) # None => i = j
<1>1. Len(p) \in Nat /\ Len(p) <= MaxNodes /\ p \in Seq(Nodes)
  BY DistinctFit, NodesAre DEF Distinct
<1>2. \A i, j \in 1 .. Len(p) : p[i] = p[j] => i = j
  BY DEF Distinct
<1>3. \A i \in 1 .. Len(p) : p[i] \in Nodes /\ p[i] # None
  BY <1>1, NodesAre
<1>4. \A i \in Int : i \in 1 .. Len(p) => At(p, i) = p[i]
  BY DEF At
<1>5. \A i \in Int : i \notin 1 .. Len(p) => At(p, i) = None
  BY DEF At
<1>6. \A i \in Int : At(p, i) \in Nodes \cup {None}
  BY <1>3, <1>4, <1>5
<1>7. \A i, j \in Int : At(p, i) = At(p, j) /\ At(p, i) # None => i = j
  <2> SUFFICES ASSUME NEW i \in Int, NEW j \in Int, At(p, i) = At(p, j), At(p, i) # None
               PROVE  i = j
    OBVIOUS
  <2>1. i \in 1 .. Len(p) /\ j \in 1 .. Len(p)
    BY <1>5
  <2> QED BY <1>2, <1>4, <2>1
<1> QED BY <1>1, <1>2, <1>3, <1>4, <1>5, <1>6, <1>7

\* A sequence read backwards.
LEMMA ReverseIs ==
  ASSUME NEW p, Distinct(p)
  PROVE  /\ Distinct(Reverse(p)) /\ Len(Reverse(p)) = Len(p)
         /\ \A i \in 1 .. Len(p) : Reverse(p)[i] = p[Len(p) - i + 1]
         /\ \A i \in Int : At(Reverse(p), i) = At(p, Len(p) - i + 1)
<1> DEFINE n == Len(p)
           r == Reverse(p)
<1>1. /\ n \in Nat /\ \A i \in 1 .. n : p[i] \in Nodes
      /\ \A i, j \in 1 .. n : p[i] = p[j] => i = j
  BY PlacesAre
<1>2. r = [i \in 1 .. n |-> p[n - i + 1]]
  BY DEF Reverse
<1>3. \A i \in 1 .. n : n - i + 1 \in 1 .. n
  BY <1>1
<1>4. \A i \in 1 .. n : r[i] = p[n - i + 1] /\ r[i] \in Nodes
  BY <1>1, <1>2, <1>3
<1>5. r \in Seq(Nodes) /\ Len(r) = n
  <2>1. r = [i \in 1 .. n |-> r[i]]
    BY <1>2
  <2>2. \A i \in 1 .. n : r[i] \in Nodes
    BY <1>4
  <2>3. n \in Nat
    BY <1>1
  <2> HIDE DEF r, n
  <2> QED BY <2>1, <2>2, <2>3
<1>6. \A i, j \in 1 .. n : r[i] = r[j] => i = j
  <2> SUFFICES ASSUME NEW i \in 1 .. n, NEW j \in 1 .. n, r[i] = r[j] PROVE i = j
    OBVIOUS
  <2> HIDE DEF r, n
  <2>1. p[n - i + 1] = p[n - j + 1]
    BY <1>4
  <2>2. n - i + 1 = n - j + 1
    BY <1>1, <1>3, <2>1
  <2> QED BY <1>1, <2>2
<1>7. \A i \in Int : At(r, i) = At(p, n - i + 1)
  <2> SUFFICES ASSUME NEW i \in Int PROVE At(r, i) = At(p, n - i + 1)
    OBVIOUS
  <2> HIDE DEF r
  <2>1. i \in 1 .. n <=> n - i + 1 \in 1 .. n
    BY <1>1
  <2> QED BY <1>4, <1>5, <2>1 DEF At
<1> HIDE DEF r, n
<1>8. Distinct(r)
  BY <1>5, <1>6 DEF Distinct
<1> QED BY <1>4, <1>5, <1>7, <1>8 DEF r, n

\* The walks through a list are its sequence and its mirror image.
LEMMA ChainIs ==
  ASSUME NEW s, NEW p, Chain(s, p)
  PROVE  /\ Forward(s) = p /\ Backward(s) = Reverse(p) /\ Live(s) = {p[i] : i \in 1 .. Len(p)}
         /\ \A k \in 0 .. MaxNodes : Steps(s.next, s.head)[k] = At(p, k + 1)
         /\ \A k \in 0 .. MaxNodes : Steps(s.prev, s.tail)[k] = At(p, Len(p) - k)
<1> DEFINE r == Reverse(p)
           n == Len(p)
<1>1. Distinct(p) /\ Through(s.next, s.head, p) /\ ThroughBack(s.prev, s.tail, p) /\ n \in Nat
  BY PlacesAre DEF Chain
<1>2. Forward(s) = p /\ \A k \in 0 .. MaxNodes : Steps(s.next, s.head)[k] = At(p, k + 1)
  BY <1>1, WalkIs DEF Forward
<1>3. /\ Distinct(r) /\ Len(r) = n
      /\ \A i \in 1 .. n : r[i] = p[n - i + 1]
      /\ \A i \in Int : At(r, i) = At(p, n - i + 1)
  BY <1>1, ReverseIs
<1> HIDE DEF r
<1>4. Through(s.prev, s.tail, r)
  <2>1. s.tail = At(r, 1)
    <3>1. 1 \in Int /\ n - 1 + 1 = n
      BY <1>1
    <3> QED BY <1>1, <1>3, <3>1 DEF ThroughBack
  <2>2. ASSUME NEW i \in 1 .. n PROVE s.prev[r[i]] = At(r, i + 1)
    <3> DEFINE j == n - i + 1
    <3>1. j \in 1 .. n /\ i + 1 \in Int /\ n - (i + 1) + 1 = j - 1
      BY <1>1
    <3>2. r[i] = p[j] /\ At(r, i + 1) = At(p, j - 1)
      BY <1>3, <3>1
    <3> HIDE DEF j
    <3>3. s.prev[p[j]] = At(p, j - 1)
      BY <1>1, <3>1 DEF ThroughBack
    <3> QED BY <3>2, <3>3
  <2> QED BY <1>3, <2>1, <2>2 DEF Through
<1>5. Backward(s) = r /\ \A k \in 0 .. MaxNodes : Steps(s.prev, s.tail)[k] = At(r, k + 1)
  BY <1>3, <1>4, WalkIs DEF Backward
<1>6. \A k \in 0 .. MaxNodes : Steps(s.prev, s.tail)[k] = At(p, n - k)
  <2> SUFFICES ASSUME NEW k \in 0 .. MaxNodes PROVE Steps(s.prev, s.tail)[k] = At(p, n - k)
    OBVIOUS
  <2>1. k + 1 \in Int /\ n - (k + 1) + 1 = n - k
    BY <1>1, NodesAre
  <2> QED BY <1>3, <1>5, <2>1
<1>7. Live(s) = {p[i] : i \in 1 .. n}
  <2>1. DOMAIN p = 1 .. n
    BY <1>1 DEF Distinct
  <2> QED BY <1>2, <2>1 DEF Live, ToSet
<1> QED BY <1>2, <1>5, <1>6, <1>7 DEF r

-----------------------------------------------------------------------------
\* What a call changes that puts the node n to place i.
Inserted(t, s, p, i, n, v) ==
  /\ ListType(t) /\ t.len = s.len + 1
  /\ t.head = (IF i = 1 THEN n ELSE s.head)
  /\ t.tail = (IF i = Len(p) + 1 THEN n ELSE s.tail)
  /\ \A m \in Nodes : t.value[m] = IF m = n THEN v ELSE s.value[m]
  /\ \A m \in Nodes : t.next[m] = IF m = n THEN At(p, i) ELSE IF m = At(p, i - 1) THEN n ELSE s.next[m]
  /\ \A m \in Nodes : t.prev[m] = IF m = n THEN At(p, i - 1) ELSE IF m = At(p, i) THEN n ELSE s.prev[m]

\* A node put to place i makes a chain of the longer sequence.
LEMMA InsertedIs ==
  ASSUME NEW s, NEW p, Chain(s, p), NEW n \in Nodes, n \notin Live(s), NEW v \in Vals,
         NEW i \in 1 .. Len(p) + 1, NEW t, Inserted(t, s, p, i, n, v)
  PROVE  Chain(t, InsertAt(p, i, n))
<1> DEFINE r == InsertAt(p, i, n)
           k == Len(p)
<1>1. /\ k \in Nat /\ p \in Seq(Nodes) /\ Distinct(p)
      /\ \A j \in 1 .. k : p[j] \in Nodes /\ p[j] # None
      /\ \A j, m \in 1 .. k : p[j] = p[m] => j = m
      /\ \A j \in Int : j \in 1 .. k => At(p, j) = p[j]
      /\ \A j \in Int : j \notin 1 .. k => At(p, j) = None
  BY PlacesAre DEF Chain
<1>2. n # None /\ \A j \in 1 .. k : p[j] # n
  BY ChainIs, NodesAre
<1>3. i \in Int /\ 1 <= i /\ i <= k + 1
  BY <1>1
<1>4. /\ r \in Seq(Nodes) /\ Len(r) = k + 1
      /\ \A j \in 1 .. k + 1 : r[j] = IF j < i THEN p[j] ELSE IF j = i THEN n ELSE p[j - 1]
  BY <1>1, InsertAtIs
<1>5. /\ s.len = k /\ s.head = At(p, 1) /\ s.tail = At(p, k)
      /\ \A j \in 1 .. k : s.next[p[j]] = At(p, j + 1) /\ s.prev[p[j]] = At(p, j - 1) /\ s.value[p[j]] \in Vals
  BY DEF Chain, Through, ThroughBack
<1>6. /\ ListType(t) /\ t.len = s.len + 1
      /\ t.head = (IF i = 1 THEN n ELSE s.head)
      /\ t.tail = (IF i = k + 1 THEN n ELSE s.tail)
      /\ \A m \in Nodes : t.value[m] = IF m = n THEN v ELSE s.value[m]
      /\ \A m \in Nodes : t.next[m] = IF m = n THEN At(p, i) ELSE IF m = At(p, i - 1) THEN n ELSE s.next[m]
      /\ \A m \in Nodes : t.prev[m] = IF m = n THEN At(p, i - 1) ELSE IF m = At(p, i) THEN n ELSE s.prev[m]
  BY DEF Inserted
<1> HIDE DEF r, k
<1>7. \A j \in Int : At(r, j) = IF j < i THEN At(p, j) ELSE IF j = i THEN n ELSE At(p, j - 1)
  <2> SUFFICES ASSUME NEW j \in Int
               PROVE  At(r, j) = IF j < i THEN At(p, j) ELSE IF j = i THEN n ELSE At(p, j - 1)
    OBVIOUS
  <2>1. At(r, j) = IF j \in 1 .. k + 1 THEN r[j] ELSE None
    BY <1>4 DEF At
  <2>2. CASE j < i
    BY <1>1, <1>3, <1>4, <2>1, <2>2
  <2>3. CASE j = i
    BY <1>1, <1>3, <1>4, <2>1, <2>3
  <2>4. CASE j > i
    <3>1. j - 1 \in Int /\ (j \in 1 .. k + 1 <=> j - 1 \in 1 .. k) /\ ~(j < i) /\ j # i
      BY <1>1, <1>3, <2>4
    <3> QED BY <1>1, <1>4, <2>1, <3>1
  <2> QED BY <1>3, <2>2, <2>3, <2>4
<1>8. Distinct(r)
  <2>1. ASSUME NEW a \in 1 .. k + 1, NEW b \in 1 .. k + 1, a < b, r[a] = r[b] PROVE FALSE
    <3>1. r[a] = IF a < i THEN p[a] ELSE IF a = i THEN n ELSE p[a - 1]
      BY <1>4
    <3>2. r[b] = IF b < i THEN p[b] ELSE IF b = i THEN n ELSE p[b - 1]
      BY <1>4
    <3>3. CASE b < i
      <4>1. a \in 1 .. k /\ b \in 1 .. k /\ a < i /\ a # b
        BY <1>1, <1>3, <2>1, <3>3
      <4> QED BY <1>1, <2>1, <3>1, <3>2, <3>3, <4>1
    <3>4. CASE b = i
      <4>1. a \in 1 .. k /\ a < i /\ ~(b < i)
        BY <1>1, <1>3, <2>1, <3>4
      <4> QED BY <1>2, <2>1, <3>1, <3>2, <3>4, <4>1
    <3>5. CASE b > i
      <4>1. b - 1 \in 1 .. k /\ ~(b < i) /\ b # i
        BY <1>1, <1>3, <2>1, <3>5
      <4>2. CASE a < i
        <5>1. a \in 1 .. k /\ a # b - 1
          BY <1>1, <1>3, <3>5, <4>2
        <5> QED BY <1>1, <2>1, <3>1, <3>2, <4>1, <4>2, <5>1
      <4>3. CASE a = i
        <5>1. ~(a < i)
          BY <1>3, <4>3
        <5> QED BY <1>2, <2>1, <3>1, <3>2, <4>1, <4>3, <5>1
      <4>4. CASE a > i
        <5>1. a - 1 \in 1 .. k /\ ~(a < i) /\ a # i /\ a - 1 # b - 1
          BY <1>1, <1>3, <2>1, <4>4
        <5> QED BY <1>1, <2>1, <3>1, <3>2, <4>1, <5>1
      <4> QED BY <1>1, <1>3, <4>2, <4>3, <4>4
    <3> QED BY <1>1, <1>3, <3>3, <3>4, <3>5
  <2>2. \A a, b \in 1 .. k + 1 : r[a] = r[b] => a = b
    <3>1. \A a, b \in 1 .. k + 1 : a = b \/ a < b \/ b < a
      BY <1>1
    <3> QED BY <2>1, <3>1
  <2> QED BY <1>4, <2>2 DEF Distinct
<1>9. t.head = At(r, 1) /\ t.tail = At(r, k + 1) /\ t.len = Len(r)
  <2>1. At(r, 1) = IF 1 < i THEN At(p, 1) ELSE IF 1 = i THEN n ELSE At(p, 0)
    BY <1>7
  <2>2. At(r, k + 1) = IF k + 1 < i THEN At(p, k + 1) ELSE IF k + 1 = i THEN n ELSE At(p, k)
    <3>1. k + 1 \in Int /\ (k + 1) - 1 = k
      BY <1>1
    <3> QED BY <1>7, <3>1
  <2> QED BY <1>1, <1>3, <1>4, <1>5, <1>6, <2>1, <2>2
<1>10. ASSUME NEW j \in 1 .. k + 1
       PROVE  t.next[r[j]] = At(r, j + 1) /\ t.prev[r[j]] = At(r, j - 1) /\ t.value[r[j]] \in Vals
  <2>1. /\ At(r, j + 1) = IF j + 1 < i THEN At(p, j + 1) ELSE IF j + 1 = i THEN n ELSE At(p, j)
        /\ At(r, j - 1) = IF j - 1 < i THEN At(p, j - 1) ELSE IF j - 1 = i THEN n ELSE At(p, j - 2)
    <3>1. j + 1 \in Int /\ j - 1 \in Int /\ (j + 1) - 1 = j /\ (j - 1) - 1 = j - 2
      BY <1>1
    <3> QED BY <1>7, <3>1
  <2>2. r[j] = IF j < i THEN p[j] ELSE IF j = i THEN n ELSE p[j - 1]
    BY <1>4
  <2>3. CASE j < i
    <3>1. j \in 1 .. k /\ r[j] = p[j] /\ p[j] \in Nodes /\ p[j] # n
      BY <1>1, <1>2, <1>3, <2>2, <2>3
    <3>2. s.next[p[j]] = At(p, j + 1) /\ s.prev[p[j]] = At(p, j - 1) /\ s.value[p[j]] \in Vals
      BY <1>5, <3>1
    <3>3. p[j] # At(p, i)
      <4>1. CASE i \in 1 .. k
        BY <1>1, <2>3, <3>1, <4>1
      <4>2. CASE i \notin 1 .. k
        BY <1>1, <1>3, <3>1, <4>2
      <4> QED BY <4>1, <4>2
    <3>4. p[j] = At(p, i - 1) <=> j = i - 1
      <4>1. i - 1 \in 1 .. k /\ i - 1 \in Int
        BY <1>1, <1>3, <2>3
      <4> QED BY <1>1, <3>1, <4>1
    <3>5. t.next[r[j]] = At(r, j + 1)
      <4>1. t.next[r[j]] = IF j = i - 1 THEN n ELSE At(p, j + 1)
        BY <1>6, <3>1, <3>2, <3>4
      <4>2. (j + 1 = i <=> j = i - 1) /\ (j # i - 1 => j + 1 < i)
        BY <1>1, <1>3, <2>3
      <4>3. j + 1 = i => ~(j + 1 < i)
        BY <1>3
      <4> QED BY <2>1, <4>1, <4>2, <4>3
    <3>6. t.prev[r[j]] = At(r, j - 1)
      <4>1. j - 1 < i
        BY <1>1, <1>3, <2>3
      <4> QED BY <1>6, <2>1, <3>1, <3>2, <3>3, <4>1
    <3> QED BY <1>6, <3>1, <3>2, <3>5, <3>6
  <2>4. CASE j = i
    <3>1. r[j] = n /\ ~(j + 1 < i) /\ j + 1 # i /\ j - 1 < i
      BY <1>1, <1>3, <2>2, <2>4
    <3> QED BY <1>6, <2>1, <2>4, <3>1
  <2>5. CASE j > i
    <3> DEFINE m == j - 1
    <3>1. /\ m \in 1 .. k /\ r[j] = p[m] /\ p[m] \in Nodes /\ p[m] # n /\ m \in Int /\ m >= i
          /\ ~(j + 1 < i) /\ j + 1 # i /\ ~(m < i) /\ m + 1 = j /\ m - 1 = j - 2
      <4>1. m \in 1 .. k /\ r[j] = p[m] /\ m \in Int /\ m >= i
            /\ ~(j + 1 < i) /\ j + 1 # i /\ ~(m < i) /\ m + 1 = j /\ m - 1 = j - 2
        BY <1>1, <1>3, <2>2, <2>5
      <4> HIDE DEF m
      <4> QED BY <1>1, <1>2, <4>1
    <3>2. At(r, j + 1) = At(p, m + 1) /\ At(r, j - 1) = IF m = i THEN n ELSE At(p, m - 1)
      BY <2>1, <3>1
    <3> HIDE DEF m
    <3>3. s.next[p[m]] = At(p, m + 1) /\ s.prev[p[m]] = At(p, m - 1) /\ s.value[p[m]] \in Vals
      BY <1>5, <3>1
    <3>4. p[m] = At(p, i) <=> m = i
      <4>1. i \in 1 .. k
        BY <1>1, <1>3, <3>1
      <4> QED BY <1>1, <1>3, <3>1, <4>1
    <3>5. p[m] # At(p, i - 1)
      <4>1. i - 1 \in Int /\ i - 1 # m
        BY <1>3, <3>1
      <4>2. CASE i - 1 \in 1 .. k
        BY <1>1, <3>1, <4>1, <4>2
      <4>3. CASE i - 1 \notin 1 .. k
        BY <1>1, <3>1, <4>1, <4>3
      <4> QED BY <4>2, <4>3
    <3>6. t.next[r[j]] = At(r, j + 1)
      BY <1>6, <3>1, <3>2, <3>3, <3>5
    <3>7. t.prev[r[j]] = At(r, j - 1)
      BY <1>6, <3>1, <3>2, <3>3, <3>4
    <3> QED BY <1>6, <3>1, <3>3, <3>6, <3>7
  <2> QED BY <1>1, <1>3, <2>3, <2>4, <2>5
<1>11. Chain(t, r)
  <2>1. Through(t.next, t.head, r)
    BY <1>4, <1>9, <1>10 DEF Through
  <2>2. ThroughBack(t.prev, t.tail, r)
    BY <1>4, <1>9, <1>10 DEF ThroughBack
  <2> QED BY <1>4, <1>6, <1>8, <1>9, <1>10, <2>1, <2>2 DEF Chain
<1> QED BY <1>11 DEF r


\* A link or a value of one node is set.
LEMMA OneSet ==
  ASSUME NEW X, NEW f \in [Nodes -> X], NEW m \in Nodes, NEW x \in X
  PROVE  /\ [f EXCEPT ![m] = x] \in [Nodes -> X]
         /\ \A k \in Nodes : [f EXCEPT ![m] = x][k] = IF k = m THEN x ELSE f[k]
OBVIOUS

\* What the calls that add a node know of the list.
LEMMA NewNodeIs ==
  ASSUME NEW s, NEW p, Chain(s, p), NEW n \in Nodes, n \notin Live(s)
  PROVE  /\ DOMAIN s = ListFields /\ s.prev \in Links /\ s.next \in Links
         /\ s.value \in [Nodes -> Vals \cup {None}] /\ s.len = Len(p)
         /\ s.head = At(p, 1) /\ s.tail = At(p, Len(p)) /\ n # None
         /\ \A i \in 1 .. Len(p) :
              p[i] # n /\ p[i] \in Nodes /\ s.next[p[i]] = At(p, i + 1) /\ s.prev[p[i]] = At(p, i - 1)
<1>1. Distinct(p) /\ ListType(s)
  BY DEF Chain
<1>2. \A i \in 1 .. Len(p) : p[i] # n
  BY ChainIs
<1>3. \A i \in 1 .. Len(p) : p[i] \in Nodes
  BY <1>1, PlacesAre
<1> QED BY <1>1, <1>2, <1>3, NodesAre DEF Chain, ListType, Through, ThroughBack

\* AddNodeHead puts the node to the first place.
LEMMA HeadInserted ==
  ASSUME NEW s, NEW p, Chain(s, p), NEW n \in Nodes, n \notin Live(s), NEW v \in Vals
  PROVE  Inserted(AddNodeHead(s, n, v), s, p, 1, n, v)
<1> DEFINE u == AddNodeHead(s, n, v)
           k == Len(p)
<1>1. /\ DOMAIN s = ListFields /\ s.prev \in Links /\ s.next \in Links
      /\ s.value \in [Nodes -> Vals \cup {None}] /\ s.len = k
      /\ s.head = At(p, 1) /\ s.tail = At(p, k) /\ n # None
      /\ \A i \in 1 .. k : p[i] # n /\ p[i] \in Nodes
  BY NewNodeIs
<1>2. /\ k \in Nat
      /\ \A i \in Int : i \in 1 .. k => At(p, i) = p[i]
      /\ \A i \in Int : i \notin 1 .. k => At(p, i) = None
  BY PlacesAre DEF Chain
<1> DEFINE value == [s.value EXCEPT ![n] = v]
           prev1 == [s.prev EXCEPT ![n] = None]
<1>3. /\ value \in [Nodes -> Vals \cup {None}]
      /\ \A m \in Nodes : value[m] = IF m = n THEN v ELSE s.value[m]
  <2>1. v \in Vals \cup {None}
    OBVIOUS
  <2> DEFINE X == Vals \cup {None}
  <2> HIDE DEF X
  <2> QED BY <1>1, <2>1, OneSet DEF X
<1>4. /\ prev1 \in Links
      /\ \A m \in Nodes : prev1[m] = IF m = n THEN None ELSE s.prev[m]
  <2>1. None \in Nodes \cup {None}
    OBVIOUS
  <2> DEFINE X == Nodes \cup {None}
  <2> HIDE DEF X
  <2> QED BY <1>1, <2>1, OneSet DEF X, Links
<1> HIDE DEF k
<1>5. At(p, 1 - 1) = None
  <2>1. 1 - 1 \in Int /\ 1 - 1 \notin 1 .. k
    BY <1>2
  <2> QED BY <1>2, <2>1
<1>6. CASE k = 0
  <2> DEFINE next == [s.next EXCEPT ![n] = None]
  <2>1. /\ next \in Links
        /\ \A m \in Nodes : next[m] = IF m = n THEN None ELSE s.next[m]
    <3>1. None \in Nodes \cup {None}
      OBVIOUS
    <3> DEFINE X == Nodes \cup {None}
    <3> HIDE DEF X
    <3> QED BY <1>1, <3>1, OneSet DEF X, Links
  <2>2. u = [s EXCEPT !.value[n] = v, !.len = @ + 1, !.head = n, !.prev[n] = None,
                      !.tail = n, !.next[n] = None]
    BY <1>1, <1>6 DEF AddNodeHead, ListFields
  <2>3. /\ DOMAIN u = ListFields /\ u.value = value /\ u.len = s.len + 1 /\ u.head = n
        /\ u.prev = prev1 /\ u.tail = n /\ u.next = next
    BY <1>1, <2>2 DEF ListFields
  <2> HIDE DEF u, value, prev1, next
  <2>4. ListType(u)
    BY <1>3, <1>4, <2>1, <2>3 DEF ListType
  <2>5. At(p, 1) = None
    <3>1. 1 \in Int /\ 1 \notin 1 .. k
      BY <1>6
    <3> QED BY <1>2, <3>1
  <2>6. \A m \in Nodes : m # None
    BY NodesAre
  <2>7. 1 = k + 1
    BY <1>6
  <2>8. Inserted(u, s, p, 1, n, v)
    BY <1>3, <1>4, <1>5, <2>1, <2>3, <2>4, <2>5, <2>6, <2>7 DEF Inserted, k
  <2> QED BY <2>8 DEF u
<1>7. CASE k # 0
  <2> DEFINE h == s.head
             next == [s.next EXCEPT ![n] = h]
             prev == [prev1 EXCEPT ![h] = n]
  <2>1. h = p[1] /\ h = At(p, 1) /\ h \in Nodes /\ h # n
    <3>1. 1 \in 1 .. k /\ 1 \in Int
      BY <1>2, <1>7
    <3> QED BY <1>1, <1>2, <3>1
  <2> HIDE DEF h, prev1
  <2>2. /\ next \in Links
        /\ \A m \in Nodes : next[m] = IF m = n THEN h ELSE s.next[m]
    <3>1. h \in Nodes \cup {None}
      BY <2>1
    <3> DEFINE X == Nodes \cup {None}
    <3> HIDE DEF X
    <3> QED BY <1>1, <3>1, OneSet DEF X, Links
  <2>3. /\ prev \in Links
        /\ \A m \in Nodes : prev[m] = IF m = h THEN n ELSE prev1[m]
    <3>1. n \in Nodes \cup {None}
      OBVIOUS
    <3> DEFINE X == Nodes \cup {None}
    <3> HIDE DEF X
    <3> QED BY <1>4, <2>1, <3>1, OneSet DEF X, Links
  <2>4. u = [s EXCEPT !.value[n] = v, !.len = @ + 1, !.head = n, !.prev[n] = None,
                      !.next[n] = h, !.prev[h] = n]
    BY <1>1, <1>7 DEF AddNodeHead, ListFields, h
  <2>5. /\ DOMAIN u = ListFields /\ u.value = value /\ u.len = s.len + 1 /\ u.head = n
        /\ u.prev = prev /\ u.tail = s.tail /\ u.next = next
    BY <1>1, <2>4 DEF ListFields, prev1
  <2> HIDE DEF u, value, prev, next
  <2>6. ListType(u)
    BY <1>3, <2>2, <2>3, <2>5 DEF ListType
  <2>7. \A m \in Nodes : m # None
    BY NodesAre
  <2>8. 1 # k + 1
    BY <1>2, <1>7
  <2>9. Inserted(u, s, p, 1, n, v)
    BY <1>3, <1>4, <1>5, <2>1, <2>2, <2>3, <2>5, <2>6, <2>7, <2>8 DEF Inserted, k
  <2> QED BY <2>9 DEF u
<1> QED BY <1>6, <1>7


\* AddNodeTail puts it behind the last.
LEMMA TailInserted ==
  ASSUME NEW s, NEW p, Chain(s, p), NEW n \in Nodes, n \notin Live(s), NEW v \in Vals
  PROVE  Inserted(AddNodeTail(s, n, v), s, p, Len(p) + 1, n, v)
<1> DEFINE u == AddNodeTail(s, n, v)
           k == Len(p)
<1>1. /\ DOMAIN s = ListFields /\ s.prev \in Links /\ s.next \in Links
      /\ s.value \in [Nodes -> Vals \cup {None}] /\ s.len = k
      /\ s.head = At(p, 1) /\ s.tail = At(p, k) /\ n # None
      /\ \A i \in 1 .. k : p[i] # n /\ p[i] \in Nodes
  BY NewNodeIs
<1>2. /\ k \in Nat
      /\ \A i \in Int : i \in 1 .. k => At(p, i) = p[i]
      /\ \A i \in Int : i \notin 1 .. k => At(p, i) = None
  BY PlacesAre DEF Chain
<1> DEFINE value == [s.value EXCEPT ![n] = v]
           next1 == [s.next EXCEPT ![n] = None]
<1>3. /\ value \in [Nodes -> Vals \cup {None}]
      /\ \A m \in Nodes : value[m] = IF m = n THEN v ELSE s.value[m]
  <2>1. v \in Vals \cup {None}
    OBVIOUS
  <2> DEFINE X == Vals \cup {None}
  <2> HIDE DEF X
  <2> QED BY <1>1, <2>1, OneSet DEF X
<1>4. /\ next1 \in Links
      /\ \A m \in Nodes : next1[m] = IF m = n THEN None ELSE s.next[m]
  <2>1. None \in Nodes \cup {None}
    OBVIOUS
  <2> DEFINE X == Nodes \cup {None}
  <2> HIDE DEF X
  <2> QED BY <1>1, <2>1, OneSet DEF X, Links
<1> HIDE DEF k
<1>5. At(p, k + 1) = None /\ (k + 1) - 1 = k
  <2>1. k + 1 \in Int /\ k + 1 \notin 1 .. k
    BY <1>2
  <2> QED BY <1>2, <2>1
<1>6. \A m \in Nodes : m # None
  BY NodesAre
<1>7. CASE k = 0
  <2> DEFINE prev == [s.prev EXCEPT ![n] = None]
  <2>1. /\ prev \in Links
        /\ \A m \in Nodes : prev[m] = IF m = n THEN None ELSE s.prev[m]
    <3>1. None \in Nodes \cup {None}
      OBVIOUS
    <3> DEFINE X == Nodes \cup {None}
    <3> HIDE DEF X
    <3> QED BY <1>1, <3>1, OneSet DEF X, Links
  <2>2. u = [s EXCEPT !.value[n] = v, !.len = @ + 1, !.tail = n, !.next[n] = None,
                      !.head = n, !.prev[n] = None]
    BY <1>1, <1>7 DEF AddNodeTail, ListFields
  <2>3. /\ DOMAIN u = ListFields /\ u.value = value /\ u.len = s.len + 1 /\ u.head = n
        /\ u.prev = prev /\ u.tail = n /\ u.next = next1
    BY <1>1, <2>2 DEF ListFields
  <2> HIDE DEF u, value, next1, prev
  <2>4. ListType(u)
    BY <1>3, <1>4, <2>1, <2>3 DEF ListType
  <2>5. At(p, k) = None
    <3>1. k \in Int /\ k \notin 1 .. k
      BY <1>7
    <3> QED BY <1>2, <3>1
  <2>6. 1 = k + 1
    BY <1>7
  <2>7. Inserted(u, s, p, k + 1, n, v)
    BY <1>3, <1>4, <1>5, <1>6, <2>1, <2>3, <2>4, <2>5, <2>6 DEF Inserted, k
  <2> QED BY <2>7 DEF u, k
<1>8. CASE k # 0
  <2> DEFINE h == s.tail
             prev == [s.prev EXCEPT ![n] = h]
             next == [next1 EXCEPT ![h] = n]
  <2>1. h = p[k] /\ h = At(p, k) /\ h \in Nodes /\ h # n
    <3>1. k \in 1 .. k /\ k \in Int
      BY <1>2, <1>8
    <3> QED BY <1>1, <1>2, <3>1
  <2> HIDE DEF h, next1
  <2>2. /\ prev \in Links
        /\ \A m \in Nodes : prev[m] = IF m = n THEN h ELSE s.prev[m]
    <3>1. h \in Nodes \cup {None}
      BY <2>1
    <3> DEFINE X == Nodes \cup {None}
    <3> HIDE DEF X
    <3> QED BY <1>1, <3>1, OneSet DEF X, Links
  <2>3. /\ next \in Links
        /\ \A m \in Nodes : next[m] = IF m = h THEN n ELSE next1[m]
    <3>1. n \in Nodes \cup {None}
      OBVIOUS
    <3> DEFINE X == Nodes \cup {None}
    <3> HIDE DEF X
    <3> QED BY <1>4, <2>1, <3>1, OneSet DEF X, Links
  <2>4. u = [s EXCEPT !.value[n] = v, !.len = @ + 1, !.tail = n, !.next[n] = None,
                      !.prev[n] = h, !.next[h] = n]
    BY <1>1, <1>8 DEF AddNodeTail, ListFields, h
  <2>5. /\ DOMAIN u = ListFields /\ u.value = value /\ u.len = s.len + 1 /\ u.tail = n
        /\ u.prev = prev /\ u.head = s.head /\ u.next = next
    BY <1>1, <2>4 DEF ListFields, next1
  <2> HIDE DEF u, value, prev, next
  <2>6. ListType(u)
    BY <1>3, <2>2, <2>3, <2>5 DEF ListType
  <2>7. 1 # k + 1
    BY <1>2, <1>8
  <2>8. Inserted(u, s, p, k + 1, n, v)
    BY <1>3, <1>4, <1>5, <1>6, <2>1, <2>2, <2>3, <2>5, <2>6, <2>7 DEF Inserted, k
  <2> QED BY <2>8 DEF u, k
<1> QED BY <1>7, <1>8

\* LinkNext and LinkPrev: the link of the node that is there, if one is.
NextLinked(t, s, b, n) ==
  /\ DOMAIN t = ListFields /\ t.head = s.head /\ t.tail = s.tail /\ t.len = s.len
  /\ t.value = s.value /\ t.prev = s.prev /\ t.next \in Links
  /\ \A m \in Nodes : t.next[m] = IF m = b THEN n ELSE s.next[m]
PrevLinked(t, s, b, n) ==
  /\ DOMAIN t = ListFields /\ t.head = s.head /\ t.tail = s.tail /\ t.len = s.len
  /\ t.value = s.value /\ t.next = s.next /\ t.prev \in Links
  /\ \A m \in Nodes : t.prev[m] = IF m = b THEN n ELSE s.prev[m]

\* They set the link of that node, and nothing else.
LEMMA LinkIs ==
  ASSUME NEW s, DOMAIN s = ListFields, s.next \in Links, s.prev \in Links,
         NEW b \in Nodes \cup {None}, NEW n \in Nodes \cup {None}
  PROVE  NextLinked(LinkNext(s, b, n), s, b, n) /\ PrevLinked(LinkPrev(s, b, n), s, b, n)
<1> DEFINE t == LinkNext(s, b, n)
           u == LinkPrev(s, b, n)
<1>1. CASE b = None
  <2>1. t = s /\ u = s
    BY <1>1 DEF LinkNext, LinkPrev
  <2>2. \A m \in Nodes : m # b
    BY <1>1, NodesAre
  <2> HIDE DEF t, u
  <2>3. NextLinked(t, s, b, n) /\ PrevLinked(u, s, b, n)
    BY <2>1, <2>2 DEF NextLinked, PrevLinked
  <2> QED BY <2>3 DEF t, u
<1>2. CASE b # None
  <2> DEFINE next == [s.next EXCEPT ![b] = n]
             prev == [s.prev EXCEPT ![b] = n]
  <2>1. b \in Nodes
    BY <1>2
  <2>2. /\ next \in Links /\ prev \in Links
        /\ \A m \in Nodes : next[m] = IF m = b THEN n ELSE s.next[m]
        /\ \A m \in Nodes : prev[m] = IF m = b THEN n ELSE s.prev[m]
    <3> DEFINE X == Nodes \cup {None}
    <3> HIDE DEF X
    <3> QED BY <2>1, OneSet DEF X, Links
  <2>3. t = [s EXCEPT !.next[b] = n] /\ u = [s EXCEPT !.prev[b] = n]
    BY <1>2 DEF LinkNext, LinkPrev
  <2>4. /\ DOMAIN t = ListFields /\ t.head = s.head /\ t.tail = s.tail /\ t.len = s.len
        /\ t.value = s.value /\ t.prev = s.prev /\ t.next = next
        /\ DOMAIN u = ListFields /\ u.head = s.head /\ u.tail = s.tail /\ u.len = s.len
        /\ u.value = s.value /\ u.next = s.next /\ u.prev = prev
    BY <2>3 DEF ListFields
  <2> HIDE DEF t, u, next, prev
  <2>5. /\ t.next \in Links /\ u.prev \in Links
        /\ \A m \in Nodes : t.next[m] = IF m = b THEN n ELSE s.next[m]
        /\ \A m \in Nodes : u.prev[m] = IF m = b THEN n ELSE s.prev[m]
    BY <2>2, <2>4
  <2>6. NextLinked(t, s, b, n) /\ PrevLinked(u, s, b, n)
    BY <2>4, <2>5 DEF NextLinked, PrevLinked
  <2> QED BY <2>6 DEF t, u
<1> QED BY <1>1, <1>2

\* InsertNode puts it in front of or behind the node at place j.
LEMMA NodeInserted ==
  ASSUME NEW s, NEW p, Chain(s, p), NEW n \in Nodes, n \notin Live(s), NEW v \in Vals,
         NEW j \in 1 .. Len(p), NEW after \in BOOLEAN
  PROVE  Inserted(InsertNode(s, n, p[j], v, after), s, p, IF after THEN j + 1 ELSE j, n, v)
<1> DEFINE i == IF after THEN j + 1 ELSE j
           k == Len(p)
           old == p[j]
           before == IF after THEN old ELSE s.prev[old]
           behind == IF after THEN s.next[old] ELSE old
           tail == IF after /\ s.tail = old THEN n ELSE s.tail
           head == IF ~after /\ s.head = old THEN n ELSE s.head
           t == [s EXCEPT !.value[n] = v, !.len = @ + 1, !.prev[n] = before, !.next[n] = behind,
                          !.tail = tail, !.head = head]
           w == LinkNext(t, before, n)
           u == LinkPrev(w, behind, n)
<1>1. /\ DOMAIN s = ListFields /\ s.prev \in Links /\ s.next \in Links
      /\ s.value \in [Nodes -> Vals \cup {None}] /\ s.len = k
      /\ s.head = At(p, 1) /\ s.tail = At(p, k) /\ n # None
      /\ \A m \in 1 .. k : p[m] # n /\ p[m] \in Nodes /\ s.next[p[m]] = At(p, m + 1) /\ s.prev[p[m]] = At(p, m - 1)
  BY NewNodeIs
<1>2. /\ k \in Nat /\ \A a, b \in 1 .. k : p[a] = p[b] => a = b
      /\ \A m \in Int : m \in 1 .. k => At(p, m) = p[m]
      /\ \A m \in Int : m \notin 1 .. k => At(p, m) = None
      /\ \A m \in Int : At(p, m) \in Nodes \cup {None}
  BY PlacesAre DEF Chain
<1> HIDE DEF k
<1>3. i \in Int /\ j \in Int /\ old \in Nodes /\ old # n /\ old = At(p, j) /\ j \in 1 .. k
      /\ (after => i = j + 1 /\ i - 1 = j) /\ (~after => i = j)
  BY <1>1, <1>2 DEF k
<1> HIDE DEF i
<1>4. before = At(p, i - 1) /\ behind = At(p, i)
  BY <1>1, <1>3
<1>5. before \in Nodes \cup {None} /\ behind \in Nodes \cup {None} /\ before # n /\ behind # n
  <2>1. i - 1 \in Int /\ \A m \in Int : At(p, m) # n
    <3>1. ASSUME NEW m \in Int PROVE At(p, m) # n
      <4>1. CASE m \in 1 .. k
        BY <1>1, <1>2, <4>1
      <4>2. CASE m \notin 1 .. k
        BY <1>1, <1>2, <4>2
      <4> QED BY <4>1, <4>2
    <3> QED BY <1>3, <3>1
  <2> HIDE DEF before, behind
  <2> QED BY <1>2, <1>3, <1>4, <2>1
<1>6. head = (IF i = 1 THEN n ELSE s.head) /\ tail = (IF i = k + 1 THEN n ELSE s.tail)
  <2>1. 1 \in 1 .. k /\ k \in 1 .. k /\ s.head = p[1] /\ s.tail = p[k]
    BY <1>1, <1>2, <1>3
  <2>2. (s.head = old <=> j = 1) /\ (s.tail = old <=> j = k)
    BY <1>2, <1>3, <2>1
  <2>3. (i = 1 <=> ~after /\ j = 1) /\ (i = k + 1 <=> after /\ j = k)
    BY <1>2, <1>3
  <2> HIDE DEF old
  <2> QED BY <2>2, <2>3
<1> HIDE DEF before, behind, head, tail
<1> DEFINE value == [s.value EXCEPT ![n] = v]
           prev == [s.prev EXCEPT ![n] = before]
           next == [s.next EXCEPT ![n] = behind]
<1>7. /\ value \in [Nodes -> Vals \cup {None}]
      /\ \A m \in Nodes : value[m] = IF m = n THEN v ELSE s.value[m]
  <2>1. v \in Vals \cup {None}
    OBVIOUS
  <2> DEFINE X == Vals \cup {None}
  <2> HIDE DEF X
  <2> QED BY <1>1, <2>1, OneSet DEF X
<1>8. /\ prev \in Links /\ next \in Links
      /\ \A m \in Nodes : prev[m] = IF m = n THEN before ELSE s.prev[m]
      /\ \A m \in Nodes : next[m] = IF m = n THEN behind ELSE s.next[m]
  <2> DEFINE X == Nodes \cup {None}
  <2> HIDE DEF X
  <2> QED BY <1>1, <1>5, OneSet DEF X, Links
<1>9. /\ DOMAIN t = ListFields /\ t.value = value /\ t.len = s.len + 1 /\ t.prev = prev /\ t.next = next
      /\ t.tail = tail /\ t.head = head
  BY <1>1 DEF ListFields
<1>10. InsertNode(s, n, old, v, after) = u
  BY DEF InsertNode, before, behind, head, tail
<1> HIDE DEF t, value, prev, next
<1>11. NextLinked(w, t, before, n)
  <2>1. t.next \in Links /\ t.prev \in Links /\ DOMAIN t = ListFields /\ n \in Nodes \cup {None}
    BY <1>8, <1>9
  <2> QED BY <1>5, <2>1, LinkIs
<1> HIDE DEF w
<1>12. PrevLinked(u, w, behind, n)
  <2>1. w.prev \in Links /\ w.next \in Links /\ DOMAIN w = ListFields /\ n \in Nodes \cup {None}
    BY <1>8, <1>9, <1>11 DEF NextLinked
  <2> QED BY <1>5, <2>1, LinkIs
<1> HIDE DEF u
<1>13. ListType(u)
  BY <1>7, <1>9, <1>11, <1>12 DEF ListType, NextLinked, PrevLinked
<1>14. \A m \in Nodes : u.next[m] = IF m = n THEN At(p, i) ELSE IF m = At(p, i - 1) THEN n ELSE s.next[m]
  BY <1>4, <1>5, <1>8, <1>9, <1>11, <1>12 DEF NextLinked, PrevLinked
<1>15. \A m \in Nodes : u.prev[m] = IF m = n THEN At(p, i - 1) ELSE IF m = At(p, i) THEN n ELSE s.prev[m]
  BY <1>4, <1>5, <1>8, <1>9, <1>11, <1>12 DEF NextLinked, PrevLinked
<1>16. u.len = s.len + 1 /\ u.head = head /\ u.tail = tail /\ u.value = value
  BY <1>9, <1>11, <1>12 DEF NextLinked, PrevLinked
<1>17. Inserted(u, s, p, i, n, v)
  BY <1>6, <1>7, <1>13, <1>14, <1>15, <1>16 DEF Inserted, k
<1> QED BY <1>10, <1>17 DEF i

-----------------------------------------------------------------------------
\* A node at place i is deleted.
LEMMA DeletedIs ==
  ASSUME NEW s, NEW p, Chain(s, p), NEW i \in 1 .. Len(p)
  PROVE  Chain(DelNode(s, p[i]), RemoveAt(p, i))
<1> DEFINE r == RemoveAt(p, i)
           k == Len(p)
           x == p[i]
           before == s.prev[x]
           behind == s.next[x]
           head == IF before = None THEN behind ELSE s.head
           tail == IF behind = None THEN before ELSE s.tail
           t1 == IF before = None THEN [s EXCEPT !.head = behind] ELSE s
           t2 == IF behind = None THEN [t1 EXCEPT !.tail = before] ELSE t1
           t == [t2 EXCEPT !.len = @ - 1]
           w == LinkNext(t, before, behind)
           u == LinkPrev(w, behind, before)
<1>1. /\ k \in Nat /\ p \in Seq(Nodes)
      /\ \A j \in 1 .. k : p[j] \in Nodes /\ p[j] # None
      /\ \A j, m \in 1 .. k : p[j] = p[m] => j = m
      /\ \A j \in Int : j \in 1 .. k => At(p, j) = p[j]
      /\ \A j \in Int : j \notin 1 .. k => At(p, j) = None
      /\ \A j \in Int : At(p, j) \in Nodes \cup {None}
  BY PlacesAre DEF Chain
<1>2. /\ ListType(s) /\ DOMAIN s = ListFields /\ s.prev \in Links /\ s.next \in Links
      /\ s.len = k /\ s.head = At(p, 1) /\ s.tail = At(p, k)
      /\ \A j \in 1 .. k : s.next[p[j]] = At(p, j + 1) /\ s.prev[p[j]] = At(p, j - 1) /\ s.value[p[j]] \in Vals
  BY DEF Chain, ListType, Through, ThroughBack
<1>3. /\ r \in Seq(Nodes) /\ Len(r) = k - 1
      /\ \A j \in 1 .. k - 1 : r[j] = IF j < i THEN p[j] ELSE p[j + 1]
  BY <1>1, RemoveAtIs
<1>4. DelNode(s, x) = u
  BY DEF DelNode
<1>5. x \in Nodes /\ before = At(p, i - 1) /\ behind = At(p, i + 1) /\ i \in Int /\ 1 <= i /\ i <= k
  BY <1>1, <1>2
<1>6. before \in Nodes \cup {None} /\ behind \in Nodes \cup {None}
  <2>1. i - 1 \in Int /\ i + 1 \in Int
    BY <1>5
  <2> HIDE DEF before, behind
  <2> QED BY <1>1, <1>5, <2>1
<1>7. (before = None <=> i = 1) /\ (behind = None <=> i = k)
  <2>1. /\ i - 1 \in Int /\ i + 1 \in Int /\ (i - 1 \in 1 .. k <=> i # 1) /\ (i + 1 \in 1 .. k <=> i # k)
    BY <1>1, <1>5
  <2> HIDE DEF before, behind, k
  <2> QED BY <1>1, <1>5, <2>1
<1>8. /\ DOMAIN t = ListFields /\ t.value = s.value /\ t.len = k - 1 /\ t.prev = s.prev /\ t.next = s.next
      /\ t.head = head /\ t.tail = tail
  <2> HIDE DEF before, behind, k
  <2>1. /\ DOMAIN t1 = ListFields /\ t1.value = s.value /\ t1.len = s.len /\ t1.prev = s.prev
        /\ t1.next = s.next /\ t1.head = head /\ t1.tail = s.tail
    BY <1>2 DEF ListFields
  <2> HIDE DEF t1
  <2>2. /\ DOMAIN t2 = ListFields /\ t2.value = t1.value /\ t2.len = t1.len /\ t2.prev = t1.prev
        /\ t2.next = t1.next /\ t2.head = t1.head /\ t2.tail = tail
    BY <2>1 DEF ListFields
  <2> HIDE DEF t2
  <2>3. /\ DOMAIN t = ListFields /\ t.value = t2.value /\ t.len = t2.len - 1 /\ t.prev = t2.prev
        /\ t.next = t2.next /\ t.head = t2.head /\ t.tail = t2.tail
    BY <2>2 DEF ListFields
  <2> QED BY <1>2, <2>1, <2>2, <2>3
<1> HIDE DEF t, before, behind, r, k
<1>9. NextLinked(w, t, before, behind)
  <2>1. t.next \in Links /\ t.prev \in Links /\ DOMAIN t = ListFields
    BY <1>2, <1>8
  <2> QED BY <1>6, <2>1, LinkIs
<1> HIDE DEF w
<1>10. PrevLinked(u, w, behind, before)
  <2>1. w.prev \in Links /\ w.next \in Links /\ DOMAIN w = ListFields
    BY <1>2, <1>8, <1>9 DEF NextLinked
  <2> QED BY <1>6, <2>1, LinkIs
<1> HIDE DEF u
<1>11. /\ ListType(u) /\ u.len = k - 1 /\ u.head = head /\ u.tail = tail
       /\ \A m \in Nodes : u.value[m] = s.value[m]
       /\ \A m \in Nodes : u.next[m] = IF m = before THEN behind ELSE s.next[m]
       /\ \A m \in Nodes : u.prev[m] = IF m = behind THEN before ELSE s.prev[m]
  BY <1>2, <1>8, <1>9, <1>10 DEF NextLinked, PrevLinked, ListType
<1>12. \A j \in Int : At(r, j) = IF j < i THEN At(p, j) ELSE At(p, j + 1)
  <2> SUFFICES ASSUME NEW j \in Int PROVE At(r, j) = IF j < i THEN At(p, j) ELSE At(p, j + 1)
    OBVIOUS
  <2>1. At(r, j) = IF j \in 1 .. k - 1 THEN r[j] ELSE None
    BY <1>3 DEF At
  <2>2. CASE j < i
    <3>1. (j \in 1 .. k <=> j \in 1 .. k - 1)
      BY <1>1, <1>5, <2>2
    <3> QED BY <1>1, <1>3, <2>1, <2>2, <3>1
  <2>3. CASE ~(j < i)
    <3>1. j + 1 \in Int /\ (j + 1 \in 1 .. k <=> j \in 1 .. k - 1)
      BY <1>1, <1>5, <2>3
    <3> QED BY <1>1, <1>3, <2>1, <2>3, <3>1
  <2> QED BY <2>2, <2>3
<1>13. Distinct(r)
  <2>1. ASSUME NEW a \in 1 .. k - 1, NEW b \in 1 .. k - 1, r[a] = r[b] PROVE a = b
    <3> DEFINE a1 == IF a < i THEN a ELSE a + 1
               b1 == IF b < i THEN b ELSE b + 1
    <3>1. a1 \in 1 .. k /\ b1 \in 1 .. k /\ (a1 = b1 => a = b)
      BY <1>1, <1>5
    <3>2. r[a] = p[a1] /\ r[b] = p[b1]
      BY <1>3
    <3> HIDE DEF a1, b1
    <3> QED BY <1>1, <2>1, <3>1, <3>2
  <2> QED BY <1>3, <2>1 DEF Distinct
<1>14. u.head = At(r, 1) /\ u.tail = At(r, k - 1)
  <2>1. At(r, 1) = IF 1 < i THEN At(p, 1) ELSE At(p, 2)
    BY <1>12
  <2>2. At(r, k - 1) = IF k - 1 < i THEN At(p, k - 1) ELSE At(p, k)
    <3>1. k - 1 \in Int /\ (k - 1) + 1 = k
      BY <1>1
    <3> QED BY <1>12, <3>1
  <2>3. u.head = IF i = 1 THEN At(p, 2) ELSE At(p, 1)
    <3>1. i = 1 => i + 1 = 2
      OBVIOUS
    <3> QED BY <1>2, <1>5, <1>7, <1>11, <3>1
  <2>4. u.tail = IF i = k THEN At(p, k - 1) ELSE At(p, k)
    BY <1>2, <1>5, <1>7, <1>11
  <2>5. (1 < i <=> i # 1) /\ (k - 1 < i <=> i = k)
    BY <1>1, <1>5
  <2> QED BY <2>1, <2>2, <2>3, <2>4, <2>5
<1>15. ASSUME NEW j \in 1 .. k - 1
       PROVE  u.next[r[j]] = At(r, j + 1) /\ u.prev[r[j]] = At(r, j - 1) /\ u.value[r[j]] \in Vals
  <2>1. /\ At(r, j + 1) = IF j + 1 < i THEN At(p, j + 1) ELSE At(p, j + 2)
        /\ At(r, j - 1) = IF j - 1 < i THEN At(p, j - 1) ELSE At(p, j)
    <3>1. j + 1 \in Int /\ j - 1 \in Int /\ (j + 1) + 1 = j + 2 /\ (j - 1) + 1 = j
      BY <1>1
    <3> QED BY <1>12, <3>1
  <2> DEFINE m == IF j < i THEN j ELSE j + 1
  <2>2. /\ m \in 1 .. k /\ m \in Int /\ r[j] = p[m] /\ m # i /\ (m < i => m = j) /\ (m > i => m = j + 1)
        /\ (m < i \/ m > i)
    BY <1>1, <1>3, <1>5
  <2> HIDE DEF m
  <2>3. /\ p[m] \in Nodes /\ s.next[p[m]] = At(p, m + 1) /\ s.prev[p[m]] = At(p, m - 1)
        /\ s.value[p[m]] \in Vals /\ p[m] # None
    BY <1>1, <1>2, <2>2
  <2>4. (p[m] = before <=> m = i - 1) /\ (p[m] = behind <=> m = i + 1)
    <3>1. i - 1 \in Int /\ i + 1 \in Int
      BY <1>5
    <3>2. p[m] = At(p, i - 1) <=> m = i - 1
      <4>1. CASE i - 1 \in 1 .. k
        BY <1>1, <2>2, <3>1, <4>1
      <4>2. CASE i - 1 \notin 1 .. k
        BY <1>1, <2>2, <2>3, <3>1, <4>2
      <4> QED BY <4>1, <4>2
    <3>3. p[m] = At(p, i + 1) <=> m = i + 1
      <4>1. CASE i + 1 \in 1 .. k
        BY <1>1, <2>2, <3>1, <4>1
      <4>2. CASE i + 1 \notin 1 .. k
        BY <1>1, <2>2, <2>3, <3>1, <4>2
      <4> QED BY <4>1, <4>2
    <3> QED BY <1>5, <3>2, <3>3
  <2>5. u.next[r[j]] = IF m = i - 1 THEN At(p, i + 1) ELSE At(p, m + 1)
    BY <1>5, <1>11, <2>2, <2>3, <2>4
  <2>6. u.prev[r[j]] = IF m = i + 1 THEN At(p, i - 1) ELSE At(p, m - 1)
    BY <1>5, <1>11, <2>2, <2>3, <2>4
  <2>7. u.next[r[j]] = At(r, j + 1)
    <3>1. CASE m < i
      <4>1. m = j /\ (m = i - 1 <=> ~(j + 1 < i)) /\ (m = i - 1 => j + 2 = i + 1)
        BY <1>5, <2>2, <3>1
      <4> QED BY <2>1, <2>5, <4>1
    <3>2. CASE m > i
      <4>1. m + 1 = j + 2 /\ m # i - 1 /\ ~(j + 1 < i)
        BY <1>5, <2>2, <3>2
      <4> QED BY <2>1, <2>5, <4>1
    <3> QED BY <2>2, <3>1, <3>2
  <2>8. u.prev[r[j]] = At(r, j - 1)
    <3>1. CASE m < i
      <4>1. m = j /\ m # i + 1 /\ j - 1 < i
        BY <1>5, <2>2, <3>1
      <4> QED BY <2>1, <2>6, <4>1
    <3>2. CASE m > i
      <4>1. m - 1 = j /\ (m = i + 1 <=> j - 1 < i) /\ (m = i + 1 => i - 1 = j - 1)
        BY <1>5, <2>2, <3>2
      <4> QED BY <2>1, <2>6, <4>1
    <3> QED BY <2>2, <3>1, <3>2
  <2> QED BY <1>11, <2>2, <2>3, <2>7, <2>8
<1>16. Chain(u, r)
  <2>1. Through(u.next, u.head, r)
    BY <1>3, <1>14, <1>15 DEF Through
  <2>2. ThroughBack(u.prev, u.tail, r)
    BY <1>3, <1>14, <1>15 DEF ThroughBack
  <2> QED BY <1>3, <1>11, <1>13, <1>15, <2>1, <2>2 DEF Chain
<1> QED BY <1>4, <1>16 DEF r

\* The last node comes to the front.
LEMMA RotatedIs ==
  ASSUME NEW s, NEW p, Chain(s, p), p # <<>>
  PROVE  Chain(Rotated(s), <<Last(p)>> \o Front(p))
<1> DEFINE r == <<Last(p)>> \o Front(p)
           k == Len(p)
           z == s.tail
           y == s.prev[z]
           h == s.head
           next == [s.next EXCEPT ![y] = None, ![z] = h]
           prev == [s.prev EXCEPT ![h] = z, ![z] = None]
           u == [s EXCEPT !.tail = y, !.head = z, !.next = next, !.prev = prev]
<1>1. /\ k \in Nat /\ p \in Seq(Nodes)
      /\ \A j \in 1 .. k : p[j] \in Nodes /\ p[j] # None
      /\ \A j, m \in 1 .. k : p[j] = p[m] => j = m
      /\ \A j \in Int : j \in 1 .. k => At(p, j) = p[j]
      /\ \A j \in Int : j \notin 1 .. k => At(p, j) = None
  BY PlacesAre DEF Chain
<1>2. /\ ListType(s) /\ DOMAIN s = ListFields /\ s.prev \in Links /\ s.next \in Links
      /\ s.len = k /\ s.head = At(p, 1) /\ s.tail = At(p, k)
      /\ \A j \in 1 .. k : s.next[p[j]] = At(p, j + 1) /\ s.prev[p[j]] = At(p, j - 1) /\ s.value[p[j]] \in Vals
  BY DEF Chain, ListType, Through, ThroughBack
<1>3. /\ r \in Seq(Nodes) /\ Len(r) = k
      /\ \A j \in 1 .. k : r[j] = IF j = 1 THEN p[k] ELSE p[j - 1]
  BY <1>1, LastInFront
<1>4. k >= 1
  BY <1>1
<1> HIDE DEF r, k
<1>5. CASE k = 1
  <2>1. r = p
    <3>1. \A j \in 1 .. k : r[j] = p[j]
      BY <1>3, <1>5
    <3> QED BY <1>1, <1>3, <3>1, SeqEqual DEF k
  <2>2. Rotated(s) = s
    BY <1>2, <1>5 DEF Rotated
  <2> QED BY <2>1, <2>2 DEF r
<1>6. CASE k # 1
  <2>1. /\ k > 1 /\ z = p[k] /\ h = p[1] /\ y = p[k - 1] /\ k \in 1 .. k /\ 1 \in 1 .. k /\ k - 1 \in 1 .. k
    <3>1. k > 1 /\ k \in 1 .. k /\ 1 \in 1 .. k /\ k - 1 \in 1 .. k /\ k \in Int /\ 1 \in Int /\ k - 1 \in Int
      BY <1>1, <1>4, <1>6
    <3>2. z = p[k] /\ h = p[1]
      BY <1>1, <1>2, <3>1
    <3>3. s.prev[p[k]] = At(p, k - 1) /\ At(p, k - 1) = p[k - 1]
      BY <1>1, <1>2, <3>1
    <3> QED BY <3>1, <3>2, <3>3
  <2>2. Rotated(s) = u
    <3>1. ~(s.len <= 1)
      BY <1>1, <1>2, <2>1
    <3> QED BY <1>2, <3>1 DEF Rotated, ListFields
  <2>3. z \in Nodes /\ y \in Nodes /\ h \in Nodes /\ z # y /\ z # h
    <3>1. k # 1 /\ k # k - 1
      BY <1>1, <1>6
    <3> HIDE DEF z, y, h
    <3> QED BY <1>1, <2>1, <3>1
  <2> HIDE DEF z, y, h
  <2>4. /\ next \in Links /\ prev \in Links
        /\ \A m \in Nodes : next[m] = IF m = z THEN h ELSE IF m = y THEN None ELSE s.next[m]
        /\ \A m \in Nodes : prev[m] = IF m = z THEN None ELSE IF m = h THEN z ELSE s.prev[m]
    <3> DEFINE X == Nodes \cup {None}
               next1 == [s.next EXCEPT ![y] = None]
               prev1 == [s.prev EXCEPT ![h] = z]
    <3>1. z \in X /\ h \in X /\ None \in X
      BY <2>3
    <3>2. s.next \in [Nodes -> X] /\ s.prev \in [Nodes -> X]
      BY <1>2 DEF Links
    <3>3. Links = [Nodes -> X]
      BY DEF Links
    <3> HIDE DEF X
    <3>4. /\ next1 \in [Nodes -> X] /\ prev1 \in [Nodes -> X]
          /\ \A m \in Nodes : next1[m] = IF m = y THEN None ELSE s.next[m]
          /\ \A m \in Nodes : prev1[m] = IF m = h THEN z ELSE s.prev[m]
      BY <2>3, <3>1, <3>2, OneSet
    <3>5. next = [next1 EXCEPT ![z] = h] /\ prev = [prev1 EXCEPT ![z] = None]
      OBVIOUS
    <3> HIDE DEF next1, prev1, next, prev
    <3>6. /\ next \in [Nodes -> X] /\ prev \in [Nodes -> X]
          /\ \A m \in Nodes : next[m] = IF m = z THEN h ELSE next1[m]
          /\ \A m \in Nodes : prev[m] = IF m = z THEN None ELSE prev1[m]
      BY <2>3, <3>1, <3>4, <3>5, OneSet
    <3> QED BY <3>3, <3>4, <3>6
  <2> HIDE DEF next, prev
  <2>5. /\ DOMAIN u = ListFields /\ u.tail = y /\ u.head = z /\ u.next = next /\ u.prev = prev
        /\ u.len = k /\ u.value = s.value
    BY <1>2 DEF ListFields
  <2> HIDE DEF u
  <2>6. ListType(u)
    BY <1>2, <2>4, <2>5 DEF ListType
  <2>7. Distinct(r)
    <3>1. ASSUME NEW a \in 1 .. k, NEW b \in 1 .. k, r[a] = r[b] PROVE a = b
      <4> DEFINE a1 == IF a = 1 THEN k ELSE a - 1
                 b1 == IF b = 1 THEN k ELSE b - 1
      <4>1. a1 \in 1 .. k /\ b1 \in 1 .. k /\ r[a] = p[a1] /\ r[b] = p[b1] /\ (a1 = b1 => a = b)
        BY <1>1, <1>3, <2>1
      <4> HIDE DEF a1, b1
      <4> QED BY <1>1, <3>1, <4>1
    <3> QED BY <1>3, <3>1 DEF Distinct
  <2>8. \A j \in Int : At(r, j) = IF j \in 1 .. k THEN r[j] ELSE None
    BY <1>3 DEF At
  <2>9. u.head = At(r, 1) /\ u.tail = At(r, k)
    <3>1. At(r, 1) = p[k] /\ At(r, k) = p[k - 1]
      BY <1>1, <1>3, <1>6, <2>1, <2>8
    <3> QED BY <2>1, <2>5, <3>1
  <2>10. ASSUME NEW j \in 1 .. k
         PROVE  u.next[r[j]] = At(r, j + 1) /\ u.prev[r[j]] = At(r, j - 1) /\ u.value[r[j]] \in Vals
    <3>1. j + 1 \in Int /\ j - 1 \in Int /\ j \in Int
      BY <1>1
    <3>2. CASE j = 1
      <4>1. r[j] = z /\ z = p[k]
        BY <1>3, <2>1, <3>2
      <4>2. At(r, j + 1) = p[1] /\ At(r, j - 1) = None
        <5>1. j + 1 \in 1 .. k /\ j + 1 # 1 /\ (j + 1) - 1 = 1 /\ j - 1 \notin 1 .. k
          BY <1>1, <2>1, <3>2
        <5> QED BY <1>3, <2>8, <3>1, <5>1
      <4> QED BY <1>2, <2>1, <2>3, <2>4, <2>5, <4>1, <4>2
    <3>3. CASE j # 1
      <4> DEFINE m == j - 1
      <4>1. m \in 1 .. k /\ m # k /\ m \in Int /\ r[j] = p[m] /\ p[m] \in Nodes
        BY <1>1, <1>3, <3>3
      <4>2. p[m] # z /\ (p[m] = y <=> m = k - 1) /\ (p[m] = h <=> m = 1)
        <5> HIDE DEF m
        <5> QED BY <1>1, <2>1, <4>1
      <4>3. s.next[p[m]] = At(p, m + 1) /\ s.prev[p[m]] = At(p, m - 1) /\ s.value[p[m]] \in Vals
        <5> HIDE DEF m
        <5> QED BY <1>2, <4>1
      <4>4. u.next[r[j]] = At(r, j + 1)
        <5>1. CASE m = k - 1
          <6>1. j + 1 \notin 1 .. k
            BY <1>1, <3>1, <5>1
          <6>2. At(r, j + 1) = None
            BY <2>8, <3>1, <6>1
          <6> HIDE DEF m
          <6> QED BY <2>4, <2>5, <4>1, <4>2, <5>1, <6>2
        <5>2. CASE m # k - 1
          <6>1. j + 1 \in 1 .. k /\ j + 1 # 1 /\ (j + 1) - 1 = j /\ m + 1 = j /\ j \in 1 .. k
            BY <1>1, <3>1, <5>2
          <6>2. At(r, j + 1) = p[j] /\ At(p, m + 1) = p[j]
            BY <1>1, <1>3, <2>8, <3>1, <6>1
          <6> HIDE DEF m
          <6> QED BY <2>4, <2>5, <4>1, <4>2, <4>3, <5>2, <6>2
        <5> QED BY <5>1, <5>2
      <4>5. u.prev[r[j]] = At(r, j - 1)
        <5>1. CASE m = 1
          <6>1. At(r, j - 1) = p[k]
            BY <1>3, <2>1, <2>8, <5>1
          <6> HIDE DEF m
          <6> QED BY <2>1, <2>4, <2>5, <4>1, <4>2, <5>1, <6>1
        <5>2. CASE m # 1
          <6>1. m - 1 \in 1 .. k /\ m - 1 \in Int
            BY <1>1, <4>1, <5>2
          <6>2. At(r, m) = p[m - 1] /\ At(p, m - 1) = p[m - 1]
            <7> HIDE DEF m
            <7> QED BY <1>1, <1>3, <2>8, <4>1, <5>2, <6>1
          <6>3. At(r, j - 1) = At(r, m)
            OBVIOUS
          <6> HIDE DEF m
          <6> QED BY <2>4, <2>5, <4>1, <4>2, <4>3, <5>2, <6>2, <6>3
        <5> QED BY <5>1, <5>2
      <4> HIDE DEF m
      <4> QED BY <2>5, <4>1, <4>3, <4>4, <4>5
    <3> QED BY <3>2, <3>3
  <2>11. Through(u.next, u.head, r) /\ ThroughBack(u.prev, u.tail, r)
    BY <1>3, <2>9, <2>10 DEF Through, ThroughBack
  <2>12. Chain(u, r)
    BY <1>3, <2>5, <2>6, <2>7, <2>10, <2>11 DEF Chain
  <2> QED BY <2>2, <2>12 DEF r
<1> QED BY <1>5, <1>6


-----------------------------------------------------------------------------
\* What is collected is no part of the list.
LEMMA CollectedIs ==
  ASSUME NEW s, NEW p, Chain(s, p), NEW i
  PROVE  /\ Chain(Collected(s, i), p)
         /\ \A j \in 1 .. Len(p) : Collected(s, i).value[p[j]] = s.value[p[j]]
<1> DEFINE gone == Nodes \ Live(s)
           prev == [n \in Nodes |-> IF n \in gone THEN None ELSE s.prev[n]]
           next == [n \in Nodes |-> IF n \in gone THEN None ELSE s.next[n]]
           value == [n \in Nodes |-> IF n \in gone THEN None ELSE s.value[n]]
           t == [s EXCEPT !.prev = prev, !.next = next, !.value = value]
<1>1. ListType(s) /\ DOMAIN s = ListFields /\ s.prev \in Links /\ s.next \in Links
      /\ s.value \in [Nodes -> Vals \cup {None}]
  BY DEF Chain, ListType
<1>2. \A j \in 1 .. Len(p) : p[j] \in Nodes /\ p[j] \notin gone
  <2>1. \A j \in 1 .. Len(p) : p[j] \in Nodes
    BY PlacesAre DEF Chain
  <2>2. \A j \in 1 .. Len(p) : p[j] \in Live(s)
    BY ChainIs
  <2> QED BY <2>1, <2>2
<1>3. Collected(s, i) = s \/ Collected(s, i) = t
  BY DEF Collected
<1>4. /\ DOMAIN t = ListFields /\ t.prev = prev /\ t.next = next /\ t.value = value
      /\ t.head = s.head /\ t.tail = s.tail /\ t.len = s.len
  BY <1>1 DEF ListFields
<1>5. prev \in Links /\ next \in Links /\ value \in [Nodes -> Vals \cup {None}]
  <2> HIDE DEF gone
  <2> QED BY <1>1 DEF Links
<1>6. \A j \in 1 .. Len(p) : prev[p[j]] = s.prev[p[j]] /\ next[p[j]] = s.next[p[j]] /\ value[p[j]] = s.value[p[j]]
  <2> HIDE DEF gone
  <2> QED BY <1>2
<1> HIDE DEF t, prev, next, value
<1>7. Chain(t, p)
  BY <1>4, <1>5, <1>6 DEF Chain, ListType, Through, ThroughBack
<1> QED BY <1>3, <1>4, <1>6, <1>7

-----------------------------------------------------------------------------
\* The nodes of a sequence from x on, and those up to x.
From(p, x) == {p[b] : b \in {b \in 1 .. Len(p) : \E a \in 1 .. Len(p) : a <= b /\ p[a] = x}}
UpTo(p, x) == {p[b] : b \in {b \in 1 .. Len(p) : \E a \in 1 .. Len(p) : b <= a /\ p[a] = x}}

\* The sequence r has one node more than p.
OneMore(r, p, i, n) ==
  /\ Distinct(p) /\ Distinct(r) /\ Len(r) = Len(p) + 1 /\ i \in 1 .. Len(r) /\ r[i] = n
  /\ \A j \in 1 .. Len(p) : p[j] = IF j < i THEN r[j] ELSE r[j + 1]

\* One node more makes no difference for the others.
LEMMA OneMoreIs ==
  ASSUME NEW r, NEW p, NEW i, NEW n, OneMore(r, p, i, n), NEW x, x # n
  PROVE  From(r, x) \ {n} = From(p, x) /\ UpTo(r, x) \ {n} = UpTo(p, x)
<1> DEFINE k == Len(p)
<1>1. /\ k \in Nat /\ Len(r) = k + 1 /\ i \in Int /\ 1 <= i /\ i <= k + 1 /\ r[i] = n
      /\ \A j \in 1 .. k : p[j] = IF j < i THEN r[j] ELSE r[j + 1]
      /\ \A a, b \in 1 .. k + 1 : r[a] = r[b] => a = b
  BY PlacesAre DEF OneMore
<1> HIDE DEF k
<1> DEFINE e == [j \in 1 .. k |-> IF j < i THEN j ELSE j + 1]
           d == [j \in 1 .. k + 1 |-> IF j < i THEN j ELSE j - 1]
<1>2. /\ \A j \in 1 .. k : e[j] \in 1 .. k + 1 /\ r[e[j]] = p[j] /\ e[j] # i
      /\ \A a, b \in 1 .. k : a <= b => e[a] <= e[b]
  BY <1>1
<1>3. /\ \A j \in 1 .. k + 1 : j # i => d[j] \in 1 .. k /\ p[d[j]] = r[j]
      /\ \A a, b \in 1 .. k + 1 : a <= b /\ a # i /\ b # i => d[a] <= d[b]
  BY <1>1
<1>4. i \in 1 .. k + 1
  BY <1>1
<1> HIDE DEF e, d
<1>5. From(p, x) \subseteq From(r, x) \ {n} /\ UpTo(p, x) \subseteq UpTo(r, x) \ {n}
  <2>1. ASSUME NEW b \in 1 .. k, NEW a \in 1 .. k, p[a] = x
        PROVE  /\ p[b] # n
               /\ a <= b => p[b] \in From(r, x)
               /\ b <= a => p[b] \in UpTo(r, x)
    <3>1. e[b] \in 1 .. Len(r) /\ r[e[b]] = p[b] /\ e[a] \in 1 .. Len(r) /\ r[e[a]] = x /\ e[b] # i
      BY <1>1, <1>2, <2>1
    <3>2. p[b] # n
      BY <1>1, <1>4, <3>1
    <3>3. a <= b => p[b] \in From(r, x)
      BY <1>2, <3>1 DEF From
    <3>4. b <= a => p[b] \in UpTo(r, x)
      BY <1>2, <3>1 DEF UpTo
    <3> QED BY <3>2, <3>3, <3>4
  <2> QED BY <2>1 DEF From, UpTo, k
<1>6. From(r, x) \ {n} \subseteq From(p, x) /\ UpTo(r, x) \ {n} \subseteq UpTo(p, x)
  <2>1. ASSUME NEW b \in 1 .. k + 1, NEW a \in 1 .. k + 1, r[a] = x, r[b] # n
        PROVE  /\ a <= b => r[b] \in From(p, x)
               /\ b <= a => r[b] \in UpTo(p, x)
    <3>1. a # i /\ b # i
      BY <1>1, <2>1
    <3>2. d[b] \in 1 .. Len(p) /\ p[d[b]] = r[b] /\ d[a] \in 1 .. Len(p) /\ p[d[a]] = x
      BY <1>3, <2>1, <3>1 DEF k
    <3>3. a <= b => r[b] \in From(p, x)
      BY <1>3, <3>1, <3>2 DEF From
    <3>4. b <= a => r[b] \in UpTo(p, x)
      BY <1>3, <3>1, <3>2 DEF UpTo
    <3> QED BY <3>3, <3>4
  <2>2. Len(r) = k + 1
    BY <1>1
  <2>3. ASSUME NEW y \in From(r, x) \ {n} PROVE y \in From(p, x)
    <3>1. PICK b \in 1 .. k + 1 : y = r[b] /\ \E a \in 1 .. k + 1 : a <= b /\ r[a] = x
      BY <2>2, <2>3 DEF From
    <3>2. PICK a \in 1 .. k + 1 : a <= b /\ r[a] = x
      BY <3>1
    <3> QED BY <2>1, <2>3, <3>1, <3>2
  <2>4. ASSUME NEW y \in UpTo(r, x) \ {n} PROVE y \in UpTo(p, x)
    <3>1. PICK b \in 1 .. k + 1 : y = r[b] /\ \E a \in 1 .. k + 1 : b <= a /\ r[a] = x
      BY <2>2, <2>4 DEF UpTo
    <3>2. PICK a \in 1 .. k + 1 : b <= a /\ r[a] = x
      BY <3>1
    <3> QED BY <2>1, <2>4, <3>1, <3>2
  <2> QED BY <2>3, <2>4
<1> QED BY <1>5, <1>6

\* One step of an iterator: the node it leaves is no longer ahead.
LEMMA StepAhead ==
  ASSUME NEW p, Distinct(p), NEW a \in 1 .. Len(p)
  PROVE  /\ From(p, At(p, a + 1)) = From(p, p[a]) \ {p[a]}
         /\ UpTo(p, At(p, a - 1)) = UpTo(p, p[a]) \ {p[a]}
         /\ p[a] \in From(p, p[a]) /\ p[a] \in UpTo(p, p[a])
<1> DEFINE k == Len(p)
<1>1. /\ k \in Nat
      /\ \A j \in 1 .. k : p[j] # None
      /\ \A j, m \in 1 .. k : p[j] = p[m] => j = m
      /\ \A j \in Int : j \in 1 .. k => At(p, j) = p[j]
      /\ \A j \in Int : j \notin 1 .. k => At(p, j) = None
  BY PlacesAre
<1>2. a \in Int /\ a + 1 \in Int /\ a - 1 \in Int /\ a \in 1 .. k
  BY <1>1
<1> HIDE DEF k
<1>3. \A j \in 1 .. k : (p[j] = At(p, a + 1) <=> j = a + 1) /\ (p[j] = At(p, a - 1) <=> j = a - 1)
  <2> SUFFICES ASSUME NEW j \in 1 .. k
               PROVE  (p[j] = At(p, a + 1) <=> j = a + 1) /\ (p[j] = At(p, a - 1) <=> j = a - 1)
    OBVIOUS
  <2>1. p[j] = At(p, a + 1) <=> j = a + 1
    <3>1. CASE a + 1 \in 1 .. k
      BY <1>1, <1>2, <3>1
    <3>2. CASE a + 1 \notin 1 .. k
      BY <1>1, <1>2, <3>2
    <3> QED BY <3>1, <3>2
  <2>2. p[j] = At(p, a - 1) <=> j = a - 1
    <3>1. CASE a - 1 \in 1 .. k
      BY <1>1, <1>2, <3>1
    <3>2. CASE a - 1 \notin 1 .. k
      BY <1>1, <1>2, <3>2
    <3> QED BY <3>1, <3>2
  <2> QED BY <2>1, <2>2
<1>4. \A b \in 1 .. k : (\E m \in 1 .. k : m <= b /\ p[m] = p[a]) <=> a <= b
  BY <1>1, <1>2
<1>5. \A b \in 1 .. k : (\E m \in 1 .. k : b <= m /\ p[m] = p[a]) <=> b <= a
  BY <1>1, <1>2
<1>6. \A b \in 1 .. k : (\E m \in 1 .. k : m <= b /\ p[m] = At(p, a + 1)) <=> a <= b /\ b # a
  <2> SUFFICES ASSUME NEW b \in 1 .. k
               PROVE  (\E m \in 1 .. k : m <= b /\ p[m] = At(p, a + 1)) <=> a <= b /\ b # a
    OBVIOUS
  <2>1. (\E m \in 1 .. k : m <= b /\ p[m] = At(p, a + 1)) <=> a + 1 <= b
    <3>1. a + 1 <= b => a + 1 \in 1 .. k
      BY <1>1, <1>2
    <3> QED BY <1>3, <3>1
  <2> QED BY <1>1, <1>2, <2>1
<1>7. \A b \in 1 .. k : (\E m \in 1 .. k : b <= m /\ p[m] = At(p, a - 1)) <=> b <= a /\ b # a
  <2> SUFFICES ASSUME NEW b \in 1 .. k
               PROVE  (\E m \in 1 .. k : b <= m /\ p[m] = At(p, a - 1)) <=> b <= a /\ b # a
    OBVIOUS
  <2>1. (\E m \in 1 .. k : b <= m /\ p[m] = At(p, a - 1)) <=> b <= a - 1
    <3>1. b <= a - 1 => a - 1 \in 1 .. k
      BY <1>1, <1>2
    <3> QED BY <1>3, <3>1
  <2> QED BY <1>1, <1>2, <2>1
<1>8. \A b \in 1 .. k : p[b] = p[a] <=> b = a
  BY <1>1, <1>2
<1>9. From(p, p[a]) = {p[b] : b \in {b \in 1 .. k : a <= b}} /\ UpTo(p, p[a]) = {p[b] : b \in {b \in 1 .. k : b <= a}}
  BY <1>4, <1>5 DEF From, UpTo, k
<1>10. /\ From(p, At(p, a + 1)) = {p[b] : b \in {b \in 1 .. k : a <= b /\ b # a}}
       /\ UpTo(p, At(p, a - 1)) = {p[b] : b \in {b \in 1 .. k : b <= a /\ b # a}}
  BY <1>6, <1>7 DEF From, UpTo, k
<1> QED BY <1>2, <1>8, <1>9, <1>10

\* An iterator at an end has the whole list ahead, and one that is done nothing.
LEMMA EndsAhead ==
  ASSUME NEW p, Distinct(p)
  PROVE  /\ From(p, At(p, 1)) = {p[b] : b \in 1 .. Len(p)} /\ UpTo(p, At(p, Len(p))) = {p[b] : b \in 1 .. Len(p)}
         /\ From(p, None) = {} /\ UpTo(p, None) = {}
<1> DEFINE k == Len(p)
<1>1. /\ k \in Nat
      /\ \A j \in 1 .. k : p[j] # None
      /\ \A j \in Int : j \in 1 .. k => At(p, j) = p[j]
  BY PlacesAre
<1>2. From(p, None) = {} /\ UpTo(p, None) = {}
  BY <1>1 DEF From, UpTo
<1> HIDE DEF k
<1>3. \A b \in 1 .. k : (\E a \in 1 .. k : a <= b /\ p[a] = At(p, 1)) /\ (\E a \in 1 .. k : b <= a /\ p[a] = At(p, k))
  <2> SUFFICES ASSUME NEW b \in 1 .. k
               PROVE  (\E a \in 1 .. k : a <= b /\ p[a] = At(p, 1)) /\ (\E a \in 1 .. k : b <= a /\ p[a] = At(p, k))
    OBVIOUS
  <2>1. 1 \in 1 .. k /\ k \in 1 .. k /\ 1 <= b /\ b <= k /\ 1 \in Int /\ k \in Int
    BY <1>1
  <2> QED BY <1>1, <2>1
<1> QED BY <1>2, <1>3 DEF From, UpTo, k

\* The walk from a node of the list, or from none.
LEMMA AheadIs ==
  ASSUME NEW s, NEW p, Chain(s, p), NEW x \in Live(s) \cup {None}
  PROVE  ToSet(Walk(s.next, x)) = From(p, x) /\ ToSet(Walk(s.prev, x)) = UpTo(p, x)
<1> DEFINE k == Len(p)
<1>1. /\ k \in Nat /\ Distinct(p) /\ p \in Seq(Nodes)
      /\ \A j \in 1 .. k : p[j] \in Nodes
      /\ \A j, m \in 1 .. k : p[j] = p[m] => j = m
      /\ \A j \in Int : j \in 1 .. k => At(p, j) = p[j]
      /\ \A j \in Int : j \notin 1 .. k => At(p, j) = None
  BY PlacesAre DEF Chain
<1>2. \A j \in 1 .. k : s.next[p[j]] = At(p, j + 1) /\ s.prev[p[j]] = At(p, j - 1)
  BY DEF Chain, Through, ThroughBack
<1>3. CASE x = None
  <2> DEFINE g == <<>>
  <2>1. Distinct(g) /\ Len(g) = 0 /\ ToSet(g) = {}
    BY DEF Distinct, ToSet
  <2>2. At(g, 1) = None
    BY <2>1 DEF At
  <2> HIDE DEF g
  <2>3. Through(s.next, x, g) /\ Through(s.prev, x, g)
    BY <1>3, <2>1, <2>2 DEF Through
  <2>4. Walk(s.next, x) = g /\ Walk(s.prev, x) = g
    BY <2>1, <2>3, WalkIs
  <2> QED BY <1>1, <1>3, <2>1, <2>4, EndsAhead
<1>4. CASE x # None
  <2>1. PICK a \in 1 .. k : x = p[a]
    BY <1>4, ChainIs
  <2>2. a \in Int /\ 1 <= a /\ a <= k
    BY <1>1
  <2> HIDE DEF k
  <2>3. From(p, x) = {p[b] : b \in {b \in 1 .. k : a <= b}} /\ UpTo(p, x) = {p[b] : b \in {b \in 1 .. k : b <= a}}
    <3>1. \A b \in 1 .. k : (\E m \in 1 .. k : m <= b /\ p[m] = x) <=> a <= b
      BY <1>1, <2>1, <2>2
    <3>2. \A b \in 1 .. k : (\E m \in 1 .. k : b <= m /\ p[m] = x) <=> b <= a
      BY <1>1, <2>1, <2>2
    <3> QED BY <3>1, <3>2 DEF From, UpTo, k
  <2>4. ToSet(Walk(s.next, x)) = {p[b] : b \in {b \in 1 .. k : a <= b}}
    <3> DEFINE m == k - a + 1
               g == [i \in 1 .. m |-> p[a + i - 1]]
    <3>1. m \in Nat /\ \A i \in 1 .. m : a + i - 1 \in 1 .. k
      BY <1>1, <2>2
    <3>2. \A i \in 1 .. m : g[i] = p[a + i - 1] /\ g[i] \in Nodes
      BY <1>1, <3>1
    <3>3. g = [i \in 1 .. m |-> g[i]] /\ DOMAIN g = 1 .. m
      OBVIOUS
    <3> HIDE DEF g
    <3>4. g \in Seq(Nodes) /\ Len(g) = m
      <4>1. \A i \in 1 .. m : g[i] \in Nodes
        BY <3>2
      <4>2. m \in Nat
        BY <3>1
      <4> HIDE DEF m
      <4> QED BY <3>3, <4>1, <4>2
    <3>5. Distinct(g)
      <4>1. ASSUME NEW i \in 1 .. m, NEW j \in 1 .. m, g[i] = g[j] PROVE i = j
        <5>1. a + i - 1 = a + j - 1
          BY <1>1, <3>1, <3>2, <4>1
        <5> QED BY <1>1, <2>2, <5>1
      <4> QED BY <3>4, <4>1 DEF Distinct
    <3>6. \A i \in Int : At(g, i) = IF i \in 1 .. m THEN p[a + i - 1] ELSE None
      BY <3>2, <3>4 DEF At
    <3>7. Through(s.next, x, g)
      <4>1. x = At(g, 1)
        <5>1. 1 \in 1 .. m /\ a + 1 - 1 = a /\ 1 \in Int
          BY <1>1, <2>2
        <5> QED BY <2>1, <3>6, <5>1
      <4>2. ASSUME NEW i \in 1 .. m PROVE s.next[g[i]] = At(g, i + 1)
        <5> DEFINE c == a + i - 1
        <5>1. c \in 1 .. k /\ c + 1 \in Int /\ i + 1 \in Int
              /\ (i + 1 \in 1 .. m <=> c + 1 \in 1 .. k) /\ a + (i + 1) - 1 = c + 1
          BY <1>1, <2>2, <3>1
        <5>2. g[i] = p[c]
          BY <3>2
        <5> HIDE DEF c
        <5>3. At(g, i + 1) = At(p, c + 1)
          BY <1>1, <3>6, <5>1
        <5> QED BY <1>2, <5>1, <5>2, <5>3
      <4> QED BY <3>4, <4>1, <4>2 DEF Through
    <3>8. Walk(s.next, x) = g
      BY <3>5, <3>7, WalkIs
    <3>9. ToSet(g) = {p[b] : b \in {b \in 1 .. k : a <= b}}
      <4>1. \A b \in 1 .. k : a <= b => b - a + 1 \in 1 .. m /\ a + (b - a + 1) - 1 = b
        BY <1>1, <2>2
      <4>2. \A i \in 1 .. m : a <= a + i - 1
        BY <1>1, <2>2
      <4>3. ToSet(g) = {g[i] : i \in 1 .. m}
        BY <3>3 DEF ToSet
      <4>4. \A b \in 1 .. k : a <= b => \E i \in 1 .. m : g[i] = p[b]
        <5> SUFFICES ASSUME NEW b \in 1 .. k, a <= b PROVE \E i \in 1 .. m : g[i] = p[b]
          OBVIOUS
        <5>1. b - a + 1 \in 1 .. m /\ g[b - a + 1] = p[b]
          BY <3>2, <4>1
        <5> QED BY <5>1
      <4> HIDE DEF m
      <4>5. \A i \in 1 .. m : \E b \in 1 .. k : a <= b /\ g[i] = p[b]
        BY <3>1, <3>2, <4>2
      <4> QED BY <4>3, <4>4, <4>5
    <3> QED BY <3>8, <3>9
  <2>5. ToSet(Walk(s.prev, x)) = {p[b] : b \in {b \in 1 .. k : b <= a}}
    <3> DEFINE g == [i \in 1 .. a |-> p[a - i + 1]]
    <3>1. a \in Nat /\ \A i \in 1 .. a : a - i + 1 \in 1 .. k
      BY <1>1, <2>2
    <3>2. \A i \in 1 .. a : g[i] = p[a - i + 1] /\ g[i] \in Nodes
      BY <1>1, <3>1
    <3>3. g = [i \in 1 .. a |-> g[i]] /\ DOMAIN g = 1 .. a
      OBVIOUS
    <3> HIDE DEF g
    <3>4. g \in Seq(Nodes) /\ Len(g) = a
      <4>1. \A i \in 1 .. a : g[i] \in Nodes
        BY <3>2
      <4> QED BY <3>1, <3>3, <4>1
    <3>5. Distinct(g)
      <4>1. ASSUME NEW i \in 1 .. a, NEW j \in 1 .. a, g[i] = g[j] PROVE i = j
        <5>1. a - i + 1 = a - j + 1
          BY <1>1, <3>1, <3>2, <4>1
        <5> QED BY <1>1, <2>2, <5>1
      <4> QED BY <3>4, <4>1 DEF Distinct
    <3>6. \A i \in Int : At(g, i) = IF i \in 1 .. a THEN p[a - i + 1] ELSE None
      BY <3>2, <3>4 DEF At
    <3>7. Through(s.prev, x, g)
      <4>1. x = At(g, 1)
        <5>1. 1 \in 1 .. a /\ a - 1 + 1 = a /\ 1 \in Int
          BY <1>1, <2>2
        <5> QED BY <2>1, <3>6, <5>1
      <4>2. ASSUME NEW i \in 1 .. a PROVE s.prev[g[i]] = At(g, i + 1)
        <5> DEFINE c == a - i + 1
        <5>1. c \in 1 .. k /\ c - 1 \in Int /\ i + 1 \in Int
              /\ (i + 1 \in 1 .. a <=> c - 1 \in 1 .. k) /\ a - (i + 1) + 1 = c - 1
          BY <1>1, <2>2, <3>1
        <5>2. g[i] = p[c]
          BY <3>2
        <5> HIDE DEF c
        <5>3. At(g, i + 1) = At(p, c - 1)
          BY <1>1, <3>6, <5>1
        <5> QED BY <1>2, <5>1, <5>2, <5>3
      <4> QED BY <3>4, <4>1, <4>2 DEF Through
    <3>8. Walk(s.prev, x) = g
      BY <3>5, <3>7, WalkIs
    <3>9. ToSet(g) = {p[b] : b \in {b \in 1 .. k : b <= a}}
      <4>1. ToSet(g) = {g[i] : i \in 1 .. a}
        BY <3>3 DEF ToSet
      <4>2. \A b \in 1 .. k : b <= a => \E i \in 1 .. a : g[i] = p[b]
        <5> SUFFICES ASSUME NEW b \in 1 .. k, b <= a PROVE \E i \in 1 .. a : g[i] = p[b]
          OBVIOUS
        <5>1. a - b + 1 \in 1 .. a /\ a - (a - b + 1) + 1 = b
          BY <1>1, <2>2
        <5>2. g[a - b + 1] = p[b]
          BY <3>2, <5>1
        <5> QED BY <5>1, <5>2
      <4>3. \A i \in 1 .. a : \E b \in 1 .. k : b <= a /\ g[i] = p[b]
        <5>1. \A i \in 1 .. a : a - i + 1 <= a
          BY <2>2
        <5> QED BY <3>1, <3>2, <5>1
      <4> QED BY <4>1, <4>2, <4>3
    <3> QED BY <3>8, <3>9
  <2> QED BY <2>3, <2>4, <2>5
<1> QED BY <1>3, <1>4


-----------------------------------------------------------------------------
\* The inductive invariant of the list: its nodes, read from the head, are a chain.
ListInv == Chain(l, Forward(l))

\* The calls that change the list, by what they make of its nodes p.
Grows(p, i, n, v) == n \in Nodes /\ n \notin Live(l) /\ Inserted(l', l, p, i, n, v)
Shrinks(p, i) ==
  /\ Chain(l', RemoveAt(p, i))
  /\ \A j \in 1 .. Len(p) : j # i => l'.value[p[j]] = l.value[p[j]]
Keeps(p) == Chain(l', p) /\ \A j \in 1 .. Len(p) : l'.value[p[j]] = l.value[p[j]]

\* The empty list is a chain of no nodes.
LEMMA EmptyIs == Chain(EmptyList, <<>>)
<1> DEFINE none == [n \in Nodes |-> None]
           p == <<>>
<1>1. none \in Links /\ none \in [Nodes -> Vals \cup {None}]
  BY DEF Links
<1>2. /\ DOMAIN EmptyList = ListFields /\ EmptyList.prev = none /\ EmptyList.next = none
      /\ EmptyList.value = none /\ EmptyList.head = None /\ EmptyList.tail = None /\ EmptyList.len = 0
  BY DEF EmptyList, ListFields
<1>3. p \in Seq(Nodes) /\ Len(p) = 0 /\ 1 .. Len(p) = {}
  OBVIOUS
<1> HIDE DEF none, p
<1>4. At(p, 1) = None /\ At(p, Len(p)) = None
  BY <1>3 DEF At
<1>5. Chain(EmptyList, p)
  BY <1>1, <1>2, <1>3, <1>4 DEF Chain, ListType, Distinct, Through, ThroughBack
<1> QED BY <1>5 DEF p

\* A node that is free is not in the list.
LEMMA FreeIs ==
  ASSUME NEW p, Chain(l, p), FreeNodes # {}
  PROVE  Min(FreeNodes) \in Nodes /\ Min(FreeNodes) \notin Live(l)
<1>1. FreeNodes \in SUBSET Nat
  BY NodesAre DEF FreeNodes
<1>2. Min(FreeNodes) \in FreeNodes
  BY <1>1, MinOfSet
<1>3. \A n \in Live(l) : l.value[n] # None
  <2>1. Live(l) = {p[i] : i \in 1 .. Len(p)}
    BY ChainIs
  <2> QED BY <2>1, NodesAre DEF Chain
<1> QED BY <1>2, <1>3 DEF FreeNodes

\* The calls that add a node.
LEMMA HeadGrows ==
  ASSUME NEW p, Chain(l, p), NEW v \in Vals, listAddNodeHead(v)
  PROVE  Grows(p, 1, Min(FreeNodes), v) /\ UNCHANGED iterVars
<1>1. FreeNodes # {} /\ l' = AddNodeHead(l, Min(FreeNodes), v) /\ UNCHANGED iterVars
  BY DEF listAddNodeHead, Create, Changed
<1>2. Min(FreeNodes) \in Nodes /\ Min(FreeNodes) \notin Live(l)
  BY <1>1, FreeIs
<1>3. Inserted(AddNodeHead(l, Min(FreeNodes), v), l, p, 1, Min(FreeNodes), v)
  BY <1>2, HeadInserted
<1> QED BY <1>1, <1>2, <1>3 DEF Grows

\* The same at the other end.
LEMMA TailGrows ==
  ASSUME NEW p, Chain(l, p), NEW v \in Vals, listAddNodeTail(v)
  PROVE  Grows(p, Len(p) + 1, Min(FreeNodes), v) /\ UNCHANGED iterVars
<1>1. FreeNodes # {} /\ l' = AddNodeTail(l, Min(FreeNodes), v) /\ UNCHANGED iterVars
  BY DEF listAddNodeTail, Create, Changed
<1>2. Min(FreeNodes) \in Nodes /\ Min(FreeNodes) \notin Live(l)
  BY <1>1, FreeIs
<1>3. Inserted(AddNodeTail(l, Min(FreeNodes), v), l, p, Len(p) + 1, Min(FreeNodes), v)
  BY <1>2, TailInserted
<1> QED BY <1>1, <1>2, <1>3 DEF Grows

\* And next to a node of the list.
LEMMA NodeGrows ==
  ASSUME NEW p, Chain(l, p), NEW v \in Vals, NEW j \in 1 .. Len(p), NEW after \in BOOLEAN,
         listInsertNode(p[j], v, after)
  PROVE  Grows(p, IF after THEN j + 1 ELSE j, Min(FreeNodes), v) /\ UNCHANGED iterVars
<1>1. FreeNodes # {} /\ l' = InsertNode(l, Min(FreeNodes), p[j], v, after) /\ UNCHANGED iterVars
  BY DEF listInsertNode, Create, Changed
<1>2. Min(FreeNodes) \in Nodes /\ Min(FreeNodes) \notin Live(l)
  BY <1>1, FreeIs
<1>3. Inserted(InsertNode(l, Min(FreeNodes), p[j], v, after), l, p, IF after THEN j + 1 ELSE j, Min(FreeNodes), v)
  BY <1>2, NodeInserted
<1> QED BY <1>1, <1>2, <1>3 DEF Grows

\* The links of other nodes change, the values do not.
LEMMA LinksKeepValues ==
  ASSUME NEW s, DOMAIN s = ListFields, NEW x
  PROVE  DelNode(s, x).value = s.value /\ Rotated(s).value = s.value
<1>1. Rotated(s).value = s.value
  BY DEF Rotated, ListFields
<1>2. ASSUME NEW t, DOMAIN t = ListFields, NEW b, NEW n
      PROVE  /\ DOMAIN LinkNext(t, b, n) = ListFields /\ LinkNext(t, b, n).value = t.value
             /\ DOMAIN LinkPrev(t, b, n) = ListFields /\ LinkPrev(t, b, n).value = t.value
  BY <1>2 DEF LinkNext, LinkPrev, ListFields
<1> DEFINE t == IF s.prev[x] = None THEN [s EXCEPT !.head = s.next[x]] ELSE s
           u == IF s.next[x] = None THEN [t EXCEPT !.tail = s.prev[x]] ELSE t
           w == [u EXCEPT !.len = @ - 1]
<1>3. DOMAIN t = ListFields /\ t.value = s.value
  BY DEF ListFields
<1>4. DOMAIN u = ListFields /\ u.value = t.value
  <2> HIDE DEF t
  <2> QED BY <1>3 DEF ListFields
<1>5. DOMAIN w = ListFields /\ w.value = u.value
  <2> HIDE DEF u
  <2> QED BY <1>4 DEF ListFields
<1>6. DelNode(s, x) = LinkPrev(LinkNext(w, s.prev[x], s.next[x]), s.next[x], s.prev[x])
  BY DEF DelNode
<1> HIDE DEF w, u, t
<1>7. DOMAIN LinkNext(w, s.prev[x], s.next[x]) = ListFields
  BY <1>2, <1>5
<1>8. DelNode(s, x).value = LinkNext(w, s.prev[x], s.next[x]).value
  BY <1>2, <1>6, <1>7
<1>9. LinkNext(w, s.prev[x], s.next[x]).value = w.value
  BY <1>2, <1>5
<1> QED BY <1>1, <1>3, <1>4, <1>5, <1>8, <1>9

\* The calls that take a node out, turn the list or leave it alone.
LEMMA DeletionShrinks ==
  ASSUME NEW p, Chain(l, p), NEW i \in 1 .. Len(p), listDelNode(p[i])
  PROVE  Shrinks(p, i)
<1> DEFINE s == DelNode(l, p[i])
           k == Len(p)
           r == RemoveAt(p, i)
<1>1. Chain(s, r)
  BY DeletedIs
<1>2. l' = Collected(s, it)
  BY DEF listDelNode, Changed
<1>3. s.value = l.value
  BY LinksKeepValues DEF Chain, ListType
<1>4. /\ p \in Seq(Nodes) /\ k \in Nat /\ i \in Int /\ 1 <= i /\ i <= k
      /\ Len(r) = k - 1 /\ \A j \in 1 .. k - 1 : r[j] = IF j < i THEN p[j] ELSE p[j + 1]
  BY RemoveAtIs DEF Chain, Distinct
<1> HIDE DEF s, r, k
<1>5. Chain(Collected(s, it), r) /\ \A j \in 1 .. Len(r) : Collected(s, it).value[r[j]] = s.value[r[j]]
  BY <1>1, CollectedIs
<1>6. ASSUME NEW j \in 1 .. k, j # i PROVE l'.value[p[j]] = l.value[p[j]]
  <2>1. CASE j < i
    <3>1. j \in 1 .. Len(r) /\ r[j] = p[j]
      BY <1>4, <2>1
    <3> QED BY <1>2, <1>3, <1>5, <3>1
  <2>2. CASE j > i
    <3>1. j - 1 \in 1 .. Len(r) /\ r[j - 1] = p[j]
      BY <1>4, <2>2
    <3> QED BY <1>2, <1>3, <1>5, <3>1
  <2> QED BY <1>4, <1>6, <2>1, <2>2
<1> QED BY <1>2, <1>5, <1>6 DEF Shrinks, r, k

\* A rotation puts the last node in front and keeps every value.
LEMMA RotationKeeps ==
  ASSUME NEW p, Chain(l, p), listRotate
  PROVE  /\ p # <<>> /\ Chain(l', <<Last(p)>> \o Front(p)) /\ l'.value = l.value
<1>1. l' = Rotated(l) /\ l.tail # None
  BY DEF listRotate, Changed
<1>2. p # <<>>
  <2>1. l.tail = At(p, Len(p))
    BY DEF Chain, ThroughBack
  <2> SUFFICES ASSUME p = <<>> PROVE FALSE
    OBVIOUS
  <2>2. Len(p) = 0 /\ 0 \notin 1 .. 0
    OBVIOUS
  <2> QED BY <1>1, <2>1, <2>2 DEF At
<1>3. l'.value = l.value
  BY <1>1, LinksKeepValues DEF Chain, ListType
<1> QED BY <1>1, <1>2, <1>3, RotatedIs

\* An iterator and a question leave the nodes of the list as they are.
LEMMA OthersKeep ==
  ASSUME NEW p, Chain(l, p), IteratorCalls \/ UNCHANGED l
  PROVE  Keeps(p)
<1>1. \A i : Chain(Collected(l, i), p) /\ \A j \in 1 .. Len(p) : Collected(l, i).value[p[j]] = l.value[p[j]]
  BY CollectedIs
<1>2. CASE IteratorCalls
  <2>1. l' = Collected(l, it')
    BY <1>2 DEF IteratorCalls, listRewind, listRewindTail, listNext, listReleaseIterator, Iterate, Changed
  <2> QED BY <1>1, <2>1 DEF Keeps
<1>3. CASE UNCHANGED l
  BY <1>3 DEF Keeps
<1> QED BY <1>2, <1>3

\* Every step leaves a chain of nodes.
LEMMA StepKeepsChain ==
  ASSUME ListInv, [Next]_vars
  PROVE  ListInv'
<1> DEFINE p == Forward(l)
<1>1. Chain(l, p) /\ Live(l) = {p[i] : i \in 1 .. Len(p)}
  BY ChainIs DEF ListInv
<1> HIDE DEF p
<1> SUFFICES \E q : Chain(l', q)
  <2>1. PICK q : Chain(l', q)
    OBVIOUS
  <2>2. Forward(l') = q
    BY <2>1, ChainIs
  <2> QED BY <2>1, <2>2 DEF ListInv
<1>2. ASSUME NEW i \in 1 .. Len(p) + 1, NEW n, NEW v \in Vals, Grows(p, i, n, v) PROVE \E q : Chain(l', q)
  BY <1>1, <1>2, InsertedIs DEF Grows
<1>3. Len(p) \in Nat
  BY <1>1 DEF Chain, Distinct
<1>4. ASSUME NEW v \in Vals, listAddNodeHead(v) PROVE \E q : Chain(l', q)
  BY <1>1, <1>2, <1>3, <1>4, HeadGrows
<1>5. ASSUME NEW v \in Vals, listAddNodeTail(v) PROVE \E q : Chain(l', q)
  BY <1>1, <1>2, <1>3, <1>5, TailGrows
<1>6. ASSUME NEW j \in 1 .. Len(p), NEW v \in Vals, NEW after \in BOOLEAN, listInsertNode(p[j], v, after)
      PROVE  \E q : Chain(l', q)
  <2> DEFINE i == IF after THEN j + 1 ELSE j
  <2>1. i \in 1 .. Len(p) + 1
    BY <1>3
  <2>2. Grows(p, i, Min(FreeNodes), v)
    BY <1>1, <1>6, NodeGrows
  <2> HIDE DEF i
  <2> QED BY <1>2, <2>1, <2>2
<1>7. ASSUME NEW j \in 1 .. Len(p), listDelNode(p[j]) PROVE \E q : Chain(l', q)
  BY <1>1, <1>7, DeletionShrinks DEF Shrinks
<1>8. CASE listRotate
  BY <1>1, <1>8, RotationKeeps
<1>9. CASE IteratorCalls \/ UNCHANGED l
  BY <1>1, <1>9, OthersKeep DEF Keeps
<1>10. ASSUME NEW v \in Vals, listSearchKey(v) PROVE UNCHANGED l
  BY <1>10 DEF listSearchKey, Answered
<1>11. ASSUME NEW k \in Places, listIndex(k) PROVE UNCHANGED l
  BY <1>11 DEF listIndex, Answered
<1>12. CASE listDup
  BY <1>9, <1>12 DEF listDup, Answered
<1>13. CASE UNCHANGED vars
  BY <1>9, <1>13 DEF vars
<1> QED BY <1>1, <1>4, <1>5, <1>6, <1>7, <1>8, <1>9, <1>10, <1>11, <1>12, <1>13 DEF Next, ListCalls

\* The chain is an invariant of the list.
THEOREM ListInvHolds == Spec => []ListInv
<1>1. Init => ListInv
  <2> SUFFICES ASSUME Init PROVE Chain(l, Forward(l))
    BY DEF ListInv
  <2>1. l = EmptyList
    BY DEF Init
  <2>2. Chain(l, <<>>)
    BY <2>1, EmptyIs
  <2>3. Forward(l) = <<>>
    BY <2>2, ChainIs
  <2> QED BY <2>2, <2>3
<1>2. ListInv /\ [Next]_vars => ListInv'
  BY StepKeepsChain
<1> QED BY <1>1, <1>2, PTL DEF Spec

\* Read from the tail the list is itself in reverse, as long as it says, and no
\* node of it is collected: what every call on the links must preserve.
THEOREM ListReadsBothWays == Spec => []MirrorImage
<1>1. ListInv => MirrorImage
  <2> SUFFICES ASSUME ListInv PROVE MirrorImage
    OBVIOUS
  <2>1. Chain(l, Forward(l))
    BY DEF ListInv
  <2>2. Backward(l) = Reverse(Forward(l)) /\ Live(l) = {Forward(l)[i] : i \in 1 .. Len(Forward(l))}
    BY <2>1, ChainIs
  <2> QED BY <2>1, <2>2, NodesAre DEF Chain, MirrorImage
<1> QED BY <1>1, ListInvHolds, PTL


-----------------------------------------------------------------------------
\* The inductive invariant of the iterator i, set on the nodes p.  Unless it is
\* upset (u) it stands on one of them or is done; what it returned (se) is in the
\* list and not ahead; of what was there from the start (st) nothing is missed.
NodesOf(p) == {p[b] : b \in 1 .. Len(p)}
AheadIn(p, i) == IF i.direction = "AL_START_HEAD" THEN From(p, i.next) ELSE UpTo(p, i.next)
Covers(p, i, u, st, se) ==
  i # None =>
    /\ i = [next |-> i.next, direction |-> i.direction]
    /\ ~u => /\ i.next \in NodesOf(p) \cup {None} /\ se \subseteq NodesOf(p)
             /\ se \cap AheadIn(p, i) = {} /\ st \subseteq se \cup AheadIn(p, i)
IterInv == Covers(Forward(l), it, upset, start, seen)

\* Where an iterator is, a node more behind it or in front makes no difference.
LEMMA GrownCovers ==
  ASSUME NEW p, NEW r, NEW j, NEW n, OneMore(r, p, j, n), NodesOf(r) = NodesOf(p) \cup {n},
         n \notin NodesOf(p), n # None, NEW i, NEW u, NEW st, NEW se, Covers(p, i, u, st, se)
  PROVE  Covers(r, i, u, st, se)
<1> SUFFICES ASSUME i # None, ~u
             PROVE  /\ i.next \in NodesOf(r) \cup {None} /\ se \subseteq NodesOf(r)
                    /\ se \cap AheadIn(r, i) = {} /\ st \subseteq se \cup AheadIn(r, i)
  BY DEF Covers
<1>1. /\ i.next \in NodesOf(p) \cup {None} /\ se \subseteq NodesOf(p)
      /\ se \cap AheadIn(p, i) = {} /\ st \subseteq se \cup AheadIn(p, i)
  BY DEF Covers
<1>2. i.next # n
  BY <1>1
<1>3. From(r, i.next) \ {n} = From(p, i.next) /\ UpTo(r, i.next) \ {n} = UpTo(p, i.next)
  BY <1>2, OneMoreIs
<1>4. AheadIn(r, i) \ {n} = AheadIn(p, i)
  BY <1>3 DEF AheadIn
<1> QED BY <1>1, <1>4

\* Nor does a node less, unless the iterator stands on it.
LEMMA ShrunkCovers ==
  ASSUME NEW p, NEW r, NEW j, NEW n, OneMore(p, r, j, n), NodesOf(r) = NodesOf(p) \ {n},
         NEW i, NEW u, NEW st, NEW se, Covers(p, i, u, st, se), i # None => i.next # n
  PROVE  Covers(r, i, u, st \ {n}, se \ {n})
<1> SUFFICES ASSUME i # None, ~u
             PROVE  /\ i.next \in NodesOf(r) \cup {None} /\ se \ {n} \subseteq NodesOf(r)
                    /\ (se \ {n}) \cap AheadIn(r, i) = {} /\ st \ {n} \subseteq (se \ {n}) \cup AheadIn(r, i)
  BY DEF Covers
<1>1. /\ i.next \in NodesOf(p) \cup {None} /\ se \subseteq NodesOf(p)
      /\ se \cap AheadIn(p, i) = {} /\ st \subseteq se \cup AheadIn(p, i)
  BY DEF Covers
<1>2. From(p, i.next) \ {n} = From(r, i.next) /\ UpTo(p, i.next) \ {n} = UpTo(r, i.next)
  BY OneMoreIs
<1>3. AheadIn(p, i) \ {n} = AheadIn(r, i)
  BY <1>2 DEF AheadIn
<1> QED BY <1>1, <1>3

\* The sequence with a node more, and with one less.
LEMMA InsertedOneMore ==
  ASSUME NEW p, Distinct(p), NEW n \in Nodes, n \notin NodesOf(p), NEW i \in 1 .. Len(p) + 1,
         Distinct(InsertAt(p, i, n))
  PROVE  OneMore(InsertAt(p, i, n), p, i, n) /\ NodesOf(InsertAt(p, i, n)) = NodesOf(p) \cup {n}
<1> DEFINE r == InsertAt(p, i, n)
           k == Len(p)
<1>1. /\ k \in Nat /\ Len(r) = k + 1 /\ i \in 1 .. k + 1
      /\ \A j \in 1 .. k + 1 : r[j] = IF j < i THEN p[j] ELSE IF j = i THEN n ELSE p[j - 1]
  BY InsertAtIs DEF Distinct
<1> HIDE DEF r
<1>2. \A j \in 1 .. k : p[j] = IF j < i THEN r[j] ELSE r[j + 1]
  <2> HIDE DEF k
  <2> QED BY <1>1
<1>3. r[i] = n
  <2> HIDE DEF k
  <2> QED BY <1>1
<1>4. NodesOf(r) = NodesOf(p) \cup {n}
  <2>1. ASSUME NEW j \in 1 .. k + 1 PROVE r[j] = n \/ \E m \in 1 .. k : r[j] = p[m]
    <3> HIDE DEF k
    <3>1. CASE j < i
      BY <1>1, <3>1
    <3>2. CASE j = i
      BY <1>3, <3>2
    <3>3. CASE j > i
      <4>1. j - 1 \in 1 .. k /\ r[j] = p[j - 1]
        BY <1>1, <3>3
      <4> QED BY <4>1
    <3> QED BY <1>1, <3>1, <3>2, <3>3
  <2>2. ASSUME NEW j \in 1 .. k PROVE \E m \in 1 .. k + 1 : p[j] = r[m]
    <3> HIDE DEF k
    <3>1. j \in 1 .. k + 1 /\ j + 1 \in 1 .. k + 1
      BY <1>1
    <3> QED BY <1>2, <3>1
  <2> HIDE DEF k
  <2>3. \A y : y \in NodesOf(r) <=> \E j \in 1 .. k + 1 : y = r[j]
    BY <1>1 DEF NodesOf
  <2>4. \A y : y \in NodesOf(p) <=> \E j \in 1 .. k : y = p[j]
    BY DEF NodesOf, k
  <2> QED BY <1>1, <1>3, <2>1, <2>2, <2>3, <2>4
<1> QED BY <1>1, <1>2, <1>3, <1>4 DEF OneMore, r

\* The same of a deletion.
LEMMA RemovedOneMore ==
  ASSUME NEW p, Distinct(p), NEW i \in 1 .. Len(p), Distinct(RemoveAt(p, i))
  PROVE  OneMore(p, RemoveAt(p, i), i, p[i]) /\ NodesOf(RemoveAt(p, i)) = NodesOf(p) \ {p[i]}
<1> DEFINE r == RemoveAt(p, i)
           k == Len(p)
<1>1. /\ k \in Nat /\ Len(r) = k - 1 /\ i \in 1 .. k
      /\ \A j \in 1 .. k - 1 : r[j] = IF j < i THEN p[j] ELSE p[j + 1]
      /\ \A a, b \in 1 .. k : p[a] = p[b] => a = b
  BY RemoveAtIs DEF Distinct
<1> HIDE DEF r
<1>2. NodesOf(r) = NodesOf(p) \ {p[i]}
  <2>1. ASSUME NEW j \in 1 .. k - 1 PROVE \E m \in 1 .. k : r[j] = p[m] /\ p[m] # p[i]
    <3> HIDE DEF k
    <3>1. j \in 1 .. k /\ j + 1 \in 1 .. k /\ (j < i => j # i) /\ (~ (j < i) => j + 1 # i)
      BY <1>1
    <3>2. p[i] = p[j] => i = j
      BY <1>1, <3>1
    <3>3. p[i] = p[j + 1] => i = j + 1
      BY <1>1, <3>1
    <3> QED BY <1>1, <3>1, <3>2, <3>3
  <2>2. ASSUME NEW j \in 1 .. k, j # i PROVE \E m \in 1 .. k - 1 : p[j] = r[m]
    <3> HIDE DEF k
    <3>1. CASE j < i
      <4>1. j \in 1 .. k - 1 /\ r[j] = p[j]
        BY <1>1, <3>1
      <4> QED BY <4>1
    <3>2. CASE j > i
      <4>1. j - 1 \in 1 .. k - 1 /\ r[j - 1] = p[j]
        BY <1>1, <3>2
      <4> QED BY <4>1
    <3> QED BY <1>1, <2>2, <3>1, <3>2
  <2> HIDE DEF k
  <2>3. \A y : y \in NodesOf(r) <=> \E j \in 1 .. k - 1 : y = r[j]
    BY <1>1 DEF NodesOf
  <2>4. \A y : y \in NodesOf(p) <=> \E j \in 1 .. k : y = p[j]
    BY DEF NodesOf, k
  <2>5. ASSUME NEW y \in NodesOf(r) PROVE y \in NodesOf(p) \ {p[i]}
    BY <2>1, <2>3, <2>4
  <2>6. ASSUME NEW y \in NodesOf(p) \ {p[i]} PROVE y \in NodesOf(r)
    BY <2>2, <2>3, <2>4
  <2> QED BY <2>5, <2>6
<1>3. k = Len(r) + 1
  <2> HIDE DEF k
  <2> QED BY <1>1
<1> QED BY <1>1, <1>2, <1>3 DEF OneMore, r


-----------------------------------------------------------------------------
\* What holds of the iterator after a step, said of the nodes after it.
Covered == \E q : Chain(l', q) /\ Covers(q, it', upset', start', seen')

\* The nodes of a chain.
LEMMA ChainNodes ==
  ASSUME NEW s, NEW p, Chain(s, p)
  PROVE  Distinct(p) /\ Live(s) = NodesOf(p) /\ Len(p) \in Nat /\ None \notin NodesOf(p)
<1>1. Distinct(p) /\ Live(s) = NodesOf(p) /\ Len(p) \in Nat
  BY ChainIs DEF Chain, NodesOf, Distinct
<1>2. None \notin NodesOf(p)
  BY <1>1, PlacesAre DEF NodesOf
<1> QED BY <1>1, <1>2

\* The calls that add a node.
LEMMA GrowthCovers ==
  ASSUME NEW p, Chain(l, p), Covers(p, it, upset, start, seen), NEW v \in Vals,
         NEW i \in 1 .. Len(p) + 1, NEW n, Grows(p, i, n, v), UNCHANGED iterVars
  PROVE  Covered
<1> DEFINE q == InsertAt(p, i, n)
<1>1. /\ Distinct(p) /\ Live(l) = NodesOf(p) /\ n \in Nodes /\ n \notin NodesOf(p)
  BY ChainNodes DEF Grows
<1>2. Chain(l', q)
  BY InsertedIs DEF Grows
<1>3. Distinct(q)
  BY <1>2 DEF Chain
<1>4. OneMore(q, p, i, n) /\ NodesOf(q) = NodesOf(p) \cup {n}
  BY <1>1, <1>3, InsertedOneMore
<1>5. n # None
  BY <1>1, NodesAre
<1> HIDE DEF q
<1>6. Covers(q, it, upset, start, seen)
  BY <1>1, <1>4, <1>5, GrownCovers
<1> QED BY <1>2, <1>6 DEF Covered, iterVars

\* A deletion.
LEMMA DeletionCovers ==
  ASSUME NEW p, Chain(l, p), Covers(p, it, upset, start, seen), NEW i \in 1 .. Len(p),
         listDelNode(p[i])
  PROVE  Covered
<1> DEFINE q == RemoveAt(p, i)
           x == p[i]
<1>1. Distinct(p)
  BY ChainNodes
<1>2. Chain(l', q)
  BY DeletionShrinks DEF Shrinks
<1>3. Distinct(q)
  BY <1>2 DEF Chain
<1>4. OneMore(p, q, i, x) /\ NodesOf(q) = NodesOf(p) \ {x}
  BY <1>1, <1>3, RemovedOneMore
<1>5. /\ it' = it /\ upset' = (upset \/ (it # None /\ it.next = x))
      /\ start' = (IF upset' THEN {} ELSE start \ {x}) /\ seen' = (IF upset' THEN {} ELSE seen \ {x})
  BY DEF listDelNode, Watch
<1> HIDE DEF q, x
<1>6. CASE it # None => it.next # x
  <2>1. Covers(q, it, upset, start \ {x}, seen \ {x})
    BY <1>4, <1>6, ShrunkCovers
  <2>2. Covers(q, it', upset', start', seen')
    BY <1>5, <1>6, <2>1 DEF Covers
  <2> QED BY <1>2, <2>2 DEF Covered
<1>7. CASE it # None /\ it.next = x
  <2>1. Covers(q, it', upset', start', seen')
    BY <1>5, <1>7 DEF Covers
  <2> QED BY <1>2, <2>1 DEF Covered
<1> QED BY <1>6, <1>7

\* A rotation.
LEMMA RotationCovers ==
  ASSUME NEW p, Chain(l, p), Covers(p, it, upset, start, seen), listRotate
  PROVE  Covered
<1>1. \E q : Chain(l', q)
  BY RotationKeeps
<1>2. it' = it /\ (it # None => upset')
  BY DEF listRotate, Watch
<1>3. \A q : Covers(q, it', upset', start', seen')
  BY <1>2 DEF Covers
<1> QED BY <1>1, <1>3 DEF Covered

\* The iterator is set at an end of the list.
LEMMA RewindCovers ==
  ASSUME NEW p, Chain(l, p), listRewind \/ listRewindTail
  PROVE  Covered
<1> DEFINE k == Len(p)
<1>1. Distinct(p) /\ Live(l) = NodesOf(p) /\ k \in Nat
  BY ChainNodes
<1>2. l.head = At(p, 1) /\ l.tail = At(p, k)
  BY DEF Chain, Through, ThroughBack
<1>3. From(p, At(p, 1)) = NodesOf(p) /\ UpTo(p, At(p, k)) = NodesOf(p)
  BY <1>1, EndsAhead DEF NodesOf
<1>4. At(p, 1) \in NodesOf(p) \cup {None} /\ At(p, k) \in NodesOf(p) \cup {None}
  BY DEF At, NodesOf
<1>5. Chain(l', p)
  BY OthersKeep DEF IteratorCalls, Keeps
<1> HIDE DEF k
<1>6. CASE listRewind
  <2>1. it' = [next |-> l.head, direction |-> "AL_START_HEAD"] /\ upset' = FALSE /\ start' = NodesOf(p) /\ seen' = {}
    BY <1>1, <1>6 DEF listRewind, Iterate, Watch
  <2>2. it'.next = At(p, 1) /\ it'.direction = "AL_START_HEAD" /\ it' = [next |-> it'.next, direction |-> it'.direction]
    BY <1>2, <2>1
  <2>3. AheadIn(p, it') = NodesOf(p)
    BY <1>3, <2>2 DEF AheadIn
  <2>4. Covers(p, it', upset', start', seen')
    BY <1>4, <2>1, <2>2, <2>3 DEF Covers
  <2> QED BY <1>5, <2>4 DEF Covered
<1>7. CASE listRewindTail
  <2>1. it' = [next |-> l.tail, direction |-> "AL_START_TAIL"] /\ upset' = FALSE /\ start' = NodesOf(p) /\ seen' = {}
    BY <1>1, <1>7 DEF listRewindTail, Iterate, Watch
  <2>2. it'.next = At(p, k) /\ it'.direction = "AL_START_TAIL" /\ it' = [next |-> it'.next, direction |-> it'.direction]
    BY <1>2, <2>1
  <2>3. AheadIn(p, it') = NodesOf(p)
    BY <1>3, <2>2 DEF AheadIn
  <2>4. Covers(p, it', upset', start', seen')
    BY <1>4, <2>1, <2>2, <2>3 DEF Covers
  <2> QED BY <1>5, <2>4 DEF Covered
<1> QED BY <1>6, <1>7

\* The iterator returns a node and goes on to the next.
LEMMA NextCovers ==
  ASSUME NEW p, Chain(l, p), Covers(p, it, upset, start, seen), listNext
  PROVE  Covered
<1> DEFINE x == it.next
           y == Following(l, it)
<1>1. Chain(l', p)
  BY OthersKeep DEF IteratorCalls, Keeps
<1>2. /\ it # None /\ x # None /\ it' = [it EXCEPT !.next = y] /\ upset' = upset
      /\ start' = (IF upset THEN {} ELSE start) /\ seen' = (IF upset THEN {} ELSE seen \cup {x})
  BY DEF listNext, Watch
<1>3. it = [next |-> x, direction |-> it.direction]
  BY <1>2 DEF Covers
<1>4. it'.next = y /\ it'.direction = it.direction /\ it' = [next |-> it'.next, direction |-> it'.direction]
  <2> HIDE DEF x, y
  <2> QED BY <1>2, <1>3
<1>5. CASE upset
  <2>1. Covers(p, it', upset', start', seen')
    BY <1>2, <1>4, <1>5 DEF Covers
  <2> QED BY <1>1, <2>1 DEF Covered
<1>6. CASE ~upset
  <2>1. /\ x \in NodesOf(p) /\ seen \subseteq NodesOf(p)
        /\ seen \cap AheadIn(p, it) = {} /\ start \subseteq seen \cup AheadIn(p, it)
    BY <1>2, <1>6 DEF Covers
  <2>2. PICK a \in 1 .. Len(p) : x = p[a]
    BY <2>1 DEF NodesOf
  <2>3. l.next[x] = At(p, a + 1) /\ l.prev[x] = At(p, a - 1)
    BY <2>2 DEF Chain, Through, ThroughBack
  <2>4. Distinct(p)
    BY ChainNodes
  <2>5. /\ From(p, l.next[x]) = From(p, x) \ {x} /\ UpTo(p, l.prev[x]) = UpTo(p, x) \ {x}
        /\ x \in From(p, x) /\ x \in UpTo(p, x)
    BY <2>2, <2>3, <2>4, StepAhead
  <2>6. AheadIn(p, it') = AheadIn(p, it) \ {x} /\ x \in AheadIn(p, it)
    BY <1>4, <2>5 DEF AheadIn, Following
  <2>7. l.next[x] \in NodesOf(p) \cup {None} /\ l.prev[x] \in NodesOf(p) \cup {None}
    BY <2>3 DEF At, NodesOf
  <2>8. y \in NodesOf(p) \cup {None}
    BY <2>7 DEF Following
  <2> HIDE DEF x, y
  <2>9. Covers(p, it', upset', start', seen')
    BY <1>2, <1>4, <1>6, <2>1, <2>6, <2>8 DEF Covers
  <2> QED BY <1>1, <2>9 DEF Covered
<1> QED BY <1>5, <1>6

\* The other calls.
LEMMA RestCovers ==
  ASSUME NEW p, Chain(l, p), Covers(p, it, upset, start, seen),
         listReleaseIterator \/ UNCHANGED <<l, iterVars>>
  PROVE  Covered
<1>1. CASE listReleaseIterator
  <2>1. Chain(l', p)
    BY <1>1, OthersKeep DEF IteratorCalls, Keeps
  <2>2. it' = None
    BY <1>1 DEF listReleaseIterator
  <2> QED BY <2>1, <2>2 DEF Covers, Covered
<1>2. CASE UNCHANGED <<l, iterVars>>
  <2>1. Chain(l', p)
    BY <1>2
  <2>2. Covers(p, it', upset', start', seen')
    BY <1>2 DEF iterVars
  <2> QED BY <2>1, <2>2 DEF Covered
<1> QED BY <1>1, <1>2

\* Every step keeps what holds of the iterator.
LEMMA StepCovers ==
  ASSUME ListInv, IterInv, [Next]_vars
  PROVE  IterInv'
<1> DEFINE p == Forward(l)
<1>1. Chain(l, p) /\ Covers(p, it, upset, start, seen)
  BY DEF ListInv, IterInv
<1>2. Live(l) = NodesOf(p) /\ Len(p) \in Nat
  BY <1>1, ChainNodes
<1> HIDE DEF p
<1> SUFFICES Covered
  <2>1. PICK q : Chain(l', q) /\ Covers(q, it', upset', start', seen')
    BY DEF Covered
  <2>2. Forward(l') = q
    BY <2>1, ChainIs
  <2> QED BY <2>1, <2>2 DEF IterInv
<1>3. 1 \in 1 .. Len(p) + 1 /\ Len(p) + 1 \in 1 .. Len(p) + 1
  BY <1>2
<1>4. ASSUME NEW v \in Vals, listAddNodeHead(v) PROVE Covered
  <2>1. Grows(p, 1, Min(FreeNodes), v) /\ UNCHANGED iterVars
    BY <1>1, <1>4, HeadGrows
  <2> QED BY <1>1, <1>3, <2>1, GrowthCovers
<1>5. ASSUME NEW v \in Vals, listAddNodeTail(v) PROVE Covered
  <2>1. Grows(p, Len(p) + 1, Min(FreeNodes), v) /\ UNCHANGED iterVars
    BY <1>1, <1>5, TailGrows
  <2> QED BY <1>1, <1>3, <2>1, GrowthCovers
<1>6. ASSUME NEW j \in 1 .. Len(p), NEW v \in Vals, NEW after \in BOOLEAN, listInsertNode(p[j], v, after)
      PROVE  Covered
  <2> DEFINE i == IF after THEN j + 1 ELSE j
  <2>1. i \in 1 .. Len(p) + 1
    BY <1>2
  <2>2. Grows(p, i, Min(FreeNodes), v) /\ UNCHANGED iterVars
    BY <1>1, <1>6, NodeGrows
  <2> HIDE DEF i
  <2> QED BY <1>1, <2>1, <2>2, GrowthCovers
<1>7. ASSUME NEW j \in 1 .. Len(p), listDelNode(p[j]) PROVE Covered
  BY <1>1, <1>7, DeletionCovers
<1>8. CASE listRotate
  BY <1>1, <1>8, RotationCovers
<1>9. CASE listRewind \/ listRewindTail
  BY <1>1, <1>9, RewindCovers
<1>10. CASE listNext
  BY <1>1, <1>10, NextCovers
<1>11. CASE listReleaseIterator \/ UNCHANGED <<l, iterVars>>
  BY <1>1, <1>11, RestCovers
<1>12. ASSUME NEW v \in Vals, listSearchKey(v) PROVE UNCHANGED <<l, iterVars>>
  BY <1>12 DEF listSearchKey, Answered
<1>13. ASSUME NEW k \in Places, listIndex(k) PROVE UNCHANGED <<l, iterVars>>
  BY <1>13 DEF listIndex, Answered
<1>14. CASE listDup
  BY <1>11, <1>14 DEF listDup, Answered
<1>15. CASE UNCHANGED vars
  BY <1>11, <1>15 DEF vars, iterVars
<1>16. ASSUME NEW x \in Live(l) PROVE \E j \in 1 .. Len(p) : x = p[j]
  BY <1>2 DEF NodesOf
<1> QED BY <1>4, <1>5, <1>6, <1>7, <1>8, <1>9, <1>10, <1>11, <1>12, <1>13, <1>14, <1>15, <1>16
     DEF Next, ListCalls, IteratorCalls

\* Where an iterator stands is an invariant of the list and of its iterator.
THEOREM IterInvHolds == Spec => [](ListInv /\ IterInv)
<1>1. Init => IterInv
  BY DEF Init, IterInv, Covers
<1>2. ListInv /\ IterInv /\ [Next]_vars => IterInv'
  BY StepCovers
<1> QED BY <1>1, <1>2, ListInvHolds, PTL DEF Spec

\* An iterator returns every node once that is in the list from its first to its
\* last call, whatever is added and deleted around it: listNext and the calls
\* between two of its calls.
THEOREM IteratorReachesAll == Spec => []IteratorCovers
<1>1. ListInv /\ IterInv => IteratorCovers
  <2> SUFFICES ASSUME ListInv, IterInv, it # None, ~upset
               PROVE  seen \cap Ahead = {} /\ start \subseteq seen \cup Ahead
    BY DEF IteratorCovers
  <2> DEFINE p == Forward(l)
  <2>1. Chain(l, p) /\ Covers(p, it, upset, start, seen)
    BY DEF ListInv, IterInv
  <2> HIDE DEF p
  <2>2. Live(l) = NodesOf(p)
    BY <2>1, ChainNodes
  <2>3. /\ it.next \in Live(l) \cup {None} /\ seen \cap AheadIn(p, it) = {}
        /\ start \subseteq seen \cup AheadIn(p, it)
    BY <2>1, <2>2 DEF Covers
  <2>4. /\ ToSet(Walk(l.next, it.next)) = From(p, it.next)
        /\ ToSet(Walk(l.prev, it.next)) = UpTo(p, it.next)
    BY <2>1, <2>3, AheadIs
  <2>5. Ahead = AheadIn(p, it)
    BY <2>4 DEF Ahead, AheadIn
  <2> QED BY <2>3, <2>5
<1> QED BY <1>1, IterInvHolds, PTL


-----------------------------------------------------------------------------
\* The values of the nodes p.
ValuesOf(s, p) == [i \in 1 .. Len(p) |-> s.value[p[i]]]

\* They are what the list holds, by place.
LEMMA ValuesAre ==
  ASSUME NEW p, Chain(l, p)
  PROVE  /\ Values = ValuesOf(l, p) /\ ValuesOf(l, p) \in Seq(Vals) /\ Len(ValuesOf(l, p)) = Len(p)
         /\ \A i \in 1 .. Len(p) : ValuesOf(l, p)[i] = l.value[p[i]]
<1> DEFINE g == ValuesOf(l, p)
           k == Len(p)
<1>1. k \in Nat /\ p \in Seq(Nodes) /\ DOMAIN p = 1 .. k /\ Forward(l) = p
  BY ChainIs DEF Chain, Distinct
<1>2. Values = g
  BY <1>1 DEF Values, ValuesOf
<1>3. \A i \in 1 .. k : g[i] = l.value[p[i]] /\ g[i] \in Vals
  BY DEF Chain, ValuesOf
<1>4. g = [i \in 1 .. k |-> g[i]] /\ DOMAIN g = 1 .. k
  BY DEF ValuesOf
<1> HIDE DEF g, k
<1>5. g \in Seq(Vals) /\ Len(g) = k
  <2>1. \A i \in 1 .. k : g[i] \in Vals
    BY <1>3
  <2> QED BY <1>1, <1>4, <2>1
<1> QED BY <1>2, <1>3, <1>5 DEF g, k

\* The same after a step.
LEMMA NextValuesAre ==
  ASSUME NEW p, Chain(l', p)
  PROVE  /\ Values' = ValuesOf(l', p) /\ ValuesOf(l', p) \in Seq(Vals) /\ Len(ValuesOf(l', p)) = Len(p)
         /\ \A i \in 1 .. Len(p) : ValuesOf(l', p)[i] = l'.value[p[i]]
<1> DEFINE g == ValuesOf(l', p)
           k == Len(p)
<1>1. k \in Nat /\ p \in Seq(Nodes) /\ DOMAIN p = 1 .. k /\ Forward(l') = p
  BY ChainIs DEF Chain, Distinct
<1>2. Values' = g
  BY <1>1 DEF Values, ValuesOf
<1>3. \A i \in 1 .. k : g[i] = l'.value[p[i]] /\ g[i] \in Vals
  BY DEF Chain, ValuesOf
<1>4. g = [i \in 1 .. k |-> g[i]] /\ DOMAIN g = 1 .. k
  BY DEF ValuesOf
<1> HIDE DEF g, k
<1>5. g \in Seq(Vals) /\ Len(g) = k
  <2>1. \A i \in 1 .. k : g[i] \in Vals
    BY <1>3
  <2> QED BY <1>1, <1>4, <2>1
<1> QED BY <1>2, <1>3, <1>5 DEF g, k

\* A call that adds a node inserts its value.
LEMMA GrowthInserts ==
  ASSUME NEW p, Chain(l, p), NEW v \in Vals, NEW i \in 1 .. Len(p) + 1, NEW n, Grows(p, i, n, v)
  PROVE  Values' = InsertAt(Values, i, v)
<1> DEFINE k == Len(p)
           q == InsertAt(p, i, n)
           g == Values
           h == Values'
           w == InsertAt(g, i, v)
<1>1. g \in Seq(Vals) /\ Len(g) = k /\ \A j \in 1 .. k : g[j] = l.value[p[j]]
  BY ValuesAre
<1>2. p \in Seq(Nodes) /\ k \in Nat /\ Distinct(p) /\ Live(l) = NodesOf(p) /\ i \in 1 .. k + 1
  BY ChainNodes DEF Distinct
<1>3. Chain(l', q)
  BY InsertedIs DEF Grows
<1>4. /\ Len(q) = k + 1
      /\ \A j \in 1 .. k + 1 : q[j] = IF j < i THEN p[j] ELSE IF j = i THEN n ELSE p[j - 1]
  BY <1>2, InsertAtIs DEF Grows
<1>5. h \in Seq(Vals) /\ Len(h) = Len(q) /\ \A j \in 1 .. Len(q) : h[j] = l'.value[q[j]]
  BY <1>3, NextValuesAre
<1>6. \A j \in 1 .. k : p[j] \in Nodes /\ p[j] # n
  BY <1>2, PlacesAre DEF Grows, NodesOf
<1>7. l'.value[n] = v /\ \A j \in 1 .. k : l'.value[p[j]] = l.value[p[j]]
  BY <1>6 DEF Grows, Inserted
<1>8. /\ w \in Seq(Vals) /\ Len(w) = k + 1
      /\ \A j \in 1 .. k + 1 : w[j] = IF j < i THEN g[j] ELSE IF j = i THEN v ELSE g[j - 1]
  BY <1>1, <1>2, InsertAtIs
<1> HIDE DEF g, h, w, q, k
<1>9. ASSUME NEW j \in 1 .. k + 1 PROVE h[j] = w[j]
  <2>1. h[j] = l'.value[q[j]]
    BY <1>4, <1>5
  <2>2. CASE j < i
    <3>1. j \in 1 .. k
      BY <1>2, <2>2
    <3> QED BY <1>1, <1>4, <1>7, <1>8, <2>1, <2>2, <3>1
  <2>3. CASE j = i
    BY <1>2, <1>4, <1>7, <1>8, <2>1, <2>3
  <2>4. CASE j > i
    <3>1. j - 1 \in 1 .. k /\ ~ (j < i) /\ j # i
      BY <1>2, <2>4
    <3>2. q[j] = p[j - 1] /\ w[j] = g[j - 1]
      BY <1>4, <1>8, <3>1
    <3> QED BY <1>1, <1>7, <2>1, <3>1, <3>2
  <2> QED BY <1>2, <2>2, <2>3, <2>4
<1>10. h = w
  BY <1>4, <1>5, <1>8, <1>9, SeqEqual
<1> QED BY <1>10 DEF g, h, w

\* A deletion removes a value.
LEMMA DeletionRemoves ==
  ASSUME NEW p, Chain(l, p), NEW i \in 1 .. Len(p), Shrinks(p, i)
  PROVE  Values' = RemoveAt(Values, i)
<1> DEFINE k == Len(p)
           q == RemoveAt(p, i)
           g == Values
           h == Values'
           w == RemoveAt(g, i)
<1>1. g \in Seq(Vals) /\ Len(g) = k /\ \A j \in 1 .. k : g[j] = l.value[p[j]]
  BY ValuesAre
<1>2. p \in Seq(Nodes) /\ k \in Nat /\ i \in 1 .. k
  BY DEF Chain, Distinct
<1>3. Len(q) = k - 1 /\ \A j \in 1 .. k - 1 : q[j] = IF j < i THEN p[j] ELSE p[j + 1]
  BY <1>2, RemoveAtIs
<1>4. h \in Seq(Vals) /\ Len(h) = Len(q) /\ \A j \in 1 .. Len(q) : h[j] = l'.value[q[j]]
  BY NextValuesAre DEF Shrinks
<1>5. \A j \in 1 .. k : j # i => l'.value[p[j]] = l.value[p[j]]
  BY DEF Shrinks
<1>6. w \in Seq(Vals) /\ Len(w) = k - 1 /\ \A j \in 1 .. k - 1 : w[j] = IF j < i THEN g[j] ELSE g[j + 1]
  BY <1>1, <1>2, RemoveAtIs
<1> HIDE DEF g, h, w, q, k
<1>7. ASSUME NEW j \in 1 .. k - 1 PROVE h[j] = w[j]
  <2>1. h[j] = l'.value[q[j]]
    BY <1>3, <1>4
  <2>2. CASE j < i
    <3>1. j \in 1 .. k /\ j # i
      BY <1>2, <2>2
    <3> QED BY <1>1, <1>3, <1>5, <1>6, <2>1, <2>2, <3>1
  <2>3. CASE ~ (j < i)
    <3>1. j + 1 \in 1 .. k /\ j + 1 # i
      BY <1>2, <2>3
    <3> QED BY <1>1, <1>3, <1>5, <1>6, <2>1, <2>3, <3>1
  <2> QED BY <2>2, <2>3
<1>8. h = w
  BY <1>3, <1>4, <1>6, <1>7, SeqEqual
<1> QED BY <1>8 DEF g, h, w

\* A rotation puts the last value in front.
LEMMA RotationTurns ==
  ASSUME NEW p, Chain(l, p), listRotate
  PROVE  Values # <<>> /\ Values' = <<Last(Values)>> \o Front(Values)
<1> DEFINE k == Len(p)
           q == <<Last(p)>> \o Front(p)
           g == Values
           h == Values'
           w == <<Last(g)>> \o Front(g)
<1>1. g \in Seq(Vals) /\ Len(g) = k /\ \A j \in 1 .. k : g[j] = l.value[p[j]]
  BY ValuesAre
<1>2. p # <<>> /\ Chain(l', q) /\ l'.value = l.value
  BY RotationKeeps
<1>3. p \in Seq(Nodes) /\ k \in Nat /\ k # 0
  BY <1>2 DEF Chain, Distinct
<1>4. Len(q) = k /\ \A j \in 1 .. k : q[j] = IF j = 1 THEN p[k] ELSE p[j - 1]
  BY <1>2, <1>3, LastInFront
<1>5. h \in Seq(Vals) /\ Len(h) = Len(q) /\ \A j \in 1 .. Len(q) : h[j] = l'.value[q[j]]
  BY <1>2, NextValuesAre
<1>6. g # <<>>
  <2> HIDE DEF g, k
  <2> QED BY <1>1, <1>3
<1>7. w \in Seq(Vals) /\ Len(w) = k /\ \A j \in 1 .. k : w[j] = IF j = 1 THEN g[k] ELSE g[j - 1]
  <2> HIDE DEF g
  <2>1. /\ w \in Seq(Vals) /\ Len(w) = Len(g)
        /\ \A j \in 1 .. Len(g) : w[j] = IF j = 1 THEN g[Len(g)] ELSE g[j - 1]
    BY <1>1, <1>6, LastInFront
  <2> HIDE DEF k, w
  <2> QED BY <1>1, <2>1
<1> HIDE DEF g, h, w, q, k
<1>8. ASSUME NEW j \in 1 .. k PROVE h[j] = w[j]
  <2>1. h[j] = l.value[q[j]]
    BY <1>2, <1>4, <1>5
  <2>2. CASE j = 1
    <3>1. k \in 1 .. k
      BY <1>3
    <3> QED BY <1>1, <1>4, <1>7, <2>1, <2>2, <3>1
  <2>3. CASE j # 1
    <3>1. j - 1 \in 1 .. k
      BY <1>3, <2>3
    <3> QED BY <1>1, <1>4, <1>7, <2>1, <2>3, <3>1
  <2> QED BY <2>2, <2>3
<1>9. h = w
  BY <1>4, <1>5, <1>7, <1>8, SeqEqual
<1> QED BY <1>6, <1>9 DEF g, h, w

\* The other calls keep the values, and the places.
LEMMA OthersKeepValues ==
  ASSUME NEW p, Chain(l, p), Keeps(p)
  PROVE  Values' = Values
<1>1. Values = ValuesOf(l, p)
  BY ValuesAre
<1>2. Values' = ValuesOf(l', p)
  BY NextValuesAre DEF Keeps
<1>3. ValuesOf(l', p) = ValuesOf(l, p)
  BY DEF Keeps, ValuesOf
<1> QED BY <1>1, <1>2, <1>3

\* The place of a node of the list.
LEMMA PositionIs ==
  ASSUME NEW p, Chain(l, p), NEW j \in 1 .. Len(p)
  PROVE  Position(p[j]) = j /\ p[j] # None
<1>1. Forward(l) = p /\ DOMAIN p = 1 .. Len(p)
  BY ChainIs DEF Chain, Distinct
<1>2. p[j] # None /\ \A i \in 1 .. Len(p) : p[i] = p[j] => i = j
  BY PlacesAre DEF Chain
<1>3. Position(p[j]) = CHOOSE i \in 1 .. Len(p) : p[i] = p[j]
  BY <1>1 DEF Position
<1> QED BY <1>2, <1>3

\* The place a call answered.
Place == IF res = None THEN None ELSE Position(res)

\* A call that answers keeps the values, and answers the place of its node.
LEMMA AnswerIs ==
  ASSUME NEW p, Chain(l, p), NEW j \in Int, NEW c, Answered(At(p, j), c)
  PROVE  Values' = Values /\ Place' = (IF j \in 1 .. Len(p) THEN j ELSE None) /\ copy' = c
<1>1. l' = l /\ res' = At(p, j) /\ copy' = c
  BY DEF Answered
<1>2. Values' = Values
  BY <1>1 DEF Values
<1>3. Place' = IF res' = None THEN None ELSE Position(res')
  BY <1>1 DEF Place, Position
<1>4. CASE j \in 1 .. Len(p)
  <2>1. res' = p[j]
    BY <1>1, <1>4 DEF At
  <2> QED BY <1>1, <1>2, <1>3, <1>4, <2>1, PositionIs
<1>5. CASE j \notin 1 .. Len(p)
  <2>1. res' = None
    BY <1>1, <1>5 DEF At
  <2> QED BY <1>1, <1>2, <1>3, <1>5, <2>1
<1> QED BY <1>4, <1>5

\* A call that changes the list answers no node.
LEMMA ChangeIs ==
  ASSUME NEW s, Changed(s)
  PROVE  Place' = None /\ copy' = <<>>
BY DEF Changed, Place

\* The abstract calls, one by one: an insertion, a deletion, a rotation.
LEMMA InsertionMaps ==
  ASSUME NEW p, Chain(l, p), NEW v \in Vals, NEW i \in 1 .. Len(p) + 1, NEW n, Grows(p, i, n, v),
         \E s : Changed(s), asked' = <<"insert", i, v>>
  PROVE  Abstract!Next
<1>1. Values' = InsertAt(Values, i, v) /\ Place' = None /\ copy' = <<>>
  BY GrowthInserts, ChangeIs
<1>2. Len(Values) = Len(p)
  BY ValuesAre
<1>3. Abstract!Insert(i, v)
  BY <1>1 DEF Abstract!Insert, Abstract!Update, Abstract!Call, Place, InsertAt, Abstract!InsertAt
<1> QED BY <1>2, <1>3 DEF Abstract!Next

\* A deletion, at the place of its node.
LEMMA DeletionMaps ==
  ASSUME NEW p, Chain(l, p), NEW i \in 1 .. Len(p), listDelNode(p[i]), asked' = <<"delete", Position(p[i])>>
  PROVE  Abstract!Next
<1>1. Values' = RemoveAt(Values, i)
  BY DeletionShrinks, DeletionRemoves
<1>2. Place' = None /\ copy' = <<>>
  BY ChangeIs DEF listDelNode
<1>3. Position(p[i]) = i
  BY PositionIs
<1>4. DOMAIN Values = 1 .. Len(p)
  BY ValuesAre
<1>5. Abstract!Delete(i)
  BY <1>1, <1>2, <1>3 DEF Abstract!Delete, Abstract!Update, Abstract!Call, Place, RemoveAt, Abstract!RemoveAt
<1> QED BY <1>4, <1>5 DEF Abstract!Next

\* A rotation of the values.
LEMMA RotationMaps ==
  ASSUME NEW p, Chain(l, p), listRotate, asked' = <<"rotate">>
  PROVE  Abstract!Next
<1>1. Values # <<>> /\ Values' = <<Last(Values)>> \o Front(Values)
  BY RotationTurns
<1>2. Place' = None /\ copy' = <<>>
  BY ChangeIs DEF listRotate
<1>3. Abstract!Rotate
  BY <1>1, <1>2 DEF Abstract!Rotate, Abstract!Update, Abstract!Call, Place, Last, Front, Abstract!Last, Abstract!Front
<1> QED BY <1>3 DEF Abstract!Next

\* The answers: a search, a place, a copy; and what an iterator does.
LEMMA SearchMaps ==
  ASSUME NEW p, Chain(l, p), NEW v \in Vals, listSearchKey(v), asked' = <<"search", v>>
  PROVE  Abstract!Next
<1> DEFINE g == Values
           k == Len(p)
           hits == {i \in 1 .. k : l.value[p[i]] = v}
<1>1. g \in Seq(Vals) /\ Len(g) = k /\ \A i \in 1 .. k : g[i] = l.value[p[i]]
  BY ValuesAre
<1>2. k \in Nat /\ DOMAIN p = 1 .. k /\ Forward(l) = p
  BY ChainIs DEF Chain, Distinct
<1>3. Answered(IF hits = {} THEN None ELSE p[Min(hits)], <<>>)
  BY <1>2 DEF listSearchKey
<1>4. v \in ToSet(g) <=> hits # {}
  <2> HIDE DEF g, k
  <2> QED BY <1>1 DEF ToSet
<1>5. CASE hits = {}
  <2>1. At(p, 0) = None
    BY DEF At
  <2>2. Answered(At(p, 0), <<>>)
    BY <1>3, <1>5, <2>1
  <2>3. Values' = Values /\ Place' = None /\ copy' = <<>>
    BY <2>2, AnswerIs
  <2>4. Abstract!Search(v)
    BY <1>4, <1>5, <2>3 DEF Abstract!Search, Abstract!Answer, Abstract!Call, Place, ToSet, Abstract!ToSet
  <2> QED BY <2>4 DEF Abstract!Next
<1>6. CASE hits # {}
  <2> DEFINE i == Min(hits)
  <2>1. i \in hits /\ \A j \in hits : i <= j
    <3>1. hits \in SUBSET Nat
      OBVIOUS
    <3> HIDE DEF hits
    <3> QED BY <1>6, <3>1, MinOfSet
  <2> HIDE DEF i
  <2>2. i \in 1 .. k /\ i \in Int /\ g[i] = v
    BY <1>1, <2>1
  <2>3. \A j \in 1 .. i - 1 : g[j] # v
    <3> SUFFICES ASSUME NEW j \in 1 .. i - 1, g[j] = v PROVE FALSE
      OBVIOUS
    <3>1. j \in 1 .. k
      BY <1>2, <2>2
    <3>2. j \in hits
      BY <1>1, <3>1
    <3> QED BY <2>1, <2>2, <3>2
  <2>4. Answered(At(p, i), <<>>)
    BY <1>3, <1>6, <2>2 DEF At, i
  <2>5. Values' = Values /\ Place' = i /\ copy' = <<>>
    BY <2>2, <2>4, AnswerIs
  <2>6. i \in DOMAIN Values
    BY <1>1, <2>2
  <2>7. Abstract!Answer(<<"search", v>>, i)
    BY <2>5 DEF Abstract!Answer, Abstract!Call, Place
  <2>8. Abstract!Search(v)
    BY <1>4, <1>6, <2>2, <2>3, <2>6, <2>7 DEF Abstract!Search, ToSet, Abstract!ToSet
  <2> QED BY <2>8 DEF Abstract!Next
<1> QED BY <1>5, <1>6

\* Counted from the head or from the tail, the place is the one asked for.
LEMMA IndexMaps ==
  ASSUME NEW p, Chain(l, p), NEW k \in Places, listIndex(k), asked' = <<"index", k>>
  PROVE  Abstract!Next
<1> DEFINE i == IF k < 0 THEN Len(p) + k + 1 ELSE k + 1
<1>1. Len(p) \in Nat /\ k \in Int /\ MaxNodes \in Nat /\ -MaxNodes - 1 <= k /\ k <= MaxNodes
  BY NodesAre DEF Chain, Distinct, Places
<1>2. i \in Int
  BY <1>1
<1>3. Answered(At(p, i), <<>>)
  <2>1. CASE k < 0
    <3> DEFINE m == -k - 1
    <3>1. m \in 0 .. MaxNodes /\ Len(p) - m = Len(p) + k + 1
      BY <1>1, <2>1
    <3>2. Answered(Steps(l.prev, l.tail)[m], <<>>)
      BY <2>1 DEF listIndex
    <3> HIDE DEF m
    <3>3. Steps(l.prev, l.tail)[m] = At(p, Len(p) - m)
      BY <3>1, ChainIs
    <3> QED BY <2>1, <3>1, <3>2, <3>3
  <2>2. CASE ~ (k < 0)
    <3>1. k \in 0 .. MaxNodes
      BY <1>1, <2>2
    <3>2. Answered(Steps(l.next, l.head)[k], <<>>)
      BY <2>2 DEF listIndex
    <3>3. Steps(l.next, l.head)[k] = At(p, k + 1)
      BY <3>1, ChainIs
    <3> QED BY <2>2, <3>2, <3>3
  <2> QED BY <2>1, <2>2
<1>4. Values' = Values /\ Place' = (IF i \in 1 .. Len(p) THEN i ELSE None) /\ copy' = <<>>
  <2> HIDE DEF i
  <2> QED BY <1>2, <1>3, AnswerIs
<1>5. Len(Values) = Len(p) /\ DOMAIN Values = 1 .. Len(p)
  BY ValuesAre
<1>6. Abstract!Index(k)
  BY <1>4, <1>5 DEF Abstract!Index, Abstract!Answer, Abstract!Call, Place
<1> QED BY <1>6 DEF Abstract!Next

\* The copy has the values of the list.
LEMMA DupMaps ==
  ASSUME NEW p, Chain(l, p), listDup, asked' = <<"dup">>
  PROVE  Abstract!Next
<1>1. At(p, 0) = None
  BY DEF At
<1>2. Answered(At(p, 0), Values)
  BY <1>1 DEF listDup, Values
<1>3. Values' = Values /\ Place' = None /\ copy' = Values
  BY <1>2, AnswerIs
<1>4. Abstract!Dup
  BY <1>3 DEF Abstract!Dup, Abstract!Call, Place
<1> QED BY <1>4 DEF Abstract!Next

\* The calls on the iterator change no value and answer none.
LEMMA IterationMaps ==
  ASSUME NEW p, Chain(l, p), IteratorCalls, asked' = <<"iterate">>
  PROVE  Abstract!Next
<1>1. Values' = Values
  BY OthersKeep, OthersKeepValues
<1>2. Place' = None /\ copy' = <<>>
  BY ChangeIs DEF IteratorCalls, listRewind, listRewindTail, Iterate, listNext, listReleaseIterator
<1>3. Abstract!Iterate
  BY <1>1, <1>2 DEF Abstract!Iterate, Abstract!Update, Abstract!Call, Place
<1> QED BY <1>3 DEF Abstract!Next

\* The linked list implements the sequence of values: whatever is linked, unlinked
\* or rotated, and whatever its iterator holds, every call of adlist.py changes
\* and answers what its arguments ask of a sequence.
THEOREM ListIsASequence == CallsSpec => RefinesListSeq
<1>1. CallsInit => Abstract!Init
  <2> SUFFICES ASSUME CallsInit PROVE Abstract!Init
    OBVIOUS
  <2>1. l = EmptyList /\ res = None /\ copy = <<>> /\ asked = <<>>
    BY DEF CallsInit, Init
  <2>2. Chain(l, <<>>)
    BY <2>1, EmptyIs
  <2>3. Values = <<>>
    BY <2>2, ValuesAre
  <2> QED BY <2>1, <2>3 DEF Abstract!Init
<1>2. ListInv /\ [CallsNext]_<<vars, asked>> => [Abstract!Next]_Abstract!vars
  <2> SUFFICES ASSUME ListInv, [CallsNext]_<<vars, asked>> PROVE [Abstract!Next]_Abstract!vars
    OBVIOUS
  <2> DEFINE p == Forward(l)
  <2>1. Chain(l, p)
    BY DEF ListInv
  <2> HIDE DEF p
  <2>2. Live(l) = NodesOf(p) /\ Len(p) \in Nat /\ l.len = Len(p)
    BY <2>1, ChainNodes DEF Chain
  <2>3. 1 \in 1 .. Len(p) + 1 /\ Len(p) + 1 \in 1 .. Len(p) + 1
    BY <2>2
  <2>4. ASSUME NEW v \in Vals, listAddNodeHead(v), asked' = <<"insert", 1, v>> PROVE Abstract!Next
    <3>1. Grows(p, 1, Min(FreeNodes), v) /\ \E s : Changed(s)
      BY <2>1, <2>4, HeadGrows DEF listAddNodeHead, Create
    <3> QED BY <2>1, <2>3, <2>4, <3>1, InsertionMaps
  <2>5. ASSUME NEW v \in Vals, listAddNodeTail(v), asked' = <<"insert", l.len + 1, v>> PROVE Abstract!Next
    <3>1. Grows(p, Len(p) + 1, Min(FreeNodes), v) /\ \E s : Changed(s)
      BY <2>1, <2>5, TailGrows DEF listAddNodeTail, Create
    <3> QED BY <2>1, <2>2, <2>3, <2>5, <3>1, InsertionMaps
  <2>6. ASSUME NEW j \in 1 .. Len(p), NEW v \in Vals, NEW after \in BOOLEAN, listInsertNode(p[j], v, after),
               asked' = <<"insert", IF after THEN Position(p[j]) + 1 ELSE Position(p[j]), v>>
        PROVE  Abstract!Next
    <3> DEFINE i == IF after THEN j + 1 ELSE j
    <3>1. i \in 1 .. Len(p) + 1
      BY <2>2
    <3>2. Grows(p, i, Min(FreeNodes), v) /\ \E s : Changed(s)
      BY <2>1, <2>6, NodeGrows DEF listInsertNode, Create
    <3>3. asked' = <<"insert", i, v>>
      BY <2>1, <2>6, PositionIs
    <3> HIDE DEF i
    <3> QED BY <2>1, <3>1, <3>2, <3>3, InsertionMaps
  <2>7. ASSUME NEW j \in 1 .. Len(p), listDelNode(p[j]), asked' = <<"delete", Position(p[j])>> PROVE Abstract!Next
    BY <2>1, <2>7, DeletionMaps
  <2>8. ASSUME NEW x \in Live(l) PROVE \E j \in 1 .. Len(p) : x = p[j]
    BY <2>2 DEF NodesOf
  <2>9. ASSUME NEW v \in Vals, listSearchKey(v), asked' = <<"search", v>> PROVE Abstract!Next
    BY <2>1, <2>9, SearchMaps
  <2>10. ASSUME NEW k \in Places, listIndex(k), asked' = <<"index", k>> PROVE Abstract!Next
    BY <2>1, <2>10, IndexMaps
  <2>11. CASE listRotate /\ asked' = <<"rotate">>
    BY <2>1, <2>11, RotationMaps
  <2>12. CASE listDup /\ asked' = <<"dup">>
    BY <2>1, <2>12, DupMaps
  <2>13. CASE IteratorCalls /\ asked' = <<"iterate">>
    BY <2>1, <2>13, IterationMaps
  <2>14. CASE UNCHANGED <<vars, asked>>
    <3>1. l' = l /\ res' = res /\ copy' = copy /\ asked' = asked
      BY <2>14 DEF vars
    <3>2. Values' = Values /\ Place' = Place
      BY <3>1 DEF Values, Place, Position
    <3> QED BY <3>1, <3>2 DEF Abstract!vars, Place
  <2>15. ASSUME NEW x \in Live(l), NEW v \in Vals, listInsertNode(x, v, FALSE),
                asked' = <<"insert", Position(x), v>>
         PROVE  Abstract!Next
    BY <2>6, <2>8, <2>15
  <2>16. ASSUME NEW x \in Live(l), NEW v \in Vals, listInsertNode(x, v, TRUE),
                asked' = <<"insert", Position(x) + 1, v>>
         PROVE  Abstract!Next
    BY <2>6, <2>8, <2>16
  <2>17. ASSUME NEW x \in Live(l), listDelNode(x), asked' = <<"delete", Position(x)>> PROVE Abstract!Next
    BY <2>7, <2>8, <2>17
  <2> QED BY <2>4, <2>5, <2>9, <2>10, <2>11, <2>12, <2>13, <2>14, <2>15, <2>16, <2>17 DEF CallsNext
<1>3. CallsInit /\ [][CallsNext]_<<vars, asked>> => []ListInv
  <2>1. CallsInit => Init
    BY DEF CallsInit
  <2>2. [CallsNext]_<<vars, asked>> => [Next]_vars
    BY DEF CallsNext, Next, ListCalls, vars
  <2> QED BY <2>1, <2>2, ListInvHolds, PTL DEF Spec
<1> QED BY <1>1, <1>2, <1>3, PTL DEF CallsSpec, RefinesListSeq, Abstract!Spec
================================================================================
