---------------------------- MODULE ZSkipListProofs ----------------------------
(***************************************************************************)
(* The skip list, for any objects, scores and number of levels: its nodes  *)
(* are a sequence in the order of the scores, through which every level    *)
(* jumps from one node that is high enough to the next.                    *)
(***************************************************************************)
EXTENDS ZSkipListCalls, CommonLemmas

-----------------------------------------------------------------------------
Lists == [level : Levels, length : Nat, tail : Objs \cup {None},
          height : [Objs -> 0 .. MaxLevel], score : [Objs -> Scores \cup {None}],
          backward : [Objs -> Objs \cup {None}],
          forward : [Places -> [Levels -> Objs \cup {None}]],
          span : [Places -> [Levels -> Int]]]

\* The node at a place of a sequence: the header in front of it, none behind its end.
Node(p, k) == IF k = 0 THEN Header ELSE p[k]
At(p, k) == IF k \in 1 .. Len(p) THEN p[k] ELSE None

Distinct(p) == p \in Seq(Objs) /\ \A j, k \in 1 .. Len(p) : p[j] = p[k] => j = k
InOrder(z, p) == \A j, k \in 1 .. Len(p) : j < k => NodeLt(z, p[j], z.score[p[k]], p[k])

\* Level i has a node at place k; none at all from a to b.
Tall(z, p, i, k) == k \in 1 .. Len(p) /\ z.height[p[k]] >= i
Low(z, p, i, a, b) == \A k \in a .. b : ~ Tall(z, p, i, k)
Stands(z, p, i, k) == k = 0 \/ Tall(z, p, i, k)

\* From place k the link of level i leads to place nx, or off the end, and its span
\* tells how far.
Jump(z, p, i, k, nx) ==
  /\ nx \in k + 1 .. Len(p) + 1 /\ Low(z, p, i, k + 1, nx - 1)
  /\ nx <= Len(p) => Tall(z, p, i, nx)
  /\ z.forward[Node(p, k)][i] = At(p, nx)
  /\ z.span[Node(p, k)][i] = (IF nx <= Len(p) THEN nx ELSE Len(p)) - k
Jumps(z, p, i) ==
  \A k \in 0 .. Len(p) : Stands(z, p, i, k) => \E nx \in 1 .. Len(p) + 1 : Jump(z, p, i, k, nx)

\* The sequence has the nodes of the list, with their scores.
Listed(z, p) ==
  /\ z \in Lists /\ Distinct(p) /\ InOrder(z, p) /\ z.length = Len(p)
  /\ \A o \in Objs : z.height[o] > 0 <=> \E k \in 1 .. Len(p) : p[k] = o
  /\ \A o \in Objs : z.height[o] > 0 <=> z.score[o] # None
Backed(z, p) ==
  z.tail = At(p, Len(p)) /\ \A k \in 1 .. Len(p) : z.backward[p[k]] = At(p, k - 1)
\* The level is that of the highest node; the header has no link above it.
Leveled(z) ==
  /\ \A o \in Objs : z.height[o] <= z.level
  /\ z.level = 1 \/ \E o \in Objs : z.height[o] = z.level
  /\ \A i \in z.level + 1 .. MaxLevel : z.forward[Header][i] = None
Skips(z, p) ==
  Listed(z, p) /\ Backed(z, p) /\ Leveled(z) /\ \A i \in 1 .. z.level : Jumps(z, p, i)

SkipInv == d = Nodes(zsl) /\ removed \in Nat /\ \E p \in Seq(Objs) : Skips(zsl, p)

\* Where a search for the first m nodes leaves each level.
Leaves(z, p, m, i, e) ==
  \E b \in 0 .. m : /\ e = [node |-> Node(p, b), rank |-> b]
                    /\ Stands(z, p, i, b) /\ Low(z, p, i, b + 1, m)
Path(z, p, m, path) == \A i \in Levels : Leaves(z, p, m, i, path[i])

-----------------------------------------------------------------------------
\* What the assumption on the constants says of the derived ones.
LEMMA Constants ==
  /\ Objs \subseteq Nat /\ IsFiniteSet(Objs) /\ Scores \subseteq Int
  /\ MaxLevel \in Nat /\ MaxLevel >= 1 /\ 1 \in Levels
  /\ Header = 0 /\ Header \in Places /\ Header \notin Objs /\ None \notin Places /\ None \notin Scores
  /\ Objs \subseteq Places /\ Cardinality(Objs) \in Nat
<1>1. Cardinality(Objs) \in Nat
  BY ZSkipListAssumption, FS_CardinalityType
<1> QED BY <1>1, ZSkipListAssumption DEF Header, Places, Levels

\* Distinct objects are no more than there are.
LEMMA DistinctFit ==
  ASSUME NEW p, Distinct(p)
  PROVE  /\ p \in Seq(Objs) /\ Len(p) \in Nat /\ Len(p) <= Cardinality(Objs)
         /\ \A k \in 1 .. Len(p) : p[k] \in Objs /\ p[k] # None /\ p[k] # Header
<1>1. p \in Seq(Objs) /\ Len(p) \in Nat /\ DOMAIN p = 1 .. Len(p)
  BY DEF Distinct
<1> DEFINE n == Len(p)
<1>2. IsFiniteSet(1 .. n) /\ Cardinality(1 .. n) = n
  <2>1. n \in Nat /\ 1 \in Int /\ n \in Int
    BY <1>1
  <2> HIDE DEF n
  <2>2. IsFiniteSet(1 .. n) /\ Cardinality(1 .. n) = IF 1 > n THEN 0 ELSE n - 1 + 1
    BY <2>1, FS_Interval
  <2> QED BY <2>1, <2>2
<1>3. p \in Injection(1 .. n, Objs)
  <2>1. p \in [1 .. n -> Objs]
    <3>1. p = [i \in 1 .. n |-> p[i]] /\ \A i \in 1 .. n : p[i] \in Objs
      BY <1>1
    <3> HIDE DEF n
    <3> QED BY <3>1
  <2>2. \A a, b \in DOMAIN p : p[a] = p[b] => a = b
    BY <1>1 DEF Distinct
  <2> QED BY <2>1, <2>2 DEF Injection, IsInjective
<1>4. Cardinality(1 .. n) <= Cardinality(Objs)
  <2> HIDE DEF n
  <2> QED BY <1>3, FS_Injection, ZSkipListAssumption
<1>5. \A k \in 1 .. Len(p) : p[k] \in Objs /\ p[k] # None /\ p[k] # Header
  <2> TAKE k \in 1 .. Len(p)
  <2>1. p[k] \in Objs
    BY <1>1
  <2> QED BY <2>1, Constants
<1> QED BY <1>1, <1>2, <1>4, <1>5

\* Of a prefix of the places, the last.
LEMMA CutExists ==
  ASSUME NEW n \in Nat, NEW T \in SUBSET (1 .. n),
         \A j, k \in 1 .. n : j < k /\ k \in T => j \in T
  PROVE  \E m \in 0 .. n : \A k \in 1 .. n : k \in T <=> k <= m
<1> DEFINE U == T \cup {0}
<1>1. U \in SUBSET (0 .. n) /\ U # {}
  OBVIOUS
<1>2. PICK m \in U : \A k \in U : m >= k
  <2> HIDE DEF U
  <2> QED BY <1>1, GreatestNatural
<1>3. m \in 0 .. n
  BY <1>1, <1>2
<1>4. ASSUME NEW k \in 1 .. n PROVE k \in T <=> k <= m
  <2>1. k \in T => k <= m
    BY <1>2, <1>3
  <2>2. k <= m /\ k # m => k \in T
    <3> SUFFICES ASSUME k <= m, k # m PROVE k \in T
      OBVIOUS
    <3>1. k < m /\ m \in T /\ m \in 1 .. n
      BY <1>2, <1>3
    <3> QED BY <3>1
  <2>3. k = m => k \in T
    BY <1>2
  <2> QED BY <2>1, <2>2, <2>3
<1> QED BY <1>3, <1>4

-----------------------------------------------------------------------------
Slides(at, z, i, from, goes, n) ==
  at = [k \in 0 .. n |-> IF k = 0 THEN from ELSE Forward(z, i, goes, at[k - 1])]

\* The recursive function of Slide exists.
LEMMA SlidesExist ==
  ASSUME NEW z, NEW i, NEW from, NEW goes, NEW n \in Nat
  PROVE  \E at : Slides(at, z, i, from, goes, n)
<1> DEFINE Bad == {m \in 0 .. n : ~ \E at : Slides(at, z, i, from, goes, m)}
<1>1. SUFFICES ASSUME Bad # {} PROVE FALSE
  OBVIOUS
<1>2. PICK m \in Bad : \A k \in Bad : m <= k
  <2>1. Bad \in SUBSET Nat
    OBVIOUS
  <2> HIDE DEF Bad
  <2> QED BY <1>1, <2>1, LeastNatural
<1>3. m # 0
  <2> DEFINE e == [k \in 0 .. 0 |-> from]
  <2>1. e = [k \in 0 .. 0 |-> IF k = 0 THEN from ELSE Forward(z, i, goes, e[k - 1])]
    OBVIOUS
  <2> HIDE DEF e
  <2>2. Slides(e, z, i, from, goes, 0)
    BY <2>1 DEF Slides
  <2> QED BY <2>2
<1>4. m \in Nat /\ m - 1 \in 0 .. n /\ m - 1 \notin Bad
  <2>1. m \in 0 .. n
    OBVIOUS
  <2> HIDE DEF Bad
  <2> QED BY <1>2, <1>3, <2>1
<1>5. PICK f : Slides(f, z, i, from, goes, m - 1)
  BY <1>4
<1> DEFINE last == Forward(z, i, goes, f[m - 1])
           g == [k \in 0 .. m |-> IF k = m THEN last ELSE f[k]]
<1>6. \A k \in 0 .. m - 1 : f[k] = IF k = 0 THEN from ELSE Forward(z, i, goes, f[k - 1])
  BY <1>5 DEF Slides
<1>7. ASSUME NEW k \in 0 .. m
      PROVE  g[k] = IF k = 0 THEN from ELSE Forward(z, i, goes, g[k - 1])
  <2>1. CASE k = m
    <3>1. g[m] = last /\ g[m - 1] = f[m - 1]
      BY <1>3, <1>4
    <3> QED BY <1>3, <2>1, <3>1
  <2>2. CASE k # m
    <3>1. k \in 0 .. m - 1 /\ g[k] = f[k]
      BY <1>4, <2>2
    <3>2. k # 0 => k - 1 \in 0 .. m /\ k - 1 # m
      BY <1>4, <2>2
    <3>3. k # 0 => g[k - 1] = f[k - 1]
      BY <3>2
    <3> HIDE DEF g
    <3> QED BY <1>6, <3>1, <3>3
  <2> QED BY <2>1, <2>2
<1>8. Slides(g, z, i, from, goes, m)
  <2> HIDE DEF last
  <2>1. g = [k \in 0 .. m |-> g[k]]
    OBVIOUS
  <2> HIDE DEF g
  <2> QED BY <2>1, <1>7 DEF Slides
<1> QED BY <1>8, <1>2

\* What a step forward meets: the next node that is high enough, if the search goes
\* there.
LEMMA ForwardIs ==
  ASSUME NEW z \in Lists, NEW p, Distinct(p), NEW i \in Levels, Jumps(z, p, i),
         NEW goes, NEW m \in 0 .. Len(p),
         \A k \in 1 .. Len(p) : <<p[k], k>> \in goes <=> k <= m,
         NEW b \in 0 .. m, Stands(z, p, i, b)
  PROVE  LET here == [node |-> Node(p, b), rank |-> b]
             there == Forward(z, i, goes, here)
         IN  \/ there = here /\ Low(z, p, i, b + 1, m)
             \/ \E c \in b + 1 .. m : there = [node |-> Node(p, c), rank |-> c] /\ Stands(z, p, i, c)
<1> DEFINE n == Len(p)
           here == [node |-> Node(p, b), rank |-> b]
           next == z.forward[Node(p, b)][i]
           rank == b + z.span[Node(p, b)][i]
<1>1. n \in Nat /\ \A k \in 1 .. n : p[k] # None
  BY DistinctFit
<1>2. PICK nx \in 1 .. n + 1 : Jump(z, p, i, b, nx)
  BY <1>1 DEF Jumps
<1>3. /\ nx \in b + 1 .. n + 1 /\ Low(z, p, i, b + 1, nx - 1)
      /\ nx <= n => Tall(z, p, i, nx)
      /\ next = At(p, nx) /\ z.span[Node(p, b)][i] = (IF nx <= n THEN nx ELSE n) - b
  BY <1>2 DEF Jump
<1>4. Forward(z, i, goes, here) =
        IF next # None /\ <<next, rank>> \in goes THEN [node |-> next, rank |-> rank] ELSE here
  BY DEF Forward
<1> HIDE DEF next, rank
<1>5. CASE nx <= m
  <2>1. nx \in 1 .. n /\ next = p[nx] /\ next # None
    BY <1>1, <1>3, <1>5 DEF At
  <2>2. rank = nx
    BY <1>1, <1>3, <2>1 DEF rank
  <2>3. <<next, rank>> \in goes
    BY <1>5, <2>1, <2>2
  <2>4. Node(p, nx) = next
    BY <2>1 DEF Node
  <2>5. Forward(z, i, goes, here) = [node |-> Node(p, nx), rank |-> nx]
    BY <1>4, <2>1, <2>2, <2>3, <2>4
  <2>6. nx \in b + 1 .. m /\ Stands(z, p, i, nx)
    BY <1>1, <1>3, <1>5, <2>1 DEF Stands
  <2> QED BY <2>5, <2>6
<1>6. CASE nx > m
  <2>1. Low(z, p, i, b + 1, m)
    BY <1>1, <1>3, <1>6 DEF Low
  <2>2. ~ (next # None /\ <<next, rank>> \in goes)
    <3>1. CASE nx <= n
      <4>1. nx \in 1 .. n /\ next = p[nx]
        BY <1>1, <1>3, <3>1 DEF At
      <4>2. rank = nx
        BY <1>1, <1>3, <3>1 DEF rank
      <4> QED BY <1>1, <1>6, <4>1, <4>2
    <3>2. CASE nx > n
      BY <1>1, <1>3, <3>2 DEF At
    <3> QED BY <1>1, <3>1, <3>2
  <2> QED BY <1>4, <2>1, <2>2
<1> QED BY <1>1, <1>5, <1>6

\* A search on one level ends at its last node among the first m.
LEMMA SlideIs ==
  ASSUME NEW z \in Lists, NEW p, Distinct(p), NEW i \in Levels, Jumps(z, p, i),
         NEW goes, NEW m \in 0 .. Len(p),
         \A k \in 1 .. Len(p) : <<p[k], k>> \in goes <=> k <= m,
         NEW a \in 0 .. m, Stands(z, p, i, a)
  PROVE  Leaves(z, p, m, i, Slide(z, i, [node |-> Node(p, a), rank |-> a], goes))
<1> DEFINE C == Cardinality(Objs)
           from == [node |-> Node(p, a), rank |-> a]
           at == CHOOSE at : Slides(at, z, i, from, goes, C)
           Here(b) == [node |-> Node(p, b), rank |-> b]
           Good(k) == \E b \in 0 .. m : /\ at[k] = Here(b) /\ Stands(z, p, i, b)
                                        /\ b >= k \/ Low(z, p, i, b + 1, m)
           Bad == {k \in 0 .. C : ~ Good(k)}
<1>1. C \in Nat /\ Len(p) \in Nat /\ Len(p) <= C
  BY Constants, DistinctFit
<1>2. Slide(z, i, from, goes) = at[C]
  BY DEF Slide, Slides
<1>3. Slides(at, z, i, from, goes, C)
  BY <1>1, SlidesExist
<1> HIDE DEF at
<1>4. \A k \in 0 .. C : at[k] = IF k = 0 THEN from ELSE Forward(z, i, goes, at[k - 1])
  BY <1>3 DEF Slides
<1>5. Bad = {}
  <2>1. SUFFICES ASSUME Bad # {} PROVE FALSE
    OBVIOUS
  <2>2. PICK k \in Bad : \A j \in Bad : k <= j
    <3>1. Bad \in SUBSET Nat
      BY <1>1
    <3> HIDE DEF Bad
    <3> QED BY <2>1, <3>1, LeastNatural
  <2>3. k \in 0 .. C /\ ~ Good(k)
    OBVIOUS
  <2>4. k # 0
    <3>1. at[0] = Here(a)
      BY <1>1, <1>4
    <3>2. Good(0)
      BY <3>1, <1>1
    <3> QED BY <2>3, <3>2
  <2>5. k - 1 \in 0 .. C /\ k - 1 \notin Bad
    <3> HIDE DEF Bad
    <3> QED BY <1>1, <2>2, <2>3, <2>4
  <2>6. PICK b \in 0 .. m : /\ at[k - 1] = Here(b) /\ Stands(z, p, i, b)
                            /\ b >= k - 1 \/ Low(z, p, i, b + 1, m)
    BY <2>5
  <2>7. at[k] = Forward(z, i, goes, Here(b))
    BY <1>4, <2>3, <2>4, <2>6
  <2>8. \/ at[k] = Here(b) /\ Low(z, p, i, b + 1, m)
        \/ \E c \in b + 1 .. m : at[k] = Here(c) /\ Stands(z, p, i, c)
    BY <2>6, <2>7, ForwardIs
  <2>9. CASE at[k] = Here(b) /\ Low(z, p, i, b + 1, m)
    BY <2>3, <2>6, <2>9
  <2>10. CASE \E c \in b + 1 .. m : at[k] = Here(c) /\ Stands(z, p, i, c)
    <3>1. PICK c \in b + 1 .. m : at[k] = Here(c) /\ Stands(z, p, i, c)
      BY <2>10
    <3>2. c \in 0 .. m
      BY <1>1
    <3>3. c >= k \/ Low(z, p, i, c + 1, m)
      <4>1. CASE b >= k - 1
        BY <1>1, <2>3, <4>1
      <4>2. CASE Low(z, p, i, b + 1, m)
        BY <1>1, <4>2 DEF Low
      <4> QED BY <2>6, <4>1, <4>2
    <3> HIDE DEF Here
    <3> QED BY <2>3, <3>1, <3>2, <3>3
  <2> QED BY <2>8, <2>9, <2>10
<1>6. Good(C)
  BY <1>1, <1>5
<1>7. PICK b \in 0 .. m : at[C] = Here(b) /\ Stands(z, p, i, b) /\ (b >= C \/ Low(z, p, i, b + 1, m))
  BY <1>6
<1>8. Low(z, p, i, b + 1, m)
  BY <1>1, <1>7 DEF Low
<1> QED BY <1>2, <1>7, <1>8 DEF Leaves

-----------------------------------------------------------------------------
Descends(path, z, goes, l) ==
  path = [i \in l .. MaxLevel + 1 |->
            IF i > z.level THEN [node |-> Header, rank |-> 0] ELSE Slide(z, i, path[i + 1], goes)]

\* The recursive function of Descend exists.
LEMMA DescendsExist ==
  ASSUME NEW z \in Lists, NEW goes
  PROVE  \E path : Descends(path, z, goes, 1)
<1> DEFINE M == MaxLevel + 1
           Good(l) == \E path : Descends(path, z, goes, l)
           Bad == {x \in 0 .. MaxLevel : ~ Good(M - x)}
<1>0. M \in Nat /\ MaxLevel \in Nat /\ z.level \in Nat /\ z.level <= MaxLevel /\ MaxLevel >= 1
  BY Constants DEF Lists, Levels
<1>1. Bad = {}
  <2>1. SUFFICES ASSUME Bad # {} PROVE FALSE
    OBVIOUS
  <2>2. PICK x \in Bad : \A y \in Bad : x <= y
    <3>1. Bad \in SUBSET Nat
      BY <1>0
    <3> HIDE DEF Bad
    <3> QED BY <2>1, <3>1, LeastNatural
  <2>3. x \in 0 .. MaxLevel /\ ~ Good(M - x)
    OBVIOUS
  <2>4. x # 0
    <3> DEFINE e == [i \in M .. MaxLevel + 1 |-> [node |-> Header, rank |-> 0]]
    <3>1. \A i \in M .. MaxLevel + 1 :
            e[i] = IF i > z.level THEN [node |-> Header, rank |-> 0] ELSE Slide(z, i, e[i + 1], goes)
      BY <1>0
    <3>2. e = [i \in M .. MaxLevel + 1 |-> e[i]]
      OBVIOUS
    <3> HIDE DEF e
    <3>3. Descends(e, z, goes, M)
      BY <3>1, <3>2 DEF Descends
    <3>4. M - 0 = M
      BY <1>0
    <3> QED BY <2>3, <3>3, <3>4
  <2> DEFINE l == M - x
  <2>5. x - 1 \in 0 .. MaxLevel /\ x - 1 \notin Bad /\ M - (x - 1) = l + 1
    <3> HIDE DEF Bad
    <3> QED BY <1>0, <2>2, <2>3, <2>4
  <2>6. PICK f : Descends(f, z, goes, l + 1)
    BY <2>5
  <2>7. l \in Nat /\ l < M
    BY <1>0, <2>3, <2>4
  <2> HIDE DEF l
  <2> DEFINE last == IF l > z.level THEN [node |-> Header, rank |-> 0] ELSE Slide(z, l, f[l + 1], goes)
             g == [i \in l .. MaxLevel + 1 |-> IF i = l THEN last ELSE f[i]]
  <2>8. \A i \in l + 1 .. MaxLevel + 1 :
          f[i] = IF i > z.level THEN [node |-> Header, rank |-> 0] ELSE Slide(z, i, f[i + 1], goes)
    BY <2>6 DEF Descends
  <2>9. ASSUME NEW i \in l .. MaxLevel + 1
        PROVE  g[i] = IF i > z.level THEN [node |-> Header, rank |-> 0] ELSE Slide(z, i, g[i + 1], goes)
    <3>1. CASE i = l
      <4>1. g[l] = last /\ g[l + 1] = f[l + 1]
        BY <1>0, <2>7
      <4> QED BY <3>1, <4>1
    <3>2. CASE i # l
      <4>1. i \in l + 1 .. MaxLevel + 1 /\ g[i] = f[i]
        BY <1>0, <2>7, <3>2
      <4>2. i <= z.level => i + 1 \in l .. MaxLevel + 1 /\ i + 1 # l
        BY <1>0, <2>7, <3>2
      <4>3. i <= z.level => g[i + 1] = f[i + 1]
        BY <4>2
      <4>4. i \in Nat /\ (i > z.level \/ i <= z.level)
        BY <1>0, <2>7
      <4> HIDE DEF g
      <4> QED BY <2>8, <4>1, <4>3, <4>4
    <3> QED BY <3>1, <3>2
  <2>10. Descends(g, z, goes, l)
    <3> HIDE DEF last
    <3>1. g = [i \in l .. MaxLevel + 1 |-> g[i]]
      OBVIOUS
    <3> HIDE DEF g
    <3> QED BY <3>1, <2>9 DEF Descends
  <2> QED BY <2>3, <2>10 DEF l
<1>2. MaxLevel \in 0 .. MaxLevel /\ M - MaxLevel = 1
  BY <1>0
<1> QED BY <1>1, <1>2

\* What it is on each level, and that it is a sequence.
LEMMA DescendStep ==
  ASSUME NEW z \in Lists, NEW goes
  PROVE  \E path : /\ \A i \in 1 .. MaxLevel + 1 :
                        path[i] = IF i > z.level THEN [node |-> Header, rank |-> 0]
                                  ELSE Slide(z, i, path[i + 1], goes)
                   /\ \A i \in Levels : Descend(z, goes)[i] = path[i]
<1> DEFINE path == CHOOSE path : Descends(path, z, goes, 1)
           S == {path[i] : i \in 1 .. MaxLevel + 1}
<1>0. MaxLevel \in Nat /\ MaxLevel >= 1 /\ Levels = 1 .. MaxLevel
  BY Constants DEF Levels
<1>1. Descend(z, goes) = SubSeq(path, 1, MaxLevel)
  BY DEF Descend, Descends
<1>2. Descends(path, z, goes, 1)
  BY DescendsExist
<1> HIDE DEF path
<1>3. \A i \in 1 .. MaxLevel + 1 :
        path[i] = IF i > z.level THEN [node |-> Header, rank |-> 0] ELSE Slide(z, i, path[i + 1], goes)
  BY <1>2 DEF Descends
<1>4. path \in Seq(S) /\ Len(path) = MaxLevel + 1
  <2>1. path = [i \in 1 .. MaxLevel + 1 |-> path[i]]
    BY <1>2, <1>3 DEF Descends
  <2>2. MaxLevel + 1 \in Nat /\ \A i \in 1 .. MaxLevel + 1 : path[i] \in S
    BY <1>0
  <2> HIDE DEF S
  <2> QED BY <2>1, <2>2
<1>5. \A i \in Levels : SubSeq(path, 1, MaxLevel)[i] = path[i]
  <2>1. \A i \in 1 .. MaxLevel : path[i] \in S
    BY <1>0
  <2> HIDE DEF S
  <2>2. \A i \in 1 .. MaxLevel - 1 + 1 : SubSeq(path, 1, MaxLevel)[i] = path[1 + i - 1]
    BY <1>0, <1>4, <2>1, SubSeqProperties
  <2> QED BY <1>0, <2>2
<1> QED BY <1>1, <1>3, <1>5

\* A search of the whole list for its first m nodes leaves every level at the last
\* of them there, and the lowest at place m.
LEMMA DescendIs ==
  ASSUME NEW z, NEW p, Skips(z, p), NEW goes, NEW m \in 0 .. Len(p),
         \A k \in 1 .. Len(p) : <<p[k], k>> \in goes <=> k <= m
  PROVE  Path(z, p, m, Descend(z, goes))
<1>0. /\ z \in Lists /\ Distinct(p) /\ Leveled(z) /\ \A i \in 1 .. z.level : Jumps(z, p, i)
      /\ z.level \in Levels
  BY DEF Skips, Listed, Lists
<1>1. MaxLevel \in Nat /\ Levels = 1 .. MaxLevel /\ Len(p) \in Nat /\ \A o \in Objs : z.height[o] \in Nat
  BY <1>0, Constants, DistinctFit DEF Levels, Lists
<1>2. PICK path : /\ \A i \in 1 .. MaxLevel + 1 :
                       path[i] = IF i > z.level THEN [node |-> Header, rank |-> 0]
                                 ELSE Slide(z, i, path[i + 1], goes)
                  /\ \A i \in Levels : Descend(z, goes)[i] = path[i]
  BY <1>0, DescendStep
<1> DEFINE Bad == {i \in 1 .. MaxLevel + 1 : ~ Leaves(z, p, m, i, path[i])}
<1>3. ASSUME NEW i \in 1 .. MaxLevel + 1, i > z.level PROVE Leaves(z, p, m, i, path[i])
  <2>1. path[i] = [node |-> Node(p, 0), rank |-> 0]
    BY <1>2, <1>3 DEF Node
  <2>2. \A k \in 1 .. Len(p) : ~ Tall(z, p, i, k)
    <3> TAKE k \in 1 .. Len(p)
    <3>1. p[k] \in Objs
      BY <1>0, DistinctFit
    <3>2. z.height[p[k]] <= z.level
      BY <1>0, <3>1 DEF Leveled
    <3> QED BY <1>0, <1>1, <1>3, <3>1, <3>2 DEF Tall
  <2>3. Low(z, p, i, 0 + 1, m) /\ Stands(z, p, i, 0) /\ 0 \in 0 .. m
    BY <1>1, <2>2 DEF Low, Stands
  <2> QED BY <2>1, <2>3 DEF Leaves
<1>4. Bad = {}
  <2>1. SUFFICES ASSUME Bad # {} PROVE FALSE
    OBVIOUS
  <2>2. PICK i \in Bad : \A j \in Bad : i >= j
    <3>1. Bad \in SUBSET (0 .. MaxLevel + 1) /\ MaxLevel + 1 \in Nat
      BY <1>1
    <3> HIDE DEF Bad
    <3> QED BY <2>1, <3>1, GreatestNatural
  <2>3. i \in 1 .. MaxLevel + 1 /\ ~ Leaves(z, p, m, i, path[i])
    OBVIOUS
  <2>4. i <= z.level /\ i \in 1 .. z.level /\ i \in Levels /\ i + 1 \in 1 .. MaxLevel + 1
    BY <1>0, <1>1, <1>3, <2>3
  <2>5. Leaves(z, p, m, i + 1, path[i + 1])
    <3>1. i + 1 \notin Bad
      <4> HIDE DEF Bad
      <4> QED BY <1>1, <2>2, <2>3
    <3> QED BY <2>4, <3>1
  <2>6. PICK a \in 0 .. m : path[i + 1] = [node |-> Node(p, a), rank |-> a] /\ Stands(z, p, i + 1, a)
    BY <2>5 DEF Leaves
  <2>7. Stands(z, p, i, a)
    <3>1. \A k \in 1 .. Len(p) : z.height[p[k]] \in Nat
      BY <1>0, <1>1, DistinctFit
    <3> QED BY <1>1, <2>4, <2>6, <3>1 DEF Stands, Tall
  <2>8. path[i] = Slide(z, i, path[i + 1], goes)
    BY <1>0, <1>1, <1>2, <2>3, <2>4
  <2>9. Leaves(z, p, m, i, Slide(z, i, [node |-> Node(p, a), rank |-> a], goes))
    BY <1>0, <2>4, <2>7, SlideIs
  <2> QED BY <2>3, <2>6, <2>8, <2>9
<1>5. \A i \in Levels : Leaves(z, p, m, i, path[i])
  BY <1>1, <1>4
<1> QED BY <1>2, <1>5 DEF Path

\* On the lowest level every node stands.
LEMMA PathAtLowest ==
  ASSUME NEW z, NEW p, Listed(z, p), NEW m \in 0 .. Len(p), NEW path, Path(z, p, m, path)
  PROVE  path[1] = [node |-> Node(p, m), rank |-> m]
<1>1. z \in Lists /\ Distinct(p) /\ 1 \in Levels /\ Len(p) \in Nat
  BY Constants, DistinctFit DEF Listed
<1>2. \A k \in 1 .. Len(p) : Tall(z, p, 1, k)
  <2> TAKE k \in 1 .. Len(p)
  <2>1. p[k] \in Objs
    BY <1>1, DistinctFit
  <2>2. z.height[p[k]] > 0 /\ z.height[p[k]] \in Nat
    <3>1. z.height[p[k]] > 0
      BY <2>1 DEF Listed
    <3>2. z.height[p[k]] \in 0 .. MaxLevel
      BY <1>1, <2>1 DEF Lists
    <3> QED BY <3>1, <3>2, Constants
  <2> QED BY <2>2 DEF Tall
<1>3. PICK b \in 0 .. m : path[1] = [node |-> Node(p, b), rank |-> b] /\ Low(z, p, 1, b + 1, m)
  BY <1>1 DEF Path, Leaves
<1>4. b = m
  <2>1. b < m => m \in b + 1 .. m /\ m \in 1 .. Len(p)
    BY <1>1
  <2> QED BY <1>1, <1>2, <1>3, <2>1 DEF Low
<1> QED BY <1>3, <1>4

\* On the lowest level each node is followed by the next.
LEMMA LowestLinks ==
  ASSUME NEW z, NEW p, Listed(z, p), Jumps(z, p, 1), NEW k \in 0 .. Len(p)
  PROVE  z.forward[Node(p, k)][1] = At(p, k + 1)
<1>0. /\ z \in Lists /\ Distinct(p) /\ Len(p) \in Nat /\ \A j \in 1 .. Len(p) : p[j] \in Objs
  BY DistinctFit DEF Listed
<1>1. \A j \in 1 .. Len(p) : Tall(z, p, 1, j)
  <2> TAKE j \in 1 .. Len(p)
  <2>1. p[j] \in Objs
    BY <1>0
  <2>2. z.height[p[j]] > 0 /\ z.height[p[j]] \in 0 .. MaxLevel
    BY <1>0, <2>1 DEF Listed, Lists
  <2> QED BY <2>2, Constants DEF Tall
<1>2. Stands(z, p, 1, k)
  BY <1>0, <1>1 DEF Stands
<1>3. PICK x \in 1 .. Len(p) + 1 : Jump(z, p, 1, k, x)
  BY <1>0, <1>2 DEF Jumps
<1>4. x = k + 1
  <2> SUFFICES ASSUME x # k + 1 PROVE FALSE
    OBVIOUS
  <2>1. x \in k + 1 .. Len(p) + 1 /\ Low(z, p, 1, k + 1, x - 1)
    BY <1>3 DEF Jump
  <2>2. k + 1 \in k + 1 .. x - 1 /\ k + 1 \in 1 .. Len(p)
    BY <1>0, <2>1
  <2> QED BY <1>1, <2>1, <2>2 DEF Low
<1> QED BY <1>3, <1>4 DEF Jump

-----------------------------------------------------------------------------
\* The list without the type of its fields: what raising it, splicing a node in and
\* linking it back make of each.
LEMMA RaisedIs ==
  ASSUME NEW z \in Lists, NEW h \in Levels
  PROVE  /\ Raised(z, h) \in Lists
         /\ Raised(z, h).level = IF h > z.level THEN h ELSE z.level
         /\ Raised(z, h).length = z.length /\ Raised(z, h).tail = z.tail
         /\ Raised(z, h).height = z.height /\ Raised(z, h).score = z.score
         /\ Raised(z, h).backward = z.backward /\ Raised(z, h).forward = z.forward
         /\ \A q \in Places, i \in Levels :
              Raised(z, h).span[q][i] =
                IF q = Header /\ i \in z.level + 1 .. h THEN z.length ELSE z.span[q][i]
<1>1. /\ z.span \in [Places -> [Levels -> Int]] /\ z.length \in Nat /\ z.level \in Levels
      /\ Header \in Places
  BY Constants DEF Lists
<1> DEFINE row == [i \in Levels |-> IF i \in z.level + 1 .. h THEN z.length ELSE z.span[Header][i]]
           span == [z.span EXCEPT ![Header] = row]
           level == IF h > z.level THEN h ELSE z.level
<1>2. row \in [Levels -> Int]
  BY <1>1
<1>3. Raised(z, h) = [z EXCEPT !.level = level, !.span = span]
  BY <1>1 DEF Raised, Lists
<1>4. level \in Levels
  BY <1>1
<1>5. span \in [Places -> [Levels -> Int]]
  <2> HIDE DEF row
  <2> QED BY <1>1, <1>2
<1>6. \A q \in Places, i \in Levels :
        span[q][i] = IF q = Header /\ i \in z.level + 1 .. h THEN z.length ELSE z.span[q][i]
  <2>1. \A q \in Places : span[q] = IF q = Header THEN row ELSE z.span[q]
    <3> HIDE DEF row
    <3> QED BY <1>1
  <2> HIDE DEF span
  <2> QED BY <2>1
<1> HIDE DEF span, level
<1>7. [z EXCEPT !.level = level, !.span = span] \in Lists
  BY <1>4, <1>5 DEF Lists
<1>8. LET u == [z EXCEPT !.level = level, !.span = span]
      IN  /\ u.level = level /\ u.span = span /\ u.length = z.length /\ u.tail = z.tail
          /\ u.height = z.height /\ u.score = z.score
          /\ u.backward = z.backward /\ u.forward = z.forward
  BY DEF Lists
<1> QED BY <1>3, <1>6, <1>7, <1>8 DEF level

\* A path that does not go through o.
Around(path, o) == \A i \in Levels : path[i].node \in Places \ {o} /\ path[i].rank \in Int

\* What splicing a node in makes of the links and spans.
SplicedFields(u, z, path, o, h) ==
  /\ u \in Lists /\ u.level = z.level /\ u.length = z.length /\ u.tail = z.tail
  /\ u.height = z.height /\ u.score = z.score /\ u.backward = z.backward
  /\ \A q \in Places, i \in Levels :
       u.forward[q][i] =
         IF i <= h /\ q = path[i].node THEN o
         ELSE IF i <= h /\ q = o THEN z.forward[path[i].node][i] ELSE z.forward[q][i]
  /\ \A q \in Places, i \in Levels :
       u.span[q][i] =
         IF i <= h /\ q = path[i].node THEN path[1].rank - path[i].rank + 1
         ELSE IF i <= h /\ q = o THEN z.span[path[i].node][i] - (path[1].rank - path[i].rank)
         ELSE IF i \in h + 1 .. z.level /\ q = path[i].node THEN z.span[q][i] + 1
         ELSE z.span[q][i]

\* Splicing does.
LEMMA SplicedIs ==
  ASSUME NEW z \in Lists, NEW o \in Objs, NEW h \in Levels, NEW path, Around(path, o)
  PROVE  SplicedFields(Spliced(z, path, o, h), z, path, o, h)
<1> DEFINE before(i) == path[1].rank - path[i].rank
           Link(q, i) == CASE i <= h /\ q = path[i].node -> o
                           [] i <= h /\ q = o -> z.forward[path[i].node][i]
                           [] OTHER -> z.forward[q][i]
           Span(q, i) == CASE i <= h /\ q = path[i].node -> before(i) + 1
                           [] i <= h /\ q = o -> z.span[path[i].node][i] - before(i)
                           [] i \in h + 1 .. z.level /\ q = path[i].node -> z.span[q][i] + 1
                           [] OTHER -> z.span[q][i]
           Link1(q, i) == IF i <= h /\ q = path[i].node THEN o
                          ELSE IF i <= h /\ q = o THEN z.forward[path[i].node][i] ELSE z.forward[q][i]
           Span1(q, i) ==
             IF i <= h /\ q = path[i].node THEN path[1].rank - path[i].rank + 1
             ELSE IF i <= h /\ q = o THEN z.span[path[i].node][i] - (path[1].rank - path[i].rank)
             ELSE IF i \in h + 1 .. z.level /\ q = path[i].node THEN z.span[q][i] + 1
             ELSE z.span[q][i]
           forward == [q \in Places |-> [i \in Levels |-> Link1(q, i)]]
           span == [q \in Places |-> [i \in Levels |-> Span1(q, i)]]
<1>1. /\ z.forward \in [Places -> [Levels -> Objs \cup {None}]]
      /\ z.span \in [Places -> [Levels -> Int]] /\ z.level \in Nat
      /\ 1 \in Levels /\ h \in Nat /\ Levels \subseteq Nat
  BY Constants DEF Lists, Levels
<1>2. ASSUME NEW q \in Places, NEW i \in Levels
      PROVE  /\ Link(q, i) = Link1(q, i) /\ Span(q, i) = Span1(q, i)
             /\ Link1(q, i) \in Objs \cup {None} /\ Span1(q, i) \in Int
  <2>1. path[i].node # o /\ path[i].node \in Places
    BY DEF Around
  <2>2. /\ z.forward[q][i] \in Objs \cup {None} /\ z.forward[path[i].node][i] \in Objs \cup {None}
        /\ z.span[q][i] \in Int /\ z.span[path[i].node][i] \in Int
    BY <1>1, <2>1
  <2>3. path[1].rank \in Int /\ path[i].rank \in Int
    BY <1>1 DEF Around
  <2>4. Link(q, i) = Link1(q, i)
    BY <2>1
  <2>5. i \in h + 1 .. z.level => ~ (i <= h)
    BY <1>1
  <2>6. Span(q, i) = Span1(q, i)
    BY <2>1, <2>5
  <2> QED BY <2>2, <2>3, <2>4, <2>6
<1>3. /\ [q \in Places |-> [i \in Levels |-> Link(q, i)]] = forward
      /\ [q \in Places |-> [i \in Levels |-> Span(q, i)]] = span
  <2> HIDE DEF Link, Link1, Span, Span1
  <2> QED BY <1>2
<1>4. Spliced(z, path, o, h) =
        [z EXCEPT !.forward = [q \in Places |-> [i \in Levels |-> Link(q, i)]],
                  !.span = [q \in Places |-> [i \in Levels |-> Span(q, i)]]]
  BY DEF Spliced
<1>5. Spliced(z, path, o, h) = [z EXCEPT !.forward = forward, !.span = span]
  <2> HIDE DEF forward, span, Link, Span
  <2> QED BY <1>3, <1>4
<1>6. forward \in [Places -> [Levels -> Objs \cup {None}]] /\ span \in [Places -> [Levels -> Int]]
  <2> HIDE DEF Link, Link1, Span, Span1
  <2> QED BY <1>2
<1>7. \A q \in Places, i \in Levels : forward[q][i] = Link1(q, i) /\ span[q][i] = Span1(q, i)
  <2> HIDE DEF Link1, Span1
  <2> QED OBVIOUS
<1> HIDE DEF forward, span
<1>8. LET u == [z EXCEPT !.forward = forward, !.span = span]
      IN  /\ u \in Lists /\ u.level = z.level /\ u.length = z.length /\ u.tail = z.tail
          /\ u.height = z.height /\ u.score = z.score /\ u.backward = z.backward
          /\ u.forward = forward /\ u.span = span
  BY <1>6 DEF Lists
<1> QED BY <1>5, <1>7, <1>8 DEF SplicedFields

\* What the backward link becomes.
BackFields(u, z, n, b) ==
  /\ u \in Lists /\ u.level = z.level /\ u.length = z.length
  /\ u.height = z.height /\ u.score = z.score
  /\ u.forward = z.forward /\ u.span = z.span
  /\ u.tail = IF n # None THEN z.tail ELSE b
  /\ \A q \in Objs : u.backward[q] = IF q = n THEN b ELSE z.backward[q]

\* Linking back does.
LEMMA LinkedBackIs ==
  ASSUME NEW z \in Lists, NEW n \in Objs \cup {None}, NEW b \in Objs \cup {None}
  PROVE  BackFields(LinkedBack(z, n, b), z, n, b)
<1>0. None \notin Objs
  BY Constants
<1>1. CASE n # None
  <2> DEFINE back == [z.backward EXCEPT ![n] = b]
  <2>1. back \in [Objs -> Objs \cup {None}] /\ \A q \in Objs : back[q] = IF q = n THEN b ELSE z.backward[q]
    BY <1>1 DEF Lists
  <2>2. LinkedBack(z, n, b) = [z EXCEPT !.backward = back]
    BY <1>1 DEF LinkedBack, Lists
  <2> HIDE DEF back
  <2>3. LET u == [z EXCEPT !.backward = back]
        IN  /\ u \in Lists /\ u.level = z.level /\ u.length = z.length
            /\ u.height = z.height /\ u.score = z.score
            /\ u.forward = z.forward /\ u.span = z.span /\ u.tail = z.tail /\ u.backward = back
    BY <2>1 DEF Lists
  <2> QED BY <1>1, <2>1, <2>2, <2>3 DEF BackFields
<1>2. CASE n = None
  <2>1. LinkedBack(z, n, b) = [z EXCEPT !.tail = b]
    BY <1>2 DEF LinkedBack
  <2>2. LET u == [z EXCEPT !.tail = b]
        IN  /\ u \in Lists /\ u.level = z.level /\ u.length = z.length
            /\ u.height = z.height /\ u.score = z.score
            /\ u.forward = z.forward /\ u.span = z.span /\ u.tail = b /\ u.backward = z.backward
    BY DEF Lists
  <2> QED BY <1>0, <1>2, <2>1, <2>2 DEF BackFields
<1> QED BY <1>1, <1>2

\* All fields of the list z with a node more.
InsertedFields(u, z, path, s, o, h) ==
  LET nx == z.forward[path[1].node][1]
      b == IF path[1].node = Header THEN None ELSE path[1].node
  IN  /\ u \in Lists /\ u.level = z.level /\ u.length = z.length + 1
      /\ \A q \in Objs : u.height[q] = IF q = o THEN h ELSE z.height[q]
      /\ \A q \in Objs : u.score[q] = IF q = o THEN s ELSE z.score[q]
      /\ u.tail = IF nx # None THEN z.tail ELSE o
      /\ \A q \in Objs : u.backward[q] = IF q = nx THEN o ELSE IF q = o THEN b ELSE z.backward[q]
      /\ \A q \in Places, i \in Levels :
           u.forward[q][i] =
             IF i <= h /\ q = path[i].node THEN o
             ELSE IF i <= h /\ q = o THEN z.forward[path[i].node][i] ELSE z.forward[q][i]
      /\ \A q \in Places, i \in Levels :
           u.span[q][i] =
             IF i <= h /\ q = path[i].node THEN path[1].rank - path[i].rank + 1
             ELSE IF i <= h /\ q = o THEN z.span[path[i].node][i] - (path[1].rank - path[i].rank)
             ELSE IF i \in h + 1 .. z.level /\ q = path[i].node THEN z.span[q][i] + 1
             ELSE z.span[q][i]

\* Inserting raises the list and gives it a node more.
LEMMA InsertedAre ==
  ASSUME NEW z \in Lists, NEW s \in Scores, NEW o \in Objs, NEW h \in Levels, NEW path,
         path = PathTo(z, s, o), Around(path, o)
  PROVE  InsertedFields(Inserted(z, s, o, h), Raised(z, h), path, s, o, h)
<1> DEFINE r == Raised(z, h)
           t == Spliced(r, path, o, h)
           b == IF path[1].node = Header THEN None ELSE path[1].node
           height == [t.height EXCEPT ![o] = h]
           score == [t.score EXCEPT ![o] = s]
           back == [t.backward EXCEPT ![o] = b]
           v == [t EXCEPT !.height = height, !.score = score, !.length = t.length + 1, !.backward = back]
           nx == t.forward[o][1]
<1>0. 1 \in Levels /\ h \in Nat /\ h >= 1 /\ o \in Places /\ MaxLevel \in Nat /\ Header \notin Objs
  BY Constants DEF Levels
<1>1. r \in Lists
  BY RaisedIs
<1>2. SplicedFields(t, r, path, o, h)
  BY <1>1, SplicedIs
<1>3. Inserted(z, s, o, h) = LinkedBack(v, nx, o)
  <2>1. [t EXCEPT !.height[o] = h, !.score[o] = s, !.length = @ + 1,
                  !.backward[o] = IF path[1].node = Header THEN None ELSE path[1].node] = v
    <3> HIDE DEF t
    <3> QED BY <1>2 DEF Lists, SplicedFields
  <2> QED BY <2>1 DEF Inserted, t, r
<1> HIDE DEF t, r
<1>4. nx = r.forward[path[1].node][1] /\ nx \in Objs \cup {None}
  <2>1. path[1].node # o /\ 1 <= h
    BY <1>0 DEF Around
  <2>2. nx = r.forward[path[1].node][1]
    BY <1>0, <1>2, <2>1 DEF SplicedFields
  <2>3. r.forward[path[1].node][1] \in Objs \cup {None}
    <3>1. path[1].node \in Places
      BY <1>0 DEF Around
    <3> QED BY <1>0, <1>1, <3>1 DEF Lists
  <2> QED BY <2>2, <2>3
<1> HIDE DEF nx
<1>5. b \in Objs \cup {None}
  <2>1. path[1].node \in Places
    BY <1>0 DEF Around
  <2> QED BY <2>1 DEF Places
<1> HIDE DEF b
<1>6. t \in Lists
  BY <1>2 DEF SplicedFields
<1>7. height \in [Objs -> 0 .. MaxLevel] /\ \A q \in Objs : height[q] = IF q = o THEN h ELSE t.height[q]
  <2>1. h \in 0 .. MaxLevel
    BY <1>0 DEF Levels
  <2> QED BY <1>6, <2>1 DEF Lists
<1>8. score \in [Objs -> Scores \cup {None}] /\ \A q \in Objs : score[q] = IF q = o THEN s ELSE t.score[q]
  BY <1>6 DEF Lists
<1>9. back \in [Objs -> Objs \cup {None}] /\ \A q \in Objs : back[q] = IF q = o THEN b ELSE t.backward[q]
  BY <1>5, <1>6 DEF Lists
<1> HIDE DEF height, score, back
<1>10. /\ v \in Lists /\ v.level = t.level /\ v.length = t.length + 1 /\ v.tail = t.tail
       /\ v.height = height /\ v.score = score /\ v.backward = back
       /\ v.forward = t.forward /\ v.span = t.span
  <2>1. /\ height \in [Objs -> 0 .. MaxLevel] /\ score \in [Objs -> Scores \cup {None}]
        /\ back \in [Objs -> Objs \cup {None}]
    BY <1>7, <1>8, <1>9
  <2>2. t.length + 1 \in Nat
    BY <1>6 DEF Lists
  <2> QED BY <1>6, <2>1, <2>2 DEF Lists
<1> HIDE DEF v
<1> DEFINE u == LinkedBack(v, nx, o)
<1>11. BackFields(u, v, nx, o)
  BY <1>4, <1>10, LinkedBackIs
<1> HIDE DEF u
<1>12. \A q \in Objs : /\ u.height[q] = (IF q = o THEN h ELSE r.height[q])
                       /\ u.score[q] = (IF q = o THEN s ELSE r.score[q])
                       /\ u.backward[q] = IF q = nx THEN o ELSE IF q = o THEN b ELSE r.backward[q]
  BY <1>2, <1>7, <1>8, <1>9, <1>10, <1>11 DEF BackFields, SplicedFields
<1>13. /\ u \in Lists /\ u.level = r.level /\ u.length = r.length + 1
       /\ u.tail = IF nx # None THEN r.tail ELSE o
  BY <1>2, <1>10, <1>11 DEF BackFields, SplicedFields
<1>14. u.forward = t.forward /\ u.span = t.span
  BY <1>10, <1>11 DEF BackFields
<1>15. Inserted(z, s, o, h) = u
  BY <1>3 DEF u
<1> QED BY <1>2, <1>4, <1>12, <1>13, <1>14, <1>15 DEF b, r, InsertedFields, SplicedFields

-----------------------------------------------------------------------------
\* A sequence with o behind its first m elements.
Added(q, p, m, o) ==
  /\ q \in Seq(Objs) /\ Len(q) = Len(p) + 1
  /\ \A k \in 1 .. Len(p) + 1 :
       q[k] = IF k <= m THEN p[k] ELSE IF k = m + 1 THEN o ELSE p[k - 1]

\* InsertAt makes it.
LEMMA InsertAtAdds ==
  ASSUME NEW p, Distinct(p), NEW m \in 0 .. Len(p), NEW o \in Objs
  PROVE  Added(InsertAt(p, m + 1, o), p, m, o)
<1>1. p \in Seq(Objs) /\ Len(p) \in Nat /\ m + 1 \in 1 .. Len(p) + 1
  BY DistinctFit
<1> DEFINE q == InsertAt(p, m + 1, o)
<1>2. /\ q \in Seq(Objs) /\ Len(q) = Len(p) + 1
      /\ \A j \in 1 .. Len(p) + 1 : q[j] = IF j < m + 1 THEN p[j] ELSE IF j = m + 1 THEN o ELSE p[j - 1]
  BY <1>1, InsertAtIs
<1> HIDE DEF q
<1>3. \A j \in 1 .. Len(p) + 1 : j < m + 1 <=> j <= m
  BY <1>1
<1>4. Added(q, p, m, o)
  BY <1>2, <1>3 DEF Added
<1> QED BY <1>4 DEF q

\* Which places are high enough in a list with a node more.
LEMMA TallAdded ==
  ASSUME NEW z \in Lists, NEW u \in Lists, NEW p, Distinct(p), NEW m \in 0 .. Len(p),
         NEW o \in Objs, NEW h \in Levels, NEW q, Added(q, p, m, o),
         \A k \in 1 .. Len(p) : p[k] # o,
         \A x \in Objs : u.height[x] = IF x = o THEN h ELSE z.height[x],
         NEW i \in Levels
  PROVE  /\ \A k \in 1 .. m : Tall(u, q, i, k) <=> Tall(z, p, i, k)
         /\ Tall(u, q, i, m + 1) <=> i <= h
         /\ \A k \in m + 2 .. Len(p) + 1 : Tall(u, q, i, k) <=> Tall(z, p, i, k - 1)
         /\ Node(q, m + 1) = o /\ \A k \in 0 .. m : Node(q, k) = Node(p, k)
         /\ \A k \in m + 2 .. Len(p) + 1 : Node(q, k) = Node(p, k - 1)
<1>1. Len(p) \in Nat /\ Len(q) = Len(p) + 1 /\ \A k \in 1 .. Len(p) : p[k] \in Objs
  BY DistinctFit DEF Added
<1>2. /\ \A k \in 1 .. m : q[k] = p[k] /\ k \in 1 .. Len(p) /\ k \in 1 .. Len(q)
      /\ q[m + 1] = o /\ m + 1 \in 1 .. Len(q)
      /\ \A k \in m + 2 .. Len(p) + 1 : q[k] = p[k - 1] /\ k - 1 \in 1 .. Len(p) /\ k \in 1 .. Len(q)
  BY <1>1 DEF Added
<1>3. \A k \in 1 .. Len(p) : u.height[p[k]] = z.height[p[k]]
  BY <1>1
<1>4. \A k \in 1 .. m : Tall(u, q, i, k) <=> Tall(z, p, i, k)
  BY <1>2, <1>3 DEF Tall
<1>5. \A k \in m + 2 .. Len(p) + 1 : Tall(u, q, i, k) <=> Tall(z, p, i, k - 1)
  BY <1>2, <1>3 DEF Tall
<1>6. Tall(u, q, i, m + 1) <=> i <= h
  <2>1. u.height[q[m + 1]] = h /\ h \in Nat /\ i \in Nat
    BY <1>2 DEF Levels
  <2> QED BY <1>2, <2>1 DEF Tall
<1>7. \A k \in m + 2 .. Len(p) + 1 : Node(q, k) = Node(p, k - 1)
  BY <1>1, <1>2 DEF Node
<1>8. \A k \in 0 .. m : Node(q, k) = Node(p, k)
  BY <1>1, <1>2 DEF Node
<1>9. Node(q, m + 1) = o
  BY <1>1, <1>2 DEF Node
<1> QED BY <1>4, <1>5, <1>6, <1>7, <1>8, <1>9

\* The link over the end of the search for the first m nodes leads beyond them.
LEMMA OverTheEnd ==
  ASSUME NEW z, NEW p, Distinct(p), NEW i, Jumps(z, p, i), NEW m \in 0 .. Len(p),
         NEW b \in 0 .. m, Stands(z, p, i, b), Low(z, p, i, b + 1, m)
  PROVE  \E nx \in m + 1 .. Len(p) + 1 : Jump(z, p, i, b, nx)
<1>1. Len(p) \in Nat
  BY DistinctFit
<1>2. PICK nx \in 1 .. Len(p) + 1 : Jump(z, p, i, b, nx)
  BY <1>1 DEF Jumps
<1>3. nx > m
  <2> SUFFICES ASSUME nx <= m PROVE FALSE
    BY <1>1
  <2>1. Tall(z, p, i, nx) /\ nx \in b + 1 .. m
    BY <1>1, <1>2 DEF Jump
  <2> QED BY <2>1 DEF Low
<1> QED BY <1>1, <1>2, <1>3

\* Places are nodes, of their own each.
LEMMA NodesDiffer ==
  ASSUME NEW p, Distinct(p), NEW j \in 0 .. Len(p), NEW k \in 0 .. Len(p), j # k
  PROVE  Node(p, j) # Node(p, k) /\ Node(p, j) \in Places
<1>1. Len(p) \in Nat /\ \A x \in 1 .. Len(p) : p[x] \in Objs /\ p[x] # Header
  BY DistinctFit
<1>2. (j # 0 => j \in 1 .. Len(p)) /\ (k # 0 => k \in 1 .. Len(p))
  BY <1>1
<1> QED BY <1>1, <1>2 DEF Node, Distinct, Places

\* A list with a node more still jumps from each node to the next, on every level.
LEMMA InsertedJumps ==
  ASSUME NEW z \in Lists, NEW p, Distinct(p), NEW m \in 0 .. Len(p), NEW o \in Objs,
         NEW s, NEW h \in Levels, h <= z.level, NEW path, NEW q, Added(q, p, m, o),
         \A k \in 1 .. Len(p) : p[k] # o,
         NEW u, InsertedFields(u, z, path, s, o, h), Path(z, p, m, path), path[1].rank = m,
         NEW i \in 1 .. z.level, Jumps(z, p, i)
  PROVE  Jumps(u, q, i)
<1> DEFINE n == Len(p)
<1>0. /\ n \in Nat /\ Len(q) = n + 1 /\ i \in Levels /\ i \in Nat /\ h \in Nat /\ z.level \in Nat
      /\ m \in Nat /\ o \in Places /\ o # Header /\ u \in Lists
  <2>1. z.level \in Levels /\ o \in Places /\ o # Header
    BY Constants DEF Lists
  <2> QED BY <2>1, Constants, DistinctFit DEF Added, Levels, InsertedFields
<1>1. /\ \A k \in 1 .. m : Tall(u, q, i, k) <=> Tall(z, p, i, k)
      /\ Tall(u, q, i, m + 1) <=> i <= h
      /\ \A k \in m + 2 .. n + 1 : Tall(u, q, i, k) <=> Tall(z, p, i, k - 1)
      /\ Node(q, m + 1) = o /\ \A k \in 0 .. m : Node(q, k) = Node(p, k)
      /\ \A k \in m + 2 .. n + 1 : Node(q, k) = Node(p, k - 1)
  <2>1. \A x \in Objs : u.height[x] = IF x = o THEN h ELSE z.height[x]
    BY DEF InsertedFields
  <2> QED BY <1>0, <2>1, TallAdded
<1>2. /\ \A k \in 1 .. m : At(q, k) = At(p, k)
      /\ At(q, m + 1) = o /\ \A k \in m + 1 .. n + 1 : At(q, k + 1) = At(p, k)
  BY <1>0 DEF At, Added
<1>3. PICK b \in 0 .. m : /\ path[i] = [node |-> Node(p, b), rank |-> b]
                          /\ Stands(z, p, i, b) /\ Low(z, p, i, b + 1, m)
  BY <1>0 DEF Path, Leaves
<1>4. PICK over \in m + 1 .. n + 1 : Jump(z, p, i, b, over)
  BY <1>3, OverTheEnd
<1> DEFINE end == Node(p, b)
<1>5. /\ path[i].node = end /\ path[i].rank = b /\ end \in Places /\ end # o
  <2>1. b # n + 1 /\ b \in 0 .. n /\ (b = 0 \/ b \in 1 .. n)
    BY <1>0
  <2>2. end \in Places /\ end # o
    BY <1>0, <2>1, DistinctFit DEF Node, Places
  <2> QED BY <1>3, <2>2
<1>6. \A x \in Places :
        u.forward[x][i] = IF i <= h /\ x = end THEN o
                          ELSE IF i <= h /\ x = o THEN z.forward[end][i] ELSE z.forward[x][i]
  BY <1>0, <1>5 DEF InsertedFields
<1>7. \A x \in Places :
        u.span[x][i] = IF i <= h /\ x = end THEN m - b + 1
                       ELSE IF i <= h /\ x = o THEN z.span[end][i] - (m - b)
                       ELSE IF i \in h + 1 .. z.level /\ x = end THEN z.span[x][i] + 1
                       ELSE z.span[x][i]
  BY <1>0, <1>5 DEF InsertedFields
<1>8. /\ over \in b + 1 .. n + 1 /\ Low(z, p, i, b + 1, over - 1)
      /\ over <= n => Tall(z, p, i, over)
      /\ z.forward[end][i] = At(p, over)
      /\ z.span[end][i] = (IF over <= n THEN over ELSE n) - b
  BY <1>4 DEF Jump
<1>9. \A k \in 0 .. n : k # b => Node(p, k) # end /\ Node(p, k) \in Places
  <2>1. b \in 0 .. n
    BY <1>0
  <2> QED BY <2>1, NodesDiffer
<1>10. \A k \in 0 .. n : Node(p, k) # o
  <2> TAKE k \in 0 .. n
  <2>1. k # 0 => k \in 1 .. n
    BY <1>0
  <2> QED BY <1>0, <2>1 DEF Node
<1> HIDE DEF end
<1> SUFFICES ASSUME NEW k \in 0 .. n + 1, Stands(u, q, i, k)
             PROVE  \E nx \in 1 .. n + 2 : Jump(u, q, i, k, nx)
  BY <1>0 DEF Jumps
<1>11. CASE k = b /\ i <= h
  <2>1. Node(q, k) = end
    BY <1>0, <1>1, <1>11 DEF end
  <2>2. u.forward[Node(q, k)][i] = At(q, m + 1) /\ u.span[Node(q, k)][i] = m + 1 - k
    BY <1>0, <1>2, <1>5, <1>6, <1>7, <1>11, <2>1
  <2>3. Low(u, q, i, k + 1, m + 1 - 1)
    BY <1>0, <1>1, <1>3, <1>11 DEF Low
  <2>4. Tall(u, q, i, m + 1) /\ m + 1 \in k + 1 .. n + 2 /\ m + 1 <= n + 1 /\ m + 1 \in 1 .. n + 2
    BY <1>0, <1>1, <1>11
  <2>5. Jump(u, q, i, k, m + 1)
    <3>1. Len(q) + 1 = n + 2 /\ (IF m + 1 <= Len(q) THEN m + 1 ELSE Len(q)) = m + 1
      BY <1>0
    <3> QED BY <2>2, <2>3, <2>4, <3>1 DEF Jump
  <2> QED BY <2>4, <2>5
<1>12. CASE k = b /\ i > h
  <2>1. Node(q, k) = end
    BY <1>0, <1>1, <1>12 DEF end
  <2>2. i \in h + 1 .. z.level /\ ~ (i <= h)
    BY <1>0, <1>12
  <2>3. u.forward[Node(q, k)][i] = At(q, over + 1)
    BY <1>0, <1>2, <1>5, <1>6, <1>8, <2>1, <2>2
  <2>4. u.span[Node(q, k)][i] = (IF over + 1 <= n + 1 THEN over + 1 ELSE n + 1) - k
    <3>1. u.span[Node(q, k)][i] = z.span[end][i] + 1
      BY <1>5, <1>7, <2>1, <2>2
    <3> QED BY <1>0, <1>8, <1>12, <3>1
  <2>5. Low(u, q, i, k + 1, over + 1 - 1)
    <3> SUFFICES ASSUME NEW x \in k + 1 .. over PROVE ~ Tall(u, q, i, x)
      BY <1>0 DEF Low
    <3>1. CASE x <= m
      BY <1>0, <1>1, <1>3, <1>12, <3>1 DEF Low
    <3>2. CASE x = m + 1
      BY <1>0, <1>1, <1>12, <3>2
    <3>3. CASE x > m + 1
      <4>1. x \in m + 2 .. n + 1 /\ x - 1 \in b + 1 .. over - 1
        BY <1>0, <1>12, <3>3
      <4> QED BY <1>1, <1>8, <4>1 DEF Low
    <3> QED BY <1>0, <3>1, <3>2, <3>3
  <2>6. over + 1 <= n + 1 => Tall(u, q, i, over + 1)
    <3>1. over + 1 <= n + 1 => over + 1 \in m + 2 .. n + 1 /\ over + 1 - 1 = over /\ over <= n
      BY <1>0
    <3> QED BY <1>1, <1>8, <3>1
  <2>7. over + 1 \in k + 1 .. n + 2 /\ over + 1 \in 1 .. n + 2
    BY <1>0, <1>12
  <2>8. Jump(u, q, i, k, over + 1)
    BY <1>0, <2>3, <2>4, <2>5, <2>6, <2>7 DEF Jump
  <2> QED BY <2>7, <2>8
<1>13. CASE k # b /\ k <= m
  <2>1. k \in 0 .. n /\ k \in 0 .. m /\ Node(q, k) = Node(p, k) /\ Stands(z, p, i, k)
    BY <1>0, <1>1, <1>13 DEF Stands
  <2>2. k < b
    <3> SUFFICES ASSUME k > b PROVE FALSE
      BY <1>0, <1>13
    <3>1. k \in b + 1 .. m /\ k # 0
      BY <1>0, <1>13
    <3> QED BY <1>3, <2>1, <3>1 DEF Stands, Low
  <2>3. PICK nx \in 1 .. n + 1 : Jump(z, p, i, k, nx)
    BY <2>1 DEF Jumps
  <2>4. nx <= b
    <3> SUFFICES ASSUME nx > b PROVE FALSE
      BY <1>0
    <3>1. b \in k + 1 .. nx - 1 /\ b # 0
      BY <1>0, <2>2
    <3>2. Tall(z, p, i, b)
      BY <1>3, <3>1 DEF Stands
    <3> QED BY <2>3, <3>1, <3>2 DEF Jump, Low
  <2>5. nx \in k + 1 .. n + 2 /\ nx \in 1 .. m /\ nx <= n /\ nx <= n + 1 /\ nx \in 1 .. n + 2
    BY <1>0, <2>3, <2>4 DEF Jump
  <2>6. /\ Node(p, k) # end /\ Node(p, k) # o /\ Node(p, k) \in Places
    BY <1>9, <1>10, <1>13, <2>1
  <2>7. u.forward[Node(q, k)][i] = At(q, nx) /\ u.span[Node(q, k)][i] = nx - k
    <3>1. u.forward[Node(q, k)][i] = z.forward[Node(p, k)][i] /\ u.span[Node(q, k)][i] = z.span[Node(p, k)][i]
      BY <1>6, <1>7, <2>1, <2>6
    <3> QED BY <1>2, <2>3, <2>5, <3>1 DEF Jump
  <2>8. Tall(u, q, i, nx)
    BY <1>1, <2>3, <2>5 DEF Jump
  <2>9. Low(u, q, i, k + 1, nx - 1)
    <3> SUFFICES ASSUME NEW x \in k + 1 .. nx - 1 PROVE ~ Tall(u, q, i, x)
      BY DEF Low
    <3>1. x \in 1 .. m
      BY <1>0, <2>5
    <3> QED BY <1>1, <2>3, <3>1 DEF Jump, Low
  <2>10. Jump(u, q, i, k, nx)
    BY <1>0, <2>5, <2>7, <2>8, <2>9 DEF Jump
  <2> QED BY <2>5, <2>10
<1>14. CASE k = m + 1
  <2>1. i <= h /\ Node(q, k) = o
    BY <1>0, <1>1, <1>14 DEF Stands
  <2>2. u.forward[Node(q, k)][i] = At(q, over + 1)
    BY <1>0, <1>2, <1>5, <1>6, <1>8, <2>1
  <2>3. u.span[Node(q, k)][i] = (IF over + 1 <= n + 1 THEN over + 1 ELSE n + 1) - k
    <3>1. u.span[Node(q, k)][i] = z.span[end][i] - (m - b)
      BY <1>0, <1>5, <1>7, <2>1
    <3> QED BY <1>0, <1>8, <1>14, <3>1
  <2>4. Low(u, q, i, k + 1, over + 1 - 1)
    <3> SUFFICES ASSUME NEW x \in k + 1 .. over PROVE ~ Tall(u, q, i, x)
      BY <1>0 DEF Low
    <3>1. x \in m + 2 .. n + 1 /\ x - 1 \in b + 1 .. over - 1
      BY <1>0, <1>14
    <3> QED BY <1>1, <1>8, <3>1 DEF Low
  <2>5. over + 1 <= n + 1 => Tall(u, q, i, over + 1)
    <3>1. over + 1 <= n + 1 => over + 1 \in m + 2 .. n + 1 /\ over + 1 - 1 = over /\ over <= n
      BY <1>0
    <3> QED BY <1>1, <1>8, <3>1
  <2>6. over + 1 \in k + 1 .. n + 2 /\ over + 1 \in 1 .. n + 2
    BY <1>0, <1>14
  <2>7. Jump(u, q, i, k, over + 1)
    BY <1>0, <2>2, <2>3, <2>4, <2>5, <2>6 DEF Jump
  <2> QED BY <2>6, <2>7
<1>15. CASE k > m + 1
  <2>1. k \in m + 2 .. n + 1 /\ k - 1 \in 0 .. n /\ k - 1 # b /\ k # 0 /\ k - 1 >= m + 1
    BY <1>0, <1>15
  <2>2. Node(q, k) = Node(p, k - 1) /\ Stands(z, p, i, k - 1)
    BY <1>1, <2>1 DEF Stands
  <2>3. PICK nx \in 1 .. n + 1 : Jump(z, p, i, k - 1, nx)
    BY <2>1, <2>2 DEF Jumps
  <2>4. nx \in k .. n + 1
    BY <1>0, <2>1, <2>3 DEF Jump
  <2>5. Node(p, k - 1) # end /\ Node(p, k - 1) # o /\ Node(p, k - 1) \in Places
    BY <1>9, <1>10, <2>1
  <2>6. u.forward[Node(q, k)][i] = z.forward[Node(p, k - 1)][i] /\ u.span[Node(q, k)][i] = z.span[Node(p, k - 1)][i]
    BY <1>6, <1>7, <2>2, <2>5
  <2>7. u.forward[Node(q, k)][i] = At(q, nx + 1)
    <3>1. nx \in m + 1 .. n + 1
      BY <1>0, <2>1, <2>4
    <3> QED BY <1>2, <2>3, <2>6, <3>1 DEF Jump
  <2>8. u.span[Node(q, k)][i] = (IF nx + 1 <= n + 1 THEN nx + 1 ELSE n + 1) - k
    <3>1. u.span[Node(q, k)][i] = (IF nx <= n THEN nx ELSE n) - (k - 1)
      BY <2>3, <2>6 DEF Jump
    <3> QED BY <1>0, <2>4, <3>1
  <2>9. Low(u, q, i, k + 1, nx + 1 - 1)
    <3> SUFFICES ASSUME NEW x \in k + 1 .. nx PROVE ~ Tall(u, q, i, x)
      BY <1>0 DEF Low
    <3>1. x \in m + 2 .. n + 1 /\ x - 1 \in k - 1 + 1 .. nx - 1
      BY <1>0, <2>1, <2>4
    <3> QED BY <1>1, <2>3, <3>1 DEF Jump, Low
  <2>10. nx + 1 <= n + 1 => Tall(u, q, i, nx + 1)
    <3>1. nx + 1 <= n + 1 => nx + 1 \in m + 2 .. n + 1 /\ nx + 1 - 1 = nx /\ nx <= n
      BY <1>0, <2>1, <2>4
    <3> QED BY <1>1, <2>3, <3>1 DEF Jump
  <2>11. nx + 1 \in k + 1 .. n + 2 /\ nx + 1 \in 1 .. n + 2
    BY <1>0, <2>4
  <2>12. Jump(u, q, i, k, nx + 1)
    BY <1>0, <2>7, <2>8, <2>9, <2>10, <2>11 DEF Jump
  <2> QED BY <2>11, <2>12
<1>16. (k = b /\ i <= h) \/ (k = b /\ i > h) \/ (k # b /\ k <= m) \/ k = m + 1 \/ k > m + 1
  <2>1. k \in Int /\ m \in Int /\ i \in Int /\ h \in Int
    BY <1>0
  <2>2. k > m => k = m + 1 \/ k > m + 1
    BY <2>1
  <2>3. (k <= m \/ k > m) /\ (i <= h \/ i > h)
    BY <2>1
  <2> QED BY <2>2, <2>3
<1> QED BY <1>11, <1>12, <1>13, <1>14, <1>15, <1>16

-----------------------------------------------------------------------------
\* A raised list has the same nodes; its new levels lead off the end.
LEMMA RaisedJumps ==
  ASSUME NEW z, NEW p, Skips(z, p), NEW h \in Levels
  PROVE  /\ Listed(Raised(z, h), p) /\ Backed(Raised(z, h), p)
         /\ \A i \in 1 .. Raised(z, h).level : Jumps(Raised(z, h), p, i)
         /\ \A m, path : Path(z, p, m, path) => Path(Raised(z, h), p, m, path)
<1> DEFINE r == Raised(z, h)
<1>1. /\ z \in Lists /\ Distinct(p) /\ Leveled(z) /\ \A i \in 1 .. z.level : Jumps(z, p, i)
      /\ z.length = Len(p) /\ z.level \in Nat /\ h \in Nat /\ Levels = 1 .. MaxLevel /\ MaxLevel \in Nat
      /\ z.level \in Levels
  <2>1. z \in Lists /\ Distinct(p) /\ Leveled(z) /\ z.length = Len(p)
    BY DEF Skips, Listed
  <2>2. z.level \in Levels
    BY <2>1 DEF Lists
  <2> QED BY <2>1, <2>2, Constants DEF Skips, Levels
<1>2. /\ r \in Lists /\ r.level = (IF h > z.level THEN h ELSE z.level)
      /\ r.length = z.length /\ r.tail = z.tail /\ r.height = z.height /\ r.score = z.score
      /\ r.backward = z.backward /\ r.forward = z.forward
      /\ \A q \in Places, i \in Levels :
           r.span[q][i] = IF q = Header /\ i \in z.level + 1 .. h THEN z.length ELSE z.span[q][i]
  BY <1>1, RaisedIs
<1> HIDE DEF r
<1>3. Listed(r, p) /\ Backed(r, p)
  <2>1. Listed(z, p) /\ Backed(z, p)
    BY DEF Skips
  <2>2. InOrder(r, p)
    BY <1>2, <2>1 DEF Listed, InOrder, NodeLt
  <2> QED BY <1>2, <2>1, <2>2 DEF Listed, Backed
<1>4. \A i, k : Tall(r, p, i, k) <=> Tall(z, p, i, k)
  BY <1>2 DEF Tall
<1>5. /\ \A i, k : Stands(r, p, i, k) <=> Stands(z, p, i, k)
      /\ \A i, j, k : Low(r, p, i, j, k) <=> Low(z, p, i, j, k)
  BY <1>4 DEF Stands, Low
<1>6. \A m, path : Path(z, p, m, path) => Path(r, p, m, path)
  BY <1>5 DEF Path, Leaves
<1>7. ASSUME NEW i \in 1 .. r.level PROVE Jumps(r, p, i)
  <2>0. i \in Levels /\ i \in Nat /\ Len(p) \in Nat
    <3>1. r.level \in Levels
      BY <1>2 DEF Lists
    <3> QED BY <1>1, <3>1, DistinctFit
  <2>1. CASE i <= z.level
    <3>1. Jumps(z, p, i) /\ i \notin z.level + 1 .. h
      BY <1>1, <2>0, <2>1
    <3>2. \A k \in 0 .. Len(p) : Node(p, k) \in Places
      <4> TAKE k \in 0 .. Len(p)
      <4>1. k # 0 => k \in 1 .. Len(p)
        BY <2>0
      <4> QED BY <1>1, <4>1, DistinctFit DEF Node, Places
    <3>3. \A k \in 0 .. Len(p) : r.span[Node(p, k)][i] = z.span[Node(p, k)][i]
      BY <1>2, <2>0, <3>1, <3>2
    <3>4. \A nx : \A k \in 0 .. Len(p) : Jump(z, p, i, k, nx) => Jump(r, p, i, k, nx)
      BY <1>2, <1>4, <1>5, <3>3 DEF Jump
    <3> QED BY <1>5, <3>1, <3>4 DEF Jumps
  <2>2. CASE i > z.level
    <3>1. i \in z.level + 1 .. h /\ i \in z.level + 1 .. MaxLevel /\ z.level >= 1
      BY <1>1, <1>2, <2>0, <2>2
    <3>2. \A k \in 1 .. Len(p) : ~ Tall(z, p, i, k)
      <4> TAKE k \in 1 .. Len(p)
      <4>1. p[k] \in Objs
        BY <1>1, DistinctFit
      <4>2. z.height[p[k]] <= z.level /\ z.height[p[k]] \in 0 .. MaxLevel
        BY <1>1, <4>1 DEF Leveled, Lists
      <4> QED BY <1>1, <2>0, <2>2, <4>2 DEF Tall
    <3>3. r.forward[Header][i] = None /\ r.span[Header][i] = Len(p)
      BY <1>1, <1>2, <2>0, <3>1, Constants DEF Leveled
    <3>4. Low(r, p, i, 0 + 1, Len(p) + 1 - 1)
      BY <1>4, <2>0, <3>2 DEF Low
    <3>5. Jump(r, p, i, 0, Len(p) + 1)
      <4>1. Len(p) + 1 \in 0 + 1 .. Len(p) + 1 /\ ~ (Len(p) + 1 <= Len(p)) /\ Len(p) = Len(p) - 0
        BY <2>0
      <4>2. At(p, Len(p) + 1) = None
        BY <2>0 DEF At
      <4>3. Node(p, 0) = Header
        BY DEF Node
      <4> QED BY <3>3, <3>4, <4>1, <4>2, <4>3 DEF Jump
    <3>6. \A k \in 0 .. Len(p) : Stands(r, p, i, k) => k = 0
      BY <1>4, <2>0, <3>2 DEF Stands, Tall
    <3>7. Len(p) + 1 \in 1 .. Len(p) + 1
      BY <2>0
    <3> QED BY <3>5, <3>6, <3>7 DEF Jumps
  <2> QED BY <1>1, <2>0, <2>1, <2>2
<1>8. \A i \in 1 .. r.level : Jumps(r, p, i)
  BY <1>7
<1> QED BY <1>3, <1>6, <1>8 DEF r

\* A list with a node more is listed in the order of the scores.
LEMMA InsertedListed ==
  ASSUME NEW z, NEW p, Listed(z, p), NEW m \in 0 .. Len(p), NEW o \in Objs, z.height[o] = 0,
         NEW s \in Scores, NEW h \in Levels, NEW path, NEW q, Added(q, p, m, o),
         \A k \in 1 .. Len(p) : NodeLt(z, p[k], s, o) <=> k <= m,
         NEW u, InsertedFields(u, z, path, s, o, h)
  PROVE  Listed(u, q) /\ \A k \in 1 .. Len(p) : p[k] # o
<1> DEFINE n == Len(p)
<1>0. /\ z \in Lists /\ u \in Lists /\ Distinct(p) /\ InOrder(z, p) /\ n \in Nat /\ z.length = n
      /\ q \in Seq(Objs) /\ Len(q) = n + 1 /\ h \in Nat /\ h > 0 /\ m \in Nat /\ m <= n
      /\ s \in Int /\ s # None /\ Scores \subseteq Int /\ Objs \subseteq Nat
      /\ \A k \in 1 .. n : p[k] \in Objs
  BY Constants, DistinctFit DEF Listed, InsertedFields, Added, Levels
<1>1. \A k \in 1 .. n : p[k] # o
  BY <1>0 DEF Listed
<1>2. /\ \A k \in 1 .. m : k \in 1 .. n /\ q[k] = p[k]
      /\ q[m + 1] = o /\ \A k \in m + 2 .. n + 1 : k - 1 \in 1 .. n /\ k - 1 > m /\ q[k] = p[k - 1]
  BY <1>0 DEF Added
<1>3. \A k \in 1 .. n + 1 : k \in 1 .. m \/ k = m + 1 \/ k \in m + 2 .. n + 1
  BY <1>0
<1> DEFINE Old(x) == IF x <= m THEN x ELSE x - 1
<1>11. ASSUME NEW x \in 1 .. n + 1, x # m + 1 PROVE Old(x) \in 1 .. n /\ q[x] = p[Old(x)]
  <2>1. CASE x <= m
    <3>1. x \in 1 .. m /\ Old(x) = x
      BY <1>0, <2>1
    <3> QED BY <1>2, <3>1
  <2>2. CASE x > m
    <3>1. x \in m + 2 .. n + 1 /\ Old(x) = x - 1
      BY <1>0, <1>11, <2>2
    <3> QED BY <1>2, <3>1
  <2> QED BY <1>0, <2>1, <2>2
<1>12. \A x, y \in 1 .. n + 1 : x # m + 1 /\ y # m + 1 => (x < y => Old(x) < Old(y)) /\ (Old(x) = Old(y) => x = y)
  BY <1>0
<1> HIDE DEF Old
<1>4. Distinct(q)
  <2> SUFFICES ASSUME NEW j \in 1 .. n + 1, NEW k \in 1 .. n + 1, q[j] = q[k] PROVE j = k
    BY <1>0 DEF Distinct
  <2>1. \A x, y \in 1 .. n : p[x] = p[y] => x = y
    BY <1>0 DEF Distinct
  <2>2. \A x \in 1 .. n + 1 : q[x] = o => x = m + 1
    BY <1>1, <1>11
  <2>3. CASE j = m + 1 \/ k = m + 1
    BY <1>2, <2>2, <2>3
  <2>4. CASE j # m + 1 /\ k # m + 1
    <3>1. Old(j) = Old(k)
      BY <1>11, <2>1, <2>4
    <3> QED BY <1>12, <2>4, <3>1
  <2> QED BY <2>3, <2>4
<1>5. \A x \in Objs : /\ u.height[x] = (IF x = o THEN h ELSE z.height[x])
                      /\ u.score[x] = (IF x = o THEN s ELSE z.score[x])
  BY DEF InsertedFields
<1>6. \A k \in 1 .. n : z.height[p[k]] > 0 /\ z.score[p[k]] \in Int /\ u.score[p[k]] = z.score[p[k]]
  <2> TAKE k \in 1 .. n
  <2>1. p[k] \in Objs /\ p[k] # o
    BY <1>0, <1>1
  <2>2. z.height[p[k]] > 0
    BY <2>1 DEF Listed
  <2>3. z.score[p[k]] # None
    BY <2>1, <2>2 DEF Listed
  <2>4. z.score[p[k]] \in Scores \cup {None}
    BY <1>0, <2>1 DEF Lists
  <2> QED BY <1>0, <1>5, <2>1, <2>2, <2>3, <2>4
<1>7. InOrder(u, q)
  <2> SUFFICES ASSUME NEW j \in 1 .. n + 1, NEW k \in 1 .. n + 1, j < k
               PROVE  NodeLt(u, q[j], u.score[q[k]], q[k])
    BY <1>0 DEF InOrder
  <2>1. \A x, y \in 1 .. n : x < y => NodeLt(z, p[x], z.score[p[y]], p[y])
    BY <1>0 DEF InOrder
  <2>2. CASE j # m + 1 /\ k # m + 1
    <3>1. Old(j) \in 1 .. n /\ Old(k) \in 1 .. n /\ q[j] = p[Old(j)] /\ q[k] = p[Old(k)] /\ Old(j) < Old(k)
      BY <1>11, <1>12, <2>2
    <3>2. NodeLt(z, p[Old(j)], z.score[p[Old(k)]], p[Old(k)])
      BY <2>1, <3>1
    <3> QED BY <1>6, <3>1, <3>2 DEF NodeLt
  <2>3. CASE k = m + 1
    <3>1. j \in 1 .. m /\ j \in 1 .. n /\ q[j] = p[j] /\ q[k] = o
      BY <1>0, <1>2, <2>3
    <3>2. NodeLt(z, p[j], s, o)
      BY <1>0, <3>1
    <3>3. u.score[o] = s /\ u.score[p[j]] = z.score[p[j]]
      BY <1>5, <1>6, <3>1
    <3> QED BY <3>1, <3>2, <3>3 DEF NodeLt
  <2>4. CASE j = m + 1
    <3>1. k \in m + 2 .. n + 1 /\ q[j] = o /\ q[k] = p[k - 1] /\ k - 1 \in 1 .. n /\ ~ (k - 1 <= m)
      BY <1>0, <1>2, <2>4
    <3>2. ~ NodeLt(z, p[k - 1], s, o)
      BY <3>1
    <3>3. u.score[o] = s /\ u.score[p[k - 1]] = z.score[p[k - 1]] /\ z.score[p[k - 1]] \in Int
      BY <1>5, <1>6, <3>1
    <3>4. p[k - 1] \in Int /\ o \in Int /\ p[k - 1] # o
      <4>1. p[k - 1] \in Objs /\ p[k - 1] # o
        BY <1>0, <1>1, <3>1
      <4>2. \A x \in Objs : x \in Int
        BY <1>0
      <4> QED BY <4>1, <4>2
    <3>5. NodeLt(u, o, u.score[p[k - 1]], p[k - 1])
      BY <1>0, <3>2, <3>3, <3>4 DEF NodeLt
    <3> QED BY <3>1, <3>5
  <2> QED BY <2>2, <2>3, <2>4
<1>8. u.length = Len(q)
  BY <1>0 DEF InsertedFields
<1>9. \A x \in Objs : u.height[x] > 0 <=> \E k \in 1 .. Len(q) : q[k] = x
  <2> TAKE x \in Objs
  <2>1. CASE x = o
    <3>1. m + 1 \in 1 .. Len(q) /\ q[m + 1] = x
      BY <1>0, <1>2, <2>1
    <3> QED BY <1>0, <1>5, <2>1, <3>1
  <2>2. CASE x # o
    <3>1. u.height[x] > 0 <=> \E k \in 1 .. n : p[k] = x
      BY <1>5, <2>2 DEF Listed
    <3>2. ASSUME NEW k \in 1 .. n, p[k] = x PROVE \E j \in 1 .. n + 1 : q[j] = x
      <4>1. k <= m => k \in 1 .. m /\ k \in 1 .. n + 1
        BY <1>0
      <4>2. k > m => k + 1 \in m + 2 .. n + 1 /\ k + 1 \in 1 .. n + 1 /\ k + 1 - 1 = k
        BY <1>0
      <4>3. CASE k <= m
        BY <1>2, <3>2, <4>1, <4>3
      <4>4. CASE k > m
        <5>1. q[k + 1] = p[k]
          BY <1>2, <4>2, <4>4
        <5> QED BY <3>2, <4>2, <4>4, <5>1
      <4> QED BY <1>0, <4>3, <4>4
    <3>3. ASSUME NEW j \in 1 .. n + 1, q[j] = x PROVE \E k \in 1 .. n : p[k] = x
      BY <1>2, <1>3, <2>2, <3>3
    <3> QED BY <1>0, <3>1, <3>2, <3>3
  <2> QED BY <2>1, <2>2
<1>10. \A x \in Objs : u.height[x] > 0 <=> u.score[x] # None
  BY <1>0, <1>5 DEF Listed
<1> QED BY <1>0, <1>1, <1>4, <1>7, <1>8, <1>9, <1>10 DEF Listed

\* Its backward links go through it.
LEMMA InsertedBacked ==
  ASSUME NEW z, NEW p, Skips(z, p), NEW r, Listed(r, p), Backed(r, p), Jumps(r, p, 1),
         NEW m \in 0 .. Len(p), NEW o \in Objs, NEW s, NEW h \in Levels,
         NEW path, NEW q, Added(q, p, m, o), \A k \in 1 .. Len(p) : p[k] # o,
         path[1] = [node |-> Node(p, m), rank |-> m],
         NEW u, InsertedFields(u, r, path, s, o, h)
  PROVE  Backed(u, q)
<1> DEFINE n == Len(p)
           nx == r.forward[path[1].node][1]
           b == IF path[1].node = Header THEN None ELSE path[1].node
<1>0. /\ r \in Lists /\ Distinct(p) /\ n \in Nat /\ Len(q) = n + 1 /\ m \in Nat /\ m <= n
      /\ \A k \in 1 .. n : p[k] \in Objs /\ p[k] # None /\ p[k] # Header
  BY DistinctFit DEF Listed, Added
<1>2. nx = At(p, m + 1)
  BY <1>0, LowestLinks
<1>3. b = At(p, m)
  <2>1. CASE m = 0
    BY <1>0, <2>1 DEF Node, At
  <2>2. CASE m # 0
    <3>1. m \in 1 .. n
      BY <1>0, <2>2
    <3> QED BY <1>0, <2>2, <3>1 DEF Node, At
  <2> QED BY <2>1, <2>2
<1> HIDE DEF nx, b
<1>4. /\ u.tail = (IF nx # None THEN r.tail ELSE o)
      /\ \A x \in Objs : u.backward[x] = IF x = nx THEN o ELSE IF x = o THEN b ELSE r.backward[x]
  BY DEF InsertedFields, nx, b
<1>5. /\ \A k \in 1 .. m : k \in 1 .. n /\ q[k] = p[k]
      /\ q[m + 1] = o /\ \A k \in m + 2 .. n + 1 : k - 1 \in 1 .. n /\ k - 1 > m /\ q[k] = p[k - 1]
  <2>1. \A k \in 1 .. n + 1 :
          q[k] = IF k <= m THEN p[k] ELSE IF k = m + 1 THEN o ELSE p[k - 1]
    BY DEF Added
  <2>2. n \in Nat /\ m \in Nat /\ m <= n
    BY <1>0
  <2> HIDE DEF n
  <2>3. \A k \in 1 .. m : k \in 1 .. n /\ k \in 1 .. n + 1 /\ k <= m
    BY <2>2
  <2>4. \A k \in 1 .. m : k \in 1 .. n /\ q[k] = p[k]
    BY <2>1, <2>3
  <2>5. m + 1 \in 1 .. n + 1 /\ ~ (m + 1 <= m)
    BY <2>2
  <2>6. q[m + 1] = o
    BY <2>1, <2>5
  <2>7. \A k \in m + 2 .. n + 1 : /\ k \in 1 .. n + 1 /\ ~ (k <= m) /\ k # m + 1
                                 /\ k - 1 \in 1 .. n /\ k - 1 > m
    BY <2>2
  <2>8. \A k \in m + 2 .. n + 1 : q[k] = p[k - 1]
    BY <2>1, <2>7
  <2> QED BY <2>4, <2>6, <2>7, <2>8
<1>6. r.tail = At(p, n) /\ \A k \in 1 .. n : r.backward[p[k]] = At(p, k - 1)
  BY DEF Backed
<1>7. u.tail = At(q, Len(q))
  <2>1. CASE m = n
    <3>1. nx = None
      BY <1>0, <1>2, <2>1 DEF At
    <3>2. At(q, n + 1) = o
      BY <1>0, <1>5, <2>1 DEF At
    <3> QED BY <1>0, <1>4, <3>1, <3>2
  <2>2. CASE m # n
    <3>1. m + 1 \in 1 .. n /\ n \in 1 .. n /\ n + 1 \in m + 2 .. n + 1 /\ n + 1 - 1 = n /\ n + 1 \in 1 .. n + 1
      BY <1>0, <2>2
    <3>2. nx # None
      BY <1>0, <1>2, <3>1 DEF At
    <3>3. At(q, n + 1) = p[n] /\ At(p, n) = p[n]
      BY <1>0, <1>5, <3>1 DEF At
    <3> QED BY <1>0, <1>4, <1>6, <3>2, <3>3
  <2> QED BY <2>1, <2>2
<1>8. ASSUME NEW k \in 1 .. n + 1 PROVE u.backward[q[k]] = At(q, k - 1)
  <2>1. CASE k <= m
    <3>1. k \in 1 .. m /\ k \in 1 .. n /\ q[k] = p[k] /\ p[k] # o
      BY <1>0, <1>5, <2>1
    <3>2. p[k] # nx
      <4>1. m + 1 \in 1 .. n => p[m + 1] # p[k]
        BY <1>0, <2>1, <3>1 DEF Distinct
      <4> QED BY <1>0, <1>2, <3>1, <4>1 DEF At
    <3>3. u.backward[q[k]] = At(p, k - 1)
      BY <1>0, <1>4, <1>6, <3>1, <3>2
    <3>4. At(q, k - 1) = At(p, k - 1)
      <4>1. k # 1 => k - 1 \in 1 .. m
        BY <1>0, <3>1
      <4> QED BY <1>0, <1>5, <3>1, <4>1 DEF At
    <3> QED BY <3>3, <3>4
  <2>2. CASE k = m + 1
    <3>1. q[k] = o /\ k - 1 = m
      BY <1>0, <1>5, <2>2
    <3>2. o # nx
      BY <1>0, <1>2, Constants DEF At
    <3>3. u.backward[q[k]] = At(p, m)
      BY <1>3, <1>4, <3>1, <3>2
    <3>4. At(q, m) = At(p, m)
      <4>1. m # 0 => m \in 1 .. m
        BY <1>0
      <4> QED BY <1>0, <1>5, <4>1 DEF At
    <3> QED BY <3>1, <3>3, <3>4
  <2>3. CASE k = m + 2
    <3>1. k \in m + 2 .. n + 1 /\ k - 1 = m + 1 /\ m + 1 \in 1 .. n /\ q[k] = p[m + 1]
      BY <1>0, <1>5, <2>3
    <3>2. nx = p[m + 1]
      BY <1>2, <3>1 DEF At
    <3>3. u.backward[q[k]] = o
      BY <1>0, <1>4, <3>1, <3>2
    <3>4. At(q, m + 1) = o
      BY <1>0, <1>5 DEF At
    <3> QED BY <3>1, <3>3, <3>4
  <2>4. CASE k > m + 2
    <3>1. /\ k \in m + 2 .. n + 1 /\ k - 1 \in 1 .. n /\ k - 1 \in m + 2 .. n + 1
          /\ q[k] = p[k - 1] /\ q[k - 1] = p[k - 1 - 1] /\ k - 1 - 1 \in 1 .. n /\ k - 1 \in 1 .. n + 1
          /\ k - 1 # m + 1
      BY <1>0, <1>5, <2>4
    <3>2. p[k - 1] # o /\ p[k - 1] # nx
      <4>1. m + 1 \in 1 .. n => p[m + 1] # p[k - 1]
        BY <1>0, <3>1 DEF Distinct
      <4> QED BY <1>0, <1>2, <3>1, <4>1 DEF At
    <3>3. u.backward[q[k]] = At(p, k - 1 - 1)
      BY <1>0, <1>4, <1>6, <3>1, <3>2
    <3>4. At(q, k - 1) = At(p, k - 1 - 1)
      BY <1>0, <3>1 DEF At
    <3> QED BY <3>3, <3>4
  <2> QED BY <1>0, <2>1, <2>2, <2>3, <2>4
<1> QED BY <1>0, <1>7, <1>8 DEF Backed

\* An insertion makes a list of the nodes with the new one in its place.
LEMMA InsertedSkips ==
  ASSUME NEW z, NEW p, Skips(z, p), NEW o \in Objs, z.height[o] = 0, NEW s \in Scores,
         NEW h \in Levels, NEW m \in 0 .. Len(p),
         \A k \in 1 .. Len(p) : NodeLt(z, p[k], s, o) <=> k <= m
  PROVE  /\ Skips(Inserted(z, s, o, h), InsertAt(p, m + 1, o))
         /\ \A x \in Objs : Inserted(z, s, o, h).height[x] = IF x = o THEN h ELSE z.height[x]
         /\ \A x \in Objs : Inserted(z, s, o, h).score[x] = IF x = o THEN s ELSE z.score[x]
<1> DEFINE n == Len(p)
           goes == {x \in Nodes(z) : NodeLt(z, x, s, o)} \X Ranks
           path == PathTo(z, s, o)
           r == Raised(z, h)
           u == Inserted(z, s, o, h)
           q == InsertAt(p, m + 1, o)
<1>0. /\ Listed(z, p) /\ z \in Lists /\ Distinct(p) /\ n \in Nat /\ n <= Cardinality(Objs)
      /\ \A k \in 1 .. n : p[k] \in Objs /\ p[k] # None /\ p[k] # Header
      /\ h \in Nat /\ 1 \in Levels /\ MaxLevel \in Nat /\ Levels = 1 .. MaxLevel
  BY Constants, DistinctFit DEF Skips, Listed, Levels
<1>1. \A k \in 1 .. n : z.height[p[k]] > 0 /\ p[k] # o
  BY <1>0 DEF Listed
<1>2. Path(z, p, m, path)
  <2>1. \A k \in 1 .. n : <<p[k], k>> \in goes <=> k <= m
    <3> TAKE k \in 1 .. n
    <3>1. p[k] \in Nodes(z)
      BY <1>0, <1>1 DEF Nodes
    <3>2. k \in Ranks
      BY <1>0, Constants DEF Ranks
    <3> QED BY <3>1, <3>2
  <2> HIDE DEF goes
  <2>2. Path(z, p, m, Descend(z, goes))
    BY <2>1, DescendIs
  <2> QED BY <2>2 DEF PathTo, goes
<1> HIDE DEF path
<1>3. Around(path, o)
  <2> SUFFICES ASSUME NEW i \in Levels PROVE path[i].node \in Places \ {o} /\ path[i].rank \in Int
    BY DEF Around
  <2>1. PICK b \in 0 .. m : path[i] = [node |-> Node(p, b), rank |-> b]
    BY <1>2 DEF Path, Leaves
  <2>2. Node(p, b) \in Places \ {o}
    <3>1. b # 0 => b \in 1 .. n
      BY <1>0
    <3>2. Header \in Places /\ Header # o
      BY Constants
    <3> QED BY <1>0, <1>1, <3>1, <3>2 DEF Node, Places
  <2> QED BY <2>1, <2>2
<1>4. path[1] = [node |-> Node(p, m), rank |-> m]
  BY <1>0, <1>2, PathAtLowest
<1>5. /\ Listed(r, p) /\ Backed(r, p) /\ \A i \in 1 .. r.level : Jumps(r, p, i)
      /\ Path(r, p, m, path) /\ r \in Lists /\ r.height = z.height /\ r.score = z.score
      /\ r.level = (IF h > z.level THEN h ELSE z.level) /\ r.forward = z.forward
  <2>1. /\ Listed(r, p) /\ Backed(r, p) /\ \A i \in 1 .. r.level : Jumps(r, p, i)
        /\ Path(r, p, m, path)
    BY <1>2, RaisedJumps
  <2>2. /\ r \in Lists /\ r.height = z.height /\ r.score = z.score
        /\ r.level = (IF h > z.level THEN h ELSE z.level) /\ r.forward = z.forward
    BY <1>0, RaisedIs
  <2> QED BY <2>1, <2>2
<1>6. InsertedFields(u, r, path, s, o, h)
  <2>1. path = PathTo(z, s, o)
    BY DEF path
  <2> QED BY <1>0, <1>3, <2>1, InsertedAre
<1> HIDE DEF u, r
<1>7. Added(q, p, m, o)
  BY <1>0, InsertAtAdds
<1> HIDE DEF q
<1>8. Listed(u, q)
  <2>1. \A k \in 1 .. Len(p) : NodeLt(r, p[k], s, o) <=> k <= m
    BY <1>5 DEF NodeLt
  <2>2. r.height[o] = 0
    BY <1>5
  <2> QED BY <1>5, <1>6, <1>7, <2>1, <2>2, InsertedListed
<1>9. r.level \in Nat /\ r.level >= 1 /\ h <= r.level /\ r.level <= MaxLevel /\ z.level <= r.level
      /\ z.level \in Nat
  <2>1. z.level \in Levels /\ r.level \in Levels
    BY <1>0, <1>5 DEF Lists
  <2> QED BY <1>0, <1>5, <2>1
<1>10. Backed(u, q)
  <2>1. Jumps(r, p, 1)
    BY <1>5, <1>9
  <2> QED BY <1>1, <1>4, <1>5, <1>6, <1>7, <2>1, InsertedBacked
<1>11. u.level = r.level /\ \A x \in Objs : u.height[x] = IF x = o THEN h ELSE z.height[x]
  BY <1>5, <1>6 DEF InsertedFields
<1>12. \A i \in 1 .. u.level : Jumps(u, q, i)
  <2> TAKE i \in 1 .. u.level
  <2>1. i \in 1 .. r.level /\ Jumps(r, p, i)
    BY <1>5, <1>11
  <2>2. path[1].rank = m
    BY <1>4
  <2> QED BY <1>0, <1>1, <1>5, <1>6, <1>7, <1>9, <2>1, <2>2, InsertedJumps
<1>13. Leveled(u)
  <2>1. Leveled(z)
    BY DEF Skips
  <2>2. \A x \in Objs : u.height[x] <= u.level
    <3> TAKE x \in Objs
    <3>1. z.height[x] <= z.level /\ z.height[x] \in 0 .. MaxLevel
      BY <1>0, <2>1 DEF Leveled, Lists
    <3> QED BY <1>0, <1>9, <1>11, <3>1
  <2>3. u.level = 1 \/ \E x \in Objs : u.height[x] = u.level
    <3>1. CASE h > z.level
      <4>1. u.height[o] = u.level
        BY <1>5, <1>11, <3>1
      <4> QED BY <4>1
    <3>2. CASE ~ (h > z.level)
      <4>1. u.level = z.level
        BY <1>5, <1>11, <3>2
      <4>2. ASSUME NEW x \in Objs, z.height[x] = z.level PROVE u.height[x] = z.level
        <5>1. x # o
          BY <1>9, <4>2, <2>1, <1>0 DEF Lists, Levels
        <5> QED BY <1>11, <4>2, <5>1
      <4> QED BY <2>1, <4>1, <4>2 DEF Leveled
    <3> QED BY <3>1, <3>2
  <2>4. ASSUME NEW i \in u.level + 1 .. MaxLevel PROVE u.forward[Header][i] = None
    <3>1. i \in Levels /\ ~ (i <= h) /\ i \in z.level + 1 .. MaxLevel
      BY <1>0, <1>9, <1>11
    <3>2. u.forward[Header][i] = r.forward[Header][i]
      BY <1>6, <3>1, Constants DEF InsertedFields
    <3> QED BY <1>5, <2>1, <3>1, <3>2 DEF Leveled
  <2> QED BY <2>2, <2>3, <2>4 DEF Leveled
<1>14. \A x \in Objs : u.score[x] = IF x = o THEN s ELSE z.score[x]
  BY <1>5, <1>6 DEF InsertedFields
<1>15. Skips(u, q)
  BY <1>8, <1>10, <1>12, <1>13 DEF Skips
<1> QED BY <1>11, <1>14, <1>15 DEF u, q

-----------------------------------------------------------------------------
\* What going around a node makes of the links and spans.
BypassedFields(u, z, x, path) ==
  /\ u \in Lists /\ u.level = z.level /\ u.length = z.length /\ u.tail = z.tail
  /\ u.height = z.height /\ u.score = z.score /\ u.backward = z.backward
  /\ \A q \in Places, i \in Levels :
       u.forward[q][i] = IF i <= z.level /\ q = path[i].node /\ z.forward[q][i] = x
                         THEN z.forward[x][i] ELSE z.forward[q][i]
  /\ \A q \in Places, i \in Levels :
       u.span[q][i] = IF i <= z.level /\ q = path[i].node
                      THEN IF z.forward[q][i] = x THEN z.span[q][i] - 1 + z.span[x][i] ELSE z.span[q][i] - 1
                      ELSE z.span[q][i]

\* Bypassing does.
LEMMA BypassedAre ==
  ASSUME NEW z \in Lists, NEW x \in Objs, NEW path
  PROVE  BypassedFields(Bypassed(z, x, path), z, x, path)
<1> DEFINE here(i) == z.forward[path[i].node][i] = x
           Link(q, i) == IF i <= z.level /\ q = path[i].node /\ here(i)
                         THEN z.forward[x][i] ELSE z.forward[q][i]
           Span(q, i) == IF i <= z.level /\ q = path[i].node
                         THEN z.span[q][i] - 1 + (IF here(i) THEN z.span[x][i] ELSE 0)
                         ELSE z.span[q][i]
           Link1(q, i) == IF i <= z.level /\ q = path[i].node /\ z.forward[q][i] = x
                          THEN z.forward[x][i] ELSE z.forward[q][i]
           Span1(q, i) == IF i <= z.level /\ q = path[i].node
                          THEN IF z.forward[q][i] = x THEN z.span[q][i] - 1 + z.span[x][i] ELSE z.span[q][i] - 1
                          ELSE z.span[q][i]
           forward == [q \in Places |-> [i \in Levels |-> Link1(q, i)]]
           span == [q \in Places |-> [i \in Levels |-> Span1(q, i)]]
<1>1. /\ z.forward \in [Places -> [Levels -> Objs \cup {None}]]
      /\ z.span \in [Places -> [Levels -> Int]] /\ x \in Places
  BY Constants DEF Lists
<1>2. ASSUME NEW q \in Places, NEW i \in Levels
      PROVE  /\ Link(q, i) = Link1(q, i) /\ Span(q, i) = Span1(q, i)
             /\ Link1(q, i) \in Objs \cup {None} /\ Span1(q, i) \in Int
  <2>1. /\ z.forward[q][i] \in Objs \cup {None} /\ z.forward[x][i] \in Objs \cup {None}
        /\ z.span[q][i] \in Int /\ z.span[x][i] \in Int
    BY <1>1
  <2>2. q = path[i].node => (here(i) <=> z.forward[q][i] = x)
    OBVIOUS
  <2> HIDE DEF here
  <2>3. Link(q, i) = Link1(q, i)
    BY <2>2
  <2>4. Span(q, i) = Span1(q, i)
    BY <2>1, <2>2
  <2> QED BY <2>1, <2>3, <2>4
<1>3. /\ [q \in Places |-> [i \in Levels |-> Link(q, i)]] = forward
      /\ [q \in Places |-> [i \in Levels |-> Span(q, i)]] = span
  <2> HIDE DEF Link, Link1, Span, Span1
  <2> QED BY <1>2
<1>4. Bypassed(z, x, path) =
        [z EXCEPT !.forward = [q \in Places |-> [i \in Levels |-> Link(q, i)]],
                  !.span = [q \in Places |-> [i \in Levels |-> Span(q, i)]]]
  BY DEF Bypassed
<1>5. Bypassed(z, x, path) = [z EXCEPT !.forward = forward, !.span = span]
  <2> HIDE DEF forward, span, Link, Span
  <2> QED BY <1>3, <1>4
<1>6. forward \in [Places -> [Levels -> Objs \cup {None}]] /\ span \in [Places -> [Levels -> Int]]
  <2> HIDE DEF Link, Link1, Span, Span1
  <2> QED BY <1>2
<1>7. \A q \in Places, i \in Levels : forward[q][i] = Link1(q, i) /\ span[q][i] = Span1(q, i)
  <2> HIDE DEF Link1, Span1
  <2> QED OBVIOUS
<1> HIDE DEF forward, span
<1>8. LET u == [z EXCEPT !.forward = forward, !.span = span]
      IN  /\ u \in Lists /\ u.level = z.level /\ u.length = z.length /\ u.tail = z.tail
          /\ u.height = z.height /\ u.score = z.score /\ u.backward = z.backward
          /\ u.forward = forward /\ u.span = span
  BY <1>6 DEF Lists
<1> QED BY <1>5, <1>7, <1>8 DEF BypassedFields

\* The levels at which the header has a link.
Linking(z, n) == {1} \cup {i \in 1 .. n : z.forward[Header][i] # None}

\* All fields of the list z with a node less.
DeletedFields(u, z, x, path) ==
  LET nx == z.forward[x][1]
  IN  /\ u \in Lists /\ u.length = z.length - 1 /\ u.level = Max(Linking(u, z.level))
      /\ \A q \in Objs : u.height[q] = IF q = x THEN 0 ELSE z.height[q]
      /\ \A q \in Objs : u.score[q] = IF q = x THEN None ELSE z.score[q]
      /\ u.tail = IF nx # None THEN z.tail ELSE z.backward[x]
      /\ \A q \in Objs \ {x} : u.backward[q] = IF q = nx THEN z.backward[x] ELSE z.backward[q]
      /\ \A q \in Places \ {x}, i \in Levels :
           u.forward[q][i] = IF i <= z.level /\ q = path[i].node /\ z.forward[q][i] = x
                             THEN z.forward[x][i] ELSE z.forward[q][i]
      /\ \A q \in Places \ {x}, i \in Levels :
           u.span[q][i] = IF i <= z.level /\ q = path[i].node
                          THEN IF z.forward[q][i] = x THEN z.span[q][i] - 1 + z.span[x][i] ELSE z.span[q][i] - 1
                          ELSE z.span[q][i]

\* The highest level at which the header has a link is one of the list.
LEMMA LinkingIs ==
  ASSUME NEW z, NEW n \in Levels
  PROVE  /\ Max(Linking(z, n)) \in Levels /\ Max(Linking(z, n)) \in Linking(z, n)
         /\ Max(Linking(z, n)) <= n /\ \A i \in Linking(z, n) : i <= Max(Linking(z, n))
<1> DEFINE T == Linking(z, n)
<1>1. n \in Nat /\ n >= 1 /\ n <= MaxLevel /\ MaxLevel \in Nat /\ Levels = 1 .. MaxLevel
  BY Constants DEF Levels
<1>2. T \in SUBSET (0 .. n) /\ T # {} /\ T \subseteq 1 .. n
  BY <1>1 DEF Linking
<1> HIDE DEF T
<1>3. Max(T) \in T /\ \A k \in T : Max(T) >= k
  BY <1>1, <1>2, MaxOfSet
<1>4. Max(T) \in 1 .. n
  BY <1>2, <1>3
<1>5. Max(T) \in Levels /\ Max(T) <= n
  BY <1>1, <1>4
<1>6. \A i \in T : i <= Max(T)
  <2> TAKE i \in T
  <2>1. i \in Int /\ Max(T) \in Int /\ Max(T) >= i
    BY <1>1, <1>2, <1>3, <1>4
  <2> QED BY <2>1
<1> QED BY <1>3, <1>5, <1>6 DEF T

\* Deleting a node gives the list a node less.
LEMMA DeletedAre ==
  ASSUME NEW z \in Lists, NEW x \in Objs, NEW path, z.length > 0
  PROVE  DeletedFields(DeleteNode(z, x, path), z, x, path)
<1> DEFINE c == Bypassed(z, x, path)
           nx == z.forward[x][1]
           b == z.backward[x]
           t == LinkedBack(c, nx, b)
           level == Max(Linking(t, t.level))
           length == t.length - 1
           height == [t.height EXCEPT ![x] = 0]
           score == [t.score EXCEPT ![x] = None]
           back == [t.backward EXCEPT ![x] = None]
           forward == [t.forward EXCEPT ![x] = [i \in Levels |-> None]]
           span == [t.span EXCEPT ![x] = [i \in Levels |-> 0]]
           u == [t EXCEPT !.level = level, !.length = length, !.height = height, !.score = score,
                          !.backward = back, !.forward = forward, !.span = span]
<1>0. 1 \in Levels /\ x \in Places /\ x # Header /\ Header \in Places /\ 0 \in 0 .. MaxLevel
  BY Constants
<1>1. BypassedFields(c, z, x, path)
  BY BypassedAre
<1>2. nx \in Objs \cup {None} /\ b \in Objs \cup {None}
  <2>1. z.forward[x] \in [Levels -> Objs \cup {None}]
    BY <1>0 DEF Lists
  <2> QED BY <1>0, <2>1 DEF Lists
<1>3. DeleteNode(z, x, path) = Freed([Lowered(t) EXCEPT !.length = @ - 1], x)
  BY DEF DeleteNode
<1> HIDE DEF c, nx, b
<1>4. BackFields(t, c, nx, b) /\ c \in Lists
  <2>1. c \in Lists
    BY <1>1 DEF BypassedFields
  <2> QED BY <1>2, <2>1, LinkedBackIs
<1> HIDE DEF t
<1>5. t \in Lists /\ t.level = z.level /\ t.length = z.length /\ t.level \in Levels
  <2>1. t \in Lists /\ t.level = z.level /\ t.length = z.length
    BY <1>1, <1>4 DEF BypassedFields, BackFields
  <2> QED BY <2>1 DEF Lists
<1>6. Freed([Lowered(t) EXCEPT !.length = @ - 1], x) = u
  <2>1. Lowered(t) = [t EXCEPT !.level = level]
    BY DEF Lowered, Linking
  <2> HIDE DEF level
  <2>2. [Lowered(t) EXCEPT !.length = @ - 1] = [t EXCEPT !.level = level, !.length = length]
    BY <1>5, <2>1 DEF Lists
  <2> HIDE DEF length
  <2>3. Freed([t EXCEPT !.level = level, !.length = length], x) = u
    BY <1>5 DEF Freed, Lists
  <2> QED BY <2>2, <2>3
<1>7. level \in Levels
  BY <1>5, LinkingIs
<1>8. length \in Nat
  BY <1>5 DEF Lists
<1>9. /\ height \in [Objs -> 0 .. MaxLevel] /\ score \in [Objs -> Scores \cup {None}]
      /\ back \in [Objs -> Objs \cup {None}]
      /\ \A q \in Objs : height[q] = (IF q = x THEN 0 ELSE t.height[q])
      /\ \A q \in Objs : score[q] = (IF q = x THEN None ELSE t.score[q])
      /\ \A q \in Objs : back[q] = (IF q = x THEN None ELSE t.backward[q])
  BY <1>0, <1>5 DEF Lists
<1>10. /\ forward \in [Places -> [Levels -> Objs \cup {None}]] /\ span \in [Places -> [Levels -> Int]]
       /\ \A q \in Places \ {x} : forward[q] = t.forward[q] /\ span[q] = t.span[q]
  BY <1>0, <1>5 DEF Lists
<1> HIDE DEF level, length, height, score, back, forward, span
<1>11. /\ u.level = level /\ u.length = length /\ u.tail = t.tail /\ u.height = height
       /\ u.score = score /\ u.backward = back /\ u.forward = forward /\ u.span = span
  BY <1>5 DEF Lists
<1>12. u \in Lists
  BY <1>5, <1>7, <1>8, <1>9, <1>10 DEF Lists
<1> HIDE DEF u
<1>13. Linking(t, t.level) = Linking(u, z.level)
  BY <1>0, <1>5, <1>10, <1>11 DEF Linking
<1>14. t.forward = c.forward /\ t.span = c.span
  BY <1>4 DEF BackFields
<1>15. /\ \A q \in Objs : u.height[q] = IF q = x THEN 0 ELSE z.height[q]
       /\ \A q \in Objs : u.score[q] = IF q = x THEN None ELSE z.score[q]
       /\ u.tail = IF nx # None THEN z.tail ELSE b
       /\ \A q \in Objs \ {x} : u.backward[q] = IF q = nx THEN b ELSE z.backward[q]
  BY <1>1, <1>4, <1>9, <1>11 DEF BypassedFields, BackFields
<1>16. /\ \A q \in Places \ {x}, i \in Levels :
            u.forward[q][i] = IF i <= z.level /\ q = path[i].node /\ z.forward[q][i] = x
                              THEN z.forward[x][i] ELSE z.forward[q][i]
       /\ \A q \in Places \ {x}, i \in Levels :
            u.span[q][i] = IF i <= z.level /\ q = path[i].node
                           THEN IF z.forward[q][i] = x THEN z.span[q][i] - 1 + z.span[x][i] ELSE z.span[q][i] - 1
                           ELSE z.span[q][i]
  BY <1>1, <1>10, <1>11, <1>14 DEF BypassedFields
<1>17. u.length = z.length - 1 /\ u.level = Max(Linking(u, z.level))
  BY <1>5, <1>11, <1>13 DEF length, level
<1>18. DeletedFields(u, z, x, path)
  BY <1>12, <1>15, <1>16, <1>17 DEF DeletedFields, nx, b
<1> QED BY <1>3, <1>6, <1>18

-----------------------------------------------------------------------------
\* A sequence without the element behind its first m.
Removed(q, p, m) ==
  /\ q \in Seq(Objs) /\ Len(q) = Len(p) - 1
  /\ \A k \in 1 .. Len(p) - 1 : q[k] = IF k <= m THEN p[k] ELSE p[k + 1]

\* RemoveAt makes it.
LEMMA RemoveAtRemoves ==
  ASSUME NEW p, Distinct(p), NEW m \in 0 .. Len(p) - 1
  PROVE  Removed(RemoveAt(p, m + 1), p, m)
<1>1. p \in Seq(Objs) /\ Len(p) \in Nat /\ m + 1 \in 1 .. Len(p)
  BY DistinctFit
<1> DEFINE q == RemoveAt(p, m + 1)
<1>2. /\ q \in Seq(Objs) /\ Len(q) = Len(p) - 1
      /\ \A j \in 1 .. Len(p) - 1 : q[j] = IF j < m + 1 THEN p[j] ELSE p[j + 1]
  BY <1>1, RemoveAtIs
<1> HIDE DEF q
<1>3. \A j \in 1 .. Len(p) - 1 : j < m + 1 <=> j <= m
  BY <1>1
<1>4. Removed(q, p, m)
  BY <1>2, <1>3 DEF Removed
<1> QED BY <1>4 DEF q

\* Which places are high enough in a list with a node less.
Shifted(u, q, z, p, m, i) ==
  /\ \A k \in 1 .. m : Tall(u, q, i, k) <=> Tall(z, p, i, k)
  /\ \A k \in m + 1 .. Len(p) - 1 : Tall(u, q, i, k) <=> Tall(z, p, i, k + 1)
  /\ \A k \in 0 .. m : Node(q, k) = Node(p, k)
  /\ \A k \in m + 1 .. Len(p) - 1 : Node(q, k) = Node(p, k + 1)

\* The same ones, one place in front behind it.
LEMMA TallRemoved ==
  ASSUME NEW z, NEW u, NEW p, Distinct(p), NEW m \in 0 .. Len(p) - 1,
         NEW q, Removed(q, p, m), \A y \in Objs : u.height[y] = IF y = p[m + 1] THEN 0 ELSE z.height[y],
         NEW i \in Levels
  PROVE  Shifted(u, q, z, p, m, i)
<1> DEFINE n == Len(p)
<1>1. n \in Nat /\ Len(q) = n - 1 /\ \A k \in 1 .. n : p[k] \in Objs
  BY DistinctFit DEF Removed
<1>2. /\ \A k \in 1 .. m : q[k] = p[k] /\ k \in 1 .. n /\ k \in 1 .. Len(q) /\ k # m + 1
      /\ \A k \in m + 1 .. n - 1 : q[k] = p[k + 1] /\ k + 1 \in 1 .. n /\ k \in 1 .. Len(q) /\ k + 1 # m + 1
      /\ m + 1 \in 1 .. n
  BY <1>1 DEF Removed
<1>3. \A k \in 1 .. n : k # m + 1 => u.height[p[k]] = z.height[p[k]]
  BY <1>1, <1>2 DEF Distinct
<1>4. \A k \in 1 .. m : Tall(u, q, i, k) <=> Tall(z, p, i, k)
  BY <1>2, <1>3 DEF Tall
<1>5. \A k \in m + 1 .. n - 1 : Tall(u, q, i, k) <=> Tall(z, p, i, k + 1)
  BY <1>2, <1>3 DEF Tall
<1>6. \A k \in m + 1 .. n - 1 : Node(q, k) = Node(p, k + 1)
  BY <1>1, <1>2 DEF Node
<1>7. \A k \in 0 .. m : Node(q, k) = Node(p, k)
  BY <1>1, <1>2 DEF Node
<1> QED BY <1>4, <1>5, <1>6, <1>7 DEF Shifted

\* A list with a node less still jumps from each node to the next, on every level.
LEMMA DeletedJumps ==
  ASSUME NEW z \in Lists, NEW p, Distinct(p), NEW m \in 0 .. Len(p) - 1, NEW path,
         Path(z, p, m, path), NEW q, Removed(q, p, m),
         NEW u, DeletedFields(u, z, p[m + 1], path),
         NEW i \in 1 .. z.level, Jumps(z, p, i)
  PROVE  Jumps(u, q, i)
<1> DEFINE n == Len(p)
           x == p[m + 1]
<1>0. /\ n \in Nat /\ Len(q) = n - 1 /\ i \in Levels /\ i \in Nat /\ z.level \in Nat /\ i <= z.level
      /\ m \in Nat /\ m + 1 <= n /\ m + 1 \in 1 .. n /\ u \in Lists /\ x \in Objs /\ x # None /\ x # Header
  <2>1. z.level \in Levels
    BY DEF Lists
  <2>2. n \in Nat /\ \A k \in 1 .. n : p[k] \in Objs /\ p[k] # None /\ p[k] # Header
    BY DistinctFit
  <2>3. m + 1 \in 1 .. n
    BY <2>2
  <2> QED BY <2>1, <2>2, <2>3, Constants DEF Removed, Levels, DeletedFields
<1>1. /\ \A k \in 1 .. m : Tall(u, q, i, k) <=> Tall(z, p, i, k)
      /\ \A k \in m + 1 .. n - 1 : Tall(u, q, i, k) <=> Tall(z, p, i, k + 1)
      /\ \A k \in 0 .. m : Node(q, k) = Node(p, k)
      /\ \A k \in m + 1 .. n - 1 : Node(q, k) = Node(p, k + 1)
  <2>1. \A y \in Objs : u.height[y] = IF y = p[m + 1] THEN 0 ELSE z.height[y]
    BY DEF DeletedFields
  <2>2. Shifted(u, q, z, p, m, i)
    <3>1. i \in Levels
      BY <1>0
    <3> QED BY <2>1, <3>1, TallRemoved
  <2> QED BY <2>2 DEF Shifted
<1>2. /\ \A k \in 1 .. m : At(q, k) = At(p, k)
      /\ \A k \in m + 2 .. n + 1 : At(q, k - 1) = At(p, k)
      /\ \A k \in m + 2 .. n + 1 : At(p, k) # x /\ At(p, m + 1) = x
  <2>1. ASSUME NEW k \in 1 .. m PROVE At(q, k) = At(p, k)
    <3>1. k \in 1 .. n /\ k \in 1 .. n - 1 /\ k <= m
      BY <1>0
    <3>2. q[k] = p[k] /\ Len(q) = n - 1
      BY <3>1 DEF Removed
    <3> QED BY <3>1, <3>2 DEF At
  <2>2. ASSUME NEW k \in m + 2 .. n + 1 PROVE At(q, k - 1) = At(p, k)
    <3>1. CASE k = n + 1
      BY <1>0, <3>1 DEF At
    <3>2. CASE k # n + 1
      <4>1. k \in 1 .. n /\ k - 1 \in 1 .. n - 1 /\ ~ (k - 1 <= m) /\ k - 1 + 1 = k
        BY <1>0, <3>2
      <4> QED BY <1>0, <4>1 DEF At, Removed
    <3> QED BY <3>1, <3>2
  <2>3. ASSUME NEW k \in m + 2 .. n + 1 PROVE At(p, k) # x /\ At(p, m + 1) = x
    <3>1. k \in 1 .. n => p[k] # x
      BY <1>0 DEF Distinct
    <3> QED BY <1>0, <3>1 DEF At
  <2> QED BY <2>1, <2>2, <2>3
<1>3. PICK b \in 0 .. m : /\ path[i] = [node |-> Node(p, b), rank |-> b]
                          /\ Stands(z, p, i, b) /\ Low(z, p, i, b + 1, m)
  BY <1>0 DEF Path, Leaves
<1> DEFINE end == Node(p, b)
<1>4. PICK over \in m + 1 .. n + 1 : Jump(z, p, i, b, over)
  BY <1>0, <1>3, OverTheEnd
<1>5. /\ over \in b + 1 .. n + 1 /\ Low(z, p, i, b + 1, over - 1)
      /\ over <= n => Tall(z, p, i, over)
      /\ z.forward[end][i] = At(p, over)
      /\ z.span[end][i] = (IF over <= n THEN over ELSE n) - b
  BY <1>4 DEF Jump
<1>6. \A k \in 0 .. n : k # b => Node(p, k) # end /\ Node(p, k) \in Places
  <2>1. b \in 0 .. n
    BY <1>0
  <2> QED BY <2>1, NodesDiffer
<1>7. Node(p, m + 1) = x /\ \A k \in 0 .. n : k # m + 1 => Node(p, k) \in Places \ {x}
  <2>1. Node(p, m + 1) = x
    BY <1>0 DEF Node
  <2>2. \A k \in 0 .. n : k # m + 1 => Node(p, k) # Node(p, m + 1) /\ Node(p, k) \in Places
    BY <1>0, NodesDiffer
  <2> QED BY <2>1, <2>2
<1>8. end \in Places \ {x}
  BY <1>0, <1>7
<1>9. /\ path[i].node = end
      /\ u.forward[end][i] = IF z.forward[end][i] = x THEN z.forward[x][i] ELSE z.forward[end][i]
      /\ u.span[end][i] = IF z.forward[end][i] = x THEN z.span[end][i] - 1 + z.span[x][i] ELSE z.span[end][i] - 1
  <2>1. path[i].node = end
    BY <1>3
  <2> QED BY <1>0, <1>8, <2>1 DEF DeletedFields
<1>10. \A y \in Places \ {x} : y # end => u.forward[y][i] = z.forward[y][i] /\ u.span[y][i] = z.span[y][i]
  BY <1>0, <1>9 DEF DeletedFields
<1> HIDE DEF end
<1> SUFFICES ASSUME NEW k \in 0 .. n - 1, Stands(u, q, i, k)
             PROVE  \E nx \in 1 .. n : Jump(u, q, i, k, nx)
  BY <1>0 DEF Jumps
<1>11. CASE k = b /\ over = m + 1
  <2>1. Node(q, k) = end
    BY <1>0, <1>1, <1>11 DEF end
  <2>2. z.forward[end][i] = x
    BY <1>0, <1>5, <1>11 DEF At
  <2>3. Stands(z, p, i, m + 1)
    BY <1>0, <1>5, <1>11 DEF Stands
  <2>4. PICK y \in 1 .. n + 1 : Jump(z, p, i, m + 1, y)
    <3>1. m + 1 \in 0 .. n
      BY <1>0
    <3> QED BY <2>3, <3>1 DEF Jumps
  <2>5. y \in m + 2 .. n + 1
    BY <1>0, <2>4 DEF Jump
  <2>6. u.forward[Node(q, k)][i] = At(q, y - 1)
    BY <1>2, <1>7, <1>9, <2>1, <2>2, <2>4, <2>5 DEF Jump
  <2>7. u.span[Node(q, k)][i] = (IF y - 1 <= n - 1 THEN y - 1 ELSE n - 1) - k
    <3>1. z.span[x][i] = (IF y <= n THEN y ELSE n) - (m + 1)
      BY <1>7, <2>4 DEF Jump
    <3>2. u.span[Node(q, k)][i] = (m + 1 - b) - 1 + ((IF y <= n THEN y ELSE n) - (m + 1))
      <4>1. z.span[end][i] = m + 1 - b
        BY <1>0, <1>5, <1>11
      <4>2. u.span[end][i] = z.span[end][i] - 1 + z.span[x][i]
        BY <1>9, <2>2
      <4> QED BY <2>1, <3>1, <4>1, <4>2
    <3>3. n \in Int /\ m \in Int /\ b \in Int /\ y \in Int /\ k = b /\ y <= n + 1
      BY <1>0, <1>11, <2>5
    <3> HIDE DEF n
    <3>4. CASE y <= n
      BY <3>2, <3>3, <3>4
    <3>5. CASE y = n + 1
      BY <3>2, <3>3, <3>5
    <3> QED BY <3>3, <3>4, <3>5
  <2>8. Low(u, q, i, k + 1, y - 1 - 1)
    <3> SUFFICES ASSUME NEW j \in k + 1 .. y - 1 - 1 PROVE ~ Tall(u, q, i, j)
      BY DEF Low
    <3>1. CASE j <= m
      <4>1. j \in 1 .. m /\ j \in b + 1 .. m
        BY <1>0, <1>11, <3>1
      <4> QED BY <1>1, <1>3, <4>1 DEF Low
    <3>2. CASE j > m
      <4>1. j \in m + 1 .. n - 1 /\ j + 1 \in m + 1 + 1 .. y - 1
        BY <1>0, <1>11, <2>5, <3>2
      <4> QED BY <1>1, <2>4, <4>1 DEF Jump, Low
    <3> QED BY <1>0, <3>1, <3>2
  <2>9. y - 1 <= n - 1 => Tall(u, q, i, y - 1)
    <3>1. y - 1 <= n - 1 => y - 1 \in m + 1 .. n - 1 /\ y - 1 + 1 = y /\ y <= n
      BY <1>0, <2>5
    <3> QED BY <1>1, <2>4, <3>1 DEF Jump
  <2>10. y - 1 \in k + 1 .. n /\ y - 1 \in 1 .. n
    BY <1>0, <1>11, <2>5
  <2>11. Jump(u, q, i, k, y - 1)
    <3>1. Len(q) + 1 = n
      BY <1>0
    <3> QED BY <1>0, <2>6, <2>7, <2>8, <2>9, <2>10, <3>1 DEF Jump
  <2> QED BY <2>10, <2>11
<1>12. CASE k = b /\ over # m + 1
  <2>1. Node(q, k) = end
    BY <1>0, <1>1, <1>12 DEF end
  <2>2. over \in m + 2 .. n + 1
    BY <1>0, <1>12
  <2>3. z.forward[end][i] # x /\ u.forward[Node(q, k)][i] = At(q, over - 1)
    BY <1>2, <1>5, <1>9, <2>1, <2>2
  <2>4. u.span[Node(q, k)][i] = (IF over - 1 <= n - 1 THEN over - 1 ELSE n - 1) - k
    <3>1. u.span[Node(q, k)][i] = (IF over <= n THEN over ELSE n) - b - 1
      BY <1>5, <1>9, <2>1, <2>3
    <3> QED BY <1>0, <1>12, <2>2, <3>1
  <2>5. Low(u, q, i, k + 1, over - 1 - 1)
    <3> SUFFICES ASSUME NEW j \in k + 1 .. over - 1 - 1 PROVE ~ Tall(u, q, i, j)
      BY DEF Low
    <3>1. CASE j <= m
      <4>1. j \in 1 .. m /\ j \in b + 1 .. m
        BY <1>0, <1>12, <3>1
      <4> QED BY <1>1, <1>3, <4>1 DEF Low
    <3>2. CASE j > m
      <4>1. j \in m + 1 .. n - 1 /\ j + 1 \in b + 1 .. over - 1
        BY <1>0, <1>12, <2>2, <3>2
      <4> QED BY <1>1, <1>5, <4>1 DEF Low
    <3> QED BY <1>0, <3>1, <3>2
  <2>6. over - 1 <= n - 1 => Tall(u, q, i, over - 1)
    <3>1. over - 1 <= n - 1 => over - 1 \in m + 1 .. n - 1 /\ over - 1 + 1 = over /\ over <= n
      BY <1>0, <2>2
    <3> QED BY <1>1, <1>5, <3>1
  <2>7. over - 1 \in k + 1 .. n /\ over - 1 \in 1 .. n
    BY <1>0, <1>12, <2>2
  <2>8. Jump(u, q, i, k, over - 1)
    <3>1. Len(q) + 1 = n
      BY <1>0
    <3> QED BY <1>0, <2>3, <2>4, <2>5, <2>6, <2>7, <3>1 DEF Jump
  <2> QED BY <2>7, <2>8
<1>13. CASE k # b /\ k <= m
  <2>1. /\ k \in 0 .. n /\ k \in 0 .. m /\ Node(q, k) = Node(p, k) /\ Stands(z, p, i, k) /\ k # m + 1
        /\ b \in Int
    BY <1>0, <1>1, <1>13 DEF Stands
  <2>2. k < b
    <3> SUFFICES ASSUME k > b PROVE FALSE
      BY <1>0, <1>13, <2>1
    <3>1. k \in b + 1 .. m /\ k # 0
      BY <1>0, <1>13
    <3> QED BY <1>3, <2>1, <3>1 DEF Stands, Low
  <2>3. PICK nx \in 1 .. n + 1 : Jump(z, p, i, k, nx)
    BY <2>1 DEF Jumps
  <2>4. nx <= b
    <3> SUFFICES ASSUME nx > b PROVE FALSE
      BY <1>0
    <3>1. b \in k + 1 .. nx - 1 /\ b # 0
      BY <1>0, <2>2
    <3>2. Tall(z, p, i, b)
      BY <1>3, <3>1 DEF Stands
    <3> QED BY <2>3, <3>1, <3>2 DEF Jump, Low
  <2>5. nx \in k + 1 .. n /\ nx \in 1 .. m /\ nx <= n /\ nx <= n - 1 /\ nx \in 1 .. n
    BY <1>0, <2>3, <2>4 DEF Jump
  <2>6. Node(p, k) # end /\ Node(p, k) \in Places \ {x}
    BY <1>6, <1>7, <1>13, <2>1
  <2>7. u.forward[Node(q, k)][i] = At(q, nx) /\ u.span[Node(q, k)][i] = nx - k
    <3>1. u.forward[Node(q, k)][i] = z.forward[Node(p, k)][i] /\ u.span[Node(q, k)][i] = z.span[Node(p, k)][i]
      BY <1>10, <2>1, <2>6
    <3> QED BY <1>2, <2>3, <2>5, <3>1 DEF Jump
  <2>8. Tall(u, q, i, nx)
    BY <1>1, <2>3, <2>5 DEF Jump
  <2>9. Low(u, q, i, k + 1, nx - 1)
    <3> SUFFICES ASSUME NEW j \in k + 1 .. nx - 1 PROVE ~ Tall(u, q, i, j)
      BY DEF Low
    <3>1. j \in 1 .. m
      BY <1>0, <2>5
    <3> QED BY <1>1, <2>3, <3>1 DEF Jump, Low
  <2>10. Jump(u, q, i, k, nx)
    <3>1. Len(q) + 1 = n /\ nx <= Len(q)
      BY <1>0, <2>5
    <3> QED BY <2>5, <2>7, <2>8, <2>9, <3>1 DEF Jump
  <2> QED BY <2>5, <2>10
<1>14. CASE k > m
  <2>1. k \in m + 1 .. n - 1 /\ k + 1 \in 0 .. n /\ k + 1 # b /\ k # 0 /\ k + 1 # m + 1 /\ k + 1 # 0
    BY <1>0, <1>14
  <2>2. Node(q, k) = Node(p, k + 1) /\ Stands(z, p, i, k + 1)
    BY <1>1, <2>1 DEF Stands
  <2>3. PICK nx \in 1 .. n + 1 : Jump(z, p, i, k + 1, nx)
    BY <2>1, <2>2 DEF Jumps
  <2>4. nx \in k + 2 .. n + 1 /\ nx \in m + 2 .. n + 1
    <3>1. nx \in k + 1 + 1 .. n + 1
      BY <2>3 DEF Jump
    <3> QED BY <1>0, <2>1, <3>1
  <2>5. Node(p, k + 1) # end /\ Node(p, k + 1) \in Places \ {x}
    BY <1>6, <1>7, <2>1
  <2>6. u.forward[Node(q, k)][i] = z.forward[Node(p, k + 1)][i] /\ u.span[Node(q, k)][i] = z.span[Node(p, k + 1)][i]
    BY <1>10, <2>2, <2>5
  <2>7. u.forward[Node(q, k)][i] = At(q, nx - 1)
    BY <1>2, <2>3, <2>4, <2>6 DEF Jump
  <2>8. u.span[Node(q, k)][i] = (IF nx - 1 <= n - 1 THEN nx - 1 ELSE n - 1) - k
    <3>1. u.span[Node(q, k)][i] = (IF nx <= n THEN nx ELSE n) - (k + 1)
      BY <2>3, <2>6 DEF Jump
    <3>2. n \in Int /\ nx \in Int /\ k \in Int /\ nx <= n + 1
      BY <1>0, <2>4
    <3> HIDE DEF n
    <3>3. CASE nx <= n
      BY <3>1, <3>2, <3>3
    <3>4. CASE nx = n + 1
      BY <3>1, <3>2, <3>4
    <3>5. nx <= n \/ nx = n + 1
      BY <3>2
    <3> QED BY <3>3, <3>4, <3>5
  <2>9. Low(u, q, i, k + 1, nx - 1 - 1)
    <3> SUFFICES ASSUME NEW j \in k + 1 .. nx - 1 - 1 PROVE ~ Tall(u, q, i, j)
      BY DEF Low
    <3>1. j \in m + 1 .. n - 1 /\ j + 1 \in k + 1 + 1 .. nx - 1
      BY <1>0, <2>1, <2>4
    <3> QED BY <1>1, <2>3, <3>1 DEF Jump, Low
  <2>10. nx - 1 <= n - 1 => Tall(u, q, i, nx - 1)
    <3>1. nx - 1 <= n - 1 => nx - 1 \in m + 1 .. n - 1 /\ nx - 1 + 1 = nx /\ nx <= n
      BY <1>0, <2>1, <2>4
    <3> QED BY <1>1, <2>3, <3>1 DEF Jump
  <2>11. nx - 1 \in k + 1 .. n /\ nx - 1 \in 1 .. n
    BY <1>0, <2>1, <2>4
  <2>12. Jump(u, q, i, k, nx - 1)
    <3>1. Len(q) + 1 = n
      BY <1>0
    <3> QED BY <1>0, <2>7, <2>8, <2>9, <2>10, <2>11, <3>1 DEF Jump
  <2> QED BY <2>11, <2>12
<1>15. (k = b) \/ (k # b /\ k <= m) \/ k > m
  <2>1. k \in Int /\ m \in Int
    BY <1>0
  <2> QED BY <2>1
<1> QED BY <1>11, <1>12, <1>13, <1>14, <1>15

\* A list with a node less is listed in the order of the scores.
LEMMA DeletedListed ==
  ASSUME NEW z, NEW p, Listed(z, p), NEW m \in 0 .. Len(p) - 1, NEW path, NEW q, Removed(q, p, m),
         NEW u, DeletedFields(u, z, p[m + 1], path)
  PROVE  Listed(u, q)
<1> DEFINE n == Len(p)
           x == p[m + 1]
           Old(k) == IF k <= m THEN k ELSE k + 1
<1>0. /\ z \in Lists /\ u \in Lists /\ Distinct(p) /\ InOrder(z, p) /\ n \in Nat /\ z.length = n
      /\ q \in Seq(Objs) /\ Len(q) = n - 1 /\ m \in Nat /\ m + 1 \in 1 .. n /\ x \in Objs
      /\ \A k \in 1 .. n : p[k] \in Objs
  <2>1. Distinct(p)
    BY DEF Listed
  <2>2. n \in Nat /\ \A k \in 1 .. n : p[k] \in Objs
    BY <2>1, DistinctFit
  <2>3. m + 1 \in 1 .. n
    BY <2>2
  <2> QED BY <2>1, <2>2, <2>3 DEF Listed, DeletedFields, Removed
<1>1. ASSUME NEW k \in 1 .. n - 1
      PROVE  Old(k) \in 1 .. n /\ Old(k) # m + 1 /\ q[k] = p[Old(k)]
  <2>0. q[k] = IF k <= m THEN p[k] ELSE p[k + 1]
    BY DEF Removed
  <2>1. CASE k <= m
    <3>1. k \in 1 .. n /\ k # m + 1
      BY <1>0, <2>1
    <3> QED BY <2>0, <2>1, <3>1
  <2>2. CASE k > m
    <3>1. k + 1 \in 1 .. n /\ k + 1 # m + 1 /\ ~ (k <= m)
      BY <1>0, <2>2
    <3> QED BY <2>0, <3>1
  <2> QED BY <1>0, <2>1, <2>2
<1>2. \A j, k \in 1 .. n - 1 : (j < k => Old(j) < Old(k)) /\ (Old(j) = Old(k) => j = k)
  BY <1>0
<1>3. ASSUME NEW j \in 1 .. n, j # m + 1 PROVE \E k \in 1 .. n - 1 : Old(k) = j
  <2>1. CASE j <= m
    <3>1. j \in 1 .. n - 1 /\ Old(j) = j
      BY <1>0, <2>1
    <3> QED BY <3>1
  <2>2. CASE j > m
    <3>1. j - 1 \in 1 .. n - 1 /\ Old(j - 1) = j
      BY <1>0, <1>3, <2>2
    <3> QED BY <3>1
  <2> QED BY <1>0, <2>1, <2>2
<1> HIDE DEF Old
<1>4. \A j \in 1 .. n : j # m + 1 => p[j] # x
  BY <1>0 DEF Distinct
<1>5. Distinct(q)
  <2> SUFFICES ASSUME NEW j \in 1 .. n - 1, NEW k \in 1 .. n - 1, q[j] = q[k] PROVE j = k
    BY <1>0 DEF Distinct
  <2>1. Old(j) = Old(k)
    BY <1>0, <1>1 DEF Distinct
  <2> QED BY <1>2, <2>1
<1>6. \A y \in Objs : /\ u.height[y] = (IF y = x THEN 0 ELSE z.height[y])
                      /\ u.score[y] = (IF y = x THEN None ELSE z.score[y])
  BY DEF DeletedFields
<1>7. InOrder(u, q)
  <2> SUFFICES ASSUME NEW j \in 1 .. n - 1, NEW k \in 1 .. n - 1, j < k
               PROVE  NodeLt(u, q[j], u.score[q[k]], q[k])
    BY <1>0 DEF InOrder
  <2>1. NodeLt(z, p[Old(j)], z.score[p[Old(k)]], p[Old(k)])
    BY <1>0, <1>1, <1>2 DEF InOrder
  <2>2. u.score[q[j]] = z.score[p[Old(j)]] /\ u.score[q[k]] = z.score[p[Old(k)]]
    BY <1>0, <1>1, <1>4, <1>6
  <2> QED BY <1>1, <2>1, <2>2 DEF NodeLt
<1>8. \A y \in Objs : u.height[y] > 0 <=> \E k \in 1 .. Len(q) : q[k] = y
  <2> TAKE y \in Objs
  <2>1. CASE y = x
    <3>1. u.height[y] = 0
      BY <1>6, <2>1
    <3>2. \A k \in 1 .. n - 1 : q[k] # y
      BY <1>1, <1>4, <2>1
    <3> QED BY <1>0, <3>1, <3>2
  <2>2. CASE y # x
    <3>1. u.height[y] > 0 <=> \E k \in 1 .. n : p[k] = y
      BY <1>6, <2>2 DEF Listed
    <3>2. ASSUME NEW k \in 1 .. n, p[k] = y PROVE \E j \in 1 .. n - 1 : q[j] = y
      BY <1>1, <1>3, <2>2, <3>2
    <3>3. ASSUME NEW j \in 1 .. n - 1, q[j] = y PROVE \E k \in 1 .. n : p[k] = y
      BY <1>1, <3>3
    <3> QED BY <1>0, <3>1, <3>2, <3>3
  <2> QED BY <2>1, <2>2
<1>9. \A y \in Objs : u.height[y] > 0 <=> u.score[y] # None
  <2> TAKE y \in Objs
  <2>1. z.height[y] > 0 <=> z.score[y] # None
    BY DEF Listed
  <2> QED BY <1>6, <2>1
<1>10. u.length = Len(q)
  BY <1>0 DEF DeletedFields
<1> QED BY <1>0, <1>5, <1>7, <1>8, <1>9, <1>10 DEF Listed

\* The header reaches every level on which there is a node.
LEMMA HeaderLinks ==
  ASSUME NEW u \in Lists, NEW q, Distinct(q), NEW i \in Levels, Jumps(u, q, i)
  PROVE  /\ u.forward[Header][i] # None => \E k \in 1 .. Len(q) : Tall(u, q, i, k)
         /\ \A k \in 1 .. Len(q) : Tall(u, q, i, k) => u.forward[Header][i] # None
<1>1. Len(q) \in Nat /\ \A k \in 1 .. Len(q) : q[k] # None
  BY DistinctFit
<1>2. PICK nx \in 1 .. Len(q) + 1 : Jump(u, q, i, 0, nx)
  BY <1>1 DEF Jumps, Stands
<1>3. /\ u.forward[Header][i] = At(q, nx) /\ nx \in 0 + 1 .. Len(q) + 1
      /\ Low(u, q, i, 0 + 1, nx - 1) /\ (nx <= Len(q) => Tall(u, q, i, nx))
  BY <1>2 DEF Jump, Node
<1>4. CASE nx <= Len(q)
  <2>1. nx \in 1 .. Len(q) /\ Tall(u, q, i, nx) /\ u.forward[Header][i] = q[nx]
    BY <1>1, <1>3, <1>4 DEF At
  <2> QED BY <1>1, <2>1
<1>5. CASE nx > Len(q)
  <2>1. u.forward[Header][i] = None
    BY <1>1, <1>3, <1>5 DEF At
  <2>2. \A k \in 1 .. Len(q) : ~ Tall(u, q, i, k)
    <3>1. \A k \in 1 .. Len(q) : k \in 0 + 1 .. nx - 1
      BY <1>1, <1>3, <1>5
    <3> QED BY <1>3, <3>1 DEF Low
  <2> QED BY <2>1, <2>2
<1> QED BY <1>1, <1>3, <1>4, <1>5

\* The level is that of the highest node that is left.
LEMMA DeletedLeveled ==
  ASSUME NEW z \in Lists, Leveled(z), NEW p, Distinct(p), NEW m \in 0 .. Len(p) - 1, NEW path,
         NEW u, DeletedFields(u, z, p[m + 1], path), NEW q, Listed(u, q),
         \A i \in 1 .. z.level : Jumps(u, q, i)
  PROVE  Leveled(u)
<1> DEFINE T == Linking(u, z.level)
           top == Max(T)
<1>0. /\ u \in Lists /\ Distinct(q) /\ z.level \in Levels /\ z.level \in Nat /\ u.level = top
      /\ Levels = 1 .. MaxLevel /\ MaxLevel \in Nat
      /\ Header \in Places /\ p[m + 1] \in Objs /\ Header # p[m + 1]
  <2>1. z.level \in Levels
    BY DEF Lists
  <2>2. m + 1 \in 1 .. Len(p)
    BY DistinctFit
  <2> QED BY <2>1, <2>2, Constants, DistinctFit DEF Levels, Listed, DeletedFields
<1>1. top \in Levels /\ top \in T /\ top <= z.level /\ \A i \in T : i <= top
  BY <1>0, LinkingIs
<1> HIDE DEF top
<1>2. ASSUME NEW y \in Objs PROVE u.height[y] <= top
  <2> DEFINE i == u.height[y]
  <2>1. i \in 0 .. MaxLevel /\ top >= 1
    BY <1>0, <1>1 DEF Lists
  <2>2. CASE i = 0
    BY <1>0, <1>1, <2>1, <2>2
  <2>3. CASE i # 0
    <3>1. i > 0
      BY <2>1, <2>3, <1>0
    <3>2. PICK k \in 1 .. Len(q) : q[k] = y
      BY <3>1 DEF Listed
    <3>3. i <= z.level
      <4>1. i = (IF y = p[m + 1] THEN 0 ELSE z.height[y])
        BY DEF DeletedFields
      <4>2. z.height[y] <= z.level
        BY DEF Leveled
      <4> QED BY <2>3, <4>1, <4>2
    <3>4. i \in 1 .. z.level /\ i \in Levels
      BY <1>0, <2>1, <3>1, <3>3
    <3>5. Tall(u, q, i, k)
      BY <1>0, <2>1, <3>2 DEF Tall
    <3>6. u.forward[Header][i] # None
      BY <1>0, <3>4, <3>5, HeaderLinks
    <3>7. i \in T
      BY <3>4, <3>6 DEF Linking
    <3> QED BY <1>1, <3>7
  <2> QED BY <2>2, <2>3
<1>3. top = 1 \/ \E y \in Objs : u.height[y] = top
  <2> SUFFICES ASSUME top # 1 PROVE \E y \in Objs : u.height[y] = top
    OBVIOUS
  <2>1. u.forward[Header][top] # None /\ top \in 1 .. z.level
    BY <1>1 DEF Linking
  <2>2. PICK k \in 1 .. Len(q) : Tall(u, q, top, k)
    BY <1>0, <1>1, <2>1, HeaderLinks
  <2>3. q[k] \in Objs /\ u.height[q[k]] >= top
    BY <1>0, <2>2, DistinctFit DEF Tall
  <2>4. u.height[q[k]] <= top /\ u.height[q[k]] \in 0 .. MaxLevel
    BY <1>0, <1>2, <2>3 DEF Lists
  <2>5. u.height[q[k]] = top
    BY <1>0, <1>1, <2>3, <2>4
  <2> QED BY <2>3, <2>5
<1>4. ASSUME NEW i \in top + 1 .. MaxLevel PROVE u.forward[Header][i] = None
  <2>0. i \in Levels /\ i \in Nat /\ i > top
    BY <1>0, <1>1
  <2>1. CASE i <= z.level
    <3>1. i \notin T /\ i \in 1 .. z.level
      BY <1>0, <1>1, <2>0, <2>1
    <3> QED BY <3>1 DEF Linking
  <2>2. CASE i > z.level
    <3>1. i \in z.level + 1 .. MaxLevel /\ ~ (i <= z.level)
      BY <1>0, <2>0, <2>2
    <3>2. u.forward[Header][i] = z.forward[Header][i]
      BY <1>0, <2>0, <3>1 DEF DeletedFields
    <3> QED BY <3>1, <3>2 DEF Leveled
  <2> QED BY <1>0, <2>0, <2>1, <2>2
<1> QED BY <1>0, <1>2, <1>3, <1>4 DEF Leveled

\* The backward links go around it.
LEMMA DeletedBacked ==
  ASSUME NEW z, NEW p, Listed(z, p), Backed(z, p), Jumps(z, p, 1),
         NEW m \in 0 .. Len(p) - 1, NEW path, NEW q, Removed(q, p, m),
         NEW u, DeletedFields(u, z, p[m + 1], path)
  PROVE  Backed(u, q)
<1> DEFINE n == Len(p)
           x == p[m + 1]
           nx == z.forward[x][1]
           b == z.backward[x]
<1>0. /\ z \in Lists /\ Distinct(p) /\ n \in Nat /\ Len(q) = n - 1 /\ m \in Nat /\ m + 1 \in 1 .. n
      /\ m + 1 \in 0 .. n /\ \A k \in 1 .. n : p[k] \in Objs /\ p[k] # None
  <2>1. Distinct(p) /\ z \in Lists
    BY DEF Listed
  <2>2. n \in Nat /\ \A k \in 1 .. n : p[k] \in Objs /\ p[k] # None
    BY <2>1, DistinctFit
  <2>3. m + 1 \in 1 .. n /\ m + 1 \in 0 .. n
    BY <2>2
  <2> QED BY <2>1, <2>2, <2>3 DEF Removed
<1>1. nx = At(p, m + 2)
  <2>1. Node(p, m + 1) = x
    BY <1>0 DEF Node
  <2>2. z.forward[Node(p, m + 1)][1] = At(p, m + 1 + 1)
    BY <1>0, LowestLinks
  <2>3. m + 1 + 1 = m + 2
    BY <1>0
  <2> QED BY <2>1, <2>2, <2>3
<1>2. z.tail = At(p, n) /\ \A k \in 1 .. n : z.backward[p[k]] = At(p, k - 1)
  BY DEF Backed
<1>3. b = At(p, m)
  <2>1. m + 1 - 1 = m
    BY <1>0
  <2> QED BY <1>0, <1>2, <2>1
<1> HIDE DEF nx, b
<1>4. /\ u.tail = (IF nx # None THEN z.tail ELSE b)
      /\ \A y \in Objs \ {x} : u.backward[y] = IF y = nx THEN b ELSE z.backward[y]
  BY DEF DeletedFields, nx, b
<1>5. /\ \A k \in 1 .. m : k \in 1 .. n - 1 /\ q[k] = p[k]
      /\ \A k \in m + 1 .. n - 1 : k \in 1 .. n - 1 /\ k + 1 \in 1 .. n /\ q[k] = p[k + 1]
  BY <1>0 DEF Removed
<1>6. \A k \in 1 .. n : k # m + 1 => p[k] \in Objs \ {x} /\ (p[k] = nx <=> k = m + 2)
  <2> SUFFICES ASSUME NEW k \in 1 .. n, k # m + 1
               PROVE  p[k] \in Objs \ {x} /\ (p[k] = nx <=> k = m + 2)
    OBVIOUS
  <2>1. p[k] # x
    BY <1>0 DEF Distinct
  <2>2. m + 2 \in 1 .. n => (p[k] = p[m + 2] <=> k = m + 2)
    BY <1>0 DEF Distinct
  <2> QED BY <1>0, <1>1, <2>1, <2>2 DEF At
<1>7. u.tail = At(q, Len(q))
  <2>1. CASE m = n - 1
    <3>1. nx = None
      BY <1>0, <1>1, <2>1 DEF At
    <3>2. At(q, n - 1) = At(p, m)
      <4>1. m # 0 => m \in 1 .. m
        BY <1>0
      <4> QED BY <1>0, <1>5, <2>1, <4>1 DEF At
    <3> QED BY <1>0, <1>3, <1>4, <3>1, <3>2
  <2>2. CASE m # n - 1
    <3>1. m + 2 \in 1 .. n /\ n - 1 \in m + 1 .. n - 1 /\ n - 1 + 1 = n /\ n \in 1 .. n /\ n - 1 \in 1 .. n - 1
      BY <1>0, <2>2
    <3>2. nx # None
      BY <1>0, <1>1, <3>1 DEF At
    <3>3. At(q, n - 1) = p[n] /\ At(p, n) = p[n]
      BY <1>0, <1>5, <3>1 DEF At
    <3> QED BY <1>0, <1>2, <1>4, <3>2, <3>3
  <2> QED BY <2>1, <2>2
<1>8. ASSUME NEW k \in 1 .. n - 1 PROVE u.backward[q[k]] = At(q, k - 1)
  <2>1. CASE k <= m
    <3>1. k \in 1 .. m /\ k \in 1 .. n /\ q[k] = p[k] /\ k # m + 1 /\ k # m + 2
      BY <1>0, <1>5, <2>1
    <3>2. u.backward[q[k]] = At(p, k - 1)
      BY <1>2, <1>4, <1>6, <3>1
    <3>3. At(q, k - 1) = At(p, k - 1)
      <4>1. k # 1 => k - 1 \in 1 .. m
        BY <1>0, <3>1
      <4> QED BY <1>0, <1>5, <3>1, <4>1 DEF At
    <3> QED BY <3>2, <3>3
  <2>2. CASE k = m + 1
    <3>1. k \in m + 1 .. n - 1 /\ q[k] = p[m + 2] /\ k - 1 = m /\ m + 2 \in 1 .. n /\ m + 2 # m + 1
      BY <1>0, <1>5, <2>2
    <3>2. u.backward[q[k]] = At(p, m)
      BY <1>3, <1>4, <1>6, <3>1
    <3>3. At(q, m) = At(p, m)
      <4>1. m # 0 => m \in 1 .. m
        BY <1>0
      <4> QED BY <1>0, <1>5, <4>1 DEF At
    <3> QED BY <3>1, <3>2, <3>3
  <2>3. CASE k > m + 1
    <3>1. /\ k \in m + 1 .. n - 1 /\ k - 1 \in m + 1 .. n - 1 /\ q[k] = p[k + 1] /\ q[k - 1] = p[k]
          /\ k + 1 \in 1 .. n /\ k + 1 # m + 1 /\ k + 1 # m + 2 /\ k \in 1 .. n /\ k - 1 \in 1 .. n - 1
          /\ k + 1 - 1 = k /\ k - 1 + 1 = k
      BY <1>0, <1>5, <2>3
    <3>2. u.backward[q[k]] = At(p, k)
      BY <1>2, <1>4, <1>6, <3>1
    <3>3. At(q, k - 1) = At(p, k)
      BY <1>0, <3>1 DEF At
    <3> QED BY <3>2, <3>3
  <2> QED BY <1>0, <2>1, <2>2, <2>3
<1> QED BY <1>0, <1>7, <1>8 DEF Backed

\* A deletion behind the end of a search makes a list of the other nodes, of which
\* the search is still at the same end.
LEMMA DeletedSkips ==
  ASSUME NEW z, NEW p, Skips(z, p), NEW m \in 0 .. Len(p) - 1, NEW path, Path(z, p, m, path)
  PROVE  /\ Skips(DeleteNode(z, p[m + 1], path), RemoveAt(p, m + 1))
         /\ Path(DeleteNode(z, p[m + 1], path), RemoveAt(p, m + 1), m, path)
         /\ \A y \in Objs : DeleteNode(z, p[m + 1], path).height[y] = IF y = p[m + 1] THEN 0 ELSE z.height[y]
         /\ \A y \in Objs : DeleteNode(z, p[m + 1], path).score[y] = IF y = p[m + 1] THEN None ELSE z.score[y]
<1> DEFINE n == Len(p)
           x == p[m + 1]
           u == DeleteNode(z, x, path)
           q == RemoveAt(p, m + 1)
<1>0. /\ Listed(z, p) /\ Backed(z, p) /\ Leveled(z) /\ \A i \in 1 .. z.level : Jumps(z, p, i)
      /\ z \in Lists /\ Distinct(p) /\ z.length = n /\ n \in Nat /\ m + 1 \in 1 .. n
      /\ x \in Objs /\ z.length > 0 /\ z.level \in Levels /\ 1 \in 1 .. z.level
  <2>1. /\ Listed(z, p) /\ Backed(z, p) /\ Leveled(z) /\ \A i \in 1 .. z.level : Jumps(z, p, i)
        /\ z \in Lists /\ Distinct(p) /\ z.length = n
    BY DEF Skips, Listed
  <2>2. n \in Nat /\ \A k \in 1 .. n : p[k] \in Objs
    BY <2>1, DistinctFit
  <2>3. m + 1 \in 1 .. n /\ n > 0
    BY <2>2
  <2>4. z.level \in Levels /\ 1 \in 1 .. z.level
    BY <2>1 DEF Lists, Levels
  <2> QED BY <2>1, <2>2, <2>3, <2>4
<1>1. DeletedFields(u, z, x, path)
  BY <1>0, DeletedAre
<1>2. Removed(q, p, m)
  BY <1>0, RemoveAtRemoves
<1> HIDE DEF u, q
<1>3. Listed(u, q)
  BY <1>0, <1>1, <1>2, DeletedListed
<1>4. \A i \in 1 .. z.level : Jumps(u, q, i)
  <2> TAKE i \in 1 .. z.level
  <2>1. Jumps(z, p, i)
    BY <1>0
  <2> QED BY <1>0, <1>1, <1>2, <2>1, DeletedJumps
<1>5. Leveled(u)
  BY <1>0, <1>1, <1>3, <1>4, DeletedLeveled
<1>6. Backed(u, q)
  <2>1. Jumps(z, p, 1)
    BY <1>0
  <2> QED BY <1>0, <1>1, <1>2, <2>1, DeletedBacked
<1>7. \A i \in 1 .. u.level : Jumps(u, q, i)
  <2>1. u.level <= z.level /\ u.level \in Levels
    <3>1. u.level = Max(Linking(u, z.level))
      BY <1>1 DEF DeletedFields
    <3> QED BY <1>0, <3>1, LinkingIs
  <2>2. \A i \in 1 .. u.level : i \in 1 .. z.level
    BY <1>0, <2>1 DEF Levels
  <2> QED BY <1>4, <2>2
<1>8. Skips(u, q)
  BY <1>3, <1>5, <1>6, <1>7 DEF Skips
<1>9. /\ \A y \in Objs : u.height[y] = IF y = x THEN 0 ELSE z.height[y]
      /\ \A y \in Objs : u.score[y] = IF y = x THEN None ELSE z.score[y]
  BY <1>1 DEF DeletedFields
<1>10. Path(u, q, m, path)
  <2> SUFFICES ASSUME NEW i \in Levels PROVE Leaves(u, q, m, i, path[i])
    BY DEF Path
  <2>1. PICK b \in 0 .. m : /\ path[i] = [node |-> Node(p, b), rank |-> b]
                            /\ Stands(z, p, i, b) /\ Low(z, p, i, b + 1, m)
    BY DEF Path, Leaves
  <2>2. Shifted(u, q, z, p, m, i)
    BY <1>0, <1>2, <1>9, TallRemoved
  <2>3. Node(q, b) = Node(p, b)
    BY <2>2 DEF Shifted
  <2>4. Stands(u, q, i, b)
    <3>1. b # 0 => b \in 1 .. m
      BY <1>0
    <3> QED BY <2>1, <2>2, <3>1 DEF Stands, Shifted
  <2>5. Low(u, q, i, b + 1, m)
    <3> SUFFICES ASSUME NEW k \in b + 1 .. m PROVE ~ Tall(u, q, i, k)
      BY DEF Low
    <3>1. k \in 1 .. m
      BY <1>0
    <3> QED BY <2>1, <2>2, <3>1 DEF Low, Shifted
  <2> QED BY <2>1, <2>3, <2>4, <2>5 DEF Leaves
<1> QED BY <1>8, <1>9, <1>10 DEF u, q

-----------------------------------------------------------------------------
Deletes(after, z, path, going, n) ==
  after = [k \in 0 .. n |-> IF k = 0 THEN z ELSE Deleted(after[k - 1], path, going, k)]

\* The recursive function of DeletedWhile exists.
LEMMA DeletesExist ==
  ASSUME NEW z, NEW path, NEW going, NEW n \in Nat
  PROVE  \E after : Deletes(after, z, path, going, n)
<1> DEFINE Bad == {m \in 0 .. n : ~ \E after : Deletes(after, z, path, going, m)}
<1>1. SUFFICES ASSUME Bad # {} PROVE FALSE
  OBVIOUS
<1>2. PICK m \in Bad : \A k \in Bad : m <= k
  <2>1. Bad \in SUBSET Nat
    OBVIOUS
  <2> HIDE DEF Bad
  <2> QED BY <1>1, <2>1, LeastNatural
<1>3. m # 0
  <2> DEFINE e == [k \in 0 .. 0 |-> z]
  <2>1. e = [k \in 0 .. 0 |-> IF k = 0 THEN z ELSE Deleted(e[k - 1], path, going, k)]
    OBVIOUS
  <2> HIDE DEF e
  <2>2. Deletes(e, z, path, going, 0)
    BY <2>1 DEF Deletes
  <2> QED BY <2>2
<1>4. m \in Nat /\ m - 1 \in 0 .. n /\ m - 1 \notin Bad
  <2>1. m \in 0 .. n
    OBVIOUS
  <2> HIDE DEF Bad
  <2> QED BY <1>2, <1>3, <2>1
<1>5. PICK f : Deletes(f, z, path, going, m - 1)
  BY <1>4
<1> DEFINE last == Deleted(f[m - 1], path, going, m)
           g == [k \in 0 .. m |-> IF k = m THEN last ELSE f[k]]
<1>6. \A k \in 0 .. m - 1 : f[k] = IF k = 0 THEN z ELSE Deleted(f[k - 1], path, going, k)
  BY <1>5 DEF Deletes
<1>7. ASSUME NEW k \in 0 .. m
      PROVE  g[k] = IF k = 0 THEN z ELSE Deleted(g[k - 1], path, going, k)
  <2>1. CASE k = m
    <3>1. g[m] = last /\ g[m - 1] = f[m - 1]
      BY <1>3, <1>4
    <3> QED BY <1>3, <2>1, <3>1
  <2>2. CASE k # m
    <3>1. k \in 0 .. m - 1 /\ g[k] = f[k]
      BY <1>4, <2>2
    <3>2. k # 0 => k - 1 \in 0 .. m /\ k - 1 # m
      BY <1>4, <2>2
    <3>3. k # 0 => g[k - 1] = f[k - 1]
      BY <3>2
    <3> HIDE DEF g
    <3> QED BY <1>6, <3>1, <3>3
  <2> QED BY <2>1, <2>2
<1>8. Deletes(g, z, path, going, m)
  <2> HIDE DEF last
  <2>1. g = [k \in 0 .. m |-> g[k]]
    OBVIOUS
  <2> HIDE DEF g
  <2> QED BY <2>1, <1>7 DEF Deletes
<1> QED BY <1>8, <1>2

\* A sequence without the r elements behind its first m.
Cut(q, p, m, r) ==
  /\ q \in Seq(Objs) /\ Len(q) = Len(p) - r
  /\ \A k \in 1 .. Len(p) - r : q[k] = IF k <= m THEN p[k] ELSE p[k + r]
Taken(p, m, r) == {p[j] : j \in m + 1 .. m + r}

\* The list u is the list z with those nodes deleted.
CutDown(u, z, p, m, r, path) ==
  /\ \E q \in Seq(Objs) : Cut(q, p, m, r) /\ Skips(u, q) /\ Path(u, q, m, path)
  /\ \A y \in Objs : u.height[y] = IF y \in Taken(p, m, r) THEN 0 ELSE z.height[y]
  /\ \A y \in Objs : u.score[y] = IF y \in Taken(p, m, r) THEN None ELSE z.score[y]

\* One of them more, as v has, if there is one to go; else v is u.
CutStep(v, u, z, p, m, r, path, going, k) ==
  /\ m + r < Len(p) /\ <<p[m + r + 1], k>> \in going => CutDown(v, z, p, m, r + 1, path)
  /\ m + r = Len(p) \/ <<p[m + r + 1], k>> \notin going => v = u

\* A turn of the loop does.
LEMMA CutMore ==
  ASSUME NEW z, NEW u, NEW p, Distinct(p), NEW m \in 0 .. Len(p), NEW r \in 0 .. Len(p) - m,
         NEW path, CutDown(u, z, p, m, r, path), NEW going, NEW k
  PROVE  CutStep(Deleted(u, path, going, k), u, z, p, m, r, path, going, k)
<1> DEFINE n == Len(p)
<1>0. n \in Nat /\ m \in Nat /\ r \in Nat /\ m + r <= n /\ \A j \in 1 .. n : p[j] \in Objs /\ p[j] # None
  BY DistinctFit
<1>1. PICK q \in Seq(Objs) : Cut(q, p, m, r) /\ Skips(u, q) /\ Path(u, q, m, path)
  BY DEF CutDown
<1>2. /\ Len(q) = n - r /\ Listed(u, q) /\ Distinct(q) /\ Jumps(u, q, 1) /\ m \in 0 .. Len(q)
      /\ \A j \in 1 .. n - r : q[j] = IF j <= m THEN p[j] ELSE p[j + r]
  <2>1. Len(q) = n - r /\ Listed(u, q) /\ \A j \in 1 .. n - r : q[j] = IF j <= m THEN p[j] ELSE p[j + r]
    BY <1>1 DEF Cut, Skips
  <2>2. u \in Lists /\ Distinct(q)
    BY <2>1 DEF Listed
  <2>3. 1 \in 1 .. u.level
    BY <2>2 DEF Lists, Levels
  <2>4. Jumps(u, q, 1)
    BY <1>1, <2>3 DEF Skips
  <2> QED BY <1>0, <2>1, <2>2, <2>4
<1>3. u.forward[path[1].node][1] = At(q, m + 1)
  <2>1. path[1] = [node |-> Node(q, m), rank |-> m]
    BY <1>1, <1>2, PathAtLowest
  <2>2. u.forward[Node(q, m)][1] = At(q, m + 1)
    BY <1>2, LowestLinks
  <2> QED BY <2>1, <2>2
<1>4. At(q, m + 1) = IF m + r < n THEN p[m + r + 1] ELSE None
  <2>1. CASE m + r < n
    <3>1. m + 1 \in 1 .. n - r /\ ~ (m + 1 <= m) /\ m + 1 + r = m + r + 1
      BY <1>0, <2>1
    <3> QED BY <1>2, <2>1, <3>1 DEF At
  <2>2. CASE ~ (m + r < n)
    <3>1. m + 1 \notin 1 .. n - r
      BY <1>0, <2>2
    <3> QED BY <1>2, <2>2, <3>1 DEF At
  <2> QED BY <2>1, <2>2
<1>5. ASSUME m + r < n, <<p[m + r + 1], k>> \in going
      PROVE  CutDown(Deleted(u, path, going, k), z, p, m, r + 1, path)
  <2> DEFINE x == p[m + r + 1]
             t == DeleteNode(u, x, path)
             s == RemoveAt(q, m + 1)
  <2>1. x # None /\ x \in Objs /\ x = q[m + 1] /\ m \in 0 .. Len(q) - 1
    <3>1. m + r + 1 \in 1 .. n /\ m + 1 \in 1 .. Len(q)
      BY <1>0, <1>2, <1>5
    <3>2. At(q, m + 1) = x /\ At(q, m + 1) = q[m + 1]
      BY <1>4, <1>5, <3>1 DEF At
    <3> QED BY <1>0, <1>2, <3>1, <3>2
  <2>2. Deleted(u, path, going, k) = t
    <3>1. u.forward[path[1].node][1] = x
      BY <1>3, <1>4, <1>5
    <3> QED BY <1>5, <2>1, <3>1 DEF Deleted
  <2>3. /\ Skips(t, s) /\ Path(t, s, m, path)
        /\ \A y \in Objs : t.height[y] = IF y = x THEN 0 ELSE u.height[y]
        /\ \A y \in Objs : t.score[y] = IF y = x THEN None ELSE u.score[y]
    BY <1>1, <2>1, DeletedSkips
  <2>4. Removed(s, q, m)
    BY <1>2, <2>1, RemoveAtRemoves
  <2> HIDE DEF t, s
  <2>5. Cut(s, p, m, r + 1)
    <3>1. s \in Seq(Objs) /\ Len(s) = n - (r + 1)
      BY <1>0, <1>2, <2>4 DEF Removed
    <3>2. ASSUME NEW j \in 1 .. n - (r + 1) PROVE s[j] = IF j <= m THEN p[j] ELSE p[j + (r + 1)]
      <4>1. s[j] = IF j <= m THEN q[j] ELSE q[j + 1]
        BY <1>0, <1>2, <2>4 DEF Removed
      <4>2. CASE j <= m
        <5>1. j \in 1 .. n - r
          BY <1>0
        <5> QED BY <1>2, <4>1, <4>2, <5>1
      <4>3. CASE ~ (j <= m)
        <5>1. j + 1 \in 1 .. n - r /\ ~ (j + 1 <= m) /\ j + 1 + r = j + (r + 1)
          BY <1>0, <4>3
        <5>2. q[j + 1] = p[j + 1 + r]
          BY <1>2, <5>1
        <5> QED BY <4>1, <4>3, <5>1, <5>2
      <4> QED BY <4>2, <4>3
    <3> QED BY <3>1, <3>2 DEF Cut
  <2>6. Taken(p, m, r + 1) = Taken(p, m, r) \cup {x}
    <3>1. m + 1 .. m + (r + 1) = (m + 1 .. m + r) \cup {m + r + 1}
      BY <1>0
    <3> QED BY <3>1 DEF Taken
  <2>7. /\ \A y \in Objs : t.height[y] = IF y \in Taken(p, m, r + 1) THEN 0 ELSE z.height[y]
        /\ \A y \in Objs : t.score[y] = IF y \in Taken(p, m, r + 1) THEN None ELSE z.score[y]
    <3>1. /\ \A y \in Objs : u.height[y] = IF y \in Taken(p, m, r) THEN 0 ELSE z.height[y]
          /\ \A y \in Objs : u.score[y] = IF y \in Taken(p, m, r) THEN None ELSE z.score[y]
      BY DEF CutDown
    <3> HIDE DEF x
    <3> QED BY <2>3, <2>6, <3>1
  <2>8. s \in Seq(Objs)
    BY <2>5 DEF Cut
  <2> QED BY <2>2, <2>3, <2>5, <2>7, <2>8 DEF CutDown
<1>6. ASSUME m + r = n \/ <<p[m + r + 1], k>> \notin going
      PROVE  Deleted(u, path, going, k) = u
  <2>1. m + r = n => u.forward[path[1].node][1] = None
    BY <1>0, <1>3, <1>4
  <2>2. m + r # n => u.forward[path[1].node][1] = p[m + r + 1]
    BY <1>0, <1>3, <1>4
  <2> QED BY <1>6, <2>1, <2>2 DEF Deleted
<1> QED BY <1>5, <1>6 DEF CutStep

\* The nodes up to place e go, if the condition holds of each in its turn and not of
\* the next one.
LEMMA DeletedWhileIs ==
  ASSUME NEW z, NEW p, Skips(z, p), NEW m \in 0 .. Len(p), NEW e \in m .. Len(p),
         NEW path, Path(z, p, m, path), NEW going,
         \A j \in m + 1 .. e : <<p[j], j - m>> \in going,
         e < Len(p) => \A k \in e + 1 - m .. Cardinality(Objs) : <<p[e + 1], k>> \notin going
  PROVE  CutDown(DeletedWhile(z, path, going), z, p, m, e - m, path)
<1> DEFINE C == Cardinality(Objs)
           n == Len(p)
           after == CHOOSE after : Deletes(after, z, path, going, C)
           Good(k) == \E r \in 0 .. e - m : /\ CutDown(after[k], z, p, m, r, path)
                                            /\ r <= k /\ (r = k \/ r = e - m)
           Bad == {k \in 0 .. C : ~ Good(k)}
<1>0. Distinct(p) /\ p \in Seq(Objs)
  BY DistinctFit DEF Skips, Listed
<1>1. C \in Nat /\ n \in Nat /\ n <= C /\ m \in Nat /\ e \in Nat /\ m <= e /\ e <= n
  BY <1>0, Constants, DistinctFit
<1>2. DeletedWhile(z, path, going) = after[C]
  BY DEF DeletedWhile, Deletes
<1>3. Deletes(after, z, path, going, C)
  BY <1>1, DeletesExist
<1> HIDE DEF after
<1>4. \A k \in 0 .. C : after[k] = IF k = 0 THEN z ELSE Deleted(after[k - 1], path, going, k)
  BY <1>3 DEF Deletes
<1>5. CutDown(z, z, p, m, 0, path)
  <2>1. Cut(p, p, m, 0)
    BY <1>0, <1>1 DEF Cut
  <2>2. Taken(p, m, 0) = {}
    BY <1>1 DEF Taken
  <2> QED BY <1>0, <2>1, <2>2 DEF CutDown
<1>6. Bad = {}
  <2>1. SUFFICES ASSUME Bad # {} PROVE FALSE
    OBVIOUS
  <2>2. PICK k \in Bad : \A j \in Bad : k <= j
    <3>1. Bad \in SUBSET Nat
      BY <1>1
    <3> HIDE DEF Bad
    <3> QED BY <2>1, <3>1, LeastNatural
  <2>3. k \in 0 .. C /\ ~ Good(k)
    OBVIOUS
  <2>4. k # 0
    <3>1. after[0] = z /\ 0 \in 0 .. e - m /\ 0 <= 0
      BY <1>1, <1>4
    <3>2. Good(0)
      BY <1>5, <3>1
    <3> QED BY <2>3, <3>2
  <2>5. k - 1 \in 0 .. C /\ k - 1 \notin Bad
    <3> HIDE DEF Bad
    <3> QED BY <1>1, <2>2, <2>3, <2>4
  <2>6. PICK r \in 0 .. e - m : /\ CutDown(after[k - 1], z, p, m, r, path)
                                /\ r <= k - 1 /\ (r = k - 1 \/ r = e - m)
    BY <2>5
  <2>7. after[k] = Deleted(after[k - 1], path, going, k)
    BY <1>4, <2>3, <2>4
  <2>8. /\ m + r < n /\ <<p[m + r + 1], k>> \in going => CutDown(after[k], z, p, m, r + 1, path)
        /\ m + r = n \/ <<p[m + r + 1], k>> \notin going => after[k] = after[k - 1]
    <3>1. r \in 0 .. n - m
      BY <1>1
    <3> DEFINE w == after[k - 1]
               v == Deleted(w, path, going, k)
    <3>2. CutDown(w, z, p, m, r, path)
      BY <2>6
    <3> HIDE DEF w
    <3>3. CutStep(v, w, z, p, m, r, path, going, k)
      BY <1>0, <3>1, <3>2, CutMore
    <3>4. after[k] = v
      BY <2>7 DEF w
    <3> HIDE DEF v
    <3> QED BY <3>3, <3>4 DEF w, CutStep
  <2>9. CASE r < e - m
    <3>1. /\ r = k - 1 /\ m + r + 1 \in m + 1 .. e /\ m + r + 1 - m = k /\ m + r < n
          /\ r + 1 \in 0 .. e - m /\ r + 1 = k /\ r + 1 <= k
      BY <1>1, <2>3, <2>6, <2>9
    <3>2. <<p[m + r + 1], k>> \in going
      BY <3>1
    <3> HIDE DEF Bad
    <3> QED BY <2>3, <2>8, <3>1, <3>2
  <2>10. CASE r = e - m
    <3>1. m + r = n \/ <<p[m + r + 1], k>> \notin going
      <4>1. m + r = e /\ k \in e + 1 - m .. C
        BY <1>1, <2>3, <2>6, <2>10
      <4>2. e = n \/ e < n
        BY <1>1
      <4> QED BY <4>1, <4>2
    <3>2. r <= k
      BY <1>1, <2>3, <2>6
    <3> HIDE DEF Bad
    <3> QED BY <2>3, <2>6, <2>8, <2>10, <3>1, <3>2
  <2> QED BY <1>1, <2>6, <2>9, <2>10
<1>7. Good(C)
  BY <1>1, <1>6
<1>8. PICK r \in 0 .. e - m : CutDown(after[C], z, p, m, r, path) /\ (r = C \/ r = e - m)
  BY <1>7
<1>9. r = e - m
  BY <1>1, <1>8
<1> QED BY <1>2, <1>8, <1>9

-----------------------------------------------------------------------------
\* What a list of nodes says of each of them.
LEMMA NodesOf ==
  ASSUME NEW z, NEW p, Listed(z, p)
  PROVE  /\ Nodes(z) = {p[k] : k \in 1 .. Len(p)} /\ Nodes(z) = {o \in Objs : z.score[o] # None}
         /\ \A k \in 1 .. Len(p) : p[k] \in Nodes(z) /\ p[k] \in Int /\ z.score[p[k]] \in Int
<1>0. /\ z \in Lists /\ Distinct(p) /\ Scores \subseteq Int /\ Objs \subseteq Nat
      /\ \A k \in 1 .. Len(p) : p[k] \in Objs
  BY Constants, DistinctFit DEF Listed
<1>1. Nodes(z) = {p[k] : k \in 1 .. Len(p)}
  BY <1>0 DEF Nodes, Listed
<1>2. Nodes(z) = {o \in Objs : z.score[o] # None}
  BY DEF Nodes, Listed
<1>3. ASSUME NEW k \in 1 .. Len(p) PROVE p[k] \in Nodes(z) /\ p[k] \in Int /\ z.score[p[k]] \in Int
  <2>1. p[k] \in Objs /\ p[k] \in Nodes(z)
    BY <1>0, <1>1
  <2>2. z.score[p[k]] # None
    BY <1>2, <2>1
  <2>3. z.score[p[k]] \in Scores \cup {None}
    BY <1>0, <2>1 DEF Lists
  <2>4. \A o \in Objs : o \in Int
    BY <1>0
  <2> QED BY <1>0, <2>1, <2>2, <2>3, <2>4
<1> QED BY <1>1, <1>2, <1>3

\* The first m elements are as many.
LEMMA FirstAre ==
  ASSUME NEW p, Distinct(p), NEW m \in 0 .. Len(p)
  PROVE  Cardinality({p[j] : j \in 1 .. m}) = m
<1> DEFINE T == {p[j] : j \in 1 .. m}
           f == [j \in 1 .. m |-> p[j]]
<1>1. m \in Nat /\ Len(p) \in Nat /\ \A j \in 1 .. m : j \in 1 .. Len(p)
  BY DistinctFit
<1>2. f \in Bijection(1 .. m, T)
  <2>1. f \in [1 .. m -> T]
    OBVIOUS
  <2>2. \A a, b \in 1 .. m : f[a] = f[b] => a = b
    BY <1>1 DEF Distinct
  <2>3. \A t \in T : \E a \in 1 .. m : f[a] = t
    OBVIOUS
  <2> HIDE DEF f, T
  <2>4. DOMAIN f = 1 .. m
    BY <2>1
  <2> QED BY <2>1, <2>2, <2>3, <2>4 DEF Bijection, Injection, Surjection, IsInjective
<1>3. IsFiniteSet(1 .. m) /\ Cardinality(1 .. m) = m
  <2>1. m \in Int /\ 1 \in Int
    BY <1>1
  <2>2. IsFiniteSet(1 .. m) /\ Cardinality(1 .. m) = IF 1 > m THEN 0 ELSE m - 1 + 1
    BY <2>1, FS_Interval
  <2> QED BY <1>1, <2>2
<1>4. Cardinality(T) = Cardinality(1 .. m)
  <2> HIDE DEF f, T
  <2>1. ExistsBijection(1 .. m, T)
    BY <1>2 DEF ExistsBijection
  <2> QED BY <1>3, <2>1, FS_Bijection
<1> QED BY <1>3, <1>4

\* The place of a node in the order of the scores is its place in the sequence.
LEMMA PlaceIs ==
  ASSUME NEW z, NEW p, Listed(z, p), NEW k \in 1 .. Len(p)
  PROVE  Cardinality({x \in Nodes(z) : NodeLt(z, x, z.score[p[k]], p[k])}) + 1 = k
<1>0. Distinct(p) /\ InOrder(z, p) /\ Len(p) \in Nat
  BY DistinctFit DEF Listed
<1>1. /\ Nodes(z) = {p[j] : j \in 1 .. Len(p)}
      /\ \A j \in 1 .. Len(p) : p[j] \in Nodes(z) /\ p[j] \in Int /\ z.score[p[j]] \in Int
  BY NodesOf
<1>2. \A j \in 1 .. Len(p) : NodeLt(z, p[j], z.score[p[k]], p[k]) <=> j < k
  <2> TAKE j \in 1 .. Len(p)
  <2>1. j < k => NodeLt(z, p[j], z.score[p[k]], p[k])
    BY <1>0 DEF InOrder
  <2>2. k < j => NodeLt(z, p[k], z.score[p[j]], p[j])
    BY <1>0 DEF InOrder
  <2>3. p[j] \in Int /\ z.score[p[j]] \in Int /\ p[k] \in Int /\ z.score[p[k]] \in Int
    BY <1>1
  <2>4. k < j => ~ NodeLt(z, p[j], z.score[p[k]], p[k])
    BY <2>2, <2>3 DEF NodeLt
  <2>5. ~ NodeLt(z, p[k], z.score[p[k]], p[k])
    BY <2>3 DEF NodeLt
  <2> QED BY <1>0, <2>1, <2>4, <2>5
<1>3. {x \in Nodes(z) : NodeLt(z, x, z.score[p[k]], p[k])} = {p[j] : j \in 1 .. k - 1}
  <2>1. \A j \in 1 .. Len(p) : j < k <=> j \in 1 .. k - 1
    BY <1>0
  <2>2. \A j \in 1 .. k - 1 : j \in 1 .. Len(p)
    BY <1>0
  <2> QED BY <1>1, <1>2, <2>1, <2>2
<1>4. k - 1 \in 0 .. Len(p)
  BY <1>0
<1>5. Cardinality({p[j] : j \in 1 .. k - 1}) = k - 1
  BY <1>0, <1>4, FirstAre
<1>6. k \in Int /\ (k - 1) + 1 = k
  BY <1>0
<1> DEFINE T == {x \in Nodes(z) : NodeLt(z, x, z.score[p[k]], p[k])}
           U == {p[j] : j \in 1 .. k - 1}
<1>7. T = U
  BY <1>3
<1> HIDE DEF U
<1>8. Cardinality(T) = k - 1
  <2> HIDE DEF T
  <2>1. Cardinality(U) = k - 1
    BY <1>5 DEF U
  <2> QED BY <1>7, <2>1
<1> QED BY <1>6, <1>8

\* The scores go up along the sequence.
LEMMA ScoresAscend ==
  ASSUME NEW z, NEW p, Listed(z, p), NEW j \in 1 .. Len(p), NEW k \in 1 .. Len(p), j < k
  PROVE  z.score[p[j]] <= z.score[p[k]]
<1>1. NodeLt(z, p[j], z.score[p[k]], p[k])
  BY DEF Listed, InOrder
<1>2. z.score[p[j]] \in Int /\ z.score[p[k]] \in Int
  BY NodesOf
<1> QED BY <1>1, <1>2 DEF NodeLt

\* The nodes that come before a score and an object are the first ones.
LEMMA BeforeAreFirst ==
  ASSUME NEW z, NEW p, Listed(z, p), NEW s \in Scores, NEW o \in Objs
  PROVE  \E m \in 0 .. Len(p) : \A k \in 1 .. Len(p) : NodeLt(z, p[k], s, o) <=> k <= m
<1> DEFINE T == {k \in 1 .. Len(p) : NodeLt(z, p[k], s, o)}
<1>1. Len(p) \in Nat
  BY DistinctFit DEF Listed
<1>2. \A j, k \in 1 .. Len(p) : j < k /\ k \in T => j \in T
  <2> SUFFICES ASSUME NEW j \in 1 .. Len(p), NEW k \in 1 .. Len(p), j < k, NodeLt(z, p[k], s, o)
               PROVE  NodeLt(z, p[j], s, o)
    OBVIOUS
  <2>1. NodeLt(z, p[j], z.score[p[k]], p[k])
    BY DEF Listed, InOrder
  <2>2. /\ z.score[p[j]] \in Int /\ z.score[p[k]] \in Int /\ p[j] \in Int /\ p[k] \in Int
        /\ s \in Int /\ o \in Int
    <3>1. s \in Int
      BY Constants
    <3>2. o \in Nat
      BY Constants
    <3>3. z.score[p[j]] \in Int /\ z.score[p[k]] \in Int /\ p[j] \in Int /\ p[k] \in Int
      BY NodesOf
    <3> QED BY <3>1, <3>2, <3>3
  <2> QED BY <2>1, <2>2 DEF NodeLt
<1>3. T \in SUBSET (1 .. Len(p))
  OBVIOUS
<1> HIDE DEF T
<1>4. PICK m \in 0 .. Len(p) : \A k \in 1 .. Len(p) : k \in T <=> k <= m
  BY <1>1, <1>2, <1>3, CutExists
<1> QED BY <1>4 DEF T

\* The nodes below a bound of the scores are the first ones.
LEMMA BelowAreFirst ==
  ASSUME NEW z, NEW p, Listed(z, p), NEW min \in Scores, NEW minex \in BOOLEAN
  PROVE  \E m \in 0 .. Len(p) : \A k \in 1 .. Len(p) : Below(z.score[p[k]], min, minex) <=> k <= m
<1> DEFINE T == {k \in 1 .. Len(p) : Below(z.score[p[k]], min, minex)}
<1>1. Len(p) \in Nat /\ min \in Int
  BY Constants, DistinctFit DEF Listed
<1>2. \A j, k \in 1 .. Len(p) : j < k /\ k \in T => j \in T
  <2> SUFFICES ASSUME NEW j \in 1 .. Len(p), NEW k \in 1 .. Len(p), j < k, Below(z.score[p[k]], min, minex)
               PROVE  Below(z.score[p[j]], min, minex)
    OBVIOUS
  <2>1. z.score[p[j]] <= z.score[p[k]]
    BY ScoresAscend
  <2>2. z.score[p[j]] \in Int /\ z.score[p[k]] \in Int
    BY NodesOf
  <2> QED BY <1>1, <2>1, <2>2 DEF Below
<1>3. T \in SUBSET (1 .. Len(p))
  OBVIOUS
<1> HIDE DEF T
<1>4. PICK m \in 0 .. Len(p) : \A k \in 1 .. Len(p) : k \in T <=> k <= m
  BY <1>1, <1>2, <1>3, CutExists
<1> QED BY <1>4 DEF T

\* The nodes not above a bound of the scores are the first ones, too.
LEMMA WithinAreFirst ==
  ASSUME NEW z, NEW p, Listed(z, p), NEW max \in Scores, NEW maxex \in BOOLEAN
  PROVE  \E m \in 0 .. Len(p) : \A k \in 1 .. Len(p) : Within(z.score[p[k]], max, maxex) <=> k <= m
<1> DEFINE T == {k \in 1 .. Len(p) : Within(z.score[p[k]], max, maxex)}
<1>1. Len(p) \in Nat /\ max \in Int
  BY Constants, DistinctFit DEF Listed
<1>2. \A j, k \in 1 .. Len(p) : j < k /\ k \in T => j \in T
  <2> SUFFICES ASSUME NEW j \in 1 .. Len(p), NEW k \in 1 .. Len(p), j < k, Within(z.score[p[k]], max, maxex)
               PROVE  Within(z.score[p[j]], max, maxex)
    OBVIOUS
  <2>1. z.score[p[j]] <= z.score[p[k]]
    BY ScoresAscend
  <2>2. z.score[p[j]] \in Int /\ z.score[p[k]] \in Int
    BY NodesOf
  <2> QED BY <1>1, <2>1, <2>2 DEF Within
<1>3. T \in SUBSET (1 .. Len(p))
  OBVIOUS
<1> HIDE DEF T
<1>4. PICK m \in 0 .. Len(p) : \A k \in 1 .. Len(p) : k \in T <=> k <= m
  BY <1>1, <1>2, <1>3, CutExists
<1> QED BY <1>4 DEF T

-----------------------------------------------------------------------------
\* Both modules count alike.
LEMMA PromiseCounts == \A S : Promise!Cardinality(S) = Cardinality(S)
  BY DEF Promise!Cardinality, Cardinality

\* Members of the sorted set are the nodes, ranked by their places.
LEMMA MembersAre ==
  ASSUME NEW p, Listed(zsl, p)
  PROVE  /\ Promise!Members = {p[k] : k \in 1 .. Len(p)} /\ Promise!Members = Nodes(zsl)
         /\ \A k \in 1 .. Len(p) : Promise!Rank(p[k]) = k /\ k \in Ranks
<1>1. Promise!Members = Nodes(zsl) /\ Nodes(zsl) = {p[k] : k \in 1 .. Len(p)}
  BY NodesOf DEF Promise!Members
<1>2. ASSUME NEW k \in 1 .. Len(p) PROVE Promise!Rank(p[k]) = k
  <2>1. {x \in Promise!Members : Promise!Before(x, p[k])}
          = {x \in Nodes(zsl) : NodeLt(zsl, x, zsl.score[p[k]], p[k])}
    BY <1>1 DEF Promise!Before, NodeLt
  <2>2. Cardinality({x \in Nodes(zsl) : NodeLt(zsl, x, zsl.score[p[k]], p[k])}) + 1 = k
    BY PlaceIs
  <2> DEFINE T == {x \in Promise!Members : Promise!Before(x, p[k])}
  <2>3. Promise!Rank(p[k]) = Promise!Cardinality(T) + 1
    BY DEF Promise!Rank
  <2>4. Promise!Cardinality(T) = Cardinality(T)
    BY PromiseCounts
  <2>5. Cardinality(T) + 1 = k
    BY <2>1, <2>2
  <2> HIDE DEF T
  <2> QED BY <2>3, <2>4, <2>5
<1>3. \A k \in 1 .. Len(p) : k \in Ranks
  BY Constants, DistinctFit DEF Listed, Ranks
<1> QED BY <1>1, <1>2, <1>3

\* A list without some nodes is again one, and it keeps the promise to remove them.
LEMMA CutUpdates ==
  ASSUME SkipInv, NEW p, Skips(zsl, p), NEW m \in 0 .. Len(p), NEW r \in 0 .. Len(p) - m,
         NEW u, NEW path, CutDown(u, zsl, p, m, r, path)
  PROVE  /\ Gone(u) = Taken(p, m, r)
         /\ Update(u, Taken(p, m, r)) => SkipInv' /\ Promise!Remove(Taken(p, m, r))
<1> DEFINE G == Taken(p, m, r)
<1>0. Listed(zsl, p) /\ Distinct(p) /\ Len(p) \in Nat /\ zsl \in Lists
  BY DistinctFit DEF Skips, Listed
<1>1. /\ \E q \in Seq(Objs) : Skips(u, q)
      /\ \A y \in Objs : u.height[y] = IF y \in G THEN 0 ELSE zsl.height[y]
      /\ \A y \in Objs : u.score[y] = IF y \in G THEN None ELSE zsl.score[y]
  BY DEF CutDown
<1>2. u \in Lists
  BY <1>1 DEF Skips, Listed
<1>3. G \subseteq Nodes(zsl)
  <2>1. \A j \in m + 1 .. m + r : j \in 1 .. Len(p)
    BY <1>0
  <2>2. Nodes(zsl) = {p[k] : k \in 1 .. Len(p)}
    BY <1>0, NodesOf
  <2> QED BY <2>1, <2>2 DEF Taken
<1> HIDE DEF G
<1>4. \A y \in Nodes(zsl) : y \in Nodes(u) <=> y \notin G
  <2> TAKE y \in Nodes(zsl)
  <2>1. y \in Objs /\ zsl.height[y] > 0
    BY DEF Nodes
  <2>2. u.height[y] = IF y \in G THEN 0 ELSE zsl.height[y]
    BY <1>1, <2>1
  <2> QED BY <2>1, <2>2 DEF Nodes
<1>5. Nodes(u) \subseteq Nodes(zsl)
  <2> SUFFICES ASSUME NEW y \in Nodes(u) PROVE y \in Nodes(zsl)
    OBVIOUS
  <2>1. y \in Objs /\ u.height[y] > 0
    BY DEF Nodes
  <2>2. u.height[y] = IF y \in G THEN 0 ELSE zsl.height[y]
    BY <1>1, <2>1
  <2> QED BY <2>1, <2>2 DEF Nodes
<1>6. Gone(u) = G /\ Nodes(u) = Nodes(zsl) \ G
  BY <1>3, <1>4, <1>5 DEF Gone
<1>7. Cardinality(G) \in Nat
  <2>1. G \subseteq Objs
    BY <1>3 DEF Nodes
  <2>2. IsFiniteSet(G)
    BY <2>1, Constants, FS_Subset
  <2> QED BY <2>2, FS_CardinalityType
<1>8. ASSUME Update(u, G) PROVE SkipInv' /\ Promise!Remove(G)
  <2>1. zsl' = u /\ d' = d \ G /\ removed' = Cardinality(G)
    BY <1>8 DEF Update
  <2>2. d' = Nodes(zsl')
    BY <1>6, <2>1 DEF SkipInv
  <2>3. SkipInv'
    BY <1>1, <1>7, <2>1, <2>2 DEF SkipInv
  <2>4. u.score = [o \in Objs |-> u.score[o]]
    BY <1>2 DEF Lists
  <2>5. u.score = [o \in Objs |-> IF o \in G THEN None ELSE zsl.score[o]]
    BY <1>1, <2>4
  <2>6. zsl'.score = [o \in Objs |-> IF o \in G THEN None ELSE zsl.score[o]]
    BY <2>1, <2>5
  <2>7. removed' = Promise!Cardinality(G)
    BY <2>1, PromiseCounts
  <2> QED BY <2>3, <2>6, <2>7 DEF Promise!Remove
<1> QED BY <1>6, <1>8 DEF G

\* The search of a deletion, and the node behind its end.
LEMMA BehindPath ==
  ASSUME NEW z, NEW p, Skips(z, p), NEW m \in 0 .. Len(p), NEW path, Path(z, p, m, path)
  PROVE  /\ z.forward[path[1].node][1] = At(p, m + 1) /\ path[1].rank = m
         /\ CutDown(z, z, p, m, 0, path)
<1>1. Listed(z, p) /\ z \in Lists /\ p \in Seq(Objs) /\ Len(p) \in Nat
  BY DistinctFit DEF Skips, Listed
<1>2. Jumps(z, p, 1)
  <2>1. 1 \in 1 .. z.level
    BY <1>1 DEF Lists, Levels
  <2> QED BY <2>1 DEF Skips
<1>3. path[1] = [node |-> Node(p, m), rank |-> m]
  BY <1>1, PathAtLowest
<1>4. z.forward[Node(p, m)][1] = At(p, m + 1)
  BY <1>1, <1>2, LowestLinks
<1>5. CutDown(z, z, p, m, 0, path)
  <2>1. Cut(p, p, m, 0)
    BY <1>1 DEF Cut
  <2>2. Taken(p, m, 0) = {}
    BY <1>1 DEF Taken
  <2> QED BY <1>1, <2>1, <2>2 DEF CutDown
<1> QED BY <1>3, <1>4, <1>5

-----------------------------------------------------------------------------
\* Initially the sequence is empty.
LEMMA InitSkips == Init => SkipInv
<1> SUFFICES ASSUME Init PROVE SkipInv
  OBVIOUS
<1>1. zsl = zslCreate /\ d = {} /\ removed = 0
  BY DEF Init
<1>2. zsl \in Lists
  <2>1. 1 \in Levels /\ 0 \in 0 .. MaxLevel /\ 0 \in Nat
    BY Constants
  <2> QED BY <1>1, <2>1 DEF zslCreate, Lists
<1>3. /\ zsl.level = 1 /\ zsl.length = 0 /\ zsl.tail = None
      /\ \A o \in Objs : zsl.height[o] = 0 /\ zsl.score[o] = None
      /\ \A i \in Levels : zsl.forward[Header][i] = None /\ zsl.span[Header][i] = 0
  BY <1>1, Constants DEF zslCreate
<1> DEFINE p == <<>>
<1>4. p \in Seq(Objs) /\ Len(p) = 0 /\ 1 .. Len(p) = {}
  OBVIOUS
<1> HIDE DEF p
<1>5. Listed(zsl, p)
  BY <1>2, <1>3, <1>4 DEF Listed, Distinct, InOrder
<1>6. Backed(zsl, p)
  BY <1>3, <1>4 DEF Backed, At
<1>7. Leveled(zsl)
  <2>1. \A i \in 2 .. MaxLevel : i \in Levels
    BY Constants DEF Levels
  <2> QED BY <1>3, <2>1 DEF Leveled
<1>8. Jumps(zsl, p, 1)
  <2>1. Jump(zsl, p, 1, 0, 1)
    <3>1. Node(p, 0) = Header /\ At(p, 1) = None
      BY <1>4 DEF Node, At
    <3>2. Low(zsl, p, 1, 0 + 1, 1 - 1)
      BY DEF Low
    <3> QED BY <1>3, <1>4, <3>1, <3>2, Constants DEF Jump
  <2> QED BY <1>4, <2>1 DEF Jumps
<1>9. Skips(zsl, p)
  <2>1. \A i \in 1 .. zsl.level : i = 1
    BY <1>3
  <2> QED BY <1>5, <1>6, <1>7, <1>8, <2>1 DEF Skips
<1>10. d = Nodes(zsl)
  BY <1>1, <1>3 DEF Nodes
<1> QED BY <1>1, <1>4, <1>9, <1>10 DEF SkipInv

\* An insertion makes the list of a node more, as the sorted set promises.
LEMMA InsertKeeps ==
  ASSUME SkipInv, NEW o \in Objs, NEW s \in Scores, zslInsert(o, s)
  PROVE  SkipInv' /\ Promise!Insert(o, s)
<1>1. PICK p \in Seq(Objs) : Skips(zsl, p)
  BY DEF SkipInv
<1>2. PICK h \in Levels : zsl' = Inserted(zsl, s, o, h)
  BY DEF zslInsert
<1>3. o \notin d /\ d' = d \cup {o} /\ removed' = 0 /\ d = Nodes(zsl)
  BY DEF zslInsert, SkipInv
<1>4. Listed(zsl, p) /\ zsl \in Lists
  BY <1>1 DEF Skips, Listed
<1>5. zsl.height[o] = 0
  <2>1. zsl.height[o] \in 0 .. MaxLevel
    BY <1>4 DEF Lists
  <2> QED BY <1>3, <2>1, Constants DEF Nodes
<1>6. PICK m \in 0 .. Len(p) : \A k \in 1 .. Len(p) : NodeLt(zsl, p[k], s, o) <=> k <= m
  BY <1>4, BeforeAreFirst
<1> DEFINE u == Inserted(zsl, s, o, h)
           q == InsertAt(p, m + 1, o)
<1>7. /\ Skips(u, q)
      /\ \A x \in Objs : u.height[x] = IF x = o THEN h ELSE zsl.height[x]
      /\ \A x \in Objs : u.score[x] = IF x = o THEN s ELSE zsl.score[x]
  BY <1>1, <1>5, <1>6, InsertedSkips
<1> HIDE DEF u, q
<1>8. zsl' = u
  BY <1>2 DEF u
<1>9. u \in Lists /\ q \in Seq(Objs)
  BY <1>7 DEF Skips, Listed, Distinct
<1>10. Nodes(u) = Nodes(zsl) \cup {o}
  <2>1. h > 0
    BY Constants DEF Levels
  <2> QED BY <1>7, <2>1 DEF Nodes
<1>11. SkipInv'
  <2>1. d' = Nodes(zsl')
    BY <1>3, <1>8, <1>10
  <2> QED BY <1>3, <1>7, <1>8, <1>9, <2>1 DEF SkipInv
<1>12. zsl'.score = [zsl.score EXCEPT ![o] = s]
  <2>1. u.score = [x \in Objs |-> u.score[x]] /\ zsl.score \in [Objs -> Scores \cup {None}]
    BY <1>4, <1>9 DEF Lists
  <2>2. [zsl.score EXCEPT ![o] = s] = [x \in Objs |-> IF x = o THEN s ELSE zsl.score[x]]
    BY <2>1
  <2>3. u.score = [x \in Objs |-> IF x = o THEN s ELSE zsl.score[x]]
    BY <1>7, <2>1
  <2> QED BY <1>8, <2>2, <2>3
<1>13. o \notin Promise!Members
  BY <1>3, <1>4, MembersAre
<1> QED BY <1>3, <1>11, <1>12, <1>13 DEF Promise!Insert

\* The nodes before a score and an object are where the search for these ends.
LEMMA SearchEnds ==
  ASSUME NEW z, NEW p, Skips(z, p), NEW T, NEW m \in 0 .. Len(p),
         \A k \in 1 .. Len(p) : p[k] \in T <=> k <= m
  PROVE  Path(z, p, m, Descend(z, T \X Ranks))
<1>1. \A k \in 1 .. Len(p) : k \in Ranks
  BY Constants, DistinctFit DEF Skips, Listed, Ranks
<1> DEFINE goes == T \X Ranks
<1>2. \A k \in 1 .. Len(p) : <<p[k], k>> \in goes <=> k <= m
  BY <1>1
<1> HIDE DEF goes
<1>3. Path(z, p, m, Descend(z, goes))
  BY <1>2, DescendIs
<1> QED BY <1>3 DEF goes

\* A deletion takes the node out that has the object and the score, if there is one.
LEMMA DeleteKeeps ==
  ASSUME SkipInv, NEW o \in Objs, NEW s \in Scores, zslDelete(o, s)
  PROVE  SkipInv' /\ Promise!Delete(o, s)
<1>1. PICK p \in Seq(Objs) : Skips(zsl, p)
  BY DEF SkipInv
<1>2. Listed(zsl, p) /\ Distinct(p) /\ InOrder(zsl, p) /\ Len(p) \in Nat
      /\ \A k \in 1 .. Len(p) : p[k] \in Objs /\ p[k] # None
  BY <1>1, DistinctFit DEF Skips, Listed
<1>3. PICK m \in 0 .. Len(p) : \A k \in 1 .. Len(p) : NodeLt(zsl, p[k], s, o) <=> k <= m
  BY <1>2, BeforeAreFirst
<1> DEFINE T == {n \in Nodes(zsl) : NodeLt(zsl, n, s, o)}
           path == PathTo(zsl, s, o)
           x == zsl.forward[path[1].node][1]
           gone == {q \in Promise!Members : q = o /\ zsl.score[o] = s}
<1>4. Path(zsl, p, m, path)
  <2>1. \A k \in 1 .. Len(p) : p[k] \in T <=> k <= m
    BY <1>2, <1>3, NodesOf
  <2> HIDE DEF T
  <2>2. Path(zsl, p, m, Descend(zsl, T \X Ranks))
    BY <1>1, <2>1, SearchEnds
  <2> QED BY <2>2 DEF T, PathTo
<1>5. x = At(p, m + 1) /\ CutDown(zsl, zsl, p, m, 0, path)
  BY <1>1, <1>4, BehindPath
<1>6. IF x = o /\ zsl.score[o] = s THEN Update(DeleteNode(zsl, x, path), {o}) ELSE Update(zsl, {})
  BY DEF zslDelete
<1>7. Promise!Delete(o, s) <=> Promise!Remove(gone)
  BY DEF Promise!Delete
<1>8. Promise!Members = {p[k] : k \in 1 .. Len(p)}
  BY <1>2, MembersAre
<1> HIDE DEF T, path, x
<1>9. CASE x = o /\ zsl.score[o] = s
  <2>1. m + 1 \in 1 .. Len(p) /\ p[m + 1] = o
    <3>1. o # None
      BY Constants
    <3> QED BY <1>5, <1>9, <3>1 DEF At
  <2>2. gone = {o}
    BY <1>8, <1>9, <2>1
  <2>3. Taken(p, m, 1) = {o}
    <3>1. \A j \in m + 1 .. m + 1 : j = m + 1
      BY <1>2
    <3>2. m + 1 \in m + 1 .. m + 1
      BY <1>2
    <3> QED BY <2>1, <3>1, <3>2 DEF Taken
  <2> DEFINE u == DeleteNode(zsl, o, path)
             q == RemoveAt(p, m + 1)
  <2>4. m \in 0 .. Len(p) - 1
    BY <1>2, <2>1
  <2>5. /\ Skips(u, q) /\ Path(u, q, m, path)
        /\ \A y \in Objs : u.height[y] = IF y = o THEN 0 ELSE zsl.height[y]
        /\ \A y \in Objs : u.score[y] = IF y = o THEN None ELSE zsl.score[y]
    BY <1>1, <1>4, <2>1, <2>4, DeletedSkips
  <2>6. Cut(q, p, m, 1)
    <3>1. /\ q \in Seq(Objs) /\ Len(q) = Len(p) - 1
          /\ \A j \in 1 .. Len(p) - 1 : q[j] = IF j < m + 1 THEN p[j] ELSE p[j + 1]
      BY <1>1, <2>1, RemoveAtIs
    <3> HIDE DEF q
    <3>2. \A j \in 1 .. Len(p) - 1 : j < m + 1 <=> j <= m
      BY <1>2
    <3> QED BY <3>1, <3>2 DEF Cut
  <2> HIDE DEF u, q
  <2>7. CutDown(u, zsl, p, m, 1, path)
    <3>1. q \in Seq(Objs)
      BY <2>6 DEF Cut
    <3> QED BY <2>3, <2>5, <2>6, <3>1 DEF CutDown
  <2>8. Update(u, {o})
    BY <1>6, <1>9 DEF u
  <2>9. 1 \in 0 .. Len(p) - m
    BY <1>2, <2>4
  <2>10. Update(u, Taken(p, m, 1)) => SkipInv' /\ Promise!Remove(Taken(p, m, 1))
    BY <1>1, <2>7, <2>9, CutUpdates
  <2> HIDE DEF gone
  <2> QED BY <1>7, <2>2, <2>3, <2>8, <2>10
<1>10. CASE ~ (x = o /\ zsl.score[o] = s)
  <2>1. gone = {}
    <3> SUFFICES ASSUME NEW k \in 1 .. Len(p), p[k] = o, zsl.score[o] = s PROVE FALSE
      BY <1>8
    <3>1. \A j \in 1 .. Len(p) : p[j] \in Int /\ zsl.score[p[j]] \in Int
      BY <1>2, NodesOf
    <3>2. ~ NodeLt(zsl, p[k], s, o)
      BY <3>1 DEF NodeLt
    <3>3. k > m
      BY <1>2, <1>3, <3>2
    <3>4. k = m + 1
      <4> SUFFICES ASSUME k # m + 1 PROVE FALSE
        OBVIOUS
      <4>1. m + 1 \in 1 .. Len(p) /\ m + 1 < k
        BY <1>2, <3>3
      <4>2. NodeLt(zsl, p[m + 1], zsl.score[p[k]], p[k])
        BY <1>2, <4>1 DEF InOrder
      <4>3. m + 1 <= m
        BY <1>3, <4>1, <4>2
      <4> QED BY <1>2, <4>3
    <3>5. x = o
      BY <1>5, <3>4 DEF At
    <3> QED BY <1>10, <3>5
  <2>2. Taken(p, m, 0) = {}
    BY <1>2 DEF Taken
  <2>3. 0 \in 0 .. Len(p) - m
    BY <1>2
  <2>4. Update(zsl, Taken(p, m, 0)) => SkipInv' /\ Promise!Remove(Taken(p, m, 0))
    BY <1>1, <1>5, <2>3, CutUpdates
  <2>5. Update(zsl, {})
    BY <1>6, <1>10
  <2> HIDE DEF gone
  <2> QED BY <1>7, <2>1, <2>2, <2>4, <2>5
<1> QED BY <1>9, <1>10

\* A deletion of a range by score takes out the members with a score in the range.
LEMMA ByScoreKeeps ==
  ASSUME SkipInv, NEW min \in Scores, NEW max \in Scores, NEW minex \in BOOLEAN,
         NEW maxex \in BOOLEAN, zslDeleteRangeByScore(min, minex, max, maxex)
  PROVE  SkipInv' /\ Promise!DeleteRangeByScore(min, minex, max, maxex)
<1>1. PICK p \in Seq(Objs) : Skips(zsl, p)
  BY DEF SkipInv
<1>2. Listed(zsl, p) /\ Len(p) \in Nat /\ \A k \in 1 .. Len(p) : k \in Ranks
  BY <1>1, DistinctFit, MembersAre DEF Skips, Listed
<1>3. PICK m \in 0 .. Len(p) : \A k \in 1 .. Len(p) : Below(zsl.score[p[k]], min, minex) <=> k <= m
  BY <1>2, BelowAreFirst
<1>4. PICK w \in 0 .. Len(p) : \A k \in 1 .. Len(p) : Within(zsl.score[p[k]], max, maxex) <=> k <= w
  <2>1. Listed(zsl, p) /\ max \in Scores /\ maxex \in BOOLEAN
    BY <1>2
  <2> QED BY ONLY <2>1, WithinAreFirst
<1> DEFINE e == IF w >= m THEN w ELSE m
           T == {n \in Nodes(zsl) : Below(zsl.score[n], min, minex)}
           W == {n \in Nodes(zsl) : Within(zsl.score[n], max, maxex)}
           path == Descend(zsl, T \X Ranks)
           u == DeletedWhile(zsl, path, W \X Ranks)
           gone == {o \in Promise!Members : /\ min <= zsl.score[o] /\ (minex => zsl.score[o] # min)
                                            /\ zsl.score[o] <= max}
<1>5. e \in m .. Len(p) /\ e \in Nat /\ m \in Nat
  BY <1>2
<1>6. \A k \in 1 .. Len(p) : p[k] \in Nodes(zsl) /\ zsl.score[p[k]] \in Int
  BY <1>2, NodesOf
<1>7. Path(zsl, p, m, path)
  <2>1. \A k \in 1 .. Len(p) : p[k] \in T <=> k <= m
    BY <1>3, <1>6
  <2> HIDE DEF T
  <2> QED BY <1>1, <2>1, SearchEnds
<1>8. \A k \in 1 .. Len(p) : p[k] \in W <=> k <= w
  BY <1>4, <1>6
<1>9. Update(u, Gone(u))
  BY DEF zslDeleteRangeByScore
<1>10. Promise!DeleteRangeByScore(min, minex, max, maxex) <=> Promise!Remove(gone)
  BY DEF Promise!DeleteRangeByScore
<1> HIDE DEF T, W, path
<1>11. CutDown(u, zsl, p, m, e - m, path)
  <2>1. \A j \in m + 1 .. e : <<p[j], j - m>> \in W \X Ranks
    <3> TAKE j \in m + 1 .. e
    <3>1. j \in 1 .. Len(p) /\ j <= w /\ j - m \in 1 .. Len(p)
      BY <1>2, <1>5
    <3> QED BY <1>2, <1>8, <3>1
  <2>2. e < Len(p) => \A k \in e + 1 - m .. Cardinality(Objs) : <<p[e + 1], k>> \notin W \X Ranks
    <3> SUFFICES ASSUME e < Len(p) PROVE p[e + 1] \notin W
      OBVIOUS
    <3>1. e + 1 \in 1 .. Len(p) /\ ~ (e + 1 <= w)
      BY <1>2, <1>5
    <3> QED BY <1>8, <3>1
  <2> HIDE DEF e
  <2> QED BY <1>1, <1>5, <1>7, <2>1, <2>2, DeletedWhileIs
<1>12. Taken(p, m, e - m) = gone
  <2>1. \A k \in 1 .. Len(p) : k \in m + 1 .. e <=> /\ ~ Below(zsl.score[p[k]], min, minex)
                                                   /\ Within(zsl.score[p[k]], max, maxex)
    BY <1>2, <1>3, <1>4, <1>5
  <2>2. \A k \in 1 .. Len(p) : k \in m + 1 .. e <=> p[k] \in gone
    <3> TAKE k \in 1 .. Len(p)
    <3>1. zsl.score[p[k]] \in Int /\ min \in Int /\ max \in Int /\ p[k] \in Promise!Members
      BY <1>2, <1>6, Constants, MembersAre
    <3>2. ~ Below(zsl.score[p[k]], min, minex) <=> min <= zsl.score[p[k]] /\ (minex => zsl.score[p[k]] # min)
      BY <3>1 DEF Below
    <3>3. Within(zsl.score[p[k]], max, maxex) <=> zsl.score[p[k]] <= max
      BY <3>1 DEF Within
    <3> QED BY <2>1, <3>1, <3>2, <3>3
  <2>3. gone \subseteq {p[k] : k \in 1 .. Len(p)}
    BY <1>2, MembersAre
  <2>4. m + (e - m) = e /\ \A k \in m + 1 .. e : k \in 1 .. Len(p)
    BY <1>2, <1>5
  <2> HIDE DEF gone, e
  <2> QED BY <2>2, <2>3, <2>4 DEF Taken
<1>13. e - m \in 0 .. Len(p) - m
  BY <1>2, <1>5
<1> HIDE DEF e, u, gone
<1>14. /\ Gone(u) = Taken(p, m, e - m)
       /\ Update(u, Taken(p, m, e - m)) => SkipInv' /\ Promise!Remove(Taken(p, m, e - m))
  BY <1>1, <1>11, <1>13, CutUpdates
<1> QED BY <1>9, <1>10, <1>12, <1>14

\* A deletion of a range by rank takes out the members with a rank in the range.
LEMMA ByRankKeeps ==
  ASSUME SkipInv, NEW start \in Ranks, NEW end \in Ranks, zslDeleteRangeByRank(start, end)
  PROVE  SkipInv' /\ Promise!DeleteRangeByRank(start, end)
<1>1. PICK p \in Seq(Objs) : Skips(zsl, p)
  BY DEF SkipInv
<1>2. /\ Listed(zsl, p) /\ Len(p) \in Nat /\ start \in Nat /\ end \in Nat
      /\ \A k \in 1 .. Len(p) : k \in Ranks /\ Promise!Rank(p[k]) = k /\ p[k] \in Objs
      /\ Promise!Members = {p[k] : k \in 1 .. Len(p)}
  <2>1. Listed(zsl, p) /\ Len(p) \in Nat
    BY <1>1, DistinctFit DEF Skips, Listed
  <2>2. start \in Nat /\ end \in Nat
    BY Constants DEF Ranks
  <2> QED BY <2>1, <2>2, <1>1, MembersAre
<1> DEFINE n == Len(p)
           m == IF start = 0 THEN 0 ELSE IF start - 1 <= n THEN start - 1 ELSE n
           f == IF end <= n THEN end ELSE n
           e == IF f >= m THEN f ELSE m
           goes == Objs \X {r \in Ranks : r < start}
           path == Descend(zsl, goes)
           going == Objs \X {k \in Ranks : path[1].rank + k <= end}
           u == DeletedWhile(zsl, path, going)
           gone == {o \in Promise!Members : Promise!Rank(o) \in start .. end}
<1>3. m \in 0 .. n /\ e \in m .. n /\ e \in Nat /\ m \in Nat
  BY <1>2
<1>4. \A k \in 1 .. n : k <= m <=> k < start
  BY <1>2
<1>5. Path(zsl, p, m, path)
  <2>1. \A k \in 1 .. n : <<p[k], k>> \in goes <=> k <= m
    BY <1>2, <1>4
  <2> HIDE DEF goes, m
  <2> QED BY <1>1, <1>3, <2>1, DescendIs
<1>6. path[1].rank = m
  BY <1>1, <1>3, <1>5, BehindPath
<1>7. Update(u, Gone(u))
  BY DEF zslDeleteRangeByRank
<1>8. Promise!DeleteRangeByRank(start, end) <=> Promise!Remove(gone)
  BY DEF Promise!DeleteRangeByRank
<1> HIDE DEF path
<1>9. CutDown(u, zsl, p, m, e - m, path)
  <2>1. \A j \in m + 1 .. e : <<p[j], j - m>> \in going
    <3> TAKE j \in m + 1 .. e
    <3>1. j \in 1 .. n /\ j - m \in 1 .. n /\ m + (j - m) <= end
      BY <1>2, <1>3
    <3> HIDE DEF m
    <3> QED BY <1>2, <1>6, <3>1
  <2>2. e < n => \A k \in e + 1 - m .. Cardinality(Objs) : <<p[e + 1], k>> \notin going
    <3> SUFFICES ASSUME e < n, NEW k \in e + 1 - m .. Cardinality(Objs) PROVE ~ (m + k <= end)
      BY <1>6
    <3>1. e + 1 > end
      BY <1>2, <1>3
    <3>2. m + k >= e + 1 /\ k \in Int
      <4>1. Cardinality(Objs) \in Nat
        BY Constants
      <4> HIDE DEF e, m
      <4> QED BY <1>3, <4>1
    <3> HIDE DEF e, m
    <3> QED BY <1>2, <1>3, <3>1, <3>2
  <2> HIDE DEF e, m, going
  <2> QED BY <1>1, <1>3, <1>5, <2>1, <2>2, DeletedWhileIs
<1>10. Taken(p, m, e - m) = gone
  <2>1. \A k \in 1 .. n : k \in m + 1 .. e <=> k \in start .. end
    <3> TAKE k \in 1 .. n
    <3>1. k \in m + 1 .. e <=> ~ (k <= m) /\ k <= f
      BY <1>2, <1>3
    <3>2. k <= f <=> k <= end
      BY <1>2
    <3> HIDE DEF m, f, e
    <3> QED BY <1>2, <1>4, <3>1, <3>2
  <2>2. m + (e - m) = e /\ \A k \in m + 1 .. e : k \in 1 .. n
    BY <1>2, <1>3
  <2>3. \A k \in 1 .. n : p[k] \in gone <=> k \in start .. end
    BY <1>2
  <2>4. gone \subseteq {p[k] : k \in 1 .. n}
    BY <1>2
  <2> HIDE DEF gone, e, m
  <2> QED BY <2>1, <2>2, <2>3, <2>4 DEF Taken
<1>11. e - m \in 0 .. n - m
  BY <1>2, <1>3
<1> HIDE DEF e, m, u, gone
<1>12. /\ Gone(u) = Taken(p, m, e - m)
       /\ Update(u, Taken(p, m, e - m)) => SkipInv' /\ Promise!Remove(Taken(p, m, e - m))
  BY <1>1, <1>3, <1>9, <1>11, CutUpdates
<1> QED BY <1>7, <1>8, <1>10, <1>12

-----------------------------------------------------------------------------
\* Every call keeps a list that skips from node to node, and the promise.
LEMMA NextKeeps ==
  ASSUME SkipInv, CallsNext
  PROVE  SkipInv' /\ Promise!Next
<1>1. ASSUME NEW o \in Objs, NEW s \in Scores, zslInsert(o, s), asked' = <<"insert", o, s>>
      PROVE  SkipInv' /\ Promise!Next
  <2>1. SkipInv' /\ Promise!Insert(o, s)
    BY <1>1, InsertKeeps
  <2> QED BY <1>1, <2>1 DEF Promise!Next
<1>2. ASSUME NEW o \in Objs, NEW s \in Scores, zslDelete(o, s), asked' = <<"delete", o, s>>
      PROVE  SkipInv' /\ Promise!Next
  <2>1. SkipInv' /\ Promise!Delete(o, s)
    BY <1>2, DeleteKeeps
  <2> QED BY <1>2, <2>1 DEF Promise!Next
<1>3. ASSUME NEW min \in Scores, NEW max \in Scores, NEW minex \in BOOLEAN, NEW maxex \in BOOLEAN,
             zslDeleteRangeByScore(min, minex, max, maxex),
             asked' = <<"by score", min, minex, max, maxex>>
      PROVE  SkipInv' /\ Promise!Next
  <2>1. SkipInv' /\ Promise!DeleteRangeByScore(min, minex, max, maxex)
    BY <1>3, ByScoreKeeps
  <2> QED BY <1>3, <2>1 DEF Promise!Next
<1>4. ASSUME NEW start \in Ranks, NEW end \in Ranks, zslDeleteRangeByRank(start, end),
             asked' = <<"by rank", start, end>>
      PROVE  SkipInv' /\ Promise!Next
  <2>1. SkipInv' /\ Promise!DeleteRangeByRank(start, end)
    BY <1>4, ByRankKeeps
  <2> QED BY <1>4, <2>1 DEF Promise!Next
<1> QED BY <1>1, <1>2, <1>3, <1>4 DEF CallsNext

\* At all times the nodes of the list, in the order of their scores, are what every
\* level jumps along: for any number of nodes and any levels that were drawn.
THEOREM SkipInvHolds == CallsSpec => []SkipInv
<1>1. CallsInit => SkipInv
  BY InitSkips DEF CallsInit
<1>2. SkipInv /\ [CallsNext]_<<vars, asked>> => SkipInv'
  <2>1. SkipInv /\ CallsNext => SkipInv'
    BY NextKeeps
  <2>2. SkipInv /\ UNCHANGED <<vars, asked>> => SkipInv'
    <3> SUFFICES ASSUME SkipInv, UNCHANGED <<vars, asked>> PROVE SkipInv'
      OBVIOUS
    <3>1. zsl' = zsl /\ d' = d /\ removed' = removed
      BY DEF vars
    <3> QED BY <3>1 DEF SkipInv
  <2> QED BY <2>1, <2>2
<1> QED BY <1>1, <1>2, PTL DEF CallsSpec

\* The skip list is a sorted set: an insertion adds a member, and each deletion takes
\* out exactly the members that its arguments mean, whatever levels the nodes drew.
THEOREM SkipListIsASortedSet == CallsSpec => RefinesSortedSet
<1>1. CallsInit => Promise!Init
  BY DEF CallsInit, Init, zslCreate, Promise!Init
<1>2. SkipInv /\ [CallsNext]_<<vars, asked>> => [Promise!Next]_Promise!vars
  <2>1. SkipInv /\ CallsNext => Promise!Next
    BY NextKeeps
  <2>2. UNCHANGED <<vars, asked>> => UNCHANGED Promise!vars
    BY DEF vars, Promise!vars
  <2> QED BY <2>1, <2>2
<1> QED BY <1>1, <1>2, SkipInvHolds, PTL DEF CallsSpec, RefinesSortedSet, Promise!Spec

-----------------------------------------------------------------------------
\* The places of the nodes, and how many they are.
LEMMA PlacesAre ==
  ASSUME SkipInv, NEW p, Skips(zsl, p)
  PROVE  /\ d = {p[k] : k \in 1 .. Len(p)} /\ Cardinality(d) = Len(p) /\ zsl.length = Len(p)
         /\ \A k \in 1 .. Len(p) : Place(p[k]) = k
         /\ \A k \in 0 .. Len(p) : PlaceOf(Node(p, k)) = k
         /\ PlaceOf(None) = Len(p)
<1>1. Listed(zsl, p) /\ Distinct(p) /\ Len(p) \in Nat /\ d = Nodes(zsl) /\ zsl.length = Len(p)
      /\ \A k \in 1 .. Len(p) : p[k] # None /\ p[k] # Header
  BY DistinctFit DEF Skips, Listed, SkipInv
<1>2. d = {p[k] : k \in 1 .. Len(p)}
  BY <1>1, NodesOf
<1>3. Cardinality(d) = Len(p)
  <2>1. Len(p) \in 0 .. Len(p)
    BY <1>1
  <2>2. Cardinality({p[k] : k \in 1 .. Len(p)}) = Len(p)
    BY <1>1, <2>1, FirstAre
  <2> QED BY <1>2, <2>2
<1>4. \A k \in 1 .. Len(p) : Place(p[k]) = k
  BY <1>1, PlaceIs DEF Place
<1>5. ASSUME NEW k \in 0 .. Len(p) PROVE PlaceOf(Node(p, k)) = k
  <2>1. CASE k = 0
    <3>1. Node(p, k) = Header /\ None # Header
      BY <2>1, Constants DEF Node
    <3>2. PlaceOf(Header) = 0
      BY <3>1 DEF PlaceOf
    <3> QED BY <2>1, <3>1, <3>2
  <2>2. CASE k # 0
    <3>1. k \in 1 .. Len(p)
      BY <1>1, <2>2
    <3>2. Node(p, k) = p[k] /\ p[k] # None /\ p[k] # Header
      BY <1>1, <2>2, <3>1 DEF Node
    <3>3. PlaceOf(p[k]) = Place(p[k])
      BY <3>2 DEF PlaceOf
    <3> QED BY <1>4, <3>1, <3>2, <3>3
  <2> QED BY <2>1, <2>2
<1>6. PlaceOf(None) = Len(p)
  <2>1. None # Header
    BY Constants
  <2> QED BY <1>1, <2>1 DEF PlaceOf
<1> QED BY <1>1, <1>2, <1>3, <1>4, <1>5, <1>6

\* Whoever is linked on a level stands at a place, from which the level jumps on.
LEMMA LinkedJump ==
  ASSUME SkipInv, NEW p, Skips(zsl, p), NEW i \in Levels, NEW q \in Linked(i)
  PROVE  \E k \in 0 .. Len(p) : /\ q = Node(p, k)
                                /\ \E nx \in 1 .. Len(p) + 1 : Jump(zsl, p, i, k, nx)
<1>1. /\ zsl \in Lists /\ Leveled(zsl) /\ Len(p) \in Nat /\ Distinct(p)
      /\ \A k \in 1 .. Len(p) : p[k] \in Objs
      /\ d = {p[k] : k \in 1 .. Len(p)}
  BY DistinctFit, PlacesAre DEF Skips, Listed
<1>2. i \in Nat /\ 1 <= i
  BY Constants DEF Levels
<1>3. PICK k \in 0 .. Len(p) : q = Node(p, k) /\ Stands(zsl, p, i, k) /\ i <= zsl.level
  <2>1. CASE q \in On(i)
    <3>1. q \in d /\ zsl.height[q] >= i
      BY <2>1 DEF On
    <3>2. PICK k \in 1 .. Len(p) : q = p[k]
      BY <1>1, <3>1
    <3>3. Tall(zsl, p, i, k) /\ k \in 0 .. Len(p) /\ k # 0
      BY <3>1, <3>2 DEF Tall
    <3>4. zsl.height[q] <= zsl.level /\ zsl.height[q] \in Int /\ zsl.level \in Int
      <4>1. q \in Objs
        BY <1>1, <3>2
      <4>2. zsl.height[q] \in 0 .. MaxLevel /\ zsl.level \in Levels /\ zsl.height[q] <= zsl.level
        BY <1>1, <4>1 DEF Lists, Leveled
      <4> QED BY <4>2 DEF Levels
    <3> QED BY <1>2, <3>1, <3>2, <3>3, <3>4 DEF Node, Stands
  <2>2. CASE q \notin On(i)
    <3>1. i <= zsl.level /\ q = Header
      BY <2>2 DEF Linked
    <3> QED BY <1>1, <3>1 DEF Node, Stands
  <2> QED BY <2>1, <2>2
<1>4. i \in 1 .. zsl.level
  <2>1. zsl.level \in Levels
    BY <1>1 DEF Lists
  <2> QED BY <1>2, <1>3, <2>1 DEF Levels
<1>5. Jumps(zsl, p, i)
  BY <1>4 DEF Skips
<1> QED BY <1>3, <1>5 DEF Jumps

\* A span measures, for any list, how many places its link goes forward.
THEOREM SpansAreRanks == CallsSpec => []SpansMeasure
<1>1. SkipInv => SpansMeasure
  <2> SUFFICES ASSUME SkipInv, NEW i \in Levels, NEW q \in Linked(i)
               PROVE  zsl.span[q][i] = PlaceOf(zsl.forward[q][i]) - PlaceOf(q)
    BY DEF SpansMeasure
  <2>1. PICK p \in Seq(Objs) : Skips(zsl, p)
    BY DEF SkipInv
  <2>2. PICK k \in 0 .. Len(p) : /\ q = Node(p, k)
                                 /\ \E nx \in 1 .. Len(p) + 1 : Jump(zsl, p, i, k, nx)
    BY <2>1, LinkedJump
  <2>3. PICK nx \in 1 .. Len(p) + 1 : Jump(zsl, p, i, k, nx)
    BY <2>2
  <2>4. /\ zsl.forward[q][i] = At(p, nx)
        /\ zsl.span[q][i] = (IF nx <= Len(p) THEN nx ELSE Len(p)) - k
    BY <2>2, <2>3 DEF Jump
  <2>5. PlaceOf(q) = k /\ PlaceOf(None) = Len(p) /\ \A j \in 0 .. Len(p) : PlaceOf(Node(p, j)) = j
    BY <2>1, <2>2, PlacesAre
  <2>6. PlaceOf(At(p, nx)) = IF nx <= Len(p) THEN nx ELSE Len(p)
    <3>1. CASE nx <= Len(p)
      <4>1. nx \in 1 .. Len(p) /\ nx \in 0 .. Len(p) /\ nx # 0
        BY <2>1, <3>1
      <4>2. At(p, nx) = Node(p, nx)
        BY <4>1 DEF At, Node
      <4> QED BY <2>5, <3>1, <4>1, <4>2
    <3>2. CASE ~ (nx <= Len(p))
      <4>1. nx \notin 1 .. Len(p)
        BY <2>1, <3>2
      <4> QED BY <2>5, <3>2, <4>1 DEF At
    <3> QED BY <3>1, <3>2
  <2> QED BY <2>4, <2>5, <2>6
<1> QED BY <1>1, SkipInvHolds, PTL

\* The lists have as many levels as their highest node.
LEMMA LevelIsHighest ==
  ASSUME NEW p, Skips(zsl, p)
  PROVE  zsl.level = Max({1} \cup {zsl.height[o] : o \in Objs})
<1> DEFINE T == {1} \cup {zsl.height[o] : o \in Objs}
<1>1. zsl \in Lists /\ Leveled(zsl)
  BY DEF Skips, Listed
<1>2. MaxLevel \in Nat /\ T \in SUBSET (0 .. MaxLevel) /\ T # {}
  <2>1. MaxLevel \in Nat /\ 1 \in 0 .. MaxLevel
    BY Constants
  <2>2. \A o \in Objs : zsl.height[o] \in 0 .. MaxLevel
    BY <1>1 DEF Lists
  <2> QED BY <2>1, <2>2
<1>3. zsl.level \in T /\ zsl.level \in Int /\ \A t \in T : t <= zsl.level
  <2>1. zsl.level \in Levels
    BY <1>1 DEF Lists
  <2> QED BY <1>1, <2>1, Constants DEF Leveled, Levels
<1> HIDE DEF T
<1>4. Max(T) \in T /\ \A t \in T : Max(T) >= t
  BY <1>2, MaxOfSet
<1>5. zsl.level = Max(T)
  <2> DEFINE top == Max(T)
             l == zsl.level
  <2>1. top \in T /\ l \in T /\ l \in Int
    BY <1>3, <1>4
  <2>2. top <= l /\ top >= l
    BY <1>3, <1>4
  <2> HIDE DEF top, l
  <2>3. top \in Int
    BY <1>2, <2>1
  <2> QED BY <2>1, <2>2, <2>3 DEF top, l
<1> QED BY <1>5 DEF T

\* A link leads to the next node in the order that is high enough.
LEMMA LinksLead ==
  ASSUME SkipInv, NEW i \in Levels, NEW q \in Linked(i)
  PROVE  LET behind == {o \in On(i) : Place(o) > PlaceOf(q)}
             next == zsl.forward[q][i]
         IN  IF behind = {} THEN next = None
             ELSE next \in behind /\ \A o \in behind : Place(next) <= Place(o)
<1> DEFINE behind == {o \in On(i) : Place(o) > PlaceOf(q)}
           next == zsl.forward[q][i]
<1>1. PICK p \in Seq(Objs) : Skips(zsl, p)
  BY DEF SkipInv
<1>2. PICK k \in 0 .. Len(p) : /\ q = Node(p, k)
                               /\ \E nx \in 1 .. Len(p) + 1 : Jump(zsl, p, i, k, nx)
  BY <1>1, LinkedJump
<1>3. PICK nx \in 1 .. Len(p) + 1 : Jump(zsl, p, i, k, nx)
  BY <1>2
<1>4. /\ next = At(p, nx) /\ nx \in k + 1 .. Len(p) + 1
      /\ \A j \in k + 1 .. nx - 1 : ~ Tall(zsl, p, i, j)
      /\ nx <= Len(p) => Tall(zsl, p, i, nx)
  BY <1>2, <1>3 DEF Jump, Low
<1>5. /\ d = {p[j] : j \in 1 .. Len(p)} /\ \A j \in 1 .. Len(p) : Place(p[j]) = j
      /\ PlaceOf(q) = k /\ Len(p) \in Nat
  BY <1>1, <1>2, PlacesAre
<1>6. \A o \in behind : \E j \in 1 .. Len(p) : o = p[j] /\ Place(o) = j /\ nx <= j
  <2> SUFFICES ASSUME NEW o \in behind
               PROVE  \E j \in 1 .. Len(p) : o = p[j] /\ Place(o) = j /\ nx <= j
    OBVIOUS
  <2>1. o \in d /\ zsl.height[o] >= i /\ Place(o) > k
    BY <1>5 DEF On
  <2>2. PICK j \in 1 .. Len(p) : o = p[j]
    BY <1>5, <2>1
  <2>3. Place(o) = j /\ Tall(zsl, p, i, j)
    BY <1>5, <2>1, <2>2 DEF Tall
  <2>4. j \notin k + 1 .. nx - 1
    BY <1>4, <2>3
  <2>5. nx <= j
    BY <1>5, <2>1, <2>3, <2>4
  <2> QED BY <2>2, <2>3, <2>5
<1>7. CASE nx <= Len(p)
  <2>1. nx \in 1 .. Len(p) /\ next = p[nx] /\ Tall(zsl, p, i, nx) /\ nx > k
    BY <1>4, <1>5, <1>7 DEF At
  <2>2. next \in On(i) /\ Place(next) = nx
    BY <1>5, <2>1 DEF On, Tall
  <2>3. next \in behind
    BY <1>5, <2>1, <2>2
  <2>4. \A o \in behind : Place(next) <= Place(o)
    BY <1>6, <2>2
  <2> QED BY <2>3, <2>4
<1>8. CASE ~ (nx <= Len(p))
  <2>1. next = None
    BY <1>4, <1>8 DEF At
  <2>2. behind = {}
    <3> SUFFICES ASSUME NEW o \in behind PROVE FALSE
      OBVIOUS
    <3> HIDE DEF behind
    <3> QED BY <1>5, <1>6, <1>8
  <2> QED BY <2>1, <2>2
<1> QED BY <1>7, <1>8

\* A backward link leads to the node before, and the tail is the last one.
LEMMA LinksBack ==
  ASSUME SkipInv
  PROVE  /\ \A o \in d : zsl.backward[o] = IF Place(o) = 1 THEN None
                                           ELSE CHOOSE q \in d : Place(q) = Place(o) - 1
         /\ zsl.tail # None <=> d # {}
         /\ d # {} => Place(zsl.tail) = zsl.length
<1>1. PICK p \in Seq(Objs) : Skips(zsl, p)
  BY DEF SkipInv
<1>2. /\ Backed(zsl, p) /\ Len(p) \in Nat /\ zsl.length = Len(p)
      /\ d = {p[k] : k \in 1 .. Len(p)} /\ \A k \in 1 .. Len(p) : Place(p[k]) = k
      /\ \A k \in 1 .. Len(p) : p[k] # None
  BY <1>1, PlacesAre, DistinctFit DEF Skips, Listed
<1>3. ASSUME NEW k \in 1 .. Len(p)
      PROVE  zsl.backward[p[k]] = IF Place(p[k]) = 1 THEN None
                                  ELSE CHOOSE q \in d : Place(q) = Place(p[k]) - 1
  <2>1. zsl.backward[p[k]] = At(p, k - 1) /\ Place(p[k]) = k
    BY <1>2 DEF Backed
  <2>2. CASE k = 1
    BY <2>1, <2>2 DEF At
  <2>3. CASE k # 1
    <3> DEFINE c == CHOOSE q \in d : Place(q) = k - 1
    <3>1. k - 1 \in 1 .. Len(p) /\ k \in Int
      BY <1>2, <2>3
    <3>2. p[k - 1] \in d /\ Place(p[k - 1]) = k - 1
      BY <1>2, <3>1
    <3>3. c \in d /\ Place(c) = k - 1
      BY <3>2
    <3> HIDE DEF c
    <3>4. c = p[k - 1]
      BY <1>2, <3>3
    <3>5. At(p, k - 1) = p[k - 1]
      BY <3>1 DEF At
    <3> QED BY <2>1, <2>3, <3>4, <3>5 DEF c
  <2> QED BY <2>2, <2>3
<1>4. zsl.tail = At(p, Len(p))
  BY <1>2 DEF Backed
<1>5. CASE Len(p) = 0
  <2>1. d = {} /\ zsl.tail = None
    BY <1>2, <1>4, <1>5 DEF At
  <2> QED BY <2>1
<1>6. CASE Len(p) # 0
  <2>1. Len(p) \in 1 .. Len(p)
    BY <1>2, <1>6
  <2>2. zsl.tail = p[Len(p)]
    BY <1>4, <2>1 DEF At
  <2>3. zsl.tail # None /\ d # {} /\ Place(zsl.tail) = zsl.length
    BY <1>2, <2>1, <2>2
  <2> QED BY <1>2, <1>3, <2>3
<1> QED BY <1>5, <1>6

\* Every level links the nodes that are high enough in the order of their scores, and
\* the backward links and the tail run through all of them.
THEOREM EveryLevelInOrder == CallsSpec => []LevelsInOrder
<1>1. ASSUME SkipInv PROVE LevelsInOrder
  <2>1. PICK p \in Seq(Objs) : Skips(zsl, p)
    BY <1>1 DEF SkipInv
  <2>2. d = Nodes(zsl) /\ zsl.length = Cardinality(d)
    BY <1>1, <2>1, PlacesAre DEF SkipInv
  <2>3. zsl.level = Max({1} \cup {zsl.height[o] : o \in Objs})
    BY <2>1, LevelIsHighest
  <2>4. \A i \in Levels : \A q \in Linked(i) :
          LET behind == {o \in On(i) : Place(o) > PlaceOf(q)}
              next == zsl.forward[q][i]
          IN  IF behind = {} THEN next = None
              ELSE next \in behind /\ \A o \in behind : Place(next) <= Place(o)
    BY <1>1, LinksLead
  <2>5. /\ \A o \in d : zsl.backward[o] = IF Place(o) = 1 THEN None
                                          ELSE CHOOSE q \in d : Place(q) = Place(o) - 1
        /\ zsl.tail # None <=> d # {}
        /\ d # {} => Place(zsl.tail) = zsl.length
    BY <1>1, LinksBack
  <2> QED BY <2>2, <2>3, <2>4, <2>5 DEF LevelsInOrder
<1> QED BY <1>1, SkipInvHolds, PTL

-----------------------------------------------------------------------------
\* The answer for the rank of a node, and for the rank behind the last one.
LEMMA RankAnswers ==
  ASSUME NEW p, Skips(zsl, p), NEW rank \in 1 .. Len(p) + 1
  PROVE  zslGetElementByRank(rank) = At(p, rank)
<1> DEFINE n == Len(p)
           m == IF rank <= n THEN rank ELSE n
           goes == Objs \X {r \in Ranks : UpTo(r, rank)}
           path == Descend(zsl, goes)
           hits == {i \in 1 .. zsl.level : path[i].rank = rank}
<1>1. /\ zsl \in Lists /\ Listed(zsl, p) /\ n \in Nat /\ m \in 0 .. n
      /\ \A k \in 1 .. n : p[k] \in Objs /\ k \in Ranks
  BY DistinctFit, Constants DEF Skips, Listed, Ranks
<1>2. zsl.level \in Levels /\ zsl.level \in Nat /\ 1 \in 1 .. zsl.level
      /\ 1 .. zsl.level \subseteq Levels
  <2>1. zsl.level \in Levels
    BY <1>1 DEF Lists
  <2> QED BY <2>1, Constants DEF Levels
<1>3. Path(zsl, p, m, path)
  <2>1. \A k \in 1 .. n : <<p[k], k>> \in goes <=> k <= m
    BY <1>1 DEF UpTo
  <2> HIDE DEF goes, m
  <2> QED BY <1>1, <2>1, DescendIs
<1>4. zslGetElementByRank(rank) = IF hits = {} THEN None ELSE path[Max(hits)].node
  BY DEF zslGetElementByRank
<1>5. ASSUME NEW i \in 1 .. zsl.level
      PROVE  \E b \in 0 .. m : path[i] = [node |-> Node(p, b), rank |-> b]
  <2>1. Leaves(zsl, p, m, i, path[i])
    BY <1>2, <1>3 DEF Path
  <2> QED BY <2>1 DEF Leaves
<1>6. path[1].rank = m
  BY <1>1, <1>3, BehindPath
<1> HIDE DEF path
<1>7. CASE rank <= n
  <2>1. m = rank /\ rank \in 1 .. n /\ rank # 0
    BY <1>1, <1>7
  <2>2. hits # {} /\ hits \in SUBSET (0 .. zsl.level)
    BY <1>2, <1>6, <2>1
  <2>3. Max(hits) \in hits
    <3> HIDE DEF hits
    <3> QED BY <1>2, <2>2, MaxOfSet
  <2>4. Max(hits) \in 1 .. zsl.level /\ path[Max(hits)].rank = rank
    BY <2>3
  <2> HIDE DEF hits
  <2>5. PICK b \in 0 .. m : path[Max(hits)] = [node |-> Node(p, b), rank |-> b]
    BY <1>5, <2>4
  <2>6. b = rank /\ path[Max(hits)].node = Node(p, b)
    BY <2>4, <2>5
  <2>7. Node(p, rank) = At(p, rank)
    BY <2>1 DEF Node, At
  <2> QED BY <1>4, <2>2, <2>6, <2>7
<1>8. CASE ~ (rank <= n)
  <2>1. m = n /\ rank \notin 0 .. m
    BY <1>1, <1>8
  <2>2. hits = {}
    <3> SUFFICES ASSUME NEW i \in 1 .. zsl.level, path[i].rank = rank PROVE FALSE
      OBVIOUS
    <3>1. PICK b \in 0 .. m : path[i] = [node |-> Node(p, b), rank |-> b]
      BY <1>5
    <3>2. path[i].rank = b
      BY <3>1
    <3> QED BY <2>1, <3>2
  <2>3. At(p, rank) = None
    BY <1>8 DEF At
  <2> HIDE DEF hits
  <2> QED BY <1>4, <2>2, <2>3
<1> QED BY <1>7, <1>8

\* The search by rank finds the node of every rank, and none behind the last.
THEOREM RanksFindElements == CallsSpec => []ElementsByRank
<1>1. ASSUME SkipInv PROVE ElementsByRank
  <2>1. PICK p \in Seq(Objs) : Skips(zsl, p)
    BY <1>1 DEF SkipInv
  <2>2. /\ d = {p[k] : k \in 1 .. Len(p)} /\ \A k \in 1 .. Len(p) : Place(p[k]) = k
        /\ zsl.length = Len(p) /\ Len(p) \in Nat
    BY <1>1, <2>1, PlacesAre
  <2>3. ASSUME NEW k \in 1 .. Len(p) PROVE zslGetElementByRank(Place(p[k])) = p[k]
    <3>1. k \in 1 .. Len(p) + 1
      BY <2>2
    <3>2. zslGetElementByRank(k) = At(p, k)
      BY <2>1, <3>1, RankAnswers
    <3> QED BY <2>2, <3>2 DEF At
  <2>4. zslGetElementByRank(zsl.length + 1) = None
    <3>1. Len(p) + 1 \in 1 .. Len(p) + 1 /\ Len(p) + 1 \notin 1 .. Len(p)
      BY <2>2
    <3>2. zslGetElementByRank(Len(p) + 1) = At(p, Len(p) + 1)
      BY <2>1, <3>1, RankAnswers
    <3> QED BY <2>2, <3>1, <3>2 DEF At
  <2> QED BY <2>2, <2>3, <2>4 DEF ElementsByRank
<1> QED BY <1>1, SkipInvHolds, PTL
=============================================================================
