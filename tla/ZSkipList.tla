------------------------------- MODULE ZSkipList -------------------------------
(***************************************************************************)
(* The skip list of zskiplist.py.  A node is known by its object, as the   *)
(* dictionary the callers keep beside the list holds each object once;     *)
(* objects are numbers in the order of compareStringObjects, and the       *)
(* header is 0.  The list is one record: level, length, tail, and for each *)
(* node its height (the length of node.level), score, backward link and,   *)
(* level by level, forward link and span.                                  *)
(***************************************************************************)
EXTENDS Integers, Sequences, FiniteSets, FiniteSetsExt

CONSTANTS Objs, Scores, None,
          MaxLevel        \* bound: ZSKIPLIST_MAXLEVEL, 32 in the code

ASSUME ZSkipListAssumption ==
  /\ Objs \subseteq Nat \ {0} /\ IsFiniteSet(Objs) /\ Scores \subseteq Int
  /\ MaxLevel \in Nat \ {0} /\ None \notin Objs \cup Scores \cup {0}

Header == 0
Places == Objs \cup {Header}
Levels == 1 .. MaxLevel
Ranks == 0 .. Cardinality(Objs) + 1   \* the ranks a caller may ask for

VARIABLES
  zsl,     \* the zskiplist with its nodes
  d,       \* the objects of the dictionary that goes with it
  removed  \* what the last call answered: how many nodes it removed

vars == <<zsl, d, removed>>

zslCreate ==
  [level |-> 1, length |-> 0, tail |-> None,
   height |-> [o \in Objs |-> 0], score |-> [o \in Objs |-> None],
   backward |-> [o \in Objs |-> None],
   forward |-> [p \in Places |-> [i \in Levels |-> None]],
   span |-> [p \in Places |-> [i \in Levels |-> 0]]]

Init == zsl = zslCreate /\ d = {} /\ removed = 0

-----------------------------------------------------------------------------
Nodes(z) == {o \in Objs : z.height[o] > 0}

\* A search stands at a node and knows its rank.  It goes forward on a level if the
\* next node with its rank is among those it goes to.
Forward(z, i, goes, here) ==
  LET node == z.forward[here.node][i]
      rank == here.rank + z.span[here.node][i]
  IN  IF node # None /\ <<node, rank>> \in goes THEN [node |-> node, rank |-> rank] ELSE here

\* It does so as long as it can; then it continues one level down.
Slide(z, i, from, goes) ==
  LET at[k \in 0 .. Cardinality(Objs)] ==
        IF k = 0 THEN from ELSE Forward(z, i, goes, at[k - 1])
  IN  at[Cardinality(Objs)]

\* Where it leaves each level, the lowest first: the code's update and rank.
Descend(z, goes) ==
  LET path[i \in 1 .. MaxLevel + 1] ==
        IF i > z.level THEN [node |-> Header, rank |-> 0] ELSE Slide(z, i, path[i + 1], goes)
  IN  SubSeq(path, 1, MaxLevel)

\* Members are texts, which compareStringObjects orders; it fails for an object that
\* is encoded as an integer (robject.py:107), so no such member is added.
NodeLt(z, n, s, o) == z.score[n] < s \/ (z.score[n] = s /\ n < o)
PathTo(z, s, o) == Descend(z, {n \in Nodes(z) : NodeLt(z, n, s, o)} \X Ranks)

-----------------------------------------------------------------------------
\* A new level spans the whole list.
Raised(z, h) ==
  [z EXCEPT !.level = IF h > @ THEN h ELSE @,
            !.span[Header] = [i \in Levels |-> IF i \in z.level + 1 .. h THEN z.length ELSE @[i]]]

\* The node o of height h goes behind the end of the path on each of its levels.
Spliced(z, path, o, h) ==
  LET before(i) == path[1].rank - path[i].rank
  IN  [z EXCEPT
        !.forward = [p \in Places |-> [i \in Levels |->
           CASE i <= h /\ p = path[i].node -> o
             [] i <= h /\ p = o -> @[path[i].node][i]
             [] OTHER -> @[p][i]]],
        !.span = [p \in Places |-> [i \in Levels |->
           CASE i <= h /\ p = path[i].node -> before(i) + 1
             [] i <= h /\ p = o -> @[path[i].node][i] - before(i)
             [] i \in h + 1 .. z.level /\ p = path[i].node -> @[p][i] + 1
             [] OTHER -> @[p][i]]]]

\* Mutant: the node behind keeps its backward link.
LinkedBackNever(z, n, b) == IF n # None THEN z ELSE [z EXCEPT !.tail = b]

\* The node behind n, if there is one, points back to b; else b is the tail.
LinkedBack(z, n, b) ==
  IF n # None THEN [z EXCEPT !.backward[n] = b] ELSE [z EXCEPT !.tail = b]

Inserted(z, s, o, h) ==
  LET path == PathTo(z, s, o)
      t == Spliced(Raised(z, h), path, o, h)
      u == [t EXCEPT !.height[o] = h, !.score[o] = s, !.length = @ + 1,
                     !.backward[o] = IF path[1].node = Header THEN None ELSE path[1].node]
  IN  LinkedBack(u, t.forward[o][1], o)

-----------------------------------------------------------------------------
\* Mutant: a level that passes over the node keeps its span.
BypassedHere(z, x, path) ==
  LET here(i) == z.forward[path[i].node][i] = x
  IN  [z EXCEPT
        !.forward = [p \in Places |-> [i \in Levels |->
           IF i <= z.level /\ p = path[i].node /\ here(i) THEN @[x][i] ELSE @[p][i]]],
        !.span = [p \in Places |-> [i \in Levels |->
           IF i <= z.level /\ p = path[i].node /\ here(i) THEN @[p][i] + @[x][i] - 1
           ELSE @[p][i]]]]

\* Each level goes around x, or spans one node less.
Bypassed(z, x, path) ==
  LET here(i) == z.forward[path[i].node][i] = x
  IN  [z EXCEPT
        !.forward = [p \in Places |-> [i \in Levels |->
           IF i <= z.level /\ p = path[i].node /\ here(i) THEN @[x][i] ELSE @[p][i]]],
        !.span = [p \in Places |-> [i \in Levels |->
           IF i <= z.level /\ p = path[i].node
           THEN @[p][i] - 1 + (IF here(i) THEN @[x][i] ELSE 0)
           ELSE @[p][i]]]]

\* Empty levels at the top are dropped.
Lowered(z) ==
  [z EXCEPT !.level = Max({1} \cup {i \in 1 .. z.level : z.forward[Header][i] # None})]

\* The node itself is Python's to collect.
Freed(z, x) ==
  [z EXCEPT !.height[x] = 0, !.score[x] = None, !.backward[x] = None,
            !.forward[x] = [i \in Levels |-> None], !.span[x] = [i \in Levels |-> 0]]

DeleteNode(z, x, path) ==
  LET t == LinkedBack(Bypassed(z, x, path), z.forward[x][1], z.backward[x])
  IN  Freed([Lowered(t) EXCEPT !.length = @ - 1], x)

\* The nodes from the end of the path on are deleted, one by one, as long as the
\* next one, with its place among them, is one to go.
Deleted(z, path, going, k) ==
  LET x == z.forward[path[1].node][1]
  IN  IF x # None /\ <<x, k>> \in going THEN DeleteNode(z, x, path) ELSE z

DeletedWhile(z, path, going) ==
  LET after[k \in 0 .. Cardinality(Objs)] ==
        IF k = 0 THEN z ELSE Deleted(after[k - 1], path, going, k)
  IN  after[Cardinality(Objs)]

-----------------------------------------------------------------------------
Update(z, gone) == zsl' = z /\ d' = d \ gone /\ removed' = Cardinality(gone)
Gone(z) == Nodes(zsl) \ Nodes(z)

\* A caller inserts an object that is not there, and adds it to its dictionary.
zslInsert(o, s) ==
  /\ o \notin d
  /\ \E h \in Levels :    \* zslRandomLevel
       zsl' = Inserted(zsl, s, o, h)
  /\ d' = d \cup {o} /\ removed' = 0

\* One that deletes it takes it out of the dictionary.
zslDelete(o, s) ==
  LET path == PathTo(zsl, s, o)
      x == zsl.forward[path[1].node][1]
  IN  IF x = o /\ zsl.score[o] = s THEN Update(DeleteNode(zsl, x, path), {o}) ELSE Update(zsl, {})

\* Mutant: minex is not looked at.
MinIncluded(score, min, minex) == score < min

Below(score, min, minex) == score < min \/ (minex /\ score = min)
Within(score, max, maxex) == (maxex /\ score < max) \/ score <= max

zslDeleteRangeByScore(min, minex, max, maxex) ==
  LET path == Descend(zsl, {n \in Nodes(zsl) : Below(zsl.score[n], min, minex)} \X Ranks)
      z == DeletedWhile(zsl, path, {x \in Nodes(zsl) : Within(zsl.score[x], max, maxex)} \X Ranks)
  IN  Update(z, Gone(z))

zslDeleteRangeByRank(start, end) ==
  LET path == Descend(zsl, Objs \X {r \in Ranks : r < start})
      z == DeletedWhile(zsl, path, Objs \X {k \in Ranks : path[1].rank + k <= end})
  IN  Update(z, Gone(z))

Next ==
  \/ \E o \in Objs, s \in Scores : zslInsert(o, s) \/ zslDelete(o, s)
  \/ \E min, max \in Scores, minex, maxex \in BOOLEAN : zslDeleteRangeByScore(min, minex, max, maxex)
  \/ \E start, end \in Ranks : zslDeleteRangeByRank(start, end)

Spec == Init /\ [][Next]_vars

-----------------------------------------------------------------------------
\* The call that only answers: the node of a rank.

\* Mutant: the search stops one node early.
ShortOf(r, rank) == r < rank

UpTo(r, rank) == r <= rank

zslGetElementByRank(rank) ==
  LET path == Descend(zsl, Objs \X {r \in Ranks : UpTo(r, rank)})
      hits == {i \in 1 .. zsl.level : path[i].rank = rank}
  IN  IF hits = {} THEN None ELSE path[Max(hits)].node

-----------------------------------------------------------------------------
\* The place of an object in the order of the scores, counted from 1; the header's
\* is 0 and that of the end the length.
Place(o) == Cardinality({p \in d : NodeLt(zsl, p, zsl.score[o], o)}) + 1
PlaceOf(p) == CASE p = Header -> 0 [] p = None -> zsl.length [] OTHER -> Place(p)
On(i) == {o \in d : zsl.height[o] >= i}
Linked(i) == On(i) \cup IF i <= zsl.level THEN {Header} ELSE {}

\* The list has the objects of the dictionary, as many as it says, and the level of
\* its highest node.  Every level links the nodes that are high enough in the order
\* of their scores, and the backward links go through all of them from the tail.
LevelsInOrder ==
  /\ d = Nodes(zsl) /\ zsl.length = Cardinality(d)
  /\ zsl.level = Max({1} \cup {zsl.height[o] : o \in Objs})
  /\ \A i \in Levels : \A p \in Linked(i) :
       LET behind == {o \in On(i) : Place(o) > PlaceOf(p)}
           next == zsl.forward[p][i]
       IN  IF behind = {} THEN next = None
           ELSE next \in behind /\ \A o \in behind : Place(next) <= Place(o)
  /\ \A o \in d : zsl.backward[o] = IF Place(o) = 1 THEN None
                                    ELSE CHOOSE p \in d : Place(p) = Place(o) - 1
  /\ zsl.tail # None <=> d # {}
  /\ d # {} => Place(zsl.tail) = zsl.length

\* A span is the number of nodes its link goes forward, on every level and after
\* any sequence of insertions and deletions.
SpansMeasure ==
  \A i \in Levels : \A p \in Linked(i) :
    zsl.span[p][i] = PlaceOf(zsl.forward[p][i]) - PlaceOf(p)

\* zslGetElementByRank, which adds up spans on its way, finds the node of every
\* rank in the list, and none beyond its end.
ElementsByRank ==
  /\ \A o \in d : zslGetElementByRank(Place(o)) = o
  /\ zslGetElementByRank(zsl.length + 1) = None
=============================================================================
