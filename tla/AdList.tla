-------------------------------- MODULE AdList --------------------------------
(***************************************************************************)
(* The doubly linked list of adlist.py and its iterators.  The list and    *)
(* its nodes are one record: head, tail, len and the fields of the nodes.  *)
(* A node that is deleted keeps its links while an iterator stands on it,  *)
(* and the iterator goes on from there; else Python collects it.           *)
(*                                                                         *)
(* Nodes passed to a call are nodes of the list, as every caller in the    *)
(* server has them from it.                                                *)
(***************************************************************************)
EXTENDS Integers, FiniteSets, Sequences, FiniteSetsExt, SequencesExt

CONSTANTS Vals, None,
          MaxNodes          \* bound: nodes at a time

ASSUME AdListAssumption ==
  /\ MaxNodes \in Nat /\ None \notin Vals \cup 1 .. MaxNodes

Nodes == 1 .. MaxNodes
Places == -MaxNodes - 1 .. MaxNodes    \* what listIndex may be asked for

VARIABLES
  l,      \* the rList with its nodes
  res,    \* the node the last call answered, or None
  copy,   \* the values it copied, if it is listDup
  it,     \* the iterator, or None
  start,  \* the nodes that are in the list since the iterator was set
  seen,   \* the nodes it has returned since, and that are still there
  upset   \* was the node it stands on deleted, or the list rotated?

iterVars == <<it, start, seen, upset>>
vars == <<l, res, copy, it, start, seen, upset>>

-----------------------------------------------------------------------------
\* The nodes met by following a link from n, in order; and how far it is.
Steps(link, n) ==
  LET Follow(m) == IF m = None THEN None ELSE link[m]
      step[k \in 0 .. MaxNodes] == IF k = 0 THEN n ELSE Follow(step[k - 1])
  IN  step
Walk(link, n) ==
  LET step == Steps(link, n)
      steps == {k \in 0 .. MaxNodes : step[k] # None}
  IN  [i \in 1 .. Cardinality(steps) |-> step[i - 1]]

Forward(s) == Walk(s.next, s.head)
Backward(s) == Walk(s.prev, s.tail)
Live(s) == ToSet(Forward(s))

EmptyList ==
  [head |-> None, tail |-> None, len |-> 0, prev |-> [n \in Nodes |-> None],
   next |-> [n \in Nodes |-> None], value |-> [n \in Nodes |-> None]]

Init ==
  /\ l = EmptyList /\ res = None /\ copy = <<>>
  /\ it = None /\ start = {} /\ seen = {} /\ upset = FALSE

-----------------------------------------------------------------------------
AddNodeHead(s, n, v) ==
  LET t == [s EXCEPT !.value[n] = v, !.len = @ + 1, !.head = n, !.prev[n] = None]
  IN  IF s.len = 0 THEN [t EXCEPT !.tail = n, !.next[n] = None]
      ELSE [t EXCEPT !.next[n] = s.head, !.prev[s.head] = n]

AddNodeTail(s, n, v) ==
  LET t == [s EXCEPT !.value[n] = v, !.len = @ + 1, !.tail = n, !.next[n] = None]
  IN  IF s.len = 0 THEN [t EXCEPT !.head = n, !.prev[n] = None]
      ELSE [t EXCEPT !.prev[n] = s.tail, !.next[s.tail] = n]

\* Mutant: the neighbour is forgotten.
LinkNothing(s, p, n) == s

\* The node of a link, if there is one, points to n.
LinkNext(s, p, n) == IF p = None THEN s ELSE [s EXCEPT !.next[p] = n]
LinkPrev(s, p, n) == IF p = None THEN s ELSE [s EXCEPT !.prev[p] = n]

InsertNode(s, n, old, v, after) ==
  LET before == IF after THEN old ELSE s.prev[old]
      behind == IF after THEN s.next[old] ELSE old
      t == [s EXCEPT !.value[n] = v, !.len = @ + 1, !.prev[n] = before, !.next[n] = behind,
                     !.tail = IF after /\ @ = old THEN n ELSE @,
                     !.head = IF ~after /\ @ = old THEN n ELSE @]
  IN  LinkPrev(LinkNext(t, before, n), behind, n)

DelNode(s, x) ==
  LET t == IF s.prev[x] = None THEN [s EXCEPT !.head = s.next[x]] ELSE s
      u == IF s.next[x] = None THEN [t EXCEPT !.tail = s.prev[x]] ELSE t
  IN  LinkPrev(LinkNext([u EXCEPT !.len = @ - 1], s.prev[x], s.next[x]), s.next[x], s.prev[x])

\* Mutant: the new tail keeps its link.
RotatedInCircle(s) ==
  IF s.len <= 1 THEN s
  ELSE [s EXCEPT !.tail = s.prev[s.tail], !.head = s.tail,
                 !.next[s.tail] = s.head, !.prev[s.tail] = None, !.prev[s.head] = s.tail]

Rotated(s) ==
  IF s.len <= 1 THEN s
  ELSE [s EXCEPT !.tail = s.prev[s.tail], !.head = s.tail,
                 !.next = [@ EXCEPT ![s.prev[s.tail]] = None, ![s.tail] = s.head],
                 !.prev = [@ EXCEPT ![s.head] = s.tail, ![s.tail] = None]]

-----------------------------------------------------------------------------
\* What remains of s when only its list and the iterator i refer to nodes.
Collected(s, i) ==
  LET gone == Nodes \ Live(s)
      Kept(field) == [n \in Nodes |-> IF n \in gone THEN None ELSE field[n]]
  IN  IF i # None /\ i.next \in gone THEN s
      ELSE [s EXCEPT !.prev = Kept(s.prev), !.next = Kept(s.next), !.value = Kept(s.value)]
FreeNodes == {n \in Nodes : l.value[n] = None}

\* What the ghosts hold once the iterator is upset does not matter.
Watch(u, st, se) ==
  /\ upset' = u
  /\ start' = IF u THEN {} ELSE st
  /\ seen' = IF u THEN {} ELSE se

\* A call that changes the list, and one that answers.
Changed(s) == l' = s /\ res' = None /\ copy' = <<>>
Answered(node, values) == res' = node /\ copy' = values /\ UNCHANGED <<l, iterVars>>

Create(Added(_)) == FreeNodes # {} /\ Changed(Added(Min(FreeNodes))) /\ UNCHANGED iterVars

listAddNodeHead(v) == Create(LAMBDA n : AddNodeHead(l, n, v))
listAddNodeTail(v) == Create(LAMBDA n : AddNodeTail(l, n, v))
listInsertNode(old, v, after) == Create(LAMBDA n : InsertNode(l, n, old, v, after))

listDelNode(x) ==
  /\ Changed(Collected(DelNode(l, x), it))
  /\ Watch(upset \/ (it # None /\ it.next = x), start \ {x}, seen \ {x})
  /\ UNCHANGED it

listRotate ==
  /\ l.tail # None
  /\ Changed(Rotated(l)) /\ Watch(upset \/ it # None, start, seen)
  /\ UNCHANGED it

\* The iterator of the search goes from the head.
listSearchKey(v) ==
  LET hits == {i \in DOMAIN Forward(l) : l.value[Forward(l)[i]] = v}
  IN  Answered(IF hits = {} THEN None ELSE Forward(l)[Min(hits)], <<>>)

listIndex(k) ==
  Answered(IF k < 0 THEN Steps(l.prev, l.tail)[-k - 1] ELSE Steps(l.next, l.head)[k], <<>>)

\* Without a dup method the values themselves are copied, node by node.
listDup == Answered(None, [i \in DOMAIN Forward(l) |-> l.value[Forward(l)[i]]])

-----------------------------------------------------------------------------
\* listGetIterator, listRewind and listRewindTail set the same two fields.
Iterate(first, direction) ==
  /\ it' = [next |-> first, direction |-> direction]
  /\ Watch(FALSE, Live(l), {})
  /\ Changed(Collected(l, it'))

listRewind == Iterate(l.head, "AL_START_HEAD")
listRewindTail == Iterate(l.tail, "AL_START_TAIL")

\* Mutant: the direction does not matter.
FollowingForward(s, i) == s.next[i.next]

Following(s, i) == IF i.direction = "AL_START_HEAD" THEN s.next[i.next] ELSE s.prev[i.next]

listNext ==
  /\ it # None /\ it.next # None
  /\ it' = [it EXCEPT !.next = Following(l, it)]
  /\ Watch(upset, start, seen \cup {it.next})
  /\ Changed(Collected(l, it'))

listReleaseIterator ==
  /\ it # None
  /\ it' = None /\ Watch(FALSE, {}, {})
  /\ Changed(Collected(l, it'))

ListCalls ==
  \/ \E v \in Vals : listAddNodeHead(v) \/ listAddNodeTail(v) \/ listSearchKey(v)
  \/ \E x \in Live(l) :
       \/ listDelNode(x)
       \/ \E v \in Vals, after \in BOOLEAN : listInsertNode(x, v, after)
  \/ \E k \in Places : listIndex(k)
  \/ listRotate \/ listDup
IteratorCalls == listRewind \/ listRewindTail \/ listNext \/ listReleaseIterator

Next == ListCalls \/ IteratorCalls

Spec == Init /\ [][Next]_vars

-----------------------------------------------------------------------------
\* The list read from its tail is the list read from its head in reverse, has as
\* many nodes as it says (the test's rList2list), and none of them is collected.
MirrorImage ==
  /\ \A n \in Live(l) : l.value[n] # None
  /\ Len(Forward(l)) = l.len
  /\ Backward(l) = Reverse(Forward(l))

\* An iterator returns every node once that is in the list from its first to its
\* last call, although nodes are added and deleted meanwhile, unless the very node
\* it stands on is deleted or the list is rotated.
Ahead == ToSet(Walk(IF it.direction = "AL_START_HEAD" THEN l.next ELSE l.prev, it.next))
IteratorCovers == it # None /\ ~upset => seen \cap Ahead = {} /\ start \subseteq seen \cup Ahead

=============================================================================
