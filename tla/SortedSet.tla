------------------------------- MODULE SortedSet -------------------------------
(***************************************************************************)
(* What the skip list of zskiplist.py promises: a set of members ordered   *)
(* by score, and by the member itself among equal scores.  ZSkipList, as   *)
(* ZSkipListCalls observes it, implements this module.                     *)
(***************************************************************************)
EXTENDS Integers, FiniteSets

CONSTANTS Objs,     \* the members a caller may add: numbers, for their order
          Scores,   \* their scores, and the bounds of a range
          Ranks,    \* the ranks they may ask for
          None

VARIABLES score,    \* the score of a member; None for every other object
          asked,    \* the last call, with its arguments
          removed   \* how many members it removed

vars == <<score, asked, removed>>

Members == {o \in Objs : score[o] # None}
Before(a, b) == score[a] < score[b] \/ (score[a] = score[b] /\ a < b)
Rank(o) == Cardinality({p \in Members : Before(p, o)}) + 1

Init == score = [o \in Objs |-> None] /\ asked = <<>> /\ removed = 0

Insert(o, s) == o \notin Members /\ score' = [score EXCEPT ![o] = s] /\ removed' = 0

Remove(gone) ==
  /\ score' = [o \in Objs |-> IF o \in gone THEN None ELSE score[o]]
  /\ removed' = Cardinality(gone)

Delete(o, s) == Remove({p \in Members : p = o /\ score[o] = s})

\* The upper bound belongs to the range, whether it should be exclusive or not.
DeleteRangeByScore(min, minex, max, maxex) ==
  Remove({o \in Members : /\ min <= score[o] /\ (minex => score[o] # min)
                          /\ score[o] <= max})

\* Ranks count from 1.
DeleteRangeByRank(start, end) == Remove({o \in Members : Rank(o) \in start .. end})

Next ==
  \/ \E o \in Objs, s \in Scores :
       \/ Insert(o, s) /\ asked' = <<"insert", o, s>>
       \/ Delete(o, s) /\ asked' = <<"delete", o, s>>
  \/ \E min, max \in Scores, minex, maxex \in BOOLEAN :
       DeleteRangeByScore(min, minex, max, maxex) /\ asked' = <<"by score", min, minex, max, maxex>>
  \/ \E start, end \in Ranks :
       DeleteRangeByRank(start, end) /\ asked' = <<"by rank", start, end>>

Spec == Init /\ [][Next]_vars
=============================================================================
