---------------------------- MODULE ZSkipListCalls ----------------------------
(* ZSkipList, observed: which call was the last, with its arguments.           *)
EXTENDS ZSkipList

VARIABLE asked

CallsInit == Init /\ asked = <<>>

CallsNext ==
  \/ \E o \in Objs, s \in Scores :
       \/ zslInsert(o, s) /\ asked' = <<"insert", o, s>>
       \/ zslDelete(o, s) /\ asked' = <<"delete", o, s>>
  \/ \E min, max \in Scores, minex, maxex \in BOOLEAN :
       /\ zslDeleteRangeByScore(min, minex, max, maxex)
       /\ asked' = <<"by score", min, minex, max, maxex>>
  \/ \E start, end \in Ranks :
       zslDeleteRangeByRank(start, end) /\ asked' = <<"by rank", start, end>>

CallsSpec == CallsInit /\ [][CallsNext]_<<vars, asked>>

\* The skip list keeps the promise of a sorted set, whatever levels are drawn: each
\* call finds, among all its levels, exactly the members its arguments mean to the
\* code, to which an exclusive upper bound of scores is one that belongs to the range.
Promise == INSTANCE SortedSet WITH score <- zsl.score
RefinesSortedSet == Promise!Spec
=============================================================================
