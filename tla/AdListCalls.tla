------------------------------ MODULE AdListCalls ------------------------------
(* AdList observed: which call was the last, with its arguments.  A node among *)
(* them is given by its place in the list.                                     *)
EXTENDS AdList

VARIABLE asked

CallsInit == Init /\ asked = <<>>

Position(n) == CHOOSE i \in DOMAIN Forward(l) : Forward(l)[i] = n

CallsNext ==
  \/ \E v \in Vals :
       \/ listAddNodeHead(v) /\ asked' = <<"insert", 1, v>>
       \/ listAddNodeTail(v) /\ asked' = <<"insert", l.len + 1, v>>
       \/ listSearchKey(v) /\ asked' = <<"search", v>>
  \/ \E x \in Live(l) :
       \/ listDelNode(x) /\ asked' = <<"delete", Position(x)>>
       \/ \E v \in Vals :
            \/ listInsertNode(x, v, FALSE) /\ asked' = <<"insert", Position(x), v>>
            \/ listInsertNode(x, v, TRUE) /\ asked' = <<"insert", Position(x) + 1, v>>
  \/ \E k \in Places : listIndex(k) /\ asked' = <<"index", k>>
  \/ listRotate /\ asked' = <<"rotate">>
  \/ listDup /\ asked' = <<"dup">>
  \/ IteratorCalls /\ asked' = <<"iterate">>

CallsSpec == CallsInit /\ [][CallsNext]_<<vars, asked>>

\* The linked list keeps the promise of a sequence: every call changes it, and
\* answers, as its arguments ask, while an iterator is at work on it.
Values == LET nodes == Forward(l) IN [i \in DOMAIN nodes |-> l.value[nodes[i]]]
Abstract ==
  INSTANCE ListSeq WITH seq <- Values,
                        at <- IF res = None THEN None ELSE Position(res)
RefinesListSeq == Abstract!Spec
=============================================================================
