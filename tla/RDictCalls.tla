------------------------------ MODULE RDictCalls ------------------------------
(* RDict, observed: which key the last call was for.  With it the answers of  *)
(* the calls are compared with what a map answers for the same key.           *)
EXTENDS RDict

VARIABLE key

CallsInit == Init /\ key = NoVal
CallsNext ==
  \/ \E k \in Keys : CallOn(k) /\ key' = k
  \/ OtherCall /\ UNCHANGED key

CallsSpec == CallsInit /\ [][CallsNext]_<<vars, key>>

\* The dictionary a caller sees: the entries of the two tables.
Content(s) ==
  [k \in HeldKeys(s) |->
     (CHOOSE e \in s.ht0.table \cup s.ht1.table : e.key = k).val]

\* rdict.py keeps the promise of a map, answers included, whatever rehash is under
\* way.
Abstract == INSTANCE DictMap WITH map <- Content(d)
RefinesDictMap == Abstract!Spec
=============================================================================
