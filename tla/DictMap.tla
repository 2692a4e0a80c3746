------------------------------- MODULE DictMap -------------------------------
(***************************************************************************)
(* What a dictionary promises to its callers: a partial function from keys *)
(* to values, and the answer of the last call.  Buckets, tables, resizing  *)
(* and incremental rehashing do not appear: RDict, as RDictCalls observes  *)
(* it, implements this module.                                             *)
(***************************************************************************)

CONSTANTS Keys,   \* every key a caller may pass
          Vals,   \* every value a caller may store
          NoVal,  \* the answer None
          Falsy   \* the values that count as false

VARIABLES map,    \* the keys present, with their values
          key,    \* the key of the last call, or NoVal
          res     \* the answer of the last call

vars == <<map, key, res>>

Put(k, v) == [x \in DOMAIN map \cup {k} |-> IF x = k THEN v ELSE map[x]]
Without(k) == [x \in DOMAIN map \ {k} |-> map[x]]

Init == map = [k \in {} |-> NoVal] /\ key = NoVal /\ res = NoVal

\* dictAdd stores a key that is absent and refuses one that is present.
Add(k, v) ==
  IF k \in DOMAIN map THEN res' = "ERR" /\ map' = map
                      ELSE res' = "OK" /\ map' = Put(k, v)

\* dictReplace stores in every case and says whether the key is new.
Replace(k, v) ==
  /\ map' = Put(k, v)
  /\ res' = IF k \in DOMAIN map THEN "0" ELSE "1"

\* dictReplaceRaw and the assignment of its caller: the entry always exists after it.
ReplaceRaw(k, v) == map' = Put(k, v) /\ res' = v

Delete(k) ==
  IF k \in DOMAIN map THEN res' = "OK" /\ map' = Without(k)
                      ELSE res' = "ERR" /\ map' = map

Find(k) ==
  /\ map' = map
  /\ res' = IF k \in DOMAIN map THEN map[k] ELSE NoVal

\* dictFetchValue cannot tell a value that counts as false from an absent key.
FetchValue(k) ==
  /\ map' = map
  /\ res' = IF k \in DOMAIN map /\ map[k] \notin Falsy THEN map[k] ELSE NoVal

Call(k) ==
  \/ Delete(k)
  \/ Find(k)
  \/ FetchValue(k)
  \/ \E v \in Vals : Add(k, v) \/ Replace(k, v) \/ ReplaceRaw(k, v)

Next == \E k \in Keys : key' = k /\ Call(k)

Spec == Init /\ [][Next]_vars
=============================================================================
