---------------------------------- MODULE Db ----------------------------------
(***************************************************************************)
(* The keyspace of db.py as operators on a record s:                       *)
(*   dict, expires   partial functions on the keys: RedisDB.dict and       *)
(*                   RedisDB.expires (two rDicts, which RDict shows to be   *)
(*                   maps);                                                *)
(*   expired, hits, misses, dirty   the counters of the server.            *)
(* A clock reading is an argument, for a command reads the clock afresh at *)
(* each of its steps.  server.loading is 0 whenever commands run, the LRU  *)
(* clock of a value is left out, and the notifications are stubs.          *)
(***************************************************************************)
EXTENDS Integers

NoExpire == -1
NoKeys == [k \in {} |-> NoExpire]

EmptyDb == [dict |-> NoKeys, expires |-> NoKeys,
            expired |-> 0, hits |-> 0, misses |-> 0, dirty |-> 0]

Without(f, k) == [x \in DOMAIN f \ {k} |-> f[x]]
Upd(f, k, v) == [x \in DOMAIN f \cup {k} |-> IF x = k THEN v ELSE f[x]]

Exists(s, k) == k \in DOMAIN s.dict

getExpire(s, k) == IF k \in DOMAIN s.expires THEN s.expires[k] ELSE NoExpire

\* Mutant: the deadline of a deleted key is left behind.
dbDeleteKeepsDeadline(s, k) == [s EXCEPT !.dict = Without(s.dict, k)]

\* Both dictionaries lose the key, the deadline first.
dbDelete(s, k) ==
  [s EXCEPT !.expires = Without(s.expires, k), !.dict = Without(s.dict, k)]

\* Mutant: a key is expired from the millisecond of its deadline on.
ExpiredEarly(s, k, now) == getExpire(s, k) >= 0 /\ now >= getExpire(s, k)

Expired(s, k, now) == getExpire(s, k) >= 0 /\ now > getExpire(s, k)

\* Mutant: an expired key is hidden from the caller and counted, and stays.
expireWithoutDelete(s, k, now) ==
  IF Expired(s, k, now) THEN [s EXCEPT !.expired = @ + 1] ELSE s

expireIfNeeded(s, k, now) ==
  IF Expired(s, k, now) THEN [dbDelete(s, k) EXCEPT !.expired = @ + 1] ELSE s

\* lookupKeyRead: the expiry, then one of the two counters.
lookupKeyRead(s, k, now) ==
  LET e == expireIfNeeded(s, k, now)
  IN  IF Exists(e, k) THEN [e EXCEPT !.hits = @ + 1] ELSE [e EXCEPT !.misses = @ + 1]

\* Mutant: an overwritten key keeps the deadline of its old value.
setKeyKeepsDeadline(s, k, o, now) ==
  LET e == expireIfNeeded(s, k, now)
  IN  [e EXCEPT !.dict = Upd(e.dict, k, o)]

\* setKey: lookupKeyWrite, dbAdd or dbOverwrite, and removeExpire.
setKey(s, k, o, now) ==
  LET e == expireIfNeeded(s, k, now)
  IN  [e EXCEPT !.dict = Upd(e.dict, k, o), !.expires = Without(e.expires, k)]

setExpire(s, k, when) == [s EXCEPT !.expires = Upd(s.expires, k, when)]
=============================================================================
