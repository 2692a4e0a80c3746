----------------------------- MODULE ExpiringMap -----------------------------
(***************************************************************************)
(* What SET and GET promise: a map whose entries vanish at the moment      *)
(* their deadline passes.  A call takes time, from now to now'; each of    *)
(* its decisions is taken at an instant in between.  Nothing here is lazy: *)
(* StringCommands, which deletes an expired key only when a command        *)
(* touches it, implements this module.                                     *)
(***************************************************************************)
EXTENDS Integers

CONSTANT ReadBack   \* the text a client reads after it stored a text

Forever == -1

VARIABLES map,      \* key |-> [text, until]
          now,      \* the wall clock, in milliseconds
          request,  \* the last command
          res       \* the reply to it

vars == <<map, now, request, res>>

LiveAt(m, t) ==
  [k \in {x \in DOMAIN m : m[x].until = Forever \/ t <= m[x].until} |-> m[k]]

Put(m, k, e) == [x \in DOMAIN m \cup {k} |-> IF x = k THEN e ELSE m[x]]

Init == map = [k \in {} |-> Forever] /\ now \in Nat /\ res = "none"

Later == now' \in Nat /\ now <= now'

Get(r) ==
  /\ r.cmd = "get"
  /\ Later
  /\ map' = LiveAt(map, now')
  /\ \E t \in now .. now' :
       res' = IF r.key \in DOMAIN LiveAt(map, t) THEN map[r.key].text ELSE "$-1"

\* NX wants the key absent, XX wants it present, each when it looks.
Unmet(r, t1, t2) ==
  (r.nx /\ r.key \in DOMAIN LiveAt(map, t1)) \/ (r.xx /\ r.key \notin DOMAIN LiveAt(map, t2))

SetRefused(r) ==
  /\ r.cmd = "set" /\ res' = "$-1"
  /\ Later
  /\ map' = LiveAt(map, now')
  /\ \E t1 \in now .. now' : \E t2 \in t1 .. now' : Unmet(r, t1, t2)

\* The deadline counts from the last instant; a time to live of 0 means none.
SetStored(r) ==
  /\ r.cmd = "set" /\ res' = "+OK"
  /\ Later
  /\ \E t1 \in now .. now' : \E t2 \in t1 .. now' : \E t3 \in t2 .. now' :
       /\ ~Unmet(r, t1, t2)
       /\ map' = LiveAt(Put(map, r.key,
                            [text |-> ReadBack[r.text],
                             until |-> IF r.ttl = 0 THEN Forever ELSE t3 + r.ttl]), now')

\* When the clock is set back, an entry may return whose deadline had passed.
SetBack ==
  /\ UNCHANGED <<request, res>> /\ now' \in Nat /\ now' < now
  /\ \A k \in DOMAIN map : k \in DOMAIN map' /\ map'[k] = map[k]
  /\ \A k \in DOMAIN map' \ DOMAIN map : map'[k].until # Forever /\ map'[k].until < now

\* A malformed request, and the mere passing of time.
Refuse(r) == r.cmd = "bad" /\ Later /\ map' = LiveAt(map, now')
Wait == UNCHANGED <<request, res>> /\ Later /\ map' = LiveAt(map, now')

Next ==
  \/ Wait \/ SetBack
  \/ Get(request') \/ SetRefused(request') \/ SetStored(request') \/ Refuse(request')

Spec == Init /\ [][Next]_vars
=============================================================================
