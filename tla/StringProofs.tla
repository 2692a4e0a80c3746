----------------------------- MODULE StringProofs -----------------------------
(***************************************************************************)
(* The keyspace under SET and GET, for every set of keys and texts, every  *)
(* clock and any number of option words: no deadline without its key, no   *)
(* deadline used twice, and no key lost before its deadline.               *)
(***************************************************************************)
EXTENDS StringCommands, FiniteSetTheorems, TLAPS

\* The shape of a keyspace, which the updates of single fields preserve.
Shaped(s) ==
  s = [dict |-> s.dict, expires |-> s.expires, expired |-> s.expired,
       hits |-> s.hits, misses |-> s.misses, dirty |-> s.dirty]

Counted(s) == s.expired \in Nat /\ s.hits \in Nat /\ s.misses \in Nat /\ s.dirty \in Nat

Typed(s) ==
  /\ DOMAIN s.dict \subseteq Keys /\ \A k \in DOMAIN s.dict : s.dict[k] \in Objects
  /\ DOMAIN s.expires \subseteq Keys /\ \A k \in DOMAIN s.expires : s.expires[k] \in Nat

\* Keys and deadlines: every deadline has its key, and each was paid for by a
\* store that nothing has used up.
Sound(s) ==
  /\ IsFiniteSet(DOMAIN s.expires)
  /\ DOMAIN s.expires \subseteq DOMAIN s.dict
  /\ s.expired + Cardinality(DOMAIN s.expires) <= s.dirty

DbOK(s) == Shaped(s) /\ Counted(s) /\ Typed(s) /\ Sound(s)

IInv == DbOK(db) /\ clock \in 0 .. MaxTime /\ request.cmd \in {"none", "bad", "get", "set"}

-----------------------------------------------------------------------------
\* What the updates of db.py do to the fields.
LEMMA ExpireFields ==
  ASSUME NEW s, Shaped(s), NEW k, NEW t
  PROVE  LET e == expireIfNeeded(s, k, t)
         IN  /\ Shaped(e)
             /\ e.hits = s.hits /\ e.misses = s.misses /\ e.dirty = s.dirty
             /\ IF Expired(s, k, t)
                THEN /\ e.dict = Without(s.dict, k) /\ e.expires = Without(s.expires, k)
                     /\ e.expired = s.expired + 1
                ELSE e = s
BY DEF Shaped, expireIfNeeded, dbDelete

\* An expiry consumes the deadline it counts.
LEMMA ExpireKeeps ==
  ASSUME NEW s, DbOK(s), NEW k \in Keys, NEW t \in Int
  PROVE  DbOK(expireIfNeeded(s, k, t))
<1> DEFINE e == expireIfNeeded(s, k, t)
<1>1. CASE ~Expired(s, k, t)
  BY <1>1 DEF expireIfNeeded
<1>2. CASE Expired(s, k, t)
  <2>1. /\ Shaped(e) /\ e.hits = s.hits /\ e.misses = s.misses /\ e.dirty = s.dirty
        /\ e.dict = Without(s.dict, k) /\ e.expires = Without(s.expires, k)
        /\ e.expired = s.expired + 1
    BY <1>2, ExpireFields DEF DbOK
  <2>2. k \in DOMAIN s.expires
    BY <1>2 DEF Expired, getExpire, NoExpire
  <2>3. /\ DOMAIN e.dict = DOMAIN s.dict \ {k} /\ DOMAIN e.expires = DOMAIN s.expires \ {k}
        /\ \A x \in DOMAIN e.dict : e.dict[x] = s.dict[x]
        /\ \A x \in DOMAIN e.expires : e.expires[x] = s.expires[x]
    BY <2>1 DEF Without
  <2>4. Counted(e) /\ Typed(e)
    BY <2>1, <2>3 DEF DbOK, Counted, Typed
  <2>5. /\ IsFiniteSet(DOMAIN e.expires)
        /\ Cardinality(DOMAIN e.expires) = Cardinality(DOMAIN s.expires) - 1
        /\ Cardinality(DOMAIN s.expires) \in Nat
    BY <2>2, <2>3, FS_RemoveElement, FS_CardinalityType DEF DbOK, Sound
  <2>6. Sound(e)
    BY <2>1, <2>3, <2>5 DEF DbOK, Sound, Counted
  <2> QED BY <2>1, <2>4, <2>6 DEF DbOK
<1> QED BY <1>1, <1>2

\* A lookup removes the key when it has expired, and counts a hit or a miss.
LEMMA LookupKeeps ==
  ASSUME NEW s, DbOK(s), NEW k \in Keys, NEW t \in Int
  PROVE  DbOK(lookupKeyRead(s, k, t))
<1> DEFINE e == expireIfNeeded(s, k, t)
           h == [e EXCEPT !.hits = @ + 1]
           m == [e EXCEPT !.misses = @ + 1]
<1>1. DbOK(e)
  BY ExpireKeeps
<1> HIDE DEF e
<1>2. /\ Shaped(h) /\ h.dict = e.dict /\ h.expires = e.expires
      /\ h.expired = e.expired /\ h.dirty = e.dirty /\ h.misses = e.misses
      /\ h.hits = e.hits + 1
  BY <1>1 DEF DbOK, Shaped
<1>3. /\ Shaped(m) /\ m.dict = e.dict /\ m.expires = e.expires
      /\ m.expired = e.expired /\ m.dirty = e.dirty /\ m.hits = e.hits
      /\ m.misses = e.misses + 1
  BY <1>1 DEF DbOK, Shaped
<1> HIDE DEF h, m
<1>4. DbOK(h)
  BY <1>1, <1>2 DEF DbOK, Counted, Typed, Sound
<1>5. DbOK(m)
  BY <1>1, <1>3 DEF DbOK, Counted, Typed, Sound
<1>6. lookupKeyRead(s, k, t) = h \/ lookupKeyRead(s, k, t) = m
  BY DEF lookupKeyRead, e, h, m
<1> QED BY <1>4, <1>5, <1>6

\* A store that has been counted leaves room for one deadline more.
LEMMA StoreKeeps ==
  ASSUME NEW s, DbOK(s), NEW k \in Keys, NEW o \in Objects, NEW t \in Int
  PROVE  LET c == [setKey(s, k, o, t) EXCEPT !.dirty = @ + 1]
         IN  /\ DbOK(c)
             /\ c.expired + Cardinality(DOMAIN c.expires) < c.dirty
             /\ k \in DOMAIN c.dict
<1> DEFINE e == expireIfNeeded(s, k, t)
           c == [setKey(s, k, o, t) EXCEPT !.dirty = @ + 1]
<1>1. DbOK(e)
  BY ExpireKeeps
<1>2. setKey(s, k, o, t) = [e EXCEPT !.dict = Upd(e.dict, k, o), !.expires = Without(e.expires, k)]
  BY DEF setKey
<1> DEFINE w == setKey(s, k, o, t)
<1> HIDE DEF e
<1>3. /\ Shaped(w)
      /\ w.dict = Upd(e.dict, k, o) /\ w.expires = Without(e.expires, k)
      /\ w.expired = e.expired /\ w.hits = e.hits /\ w.misses = e.misses
      /\ w.dirty = e.dirty
  BY <1>1, <1>2 DEF DbOK, Shaped
<1> HIDE DEF w
<1>4. c = [w EXCEPT !.dirty = @ + 1]
  BY DEF w
<1> HIDE DEF c
<1>5. /\ Shaped(c)
      /\ c.dict = Upd(e.dict, k, o) /\ c.expires = Without(e.expires, k)
      /\ c.expired = e.expired /\ c.hits = e.hits /\ c.misses = e.misses
      /\ c.dirty = e.dirty + 1
  BY <1>3, <1>4 DEF Shaped
<1>6. /\ DOMAIN c.dict = DOMAIN e.dict \cup {k} /\ DOMAIN c.expires = DOMAIN e.expires \ {k}
      /\ \A x \in DOMAIN c.dict : c.dict[x] = IF x = k THEN o ELSE e.dict[x]
      /\ \A x \in DOMAIN c.expires : c.expires[x] = e.expires[x]
  BY <1>5 DEF Upd, Without
<1>7. Counted(c) /\ Typed(c)
  BY <1>1, <1>5, <1>6 DEF DbOK, Counted, Typed
<1>8. /\ IsFiniteSet(DOMAIN c.expires)
      /\ Cardinality(DOMAIN c.expires) <= Cardinality(DOMAIN e.expires)
      /\ Cardinality(DOMAIN c.expires) \in Nat /\ Cardinality(DOMAIN e.expires) \in Nat
  <2>1. IsFiniteSet(DOMAIN e.expires) /\ DOMAIN c.expires \in SUBSET DOMAIN e.expires
    BY <1>1, <1>6 DEF DbOK, Sound
  <2> QED BY <2>1, FS_Subset, FS_CardinalityType
<1>9. /\ DOMAIN c.expires \subseteq DOMAIN c.dict /\ k \in DOMAIN c.dict
      /\ c.expired + Cardinality(DOMAIN c.expires) < c.dirty
  BY <1>1, <1>5, <1>6, <1>8 DEF DbOK, Sound, Counted
<1>10. Sound(c)
  BY <1>5, <1>7, <1>8, <1>9 DEF Sound, Counted
<1> QED BY <1>5, <1>7, <1>9, <1>10 DEF DbOK, c

\* The deadline of a key that is there is set.
LEMMA SetExpireKeeps ==
  ASSUME NEW s, DbOK(s), NEW k \in DOMAIN s.dict, NEW when \in Nat,
         s.expired + Cardinality(DOMAIN s.expires) < s.dirty
  PROVE  DbOK(setExpire(s, k, when))
<1> DEFINE e == setExpire(s, k, when)
<1>1. /\ Shaped(e) /\ e.dict = s.dict /\ e.expires = Upd(s.expires, k, when)
      /\ e.expired = s.expired /\ e.hits = s.hits /\ e.misses = s.misses /\ e.dirty = s.dirty
  BY DEF DbOK, Shaped, setExpire
<1> HIDE DEF e
<1>2. /\ DOMAIN e.expires = DOMAIN s.expires \cup {k}
      /\ \A x \in DOMAIN e.expires : e.expires[x] = IF x = k THEN when ELSE s.expires[x]
  BY <1>1 DEF Upd
<1>3. Counted(e) /\ Typed(e)
  BY <1>1, <1>2 DEF DbOK, Counted, Typed
<1>4. /\ IsFiniteSet(DOMAIN e.expires)
      /\ Cardinality(DOMAIN e.expires) <= Cardinality(DOMAIN s.expires) + 1
      /\ Cardinality(DOMAIN e.expires) \in Nat /\ Cardinality(DOMAIN s.expires) \in Nat
  <2> DEFINE D == DOMAIN s.expires
  <2>1. IsFiniteSet(D)
    BY DEF DbOK, Sound
  <2> HIDE DEF D
  <2>2. IsFiniteSet(D \cup {k}) /\ Cardinality(D \cup {k}) = IF k \in D THEN Cardinality(D)
                                                             ELSE Cardinality(D) + 1
    BY <2>1, FS_AddElement
  <2>3. Cardinality(D) \in Nat /\ Cardinality(D \cup {k}) \in Nat
    BY <2>1, <2>2, FS_CardinalityType
  <2>4. Cardinality(D \cup {k}) <= Cardinality(D) + 1
    BY <2>2, <2>3
  <2> QED BY <1>2, <2>2, <2>3, <2>4 DEF D
<1>5. Sound(e)
  BY <1>1, <1>2, <1>4 DEF DbOK, Sound, Counted
<1> QED BY <1>1, <1>3, <1>5 DEF DbOK, e

\* tryObjectEncoding makes an object of every text.
LEMMA EncodingType ==
  ASSUME NEW text \in Texts
  PROVE  tryObjectEncoding(text) \in Objects
BY StringAssumption DEF tryObjectEncoding, Objects

\* The deadline of a well-formed request is after the clock.
LEMMA DeadlineType ==
  ASSUME NEW o, WellFormed(o), HasExpire(o), NEW t \in Nat
  PROVE  Deadline(o, t) \in Nat /\ Deadline(o, t) > t
<1> DEFINE n == Numerals[o.expire]
           u == IF o.seconds THEN MsPerSecond ELSE 1
<1>1. n \in Nat /\ n > 0
  BY StringAssumption DEF WellFormed, Integer, Positive
<1>2. u \in Nat /\ u > 0
  BY StringAssumption
<1>3. Ttl(o) = n * u
  BY DEF Ttl
<1> HIDE DEF n, u
<1>4. n * u \in Nat /\ n * u > 0
  BY <1>1, <1>2
<1> QED BY <1>3, <1>4 DEF Deadline

-----------------------------------------------------------------------------
\* The invariant holds of the empty server.
LEMMA InitOK == Init => IInv
<1> SUFFICES ASSUME Init PROVE IInv
  OBVIOUS
<1>1. db = EmptyDb /\ clock \in 0 .. MaxTime /\ request.cmd = "none"
  BY DEF Init
<1>2. DOMAIN db.dict = {} /\ DOMAIN db.expires = {}
  BY <1>1 DEF EmptyDb, NoKeys
<1>3. Shaped(db) /\ Counted(db)
  BY <1>1 DEF EmptyDb, Shaped, Counted
<1>4. Typed(db)
  BY <1>2 DEF Typed
<1>5. Sound(db)
  <2>1. IsFiniteSet({}) /\ Cardinality({}) = 0
    BY FS_EmptySet
  <2> QED BY <1>1, <1>2, <2>1 DEF Sound, EmptyDb
<1> QED BY <1>1, <1>3, <1>4, <1>5 DEF IInv, DbOK

\* The conditional lookups of SET are expiries.
LEMMA LookupsKeep ==
  ASSUME DbOK(db), NEW o, NEW k \in Keys, NEW t1 \in Int, NEW t2 \in Int
  PROVE  DbOK(AfterXx(o, k, t1, t2))
<1>1. DbOK(AfterNx(o, k, t1))
  BY ExpireKeeps DEF AfterNx
<1>2. DbOK(expireIfNeeded(AfterNx(o, k, t1), k, t2))
  BY <1>1, ExpireKeeps
<1> QED BY <1>1, <1>2 DEF AfterXx

\* Every command and every tick of the clock keeps it.
LEMMA NextOK == IInv /\ [Next]_vars => IInv'
<1> SUFFICES ASSUME IInv, [Next]_vars PROVE IInv'
  OBVIOUS
<1>0. DbOK(db) /\ clock \in Nat /\ clock <= MaxTime /\ MaxTime \in Nat
  BY StringAssumption DEF IInv
<1>1. CASE UNCHANGED vars
  BY <1>1 DEF vars, IInv
<1>2. CASE Tick
  BY <1>2 DEF Tick, IInv
<1>3. ASSUME NEW o \in AllOptions, SetSyntaxError(o) \/ SetBadExpire(o)
      PROVE  IInv'
  <2>1. db' = db /\ clock' = clock /\ request' = [cmd |-> "bad"]
    BY <1>3, Zenon DEF SetSyntaxError, SetBadExpire
  <2>2. DbOK(db') /\ request'.cmd = "bad"
    BY <1>0, <2>1
  <2> QED BY <2>1, <2>2 DEF IInv
<1>4. ASSUME NEW k \in Keys, GetCommand(k)
      PROVE  IInv'
  <2>1. PICK t \in clock .. MaxTime : clock' = t /\ db' = lookupKeyRead(db, k, t)
    BY <1>4 DEF GetCommand
  <2>2. t \in 0 .. MaxTime
    BY <1>0, <2>1
  <2>3. DbOK(db')
    BY <1>0, <2>1, <2>2, LookupKeeps
  <2>4. request'.cmd = "get"
    BY <1>4 DEF GetCommand
  <2> QED BY <2>1, <2>2, <2>3, <2>4 DEF IInv
<1>5. ASSUME NEW k \in Keys, NEW text \in Texts, NEW o \in AllOptions, SetRefused(k, text, o)
      PROVE  IInv'
  <2>1. PICK t1 \in clock .. MaxTime : \E t2 \in t1 .. MaxTime :
          db' = AfterXx(o, k, t1, t2) /\ clock' = t2
    BY <1>5 DEF SetRefused
  <2>2. PICK t2 \in t1 .. MaxTime : db' = AfterXx(o, k, t1, t2) /\ clock' = t2
    BY <2>1
  <2>3. t1 \in Int /\ t2 \in 0 .. MaxTime
    BY <1>0, <2>1, <2>2
  <2>4. DbOK(db')
    BY <1>0, <2>2, <2>3, LookupsKeep
  <2>5. request'.cmd = "set"
    BY <1>5 DEF SetRefused, SetRequest
  <2> QED BY <2>2, <2>3, <2>4, <2>5 DEF IInv
<1>6. ASSUME NEW k \in Keys, NEW text \in Texts, NEW o \in AllOptions, SetStored(k, text, o)
      PROVE  IInv'
  <2> DEFINE object == tryObjectEncoding(text)
             counted(t1, t2, t3) ==
               [setKey(AfterXx(o, k, t1, t2), k, object, t3) EXCEPT !.dirty = @ + 1]
             Result(t1, t2, t3, t4) ==
               /\ db' = IF HasExpire(o)
                        THEN setExpire(counted(t1, t2, t3), k, Deadline(o, t4))
                        ELSE counted(t1, t2, t3)
               /\ clock' = t4
  <2>1. \E t1 \in clock .. MaxTime : \E t2 \in t1 .. MaxTime :
        \E t3 \in t2 .. MaxTime : \E t4 \in t3 .. MaxTime : Result(t1, t2, t3, t4)
    BY <1>6 DEF SetStored
  <2> HIDE DEF Result
  <2>2. PICK t1 \in Int, t2 \in Int, t3 \in Int, t4 \in 0 .. MaxTime : Result(t1, t2, t3, t4)
    <3>1. PICK t1 \in clock .. MaxTime : \E t2 \in t1 .. MaxTime :
          \E t3 \in t2 .. MaxTime : \E t4 \in t3 .. MaxTime : Result(t1, t2, t3, t4)
      BY <2>1
    <3>2. PICK t2 \in t1 .. MaxTime :
          \E t3 \in t2 .. MaxTime : \E t4 \in t3 .. MaxTime : Result(t1, t2, t3, t4)
      BY <3>1
    <3>3. PICK t3 \in t2 .. MaxTime : \E t4 \in t3 .. MaxTime : Result(t1, t2, t3, t4)
      BY <3>2
    <3>4. PICK t4 \in t3 .. MaxTime : Result(t1, t2, t3, t4)
      BY <3>3
    <3>5. t1 \in Int /\ t2 \in Int /\ t3 \in Int /\ t4 \in 0 .. MaxTime
      BY <1>0, <3>1, <3>2, <3>3, <3>4
    <3> QED BY <3>4, <3>5
  <2>3. t4 \in Nat
    BY <1>0
  <2>4. DbOK(AfterXx(o, k, t1, t2)) /\ object \in Objects
    BY <1>0, <2>3, LookupsKeep, EncodingType
  <2> DEFINE c == counted(t1, t2, t3)
  <2>5. /\ DbOK(c) /\ k \in DOMAIN c.dict
        /\ c.expired + Cardinality(DOMAIN c.expires) < c.dirty
    BY <2>3, <2>4, StoreKeeps
  <2>6. db' = IF HasExpire(o) THEN setExpire(c, k, Deadline(o, t4)) ELSE c
    BY <2>2 DEF Result
  <2> HIDE DEF c
  <2>7. WellFormed(o)
    BY <1>6 DEF SetStored
  <2>8. DbOK(db')
    <3>1. CASE HasExpire(o)
      <4>1. Deadline(o, t4) \in Nat
        BY <2>3, <2>7, <3>1, DeadlineType
      <4> QED BY <2>5, <2>6, <3>1, <4>1, SetExpireKeeps
    <3>2. CASE ~HasExpire(o)
      BY <2>5, <2>6, <3>2
    <3> QED BY <3>1, <3>2
  <2>9. request'.cmd = "set"
    BY <1>6 DEF SetStored, SetRequest
  <2> QED BY <2>2, <2>8, <2>9 DEF IInv, Result
<1> QED BY <1>1, <1>2, <1>3, <1>4, <1>5, <1>6 DEF Next

\* The keyspace invariant holds in every state of the specification.
THEOREM KeyspaceHolds == Spec => []IInv
BY InitOK, NextOK, PTL DEF Spec

\* The keyspace holds keys, string objects and deadlines only, and the counters
\* are natural numbers, whatever commands ran (commands/string.py, db.py).
THEOREM TypeCorrect == Spec => []TypeOK
<1>1. IInv => TypeOK
  BY DEF IInv, DbOK, Typed, Counted, TypeOK
<1> QED BY <1>1, KeyspaceHolds, PTL

\* No command leaves a deadline without its key: the assertion of getExpire
\* (db.py) holds for every key it is asked about.
THEOREM DeadlinesHaveKeys == Spec => []ExpiresInDict
<1>1. IInv => ExpiresInDict
  BY DEF IInv, DbOK, Sound, ExpiresInDict
<1> QED BY <1>1, KeyspaceHolds, PTL

\* The keys expired so far and the deadlines pending never outnumber the stores
\* (stat_expiredkeys and dirty): expireIfNeeded uses a deadline up once.
THEOREM DeadlinesUsedOnce == Spec => []ExpiredOnce
<1>1. IInv => ExpiredOnce
  BY DEF IInv, DbOK, Sound, ExpiredOnce
<1> QED BY <1>1, KeyspaceHolds, PTL

-----------------------------------------------------------------------------
\* An expiry takes only the key it looks at, after its deadline, and leaves
\* none of its deadlines behind.
LEMMA ExpireLoses ==
  ASSUME NEW s, DbOK(s), NEW k \in Keys, NEW t \in Int
  PROVE  LET e == expireIfNeeded(s, k, t)
         IN  /\ DOMAIN e.dict \subseteq DOMAIN s.dict
             /\ \A x \in DOMAIN e.expires :
                  x \in DOMAIN s.expires /\ e.expires[x] = s.expires[x]
             /\ e.dirty = s.dirty
             /\ \/ e = s
                \/ /\ DOMAIN e.dict = DOMAIN s.dict \ {k} /\ e.expired = s.expired + 1
                   /\ k \notin DOMAIN e.expires
                   /\ k \in DOMAIN s.expires /\ s.expires[k] < t
<1> DEFINE e == expireIfNeeded(s, k, t)
<1>1. CASE ~Expired(s, k, t)
  BY <1>1 DEF expireIfNeeded
<1>2. CASE Expired(s, k, t)
  <2>1. /\ e.dict = Without(s.dict, k) /\ e.expires = Without(s.expires, k)
        /\ e.expired = s.expired + 1 /\ e.dirty = s.dirty
    BY <1>2, ExpireFields DEF DbOK
  <2> HIDE DEF e
  <2>2. k \in DOMAIN s.expires /\ s.expires[k] < t
    <3>1. k \in DOMAIN s.expires
      BY <1>2 DEF Expired, getExpire, NoExpire
    <3>2. s.expires[k] \in Nat
      BY <3>1 DEF DbOK, Typed
    <3> QED BY <1>2, <3>1, <3>2 DEF Expired, getExpire
  <2> QED BY <2>1, <2>2 DEF Without, e
<1> QED BY <1>1, <1>2

\* From s to e at most the key k has been expired, and at most once.
OneExpiry(s, e, k, t) ==
  /\ \A x \in DOMAIN e.expires : x \in DOMAIN s.expires /\ e.expires[x] = s.expires[x]
  /\ e.dirty = s.dirty
  /\ \/ e = s
     \/ /\ DOMAIN e.dict = DOMAIN s.dict \ {k} /\ e.expired = s.expired + 1
        /\ k \in DOMAIN s.expires /\ s.expires[k] < t

\* Two lookups of one key expire it at most once.
LEMMA LookupsLose ==
  ASSUME DbOK(db), NEW o, NEW k \in Keys, NEW t1 \in Int, NEW t2 \in Int, t1 <= t2
  PROVE  OneExpiry(db, AfterXx(o, k, t1, t2), k, t2)
<1> DEFINE s1 == AfterNx(o, k, t1)
           e == expireIfNeeded(s1, k, t2)
<1>1. DbOK(s1)
  BY ExpireKeeps DEF AfterNx
<1>2. s1 = db \/ s1 = expireIfNeeded(db, k, t1)
  BY DEF AfterNx
<1>3. AfterXx(o, k, t1, t2) = s1 \/ AfterXx(o, k, t1, t2) = e
  BY DEF AfterXx
<1> HIDE DEF s1
<1>4. CASE s1 = db
  <2>1. OneExpiry(db, e, k, t2)
    BY <1>4, ExpireLoses DEF OneExpiry
  <2>2. OneExpiry(db, db, k, t2)
    BY DEF OneExpiry
  <2> QED BY <1>3, <1>4, <2>1, <2>2
<1>5. CASE s1 = expireIfNeeded(db, k, t1) /\ s1 # db
  <2>1. /\ DOMAIN s1.dict = DOMAIN db.dict \ {k} /\ s1.expired = db.expired + 1
        /\ k \notin DOMAIN s1.expires /\ k \in DOMAIN db.expires /\ db.expires[k] < t1
        /\ \A x \in DOMAIN s1.expires :
             x \in DOMAIN db.expires /\ s1.expires[x] = db.expires[x]
        /\ s1.dirty = db.dirty
    BY <1>5, ExpireLoses
  <2>2. e = s1
    BY <2>1 DEF expireIfNeeded, Expired, getExpire, NoExpire
  <2>3. db.expires[k] \in Nat
    BY <2>1 DEF DbOK, Typed
  <2>4. db.expires[k] < t2
    BY <2>1, <2>3
  <2>5. OneExpiry(db, s1, k, t2)
    BY <2>1, <2>4 DEF OneExpiry
  <2> QED BY <1>3, <2>2, <2>5
<1> QED BY <1>2, <1>4, <1>5

\* A store takes no key away, and takes away deadlines only.
LEMMA StoreLoses ==
  ASSUME NEW s, DbOK(s), NEW k \in Keys, NEW o \in Objects, NEW t \in Int
  PROVE  LET c == [setKey(s, k, o, t) EXCEPT !.dirty = @ + 1]
         IN  /\ DOMAIN c.dict = DOMAIN s.dict \cup {k}
             /\ \A x \in DOMAIN c.expires :
                  x # k /\ x \in DOMAIN s.expires /\ c.expires[x] = s.expires[x]
             /\ c.dirty = s.dirty + 1
<1> DEFINE e == expireIfNeeded(s, k, t)
           w == setKey(s, k, o, t)
           c == [w EXCEPT !.dirty = @ + 1]
<1>1. DbOK(e)
  BY ExpireKeeps
<1>2. /\ DOMAIN e.dict \cup {k} = DOMAIN s.dict \cup {k} /\ e.dirty = s.dirty
      /\ \A x \in DOMAIN e.expires : x \in DOMAIN s.expires /\ e.expires[x] = s.expires[x]
  BY ExpireLoses
<1>3. w = [e EXCEPT !.dict = Upd(e.dict, k, o), !.expires = Without(e.expires, k)]
  BY DEF setKey
<1> HIDE DEF e, w
<1>4. /\ Shaped(w) /\ w.dict = Upd(e.dict, k, o) /\ w.expires = Without(e.expires, k)
      /\ w.dirty = e.dirty
  BY <1>1, <1>3 DEF DbOK, Shaped
<1>5. c.dict = w.dict /\ c.expires = w.expires /\ c.dirty = w.dirty + 1
  BY <1>4 DEF Shaped
<1> HIDE DEF c
<1>6. DOMAIN c.dict = DOMAIN e.dict \cup {k} /\ DOMAIN c.expires = DOMAIN e.expires \ {k}
      /\ \A x \in DOMAIN c.expires : c.expires[x] = e.expires[x]
  BY <1>4, <1>5 DEF Upd, Without
<1> QED BY <1>2, <1>4, <1>5, <1>6 DEF c, w

\* What one command does to the keys and the deadlines of the others.
KeysLeave ==
  \A k \in DOMAIN db.dict \ DOMAIN db'.dict :
    /\ k \in DOMAIN db.expires /\ db.expires[k] < clock'
    /\ db'.expired = db.expired + 1

DeadlinesAppear ==
  \A k \in DOMAIN db'.expires :
    (k \notin DOMAIN db.expires \/ db'.expires[k] # db.expires[k])
      => reply' = "+OK" /\ db'.expires[k] > clock' /\ db'.dirty = db.dirty + 1

\* GET removes a key only when its deadline has passed.
LEMMA GetSteps ==
  ASSUME IInv, NEW k \in Keys, GetCommand(k)
  PROVE  KeysLeave /\ DeadlinesAppear
<1>1. PICK t \in clock .. MaxTime : clock' = t /\ db' = lookupKeyRead(db, k, t)
  BY DEF GetCommand
<1>2. DbOK(db) /\ t \in Int
  BY <1>1 DEF IInv
<1> DEFINE e == expireIfNeeded(db, k, t)
<1>3. DbOK(e)
  BY <1>2, ExpireKeeps
<1>4. /\ \A x \in DOMAIN e.expires : x \in DOMAIN db.expires /\ e.expires[x] = db.expires[x]
      /\ \A x \in DOMAIN db.dict \ DOMAIN e.dict :
           x \in DOMAIN db.expires /\ db.expires[x] < t /\ e.expired = db.expired + 1
  BY <1>2, ExpireLoses
<1>5. db' = [e EXCEPT !.hits = @ + 1] \/ db' = [e EXCEPT !.misses = @ + 1]
  BY <1>1 DEF lookupKeyRead
<1> HIDE DEF e
<1>6. db'.dict = e.dict /\ db'.expires = e.expires /\ db'.expired = e.expired
  BY <1>3, <1>5 DEF DbOK, Shaped
<1> QED BY <1>1, <1>4, <1>6 DEF KeysLeave, DeadlinesAppear

\* A command that is refused does no more than its lookup.
LEMMA RefusedSteps ==
  ASSUME IInv, NEW k \in Keys, NEW text \in Texts, NEW o \in AllOptions, SetRefused(k, text, o)
  PROVE  KeysLeave /\ DeadlinesAppear
<1>1. PICK t1 \in clock .. MaxTime : \E t2 \in t1 .. MaxTime :
        db' = AfterXx(o, k, t1, t2) /\ clock' = t2
  BY DEF SetRefused
<1>2. PICK t2 \in t1 .. MaxTime : db' = AfterXx(o, k, t1, t2) /\ clock' = t2
  BY <1>1
<1>3. DbOK(db) /\ t1 \in Int /\ t2 \in Int /\ t1 <= t2
  BY <1>1, <1>2 DEF IInv
<1> DEFINE e == AfterXx(o, k, t1, t2)
<1>4. OneExpiry(db, e, k, t2)
  BY <1>3, LookupsLose
<1>5. db' = e /\ clock' = t2
  BY <1>2
<1> HIDE DEF e
<1> QED BY <1>4, <1>5 DEF KeysLeave, DeadlinesAppear, OneExpiry

\* A command that stores replaces value and deadline of its one key.
LEMMA StoredSteps ==
  ASSUME IInv, NEW k \in Keys, NEW text \in Texts, NEW o \in AllOptions, SetStored(k, text, o)
  PROVE  KeysLeave /\ DeadlinesAppear
<1> DEFINE object == tryObjectEncoding(text)
           counted(t1, t2, t3) ==
             [setKey(AfterXx(o, k, t1, t2), k, object, t3) EXCEPT !.dirty = @ + 1]
           Result(t1, t2, t3, t4) ==
             /\ db' = IF HasExpire(o)
                      THEN setExpire(counted(t1, t2, t3), k, Deadline(o, t4))
                      ELSE counted(t1, t2, t3)
             /\ clock' = t4
<1>1. \E t1 \in clock .. MaxTime : \E t2 \in t1 .. MaxTime :
      \E t3 \in t2 .. MaxTime : \E t4 \in t3 .. MaxTime : Result(t1, t2, t3, t4)
  BY DEF SetStored
<1> HIDE DEF Result
<1>2. PICK t1 \in Int, t2 \in Int, t3 \in Int, t4 \in Nat :
        t1 <= t2 /\ Result(t1, t2, t3, t4)
  <2>1. PICK t1 \in clock .. MaxTime : \E t2 \in t1 .. MaxTime :
        \E t3 \in t2 .. MaxTime : \E t4 \in t3 .. MaxTime : Result(t1, t2, t3, t4)
    BY <1>1
  <2>2. PICK t2 \in t1 .. MaxTime :
        \E t3 \in t2 .. MaxTime : \E t4 \in t3 .. MaxTime : Result(t1, t2, t3, t4)
    BY <2>1
  <2>3. PICK t3 \in t2 .. MaxTime : \E t4 \in t3 .. MaxTime : Result(t1, t2, t3, t4)
    BY <2>2
  <2>4. PICK t4 \in t3 .. MaxTime : Result(t1, t2, t3, t4)
    BY <2>3
  <2>5. t1 \in Int /\ t2 \in Int /\ t3 \in Int /\ t4 \in Nat /\ t1 <= t2
    BY <2>1, <2>2, <2>3, <2>4 DEF IInv
  <2> QED BY <2>4, <2>5
<1> DEFINE a == AfterXx(o, k, t1, t2)
           c == counted(t1, t2, t3)
<1>3. DbOK(db) /\ DbOK(a) /\ object \in Objects
  BY <1>2, LookupsKeep, EncodingType DEF IInv
<1>4. /\ a.dirty = db.dirty
      /\ DOMAIN a.dict \cup {k} = DOMAIN db.dict \cup {k}
      /\ \A x \in DOMAIN a.expires : x \in DOMAIN db.expires /\ a.expires[x] = db.expires[x]
  <2>1. OneExpiry(db, a, k, t2)
    BY <1>2, <1>3, LookupsLose
  <2> HIDE DEF a
  <2> QED BY <2>1 DEF OneExpiry
<1>5. DbOK(c)
  BY <1>2, <1>3, StoreKeeps
<1>6. /\ DOMAIN c.dict = DOMAIN a.dict \cup {k}
      /\ \A x \in DOMAIN c.expires :
           x # k /\ x \in DOMAIN a.expires /\ c.expires[x] = a.expires[x]
      /\ c.dirty = a.dirty + 1
  BY <1>2, <1>3, StoreLoses
<1>7. /\ db' = IF HasExpire(o) THEN setExpire(c, k, Deadline(o, t4)) ELSE c
      /\ clock' = t4
  BY <1>2 DEF Result
<1>8. WellFormed(o) /\ reply' = "+OK"
  BY DEF SetStored
<1> HIDE DEF a, c
<1>9. CASE ~HasExpire(o)
  BY <1>4, <1>6, <1>7, <1>9 DEF KeysLeave, DeadlinesAppear
<1>10. CASE HasExpire(o)
  <2>1. Deadline(o, t4) > t4
    BY <1>2, <1>8, <1>10, DeadlineType
  <2>2. db' = setExpire(c, k, Deadline(o, t4))
    BY <1>7, <1>10
  <2> HIDE DEF Deadline
  <2>3. /\ db'.dict = c.dict /\ db'.dirty = c.dirty
        /\ db'.expires = Upd(c.expires, k, Deadline(o, t4))
    BY <1>5, <2>2 DEF setExpire, DbOK, Shaped
  <2>4. \A x \in DOMAIN db'.expires :
          IF x = k THEN db'.expires[x] = Deadline(o, t4)
                   ELSE x \in DOMAIN c.expires /\ db'.expires[x] = c.expires[x]
    BY <2>3 DEF Upd
  <2> QED BY <1>4, <1>6, <1>7, <1>8, <2>1, <2>3, <2>4 DEF KeysLeave, DeadlinesAppear
<1> QED BY <1>9, <1>10

\* Both action properties, step by step.
LEMMA NextSteps == IInv /\ [Next]_vars => [KeysLeave]_vars /\ [DeadlinesAppear]_vars
<1> SUFFICES ASSUME IInv, Next PROVE KeysLeave /\ DeadlinesAppear
  OBVIOUS
<1>1. ASSUME db' = db PROVE KeysLeave /\ DeadlinesAppear
  BY <1>1 DEF KeysLeave, DeadlinesAppear
<1>2. CASE Tick
  BY <1>1, <1>2 DEF Tick
<1>3. ASSUME NEW o \in AllOptions, SetSyntaxError(o) \/ SetBadExpire(o)
      PROVE  KeysLeave /\ DeadlinesAppear
  BY <1>1, <1>3, Zenon DEF SetSyntaxError, SetBadExpire
<1> QED BY <1>2, <1>3, GetSteps, RefusedSteps, StoredSteps DEF Next

\* A key leaves the keyspace only after its deadline has passed on the clock
\* that deleted it, whatever commands and clock changes came before
\* (expireIfNeeded and the lookups of db.py).
THEOREM NoKeyLeavesEarly == Spec => KeysLeaveOnlyExpired
<1>1. Spec => [][KeysLeave]_vars
  BY KeyspaceHolds, NextSteps, PTL DEF Spec
<1> QED BY <1>1 DEF KeysLeave, KeysLeaveOnlyExpired

\* A deadline appears or changes only with a successful SET, and lies in the
\* future of the clock that command read last (setGenericCommand).
THEOREM DeadlinesInFuture == Spec => NewDeadlineInFuture
<1>1. Spec => [][DeadlinesAppear]_vars
  BY KeyspaceHolds, NextSteps, PTL DEF Spec
<1> QED BY <1>1 DEF DeadlinesAppear, NewDeadlineInFuture

-----------------------------------------------------------------------------
\* What a client can read of the keyspace s when the clock says t.
Seen(s, t) ==
  [k \in {x \in DOMAIN s.dict : ~Expired(s, x, t)} |->
     [text |-> Decoded(s.dict[k]), until |-> getExpire(s, k)]]

\* A key is shown until its deadline has passed.
LEMMA Shown ==
  ASSUME NEW s, NEW t, NEW k
  PROVE  /\ k \in DOMAIN Seen(s, t) <=> k \in DOMAIN s.dict /\ ~Expired(s, k, t)
         /\ k \in DOMAIN Seen(s, t)
            => Seen(s, t)[k] = [text |-> Decoded(s.dict[k]), until |-> getExpire(s, k)]
BY DEF Seen

\* A deadline, as getExpire answers it, is a time or none.
LEMMA DeadlineOrNone ==
  ASSUME NEW s, DbOK(s), NEW k
  PROVE  getExpire(s, k) \in Nat \/ getExpire(s, k) = -1
BY DEF DbOK, Typed, getExpire, NoExpire

\* Letting the entries of the abstract map vanish at their deadline is looking at
\* the keyspace later.
LEMMA SeenLater ==
  ASSUME NEW s, DbOK(s), NEW t \in Int, NEW u \in Int, t <= u
  PROVE  Promise!LiveAt(Seen(s, t), u) = Seen(s, u)
<1> DEFINE m == Seen(s, t)
           n == Promise!LiveAt(m, u)
<1>1. n = [k \in {x \in DOMAIN m : m[x].until = -1 \/ u <= m[x].until} |-> m[k]]
  BY DEF Promise!LiveAt, Promise!Forever
<1>2. \A x : getExpire(s, x) \in Nat \/ getExpire(s, x) = -1
  BY DeadlineOrNone
<1>3. \A x : x \in DOMAIN m <=> x \in DOMAIN s.dict /\ ~Expired(s, x, t)
  BY Shown
<1>4. \A x \in DOMAIN m : m[x] = [text |-> Decoded(s.dict[x]), until |-> getExpire(s, x)]
  BY Shown
<1>5. \A x \in DOMAIN m : m[x].until = getExpire(s, x)
  BY <1>4
<1>6. \A x : Expired(s, x, t) => Expired(s, x, u)
  BY <1>2 DEF Expired
<1>7. \A x : ~Expired(s, x, u) <=> getExpire(s, x) = -1 \/ u <= getExpire(s, x)
  BY <1>2 DEF Expired
<1> HIDE DEF m
<1>8. DOMAIN n = {x \in DOMAIN s.dict : ~Expired(s, x, u)}
  BY <1>1, <1>3, <1>5, <1>6, <1>7
<1>9. n = [k \in DOMAIN n |-> m[k]]
  BY <1>1
<1>10. \A x \in DOMAIN n : x \in DOMAIN m
  BY <1>1
<1> HIDE DEF n
<1>11. n = [k \in DOMAIN n |-> [text |-> Decoded(s.dict[k]), until |-> getExpire(s, k)]]
  BY <1>4, <1>9, <1>10
<1>12. n = Seen(s, u)
  BY <1>8, <1>11 DEF Seen
<1> QED BY <1>12 DEF n, m

\* The keyspaces s and e agree on every key but k.
AgreeBut(s, e, k) ==
  \A x : x # k =>
    /\ x \in DOMAIN e.dict <=> x \in DOMAIN s.dict
    /\ x \in DOMAIN s.dict => e.dict[x] = s.dict[x]
    /\ getExpire(e, x) = getExpire(s, x)

\* Nothing that is still visible is lost to an expiry, early or late.
LEMMA ExpiryHidden ==
  ASSUME NEW s, DbOK(s), NEW k \in Keys, NEW t \in Int
  PROVE  LET e == expireIfNeeded(s, k, t)
         IN  /\ AgreeBut(s, e, k)
             /\ Exists(e, k) <=> Exists(s, k) /\ ~Expired(s, k, t)
             /\ Exists(e, k) => e = s
             /\ \A u \in Int : t <= u => Seen(e, u) = Seen(s, u)
<1> DEFINE e == expireIfNeeded(s, k, t)
<1>1. CASE ~Expired(s, k, t)
  BY <1>1 DEF expireIfNeeded, AgreeBut
<1>2. CASE Expired(s, k, t)
  <2>1. e.dict = Without(s.dict, k) /\ e.expires = Without(s.expires, k)
    BY <1>2, ExpireFields DEF DbOK
  <2> HIDE DEF e
  <2>2. AgreeBut(s, e, k) /\ ~Exists(e, k)
    BY <2>1 DEF AgreeBut, Without, getExpire, Exists
  <2>3. \A u \in Int : t <= u => Seen(e, u) = Seen(s, u)
    <3> SUFFICES ASSUME NEW u \in Int, t <= u PROVE Seen(e, u) = Seen(s, u)
      OBVIOUS
    <3>1. Expired(s, k, u)
      BY <1>2, DeadlineOrNone DEF Expired
    <3>2. {x \in DOMAIN e.dict : ~Expired(e, x, u)} = {x \in DOMAIN s.dict : ~Expired(s, x, u)}
      BY <2>2, <3>1 DEF AgreeBut, Exists, Expired
    <3>3. \A x \in {y \in DOMAIN s.dict : ~Expired(s, y, u)} :
            e.dict[x] = s.dict[x] /\ getExpire(e, x) = getExpire(s, x)
      BY <2>2, <3>1 DEF AgreeBut
    <3> QED BY <3>2, <3>3 DEF Seen
  <2> QED BY <1>2, <2>2, <2>3 DEF e
<1> QED BY <1>1, <1>2

\* A lookup counts, and what it counts is seen by nobody.
LEMMA ReadHidden ==
  ASSUME NEW s, DbOK(s), NEW k \in Keys, NEW t \in Int
  PROVE  LET r == lookupKeyRead(s, k, t)
         IN  /\ Seen(r, t) = Seen(s, t)
             /\ Exists(r, k) <=> k \in DOMAIN Seen(s, t)
             /\ Exists(r, k) => r.dict[k] = s.dict[k]
<1> DEFINE r == lookupKeyRead(s, k, t)
           e == expireIfNeeded(s, k, t)
<1>1. /\ Exists(e, k) <=> Exists(s, k) /\ ~Expired(s, k, t)
      /\ Exists(e, k) => e = s
      /\ Seen(e, t) = Seen(s, t)
  BY ExpiryHidden
<1>2. DbOK(e)
  BY ExpireKeeps
<1>3. r = [e EXCEPT !.hits = @ + 1] \/ r = [e EXCEPT !.misses = @ + 1]
  BY DEF lookupKeyRead
<1> HIDE DEF e, r
<1>4. r.dict = e.dict /\ r.expires = e.expires
  BY <1>2, <1>3 DEF DbOK, Shaped
<1>5. Seen(r, t) = Seen(e, t) /\ (Exists(r, k) <=> Exists(e, k))
  BY <1>4 DEF Seen, Expired, getExpire, Exists
<1> QED BY <1>1, <1>4, <1>5, Shown DEF Exists, r

\* The two conditional lookups of SET: what each of them sees, and that neither
\* changes anything visible.
LEMMA ConditionsHidden ==
  ASSUME DbOK(db), NEW o, o.nx \in BOOLEAN, o.xx \in BOOLEAN, NEW k \in Keys,
         NEW t1 \in Int, NEW t2 \in Int, t1 <= t2
  PROVE  LET a == AfterXx(o, k, t1, t2)
         IN  /\ AgreeBut(db, a, k)
             /\ \A u \in Int : t2 <= u => Seen(a, u) = Seen(db, u)
             /\ Refused(o, AfterNx(o, k, t1), a, k)
                <=> \/ o.nx /\ k \in DOMAIN Seen(db, t1)
                    \/ o.xx /\ k \notin DOMAIN Seen(db, t2)
<1> DEFINE s1 == AfterNx(o, k, t1)
           e == expireIfNeeded(s1, k, t2)
           a == AfterXx(o, k, t1, t2)
<1>1. DbOK(s1) /\ AgreeBut(db, s1, k)
  <2>1. AgreeBut(db, db, k)
    BY DEF AgreeBut
  <2> QED BY <2>1, ExpireKeeps, ExpiryHidden DEF AfterNx
<1>2. \A u \in Int : t1 <= u => Seen(s1, u) = Seen(db, u)
  BY ExpiryHidden DEF AfterNx
<1>3. o.nx => (Exists(s1, k) <=> k \in DOMAIN Seen(db, t1))
  <2>1. o.nx => (Exists(s1, k) <=> Exists(db, k) /\ ~Expired(db, k, t1))
    BY ExpiryHidden DEF AfterNx
  <2> QED BY <2>1, Shown DEF Exists
<1>4. a = IF o.xx /\ ~(o.nx /\ Exists(s1, k)) THEN e ELSE s1
  BY DEF AfterXx
<1> HIDE DEF s1
<1>5. /\ AgreeBut(s1, e, k)
      /\ Exists(e, k) <=> Exists(s1, k) /\ ~Expired(s1, k, t2)
      /\ \A u \in Int : t2 <= u => Seen(e, u) = Seen(s1, u)
  BY <1>1, ExpiryHidden
<1>6. Exists(e, k) <=> k \in DOMAIN Seen(db, t2)
  <2>1. Exists(e, k) <=> k \in DOMAIN Seen(s1, t2)
    BY <1>5, Shown DEF Exists
  <2> QED BY <1>2, <2>1
<1> HIDE DEF e, a
<1>7. AgreeBut(db, a, k)
  BY <1>1, <1>4, <1>5 DEF AgreeBut
<1>8. \A u \in Int : t2 <= u => Seen(a, u) = Seen(db, u)
  BY <1>2, <1>4, <1>5
<1>9. Refused(o, s1, a, k) <=> \/ o.nx /\ k \in DOMAIN Seen(db, t1)
                               \/ o.xx /\ k \notin DOMAIN Seen(db, t2)
  BY <1>3, <1>4, <1>6 DEF Refused
<1> QED BY <1>7, <1>8, <1>9 DEF a, s1

\* A store overwrites one key of the visible map.
LEMMA StoreSeen ==
  ASSUME NEW s, NEW c, NEW k, NEW t \in Int, NEW u \in Int, t <= u, DbOK(s), DbOK(c),
         AgreeBut(s, c, k), k \in DOMAIN c.dict
  PROVE  Seen(c, u) = Promise!LiveAt(Promise!Put(Seen(s, t), k,
                        [text |-> Decoded(c.dict[k]), until |-> getExpire(c, k)]), u)
<1> DEFINE m == Seen(s, t)
           new == [text |-> Decoded(c.dict[k]), until |-> getExpire(c, k)]
           p == Promise!Put(m, k, new)
           n == Promise!LiveAt(p, u)
<1>1. p = [x \in DOMAIN m \cup {k} |-> IF x = k THEN new ELSE m[x]]
  BY DEF Promise!Put
<1>2. n = [x \in {y \in DOMAIN p : p[y].until = -1 \/ u <= p[y].until} |-> p[x]]
  BY DEF Promise!LiveAt, Promise!Forever
<1>3. \A x : x \in DOMAIN m <=> x \in DOMAIN s.dict /\ ~Expired(s, x, t)
  BY Shown
<1>4. \A x \in DOMAIN m : m[x] = [text |-> Decoded(s.dict[x]), until |-> getExpire(s, x)]
  BY Shown
<1>5. \A x : getExpire(c, x) \in Nat \/ getExpire(c, x) = -1
  BY DeadlineOrNone
<1>6. \A x : ~Expired(c, x, u) <=> getExpire(c, x) = -1 \/ u <= getExpire(c, x)
  BY <1>5 DEF Expired
<1>7. \A x : x # k /\ ~Expired(c, x, u) => ~Expired(s, x, t)
  BY <1>5 DEF AgreeBut, Expired
<1>8. DOMAIN p = DOMAIN m \cup {k}
  BY <1>1
<1>9. \A x \in DOMAIN p : p[x] = [text |-> Decoded(c.dict[x]), until |-> getExpire(c, x)]
  <2> SUFFICES ASSUME NEW x \in DOMAIN p
               PROVE  p[x] = [text |-> Decoded(c.dict[x]), until |-> getExpire(c, x)]
    OBVIOUS
  <2>1. CASE x = k
    BY <1>1, <2>1
  <2>2. CASE x # k
    <3>1. x \in DOMAIN m /\ p[x] = m[x]
      <4> HIDE DEF m, new
      <4> QED BY <1>1, <1>8, <2>2
    <3>2. x \in DOMAIN s.dict
      BY <1>3, <3>1
    <3>3. c.dict[x] = s.dict[x] /\ getExpire(c, x) = getExpire(s, x)
      BY <2>2, <3>2 DEF AgreeBut
    <3> QED BY <1>4, <3>1, <3>3
  <2> QED BY <2>1, <2>2
<1>10. \A x \in DOMAIN p : p[x].until = getExpire(c, x)
  <2> HIDE DEF p
  <2> QED BY <1>9
<1>11. \A x : x \in DOMAIN c.dict /\ ~Expired(c, x, u) <=> x \in DOMAIN p /\ ~Expired(c, x, u)
  BY <1>3, <1>7, <1>8 DEF AgreeBut
<1> HIDE DEF m, new, p
<1>12. DOMAIN n = {x \in DOMAIN c.dict : ~Expired(c, x, u)}
  BY <1>2, <1>6, <1>10, <1>11
<1>13. n = [x \in DOMAIN n |-> p[x]] /\ \A x \in DOMAIN n : x \in DOMAIN p
  BY <1>2
<1> HIDE DEF n
<1>14. n = [x \in DOMAIN n |-> [text |-> Decoded(c.dict[x]), until |-> getExpire(c, x)]]
  BY <1>9, <1>13
<1>15. n = Seen(c, u)
  BY <1>12, <1>14 DEF Seen
<1> QED BY <1>15 DEF n, p, m, new

-----------------------------------------------------------------------------
\* The map of the abstract specification is what is seen now.
LEMMA VisibleIsSeen == Visible = Seen(db, clock) /\ Visible' = Seen(db', clock')
BY DEF Visible, Seen

\* The option flags that the parser hands over are truth values.
LEMMA OptionType ==
  ASSUME NEW o \in AllOptions
  PROVE  o.nx \in BOOLEAN /\ o.xx \in BOOLEAN
<1>1. PICK ws : o = ParseOptions(ws)
  BY DEF AllOptions
<1> QED BY <1>1 DEF ParseOptions

\* GET answers what the map holds at the instant of its lookup.
LEMMA GetMaps ==
  ASSUME IInv, NEW k \in Keys, GetCommand(k)
  PROVE  Promise!Get(request')
<1>1. PICK t \in clock .. MaxTime :
        /\ clock' = t /\ db' = lookupKeyRead(db, k, t)
        /\ reply' = IF Exists(db', k) THEN Decoded(db'.dict[k]) ELSE "$-1"
  BY DEF GetCommand
<1>2. DbOK(db) /\ clock \in Nat /\ t \in Nat /\ clock <= t /\ request' = [cmd |-> "get", key |-> k]
  BY <1>1 DEF IInv, GetCommand
<1>3. /\ Seen(db', t) = Seen(db, t)
      /\ Exists(db', k) <=> k \in DOMAIN Seen(db, t)
      /\ Exists(db', k) => db'.dict[k] = db.dict[k]
  BY <1>1, <1>2, ReadHidden
<1>4. Promise!LiveAt(Visible, t) = Seen(db, t)
  BY <1>2, SeenLater, VisibleIsSeen
<1>5. Visible' = Promise!LiveAt(Visible, clock')
  BY <1>1, <1>3, <1>4, VisibleIsSeen
<1>6. reply' = IF k \in DOMAIN Promise!LiveAt(Visible, t) THEN Visible[k].text ELSE "$-1"
  <2>1. k \in DOMAIN Seen(db, t) => k \in DOMAIN Seen(db, clock)
    <3>1. getExpire(db, k) \in Nat \/ getExpire(db, k) = -1
      BY <1>2, DeadlineOrNone
    <3>2. Expired(db, k, clock) => Expired(db, k, t)
      BY <1>2, <3>1 DEF Expired
    <3>3. \A u : k \in DOMAIN Seen(db, u) <=> k \in DOMAIN db.dict /\ ~Expired(db, k, u)
      BY Shown
    <3> QED BY <3>2, <3>3
  <2>2. k \in DOMAIN Seen(db, clock) => Seen(db, clock)[k].text = Decoded(db.dict[k])
    <3>1. k \in DOMAIN Seen(db, clock) => Seen(db, clock)[k]
            = [text |-> Decoded(db.dict[k]), until |-> getExpire(db, k)]
      BY Shown
    <3> QED BY <3>1
  <2> QED BY <1>1, <1>3, <1>4, <2>1, <2>2, VisibleIsSeen
<1>7. request'.cmd = "get" /\ request'.key = k
  BY <1>2
<1> QED BY <1>1, <1>2, <1>5, <1>6, <1>7 DEF Promise!Get, Promise!Later

\* SET refuses when one of its conditions fails as it looks.
LEMMA RefusedMaps ==
  ASSUME IInv, NEW k \in Keys, NEW text \in Texts, NEW o \in AllOptions, SetRefused(k, text, o)
  PROVE  Promise!SetRefused(request')
<1>1. PICK t1 \in clock .. MaxTime : \E t2 \in t1 .. MaxTime :
        /\ Refused(o, AfterNx(o, k, t1), AfterXx(o, k, t1, t2), k)
        /\ db' = AfterXx(o, k, t1, t2) /\ clock' = t2
  BY DEF SetRefused
<1>2. PICK t2 \in t1 .. MaxTime :
        /\ Refused(o, AfterNx(o, k, t1), AfterXx(o, k, t1, t2), k)
        /\ db' = AfterXx(o, k, t1, t2) /\ clock' = t2
  BY <1>1
<1>3. /\ DbOK(db) /\ clock \in Nat /\ t1 \in Nat /\ t2 \in Nat /\ clock <= t1 /\ t1 <= t2
      /\ o.nx \in BOOLEAN /\ o.xx \in BOOLEAN
  BY <1>1, <1>2, OptionType DEF IInv
<1>4. /\ Seen(db', t2) = Seen(db, t2)
      /\ \/ o.nx /\ k \in DOMAIN Seen(db, t1)
         \/ o.xx /\ k \notin DOMAIN Seen(db, t2)
  BY <1>2, <1>3, ConditionsHidden
<1>5. /\ Promise!LiveAt(Visible, t1) = Seen(db, t1)
      /\ Promise!LiveAt(Visible, t2) = Seen(db, t2)
  BY <1>3, SeenLater, VisibleIsSeen
<1>6. Visible' = Promise!LiveAt(Visible, clock')
  BY <1>2, <1>4, <1>5, VisibleIsSeen
<1>7. /\ request'.cmd = "set" /\ request'.key = k /\ request'.nx = o.nx /\ request'.xx = o.xx
      /\ reply' = "$-1"
  BY DEF SetRefused, SetRequest
<1>8. Promise!Unmet(request', t1, t2)
  BY <1>4, <1>5, <1>7 DEF Promise!Unmet
<1>9. t1 \in clock .. clock' /\ t2 \in t1 .. clock'
  BY <1>2, <1>3
<1> QED BY <1>2, <1>3, <1>6, <1>7, <1>8, <1>9 DEF Promise!SetRefused, Promise!Later

\* Only a time to live makes a deadline.
LEMMA TtlType ==
  ASSUME NEW o, WellFormed(o)
  PROVE  (HasExpire(o) => Ttl(o) # 0) /\ (~HasExpire(o) => Ttl(o) = 0)
<1>1. ASSUME HasExpire(o) PROVE Ttl(o) # 0
  <2>1. Deadline(o, 0) > 0
    BY <1>1, DeadlineType
  <2> DEFINE n == Numerals[o.expire]
             u == IF o.seconds THEN MsPerSecond ELSE 1
  <2>2. n \in Nat /\ n > 0
    BY <1>1, StringAssumption DEF WellFormed, Integer, Positive
  <2>3. u \in Nat /\ u > 0
    BY StringAssumption
  <2>4. Ttl(o) = n * u
    BY <1>1 DEF Ttl
  <2> HIDE DEF n, u
  <2>5. n * u > 0
    BY <2>2, <2>3
  <2> QED BY <2>4, <2>5
<1>2. ~HasExpire(o) => Ttl(o) = 0
  BY DEF Ttl
<1> QED BY <1>1, <1>2

\* What is stored is read back as an integer writes it.
LEMMA StoredText ==
  ASSUME NEW text \in Texts
  PROVE  Decoded(tryObjectEncoding(text)) = ReadBack[text]
BY DEF tryObjectEncoding, Decoded, ReadBack

\* The store itself, with or without a deadline, changes nothing of other keys.
LEMMA StoreAgrees ==
  ASSUME NEW s, DbOK(s), NEW k \in Keys, NEW ob \in Objects, NEW t \in Int
  PROVE  LET c == [setKey(s, k, ob, t) EXCEPT !.dirty = @ + 1]
         IN  /\ AgreeBut(s, c, k)
             /\ k \in DOMAIN c.dict /\ c.dict[k] = ob /\ getExpire(c, k) = -1
<1> DEFINE e == expireIfNeeded(s, k, t)
           w == setKey(s, k, ob, t)
           c == [w EXCEPT !.dirty = @ + 1]
<1>1. DbOK(e) /\ AgreeBut(s, e, k)
  BY ExpireKeeps, ExpiryHidden
<1>2. w = [e EXCEPT !.dict = Upd(e.dict, k, ob), !.expires = Without(e.expires, k)]
  BY DEF setKey
<1> HIDE DEF e, w
<1>3. Shaped(w) /\ w.dict = Upd(e.dict, k, ob) /\ w.expires = Without(e.expires, k)
  BY <1>1, <1>2 DEF DbOK, Shaped
<1>4. c.dict = Upd(e.dict, k, ob) /\ c.expires = Without(e.expires, k)
  BY <1>3 DEF Shaped
<1> HIDE DEF c
<1>5. /\ k \in DOMAIN c.dict /\ c.dict[k] = ob /\ getExpire(c, k) = -1
      /\ AgreeBut(e, c, k)
  BY <1>4 DEF Upd, Without, getExpire, NoExpire, AgreeBut
<1>6. AgreeBut(s, c, k)
  BY <1>1, <1>5 DEF AgreeBut
<1> QED BY <1>5, <1>6 DEF c, w

\* The deadline of a key is the one the abstract map gives it.
LEMMA DeadlineAgrees ==
  ASSUME NEW s, DbOK(s), NEW k, NEW when
  PROVE  LET c == setExpire(s, k, when)
         IN  AgreeBut(s, c, k) /\ c.dict = s.dict /\ getExpire(c, k) = when
<1> DEFINE c == setExpire(s, k, when)
<1>1. c.dict = s.dict /\ c.expires = Upd(s.expires, k, when)
  BY DEF DbOK, Shaped, setExpire
<1> HIDE DEF c
<1>2. AgreeBut(s, c, k) /\ getExpire(c, k) = when
  BY <1>1 DEF Upd, getExpire, AgreeBut
<1> QED BY <1>1, <1>2 DEF c

\* SET stores when its conditions hold, each as it looks, and the deadline
\* counts from the last reading of the clock.
LEMMA StoredMaps ==
  ASSUME IInv, IInv', NEW k \in Keys, NEW text \in Texts, NEW o \in AllOptions,
         SetStored(k, text, o)
  PROVE  Promise!SetStored(request')
<1> DEFINE object == tryObjectEncoding(text)
           counted(t1, t2, t3) ==
             [setKey(AfterXx(o, k, t1, t2), k, object, t3) EXCEPT !.dirty = @ + 1]
           Result(t1, t2, t3, t4) ==
             /\ ~Refused(o, AfterNx(o, k, t1), AfterXx(o, k, t1, t2), k)
             /\ db' = IF HasExpire(o)
                      THEN setExpire(counted(t1, t2, t3), k, Deadline(o, t4))
                      ELSE counted(t1, t2, t3)
             /\ clock' = t4
<1>1. \E t1 \in clock .. MaxTime : \E t2 \in t1 .. MaxTime :
      \E t3 \in t2 .. MaxTime : \E t4 \in t3 .. MaxTime : Result(t1, t2, t3, t4)
  BY DEF SetStored
<1> HIDE DEF Result
<1>2. PICK t1 \in Nat, t2 \in Nat, t3 \in Nat, t4 \in Nat :
        clock <= t1 /\ t1 <= t2 /\ t2 <= t3 /\ t3 <= t4 /\ Result(t1, t2, t3, t4)
  <2>1. PICK t1 \in clock .. MaxTime : \E t2 \in t1 .. MaxTime :
        \E t3 \in t2 .. MaxTime : \E t4 \in t3 .. MaxTime : Result(t1, t2, t3, t4)
    BY <1>1
  <2>2. PICK t2 \in t1 .. MaxTime :
        \E t3 \in t2 .. MaxTime : \E t4 \in t3 .. MaxTime : Result(t1, t2, t3, t4)
    BY <2>1
  <2>3. PICK t3 \in t2 .. MaxTime : \E t4 \in t3 .. MaxTime : Result(t1, t2, t3, t4)
    BY <2>2
  <2>4. PICK t4 \in t3 .. MaxTime : Result(t1, t2, t3, t4)
    BY <2>3
  <2>5. /\ t1 \in Nat /\ t2 \in Nat /\ t3 \in Nat /\ t4 \in Nat
        /\ clock <= t1 /\ t1 <= t2 /\ t2 <= t3 /\ t3 <= t4
    BY <2>1, <2>2, <2>3, <2>4 DEF IInv
  <2> QED BY <2>4, <2>5
<1> DEFINE a == AfterXx(o, k, t1, t2)
           c == counted(t1, t2, t3)
<1>3. /\ DbOK(db) /\ DbOK(db') /\ DbOK(a) /\ object \in Objects /\ clock \in Nat
      /\ o.nx \in BOOLEAN /\ o.xx \in BOOLEAN
  BY <1>2, LookupsKeep, EncodingType, OptionType DEF IInv
<1>4. /\ AgreeBut(db, a, k)
      /\ ~(\/ o.nx /\ k \in DOMAIN Seen(db, t1)
           \/ o.xx /\ k \notin DOMAIN Seen(db, t2))
  BY <1>2, <1>3, ConditionsHidden DEF Result
<1>5. DbOK(c)
  BY <1>2, <1>3, StoreKeeps
<1>6. /\ AgreeBut(a, c, k)
      /\ k \in DOMAIN c.dict /\ c.dict[k] = object /\ getExpire(c, k) = -1
  BY <1>2, <1>3, StoreAgrees
<1>7. /\ db' = IF HasExpire(o) THEN setExpire(c, k, Deadline(o, t4)) ELSE c
      /\ clock' = t4
  BY <1>2 DEF Result
<1>8. WellFormed(o) /\ reply' = "+OK"
  BY DEF SetStored
<1> HIDE DEF a, c
<1>9. /\ AgreeBut(c, db', k) /\ db'.dict = c.dict
      /\ getExpire(db', k) = IF HasExpire(o) THEN Deadline(o, t4) ELSE -1
  <2>1. AgreeBut(c, c, k)
    BY DEF AgreeBut
  <2> QED BY <1>5, <1>6, <1>7, <2>1, DeadlineAgrees
<1>10. AgreeBut(db, db', k) /\ k \in DOMAIN db'.dict /\ Decoded(db'.dict[k]) = ReadBack[text]
  <2>1. AgreeBut(db, db', k)
    BY <1>4, <1>6, <1>9 DEF AgreeBut
  <2> QED BY <1>6, <1>9, <2>1, StoredText
<1>11. /\ request'.cmd = "set" /\ request'.key = k /\ request'.nx = o.nx /\ request'.xx = o.xx
       /\ request'.text = text /\ request'.ttl = Ttl(o)
  BY DEF SetStored, SetRequest
<1> DEFINE until == IF request'.ttl = 0 THEN -1 ELSE t4 + request'.ttl
<1>12. getExpire(db', k) = until
  BY <1>8, <1>9, <1>11, TtlType DEF Deadline
<1>13. Seen(db', t4) = Promise!LiveAt(Promise!Put(Seen(db, clock), k,
                         [text |-> Decoded(db'.dict[k]), until |-> getExpire(db', k)]), t4)
  BY <1>2, <1>3, <1>10, StoreSeen
<1>14. Visible' = Promise!LiveAt(Promise!Put(Visible, request'.key,
                    [text |-> ReadBack[request'.text], until |-> until]), clock')
  BY <1>7, <1>10, <1>11, <1>12, <1>13, VisibleIsSeen
<1>15. ~Promise!Unmet(request', t1, t2)
  <2>1. /\ Promise!LiveAt(Visible, t1) = Seen(db, t1)
        /\ Promise!LiveAt(Visible, t2) = Seen(db, t2)
    BY <1>2, <1>3, SeenLater, VisibleIsSeen
  <2> QED BY <1>4, <1>11, <2>1 DEF Promise!Unmet
<1>16. t1 \in clock .. clock' /\ t2 \in t1 .. clock' /\ t4 \in t2 .. clock'
  BY <1>2, <1>3, <1>7
<1>17. Promise!Later
  BY <1>2, <1>3, <1>7 DEF Promise!Later
<1> QED BY <1>8, <1>11, <1>14, <1>15, <1>16, <1>17 DEF Promise!SetStored, Promise!Forever

\* A request that is refused before it looks, and the mere passing of time.
LEMMA SeenWaits ==
  ASSUME IInv, db' = db, clock' \in Nat, clock <= clock'
  PROVE  Promise!Later /\ Visible' = Promise!LiveAt(Visible, clock')
BY SeenLater, VisibleIsSeen DEF Promise!Later, IInv

\* A clock that is set back can only bring back entries whose deadline had passed.
LEMMA TickMaps ==
  ASSUME IInv, Tick
  PROVE  Promise!Wait \/ Promise!SetBack
<1>1. /\ clock \in Nat /\ clock' \in Nat /\ DbOK(db)
      /\ db' = db /\ UNCHANGED <<request, reply>> /\ clock' # clock
  BY StringAssumption DEF IInv, Tick
<1>2. CASE clock <= clock'
  BY <1>1, <1>2, SeenWaits DEF Promise!Wait
<1>3. CASE clock' < clock
  <2> DEFINE m == Seen(db, clock)
             n == Seen(db, clock')
  <2>1. \A x : getExpire(db, x) \in Nat \/ getExpire(db, x) = -1
    BY <1>1, DeadlineOrNone
  <2>2. \A x : Expired(db, x, clock') => Expired(db, x, clock)
    BY <1>1, <1>3, <2>1 DEF Expired
  <2>3. \A x : x \in DOMAIN m <=> x \in DOMAIN db.dict /\ ~Expired(db, x, clock)
    BY Shown
  <2>4. \A x : x \in DOMAIN n <=> x \in DOMAIN db.dict /\ ~Expired(db, x, clock')
    BY Shown
  <2>5. /\ \A x \in DOMAIN m : m[x] = [text |-> Decoded(db.dict[x]), until |-> getExpire(db, x)]
        /\ \A x \in DOMAIN n : n[x] = [text |-> Decoded(db.dict[x]), until |-> getExpire(db, x)]
    BY Shown
  <2>6. \A x \in DOMAIN n : n[x].until = getExpire(db, x)
    BY <2>5
  <2> HIDE DEF m, n
  <2>7. \A x \in DOMAIN m : x \in DOMAIN n /\ n[x] = m[x]
    BY <2>2, <2>3, <2>4, <2>5
  <2>8. \A x \in DOMAIN n \ DOMAIN m : n[x].until # -1 /\ n[x].until < clock
    BY <2>1, <2>3, <2>4, <2>6 DEF Expired
  <2>9. Visible = m /\ Visible' = n
    BY <1>1, VisibleIsSeen DEF m, n
  <2> QED BY <1>1, <1>3, <2>7, <2>8, <2>9 DEF Promise!SetBack, Promise!Forever
<1> QED BY <1>1, <1>2, <1>3

\* SET and GET keep the promise of a map whose entries vanish at their deadline:
\* that expired keys are deleted only when a command touches them is seen by no
\* client, but for the moment at which the clock is set back.
THEOREM LazyExpiryIsHidden == Spec => RefinesExpiringMap
<1>1. Init => Promise!Init
  <2> SUFFICES ASSUME Init PROVE Promise!Init
    OBVIOUS
  <2>1. db = EmptyDb /\ clock \in Nat /\ reply = "none"
    BY StringAssumption DEF Init
  <2>2. DOMAIN db.dict = {}
    BY <2>1 DEF EmptyDb, NoKeys
  <2>3. Visible = [k \in {} |-> -1]
    BY <2>2 DEF Visible
  <2> QED BY <2>1, <2>3 DEF Promise!Init, Promise!Forever
<1>2. IInv /\ [Next]_vars => [Promise!Next]_Promise!vars
  <2> SUFFICES ASSUME IInv, [Next]_vars PROVE [Promise!Next]_Promise!vars
    OBVIOUS
  <2>1. CASE Tick
    BY <2>1, TickMaps DEF Promise!Next
  <2>2. ASSUME NEW o \in AllOptions, SetSyntaxError(o) \/ SetBadExpire(o)
        PROVE  Promise!Refuse(request')
    <3>1. db' = db /\ clock' = clock /\ request' = [cmd |-> "bad"]
      BY <2>2, Zenon DEF SetSyntaxError, SetBadExpire
    <3>2. clock' \in Nat /\ clock <= clock' /\ request'.cmd = "bad"
      BY <3>1, StringAssumption DEF IInv
    <3> QED BY <3>1, <3>2, SeenWaits DEF Promise!Refuse
  <2>3. ASSUME NEW k \in Keys, NEW text \in Texts, NEW o \in AllOptions,
               SetStored(k, text, o)
        PROVE  Promise!SetStored(request')
    BY <2>3, StoredMaps, NextOK
  <2>4. CASE UNCHANGED vars
    BY <2>4 DEF vars, Promise!vars, Visible
  <2> QED BY <2>1, <2>2, <2>3, <2>4, GetMaps, RefusedMaps DEF Next, Promise!Next
<1> QED BY <1>1, <1>2, KeyspaceHolds, PTL DEF Spec, RefinesExpiringMap, Promise!Spec
=============================================================================
