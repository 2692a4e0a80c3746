--------------------------- MODULE StringCommands ---------------------------
(***************************************************************************)
(* SET and GET (commands/string.py) on one database (db.py), with a wall   *)
(* clock that moves while a command runs and may be set back between two   *)
(* commands.  A command is one action; the instants at which it reads the  *)
(* clock are chosen nondecreasing between clock and clock'.                *)
(***************************************************************************)
EXTENDS Db, Sequences, FiniteSets

CONSTANTS
  Keys,
  Texts,            \* the byte strings clients store, named by strings
  NumberOf,         \* what int() makes of a text, NotANumber if it raises
  Decimal,          \* how a number is written back (bytes2sds of an integer)
  NotANumber,
  Numerals,         \* number arguments of EX and PX: word |-> integer
  MsPerSecond,      \* 1000 in the code
  MaxWords,         \* bound: option words of one SET
  MaxTime,          \* bound: the clock
  MaxCommands       \* bound: commands counted by the statistics

ASSUME StringAssumption ==
  /\ NumberOf \in [Texts -> Int \cup {NotANumber}]
  /\ \A t \in Texts : NumberOf[t] # NotANumber => NumberOf[t] \in DOMAIN Decimal
  /\ \A w \in DOMAIN Numerals : Numerals[w] \in Int
  /\ MsPerSecond \in Nat \ {0}
  /\ MaxTime \in Nat /\ MaxCommands \in Nat

VARIABLES
  db,       \* the keyspace and the counters
  clock,    \* the wall clock, in milliseconds
  request,  \* the last command, with its options parsed
  reply     \* the reply to it
vars == <<db, clock, request, reply>>

-----------------------------------------------------------------------------
\* tryObjectEncoding: a text that int() accepts becomes a number; reading it
\* back writes the number, not the text ("07" comes back as "7").
tryObjectEncoding(text) ==
  IF NumberOf[text] = NotANumber THEN [encoding |-> "STR", ptr |-> text]
                                 ELSE [encoding |-> "INT", ptr |-> NumberOf[text]]

Decoded(o) == IF o.encoding = "INT" THEN Decimal[o.ptr] ELSE o.ptr

\* The text a client reads back.
ReadBack == [t \in Texts |-> IF NumberOf[t] = NotANumber THEN t ELSE Decimal[NumberOf[t]]]

-----------------------------------------------------------------------------
\* The option words of SET, in lower case as the code compares them.
Words == {"nx", "xx", "ex", "px", "other"} \cup DOMAIN Numerals
NoWord == "none"

Options == [nx : BOOLEAN, xx : BOOLEAN, seconds : BOOLEAN,
            expire : Words \cup {NoWord}, syntax : BOOLEAN]

TakesWord == {"ex", "px"}
LastIn(S) == CHOOSE j \in S : \A i \in S : i <= j

\* The loop of setCommand over the words after the value.  EX and PX consume
\* the next word whatever it is; as the last word they consume nothing and
\* leave no expiry, not even that of an earlier EX or PX.
ParseOptions(ws) ==
  LET n == Len(ws)
      option[j \in 1 .. n] ==
        \/ j = 1
        \/ option[j - 1] /\ ws[j - 1] \notin TakesWord
        \/ j > 2 /\ option[j - 2] /\ ws[j - 2] \in TakesWord
      given(S) == {j \in 1 .. n : option[j] /\ ws[j] \in S}
      timed == given(TakesWord)
  IN  [nx |-> given({"nx"}) # {},
       xx |-> given({"xx"}) # {},
       seconds |-> timed = {} \/ ws[LastIn(timed)] = "ex",
       expire |-> IF timed = {} \/ LastIn(timed) = n THEN NoWord ELSE ws[LastIn(timed) + 1],
       syntax |-> given(Words \ ({"nx", "xx"} \cup TakesWord)) = {}]

\* What the parser can hand to setGenericCommand.
AllOptions == {ParseOptions(ws) : ws \in UNION {[1 .. n -> Words] : n \in 0 .. MaxWords}}

HasExpire(o) == o.expire # NoWord
Integer(o) == o.expire \in DOMAIN Numerals
Positive(o) == Numerals[o.expire] > 0
WellFormed(o) == o.syntax /\ (HasExpire(o) => Integer(o) /\ Positive(o))

Ttl(o) == IF ~HasExpire(o) THEN 0
          ELSE Numerals[o.expire] * (IF o.seconds THEN MsPerSecond ELSE 1)

\* Mutant: the deadline is the time to live itself.
RelativeDeadline(o, now) == Ttl(o)

Deadline(o, now) == now + Ttl(o)

Refused(o, s1, s2, k) == (o.nx /\ Exists(s1, k)) \/ (o.xx /\ ~Exists(s2, k))

-----------------------------------------------------------------------------
Init ==
  /\ db = EmptyDb /\ clock \in 0 .. MaxTime
  /\ request = [cmd |-> "none"] /\ reply = "none"

SetRequest(k, text, o) ==
  [cmd |-> "set", key |-> k, text |-> text, nx |-> o.nx, xx |-> o.xx, ttl |-> Ttl(o)]

\* The statistics bound the number of commands.
Countable == db.hits + db.misses + db.dirty < MaxCommands

GetCommand(k) ==
  /\ Countable
  /\ request' = [cmd |-> "get", key |-> k]
  /\ \E t \in clock .. MaxTime :
       /\ clock' = t
       /\ db' = lookupKeyRead(db, k, t)
       /\ reply' = IF Exists(db', k) THEN Decoded(db'.dict[k]) ELSE "$-1"

SetSyntaxError(o) ==
  /\ ~o.syntax
  /\ request' = [cmd |-> "bad"]
  /\ reply' = "-ERR syntax"
  /\ UNCHANGED <<db, clock>>

SetBadExpire(o) ==
  /\ o.syntax /\ ~WellFormed(o)
  /\ request' = [cmd |-> "bad"]
  /\ reply' = IF Integer(o) THEN "-ERR invalid expire" ELSE "-ERR not an integer"
  /\ UNCHANGED <<db, clock>>

\* The two conditional lookups, each with its own reading of the clock; the
\* second is not made when the first one refuses.
AfterNx(o, k, t) == IF o.nx THEN expireIfNeeded(db, k, t) ELSE db
AfterXx(o, k, t1, t2) ==
  LET s1 == AfterNx(o, k, t1)
  IN  IF o.xx /\ ~(o.nx /\ Exists(s1, k)) THEN expireIfNeeded(s1, k, t2) ELSE s1

SetRefused(k, text, o) ==
  /\ WellFormed(o)
  /\ request' = SetRequest(k, text, o)
  /\ \E t1 \in clock .. MaxTime : \E t2 \in t1 .. MaxTime :
       /\ Refused(o, AfterNx(o, k, t1), AfterXx(o, k, t1, t2), k)
       /\ db' = AfterXx(o, k, t1, t2)
       /\ clock' = t2
  /\ reply' = "$-1"

\* setKey reads the clock once more, and setExpire a last time.
SetStored(k, text, o) ==
  /\ WellFormed(o)
  /\ Countable
  /\ request' = SetRequest(k, text, o)
  /\ \E t1 \in clock .. MaxTime : \E t2 \in t1 .. MaxTime :
     \E t3 \in t2 .. MaxTime : \E t4 \in t3 .. MaxTime :
       LET s == AfterXx(o, k, t1, t2)
           stored == setKey(s, k, tryObjectEncoding(text), t3)
           counted == [stored EXCEPT !.dirty = @ + 1]
       IN  /\ ~Refused(o, AfterNx(o, k, t1), s, k)
           /\ db' = IF HasExpire(o) THEN setExpire(counted, k, Deadline(o, t4)) ELSE counted
           /\ clock' = t4
  /\ reply' = "+OK"

\* Time passes, or somebody sets the clock back.
Tick ==
  /\ clock' \in 0 .. MaxTime \ {clock}
  /\ UNCHANGED <<db, request, reply>>

Next ==
  \/ Tick
  \/ \E o \in AllOptions : SetSyntaxError(o) \/ SetBadExpire(o)
  \/ \E k \in Keys :
       \/ GetCommand(k)
       \/ \E text \in Texts, o \in AllOptions :
            SetRefused(k, text, o) \/ SetStored(k, text, o)

Spec == Init /\ [][Next]_vars

-----------------------------------------------------------------------------
Objects == [encoding : {"STR"}, ptr : Texts] \cup [encoding : {"INT"}, ptr : DOMAIN Decimal]

\* The keyspace maps keys to string objects and deadlines, whatever commands ran.
TypeOK ==
  /\ DOMAIN db.dict \subseteq Keys /\ \A k \in DOMAIN db.dict : db.dict[k] \in Objects
  /\ DOMAIN db.expires \subseteq Keys /\ \A k \in DOMAIN db.expires : db.expires[k] \in Nat
  /\ db.expired \in Nat /\ db.hits \in Nat /\ db.misses \in Nat /\ db.dirty \in Nat
  /\ clock \in 0 .. MaxTime
  /\ request.cmd \in {"none", "bad", "get", "set"}

\* No deadline outlives its key: the assertions of getExpire and removeExpire
\* cannot fail in any later command.
ExpiresInDict == DOMAIN db.expires \subseteq DOMAIN db.dict

\* A deadline is used up once: the keys counted as expired and the deadlines
\* still pending never outnumber the stores that could have set them.
ExpiredOnce == db.expired + Cardinality(DOMAIN db.expires) <= db.dirty

\* A new deadline comes with a store and lies in the future of the clock.
NewDeadlineInFuture ==
  [][\A k \in DOMAIN db'.expires :
       (k \notin DOMAIN db.expires \/ db'.expires[k] # db.expires[k])
         => reply' = "+OK" /\ db'.expires[k] > clock' /\ db'.dirty = db.dirty + 1]_vars

\* A key leaves the keyspace only after its deadline, and is counted then.
KeysLeaveOnlyExpired ==
  [][\A k \in DOMAIN db.dict \ DOMAIN db'.dict :
       /\ k \in DOMAIN db.expires /\ db.expires[k] < clock'
       /\ db'.expired = db.expired + 1]_vars

-----------------------------------------------------------------------------
\* The keys that have not passed their deadline, as a client reads them.
Visible ==
  [k \in {x \in DOMAIN db.dict : ~Expired(db, x, clock)} |->
     [text |-> Decoded(db.dict[k]), until |-> getExpire(db, k)]]

Promise == INSTANCE ExpiringMap
             WITH map <- Visible, now <- clock, res <- reply

\* Deleting an expired key only when a command touches it cannot be told from
\* deleting it at its deadline, but for the moment at which the clock is set back.
RefinesExpiringMap == Promise!Spec
=============================================================================
