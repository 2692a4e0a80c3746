------------------------------ MODULE ReplyProofs ------------------------------
(***************************************************************************)
(* The output of a client, for any texts, sizes and number of replies: the *)
(* write event, the references of the objects, and the bytes on their way. *)
(*                                                                         *)
(* The event needs little: every function that adds to the output passes   *)
(* prepareClientToWrite first, and none touches the event afterwards.  The *)
(* other two need what each function does to the whole client: Good says   *)
(* it of one client, the names whose objects have a reference beside those *)
(* of the list, the names still free, and the bytes pending.               *)
(***************************************************************************)
EXTENDS Reply, SequenceTheorems, FiniteSetTheorems, CommonLemmas, TLAPS

OutputFields == {"obj", "sds", "buf", "reply", "reply_bytes", "watched", "close", "spoiled"}

IsOutput(s) == DOMAIN s = OutputFields

\* The client t is s after calls that leave the write event alone.
SameEvent(t, s) == IsOutput(t) /\ t.watched = s.watched

\* What prepareClientToWrite and the calls behind it do to the event.
Prepared(t, s) ==
  IsOutput(t) /\ (t.watched \in {TRUE, s.watched}) /\ (~Pending(s) => t.watched = TRUE)

Safe(s) == IsOutput(s) /\ (Pending(s) => s.watched = TRUE)

-----------------------------------------------------------------------------
\* The functions that handle objects, the buffer and the list.
LEMMA CreatedSame ==
  ASSUME NEW s, IsOutput(s), NEW text, NEW encoding
  PROVE  SameEvent(createObject(s, text, encoding), s)
BY DEF createObject, SameEvent, IsOutput, OutputFields

\* Counting a reference leaves the event alone.
LEMMA ReferencedSame ==
  ASSUME NEW s, IsOutput(s), NEW o, NEW by
  PROVE  SameEvent(Referenced(s, o, by), s)
BY DEF Referenced, SameEvent, IsOutput, OutputFields

\* So does the note of a damage.
LEMMA SpoiledSame ==
  ASSUME NEW s, IsOutput(s), NEW cause
  PROVE  SameEvent(Spoiled(s, cause), s)
BY DEF Spoiled, SameEvent, IsOutput, OutputFields

\* So do bytes for the buffer.
LEMMA BufferedSame ==
  ASSUME NEW s, IsOutput(s), NEW text
  PROVE  SameEvent(Buffered(s, text), s)
BY DEF Buffered, SameEvent, IsOutput, OutputFields

\* Extending the last object of the list, with its duplication.
LEMMA MergedSame ==
  ASSUME NEW s, IsOutput(s), NEW text
  PROVE  SameEvent(Merged(s, text), s)
<1> DEFINE tail == Last(s.reply)
           dup == createObject(s, TextOf(s, tail), "RAW")
           less == Referenced(dup, tail, -1)
           own == [less EXCEPT !.reply = Append(Front(s.reply), NewName(s)),
                               !.obj[tail].ptr = NewName(s)]
           extended(t) == [t EXCEPT !.sds[t.obj[tail].ptr] = sdscatlen(@, text)]
<1>1. SameEvent(dup, s)
  BY CreatedSame
<1>2. SameEvent(less, dup)
  <2> HIDE DEF dup
  <2> QED BY <1>1, ReferencedSame DEF SameEvent
<1>3. SameEvent(own, less)
  <2> HIDE DEF less, tail
  <2> QED BY <1>2 DEF SameEvent, IsOutput, OutputFields
<1>4. ASSUME NEW t, IsOutput(t) PROVE SameEvent(extended(t), t)
  <2> HIDE DEF tail
  <2> QED BY <1>4 DEF SameEvent, IsOutput, OutputFields
<1>5. SameEvent(extended(own), own) /\ SameEvent(extended(s), s)
  <2> HIDE DEF extended, own, less
  <2> QED BY <1>3, <1>4 DEF SameEvent
<1>6. SameEvent(Spoiled(extended(own), "shared tail"), extended(own))
  <2> HIDE DEF extended, own
  <2> QED BY <1>5, SpoiledSame DEF SameEvent
<1>7. Merged(s, text) = IF TailShared(s) THEN Spoiled(extended(own), "shared tail") ELSE extended(s)
  BY DEF Merged
<1> HIDE DEF extended, own, less, dup, tail
<1> QED BY <1>1, <1>2, <1>3, <1>5, <1>6, <1>7 DEF SameEvent

\* _addReplyStringToList leaves the event alone.
LEMMA StringListedSame ==
  ASSUME NEW s, IsOutput(s), NEW text
  PROVE  SameEvent(_addReplyStringToList(s, text), s)
<1> DEFINE n == NewName(s)
           new == createObject(s, text, StringEncoding(text))
           listed == [new EXCEPT !.reply = Append(@, n), !.reply_bytes = @ + SizeOf(new, n)]
<1>1. SameEvent(new, s)
  BY CreatedSame
<1>2. SameEvent(listed, new)
  <2> HIDE DEF new, n
  <2> QED BY <1>1 DEF SameEvent, IsOutput, OutputFields
<1>3. SameEvent(Merged(s, text), s)
  BY MergedSame
<1>4. _addReplyStringToList(s, text) \in {Merged(s, text), listed}
  BY DEF _addReplyStringToList
<1> HIDE DEF listed, new
<1> QED BY <1>1, <1>2, <1>3, <1>4 DEF SameEvent

\* _addReplyObjectToList leaves the event alone.
LEMMA ObjectListedSame ==
  ASSUME NEW s, IsOutput(s), NEW o
  PROVE  SameEvent(_addReplyObjectToList(s, o), s)
<1> DEFINE merged == Merged(s, TextOf(s, o))
           counted == [merged EXCEPT !.reply_bytes = @ + Len(TextOf(s, o))]
           held == Referenced(s, o, 1)
           appended == [held EXCEPT !.reply = Append(@, o), !.reply_bytes = @ + SizeOf(s, o)]
<1>1. SameEvent(merged, s)
  BY MergedSame
<1>2. SameEvent(counted, merged)
  <2> HIDE DEF merged
  <2> QED BY <1>1 DEF SameEvent, IsOutput, OutputFields
<1>3. SameEvent(held, s)
  BY ReferencedSame
<1>4. SameEvent(appended, held)
  <2> HIDE DEF held
  <2> QED BY <1>3 DEF SameEvent, IsOutput, OutputFields
<1>5. _addReplyObjectToList(s, o) \in {counted, appended}
  BY DEF _addReplyObjectToList, ObjectAppended
<1> HIDE DEF counted, appended, merged, held
<1> QED BY <1>1, <1>2, <1>3, <1>4, <1>5 DEF SameEvent

\* An object goes into the buffer or the list, the event stays.
LEMMA ObjectSame ==
  ASSUME NEW s, IsOutput(s), NEW o
  PROVE  SameEvent(addReplyObject(s, o), s)
BY BufferedSame, ObjectListedSame DEF addReplyObject

\* The decoding of an integer leaves the event alone.
LEMMA IntSame ==
  ASSUME NEW s, IsOutput(s), NEW text
  PROVE  SameEvent(addReplyInt(s, text), s)
<1> DEFINE n == NewName(s)
           made == createObject(s, Padded(text), "EMBSTR")
           dec == Spoiled(made, "padded integer")
           added == addReplyObject(dec, n)
           dropped == Referenced(added, n, -1)
<1>1. SameEvent(made, s)
  BY CreatedSame
<1>2. SameEvent(dec, made)
  <2> HIDE DEF made
  <2> QED BY <1>1, SpoiledSame DEF SameEvent
<1>3. SameEvent(added, dec)
  <2> HIDE DEF dec, n
  <2> QED BY <1>2, ObjectSame DEF SameEvent
<1>4. SameEvent(dropped, added)
  <2> HIDE DEF added, n
  <2> QED BY <1>3, ReferencedSame DEF SameEvent
<1>5. SameEvent(Buffered(s, text), s)
  BY BufferedSame
<1>6. addReplyInt(s, text) \in {Buffered(s, text), dropped}
  BY DEF addReplyInt
<1> HIDE DEF dropped, added, dec, made
<1> QED BY <1>1, <1>2, <1>3, <1>4, <1>5, <1>6 DEF SameEvent

-----------------------------------------------------------------------------
\* The functions a command calls.
LEMMA PrepareInstalls ==
  ASSUME NEW s, IsOutput(s)
  PROVE  Prepared(prepareClientToWrite(s), s)
BY DEF prepareClientToWrite, Prepared, IsOutput, OutputFields

\* addReplyString passes prepareClientToWrite first.
LEMMA StringPrepared ==
  ASSUME NEW s, IsOutput(s), NEW text
  PROVE  Prepared(addReplyString(s, text), s)
<1> DEFINE p == prepareClientToWrite(s)
<1>1. Prepared(p, s)
  BY PrepareInstalls
<1>2. SameEvent(Buffered(p, text), p) /\ SameEvent(_addReplyStringToList(p, text), p)
  <2> HIDE DEF p
  <2> QED BY <1>1, BufferedSame, StringListedSame DEF Prepared
<1>3. addReplyString(s, text) \in {Buffered(p, text), _addReplyStringToList(p, text)}
  BY DEF addReplyString
<1> HIDE DEF p
<1> QED BY <1>1, <1>2, <1>3 DEF Prepared, SameEvent

\* addReply passes it first too.
LEMMA ReplyPrepared ==
  ASSUME NEW s, IsOutput(s), NEW o
  PROVE  Prepared(addReply(s, o), s)
<1> DEFINE p == prepareClientToWrite(s)
<1>1. Prepared(p, s)
  BY PrepareInstalls
<1>2. SameEvent(addReplyInt(p, Text0(o)), p) /\ SameEvent(addReplyObject(p, o), p)
  <2> HIDE DEF p
  <2> QED BY <1>1, IntSame, ObjectSame DEF Prepared
<1>3. addReply(s, o) \in {addReplyInt(p, Text0(o)), addReplyObject(p, o)}
  BY DEF addReply
<1> HIDE DEF p
<1> QED BY <1>1, <1>2, <1>3 DEF Prepared, SameEvent

\* The functions of a reply one after the other.
LEMMA PreparedSafe ==
  ASSUME NEW s, Safe(s), NEW t, Prepared(t, s)
  PROVE  IsOutput(t) /\ t.watched = TRUE /\ Safe(t)
BY DEF Safe, Prepared

\* The three parts of a bulk reply have their event.
LEMMA BulkSafe ==
  ASSUME NEW s, Safe(s), NEW o
  PROVE  Safe(addReplyBulk(s, o))
<1> DEFINE len == addReplyBulkLen(s, ObjectLength(s, o))
           body == addReply(len, o)
           whole == addReply(body, "crlf")
<1>1. Prepared(len, s)
  BY StringPrepared, ReplyPrepared DEF Safe, addReplyBulkLen
<1>2. Safe(len)
  <2> HIDE DEF len
  <2> QED BY <1>1, PreparedSafe
<1>3. Prepared(body, len)
  <2> HIDE DEF len
  <2> QED BY <1>2, ReplyPrepared DEF Safe
<1>4. Safe(body)
  <2> HIDE DEF body, len
  <2> QED BY <1>2, <1>3, PreparedSafe
<1>5. Prepared(whole, body)
  <2> HIDE DEF body
  <2> QED BY <1>4, ReplyPrepared DEF Safe
<1>6. Safe(whole)
  <2> HIDE DEF whole, body
  <2> QED BY <1>4, <1>5, PreparedSafe
<1> QED BY <1>6 DEF addReplyBulk

\* The three parts of an error have it.
LEMMA ErrorSafe ==
  ASSUME NEW s, Safe(s)
  PROVE  Safe(addReplyError(s))
<1> DEFINE one == addReplyString(s, <<"err">>)
           two == addReplyString(one, <<"msg">>)
           three == addReplyString(two, <<"eol">>)
<1>1. ASSUME NEW t, Safe(t), NEW text PROVE Safe(addReplyString(t, text))
  BY <1>1, StringPrepared, PreparedSafe DEF Safe
<1>2. Safe(one)
  BY <1>1
<1>3. Safe(two)
  <2> HIDE DEF one
  <2> QED BY <1>1, <1>2
<1>4. Safe(three)
  <2> HIDE DEF two
  <2> QED BY <1>1, <1>3
<1> QED BY <1>4 DEF addReplyError

\* A shared object has it.
LEMMA OkSafe ==
  ASSUME NEW s, Safe(s)
  PROVE  Safe(addReply(s, "ok"))
BY ReplyPrepared, PreparedSafe DEF Safe

\* The flag for closing has nothing to do with the event.
LEMMA ClosedSafe ==
  ASSUME NEW s, Safe(s)
  PROVE  Safe([s EXCEPT !.close = TRUE])
BY DEF Safe, IsOutput, OutputFields, Pending

-----------------------------------------------------------------------------
\* The process that has ended keeps its output; the handler leaves the event
\* only when nothing is pending.
WInv == IsOutput(out) /\ (sender = "dead" \/ Safe(out))

\* Nothing is pending at first.
LEMMA InitWatched == ReplyInit => WInv
<1> SUFFICES ASSUME ReplyInit PROVE WInv
  OBVIOUS
<1>1. IsOutput(out) /\ out.buf = <<>> /\ out.reply = <<>>
  BY DEF ReplyInit, IsOutput, OutputFields
<1> QED BY <1>1 DEF WInv, Safe, Pending

\* A reply whose functions install the event keeps the invariant.
LEMMA AnswerWatched ==
  ASSUME WInv, NEW s, NEW bytes, Safe(out) => Safe(s), Answer(s, bytes)
  PROVE  WInv'
<1>1. Safe(out) /\ out' = s /\ sender' = sender /\ sender = "idle"
  BY DEF Answer, WInv
<1> QED BY <1>1 DEF WInv, Safe, IsOutput, Pending

\* A turn of the loop leaves the event alone.
LEMMA SentSafe ==
  ASSUME Safe(out), Pending(out)
  PROVE  Safe(Sent(out))
<1> DEFINE less == Referenced(out, Head1(out), -1)
           dropped == [less EXCEPT !.reply = Tail(@),
                                   !.reply_bytes = @ - SizeOf(out, Head1(out))]
           emptied == [out EXCEPT !.buf = <<>>]
<1>1. SameEvent(less, out)
  BY ReferencedSame DEF Safe
<1>2. SameEvent(dropped, less)
  <2> HIDE DEF less
  <2> QED BY <1>1 DEF SameEvent, IsOutput, OutputFields
<1>3. SameEvent(emptied, out)
  BY DEF Safe, SameEvent, IsOutput, OutputFields
<1>4. Sent(out) \in {emptied, dropped}
  BY DEF Sent, NodeDropped
<1> HIDE DEF emptied, dropped, less
<1> QED BY <1>1, <1>2, <1>3, <1>4 DEF Safe, SameEvent

\* Every step keeps the invariant of the event.
LEMMA NextWatched == WInv /\ [ReplyNext]_outputVars => WInv'
<1> SUFFICES ASSUME WInv, [ReplyNext]_outputVars PROVE WInv'
  OBVIOUS
<1>1. CASE ReplyOk
  BY <1>1, OkSafe, AnswerWatched DEF ReplyOk
<1>2. CASE ReplyBulk
  <2>1. PICK o \in DOMAIN StoredText :
          Answer(addReplyBulk(out, o), HeaderText(Len(Text0(o))) \o Text0(o) \o SharedText["crlf"])
    BY <1>2 DEF ReplyBulk
  <2> QED BY <2>1, BulkSafe, AnswerWatched
<1>3. CASE ReplyError
  BY <1>3, ErrorSafe, AnswerWatched DEF ReplyError
<1>4. CASE ReplyQuit
  BY <1>4, OkSafe, ClosedSafe, AnswerWatched DEF ReplyQuit
<1>5. CASE ReplyProtocolError
  BY <1>5, ErrorSafe, ClosedSafe, AnswerWatched DEF ReplyProtocolError
<1>6. CASE sendReplyToClient
  BY <1>6 DEF sendReplyToClient, WInv, Safe, IsOutput, Pending
<1>7. CASE WriteAll
  <2>1. Safe(out) /\ Pending(out) /\ out' = Sent(out)
    BY <1>7 DEF WriteAll, WInv
  <2>2. Safe(Sent(out))
    BY <2>1, SentSafe
  <2> QED BY <2>1, <2>2 DEF WInv, Safe, IsOutput, Pending
<1>8. CASE WriteBlocked
  <2>1. Safe(out) /\ out' \in {out, Spoiled(out, "short write")}
    BY <1>8 DEF WriteBlocked, WInv
  <2>2. Safe(Spoiled(out, "short write"))
    BY <2>1 DEF Safe, Spoiled, IsOutput, OutputFields, Pending
  <2> QED BY <2>1, <2>2 DEF WInv, Safe, IsOutput, Pending
<1>9. CASE WriteFails
  BY <1>9 DEF WriteFails, WInv, IsOutput
<1>10. CASE StopWriting
  <2>1. Safe(out)
    BY <1>10 DEF StopWriting, WInv
  <2>2. CASE SentEverything(out)
    <3>1. out' = [out EXCEPT !.watched = FALSE] /\ ~Pending(out)
      BY <1>10, <2>2 DEF StopWriting, SentEverything
    <3> QED BY <2>1, <3>1 DEF WInv, Safe, IsOutput, OutputFields, Pending
  <2>3. CASE ~SentEverything(out)
    BY <1>10, <2>1, <2>3 DEF StopWriting, WInv, Safe, IsOutput, Pending
  <2> QED BY <2>2, <2>3
<1>11. CASE UNCHANGED outputVars
  BY <1>11 DEF outputVars, WInv, Safe, IsOutput, Pending
<1> QED BY <1>1, <1>2, <1>3, <1>4, <1>5, <1>6, <1>7, <1>8, <1>9, <1>10, <1>11 DEF ReplyNext

\* Output that waits for the client has its write event, whatever mixture of
\* replies, short and blocked writes came before: it is never left behind.
THEOREM PendingIsWatchedHolds == ReplySpec => []PendingIsWatched
<1>1. WInv => PendingIsWatched
  BY DEF WInv, Safe, PendingIsWatched
<1> QED BY <1>1, InitWatched, NextWatched, PTL DEF ReplySpec

-----------------------------------------------------------------------------
\* The types of a client's output, as predicates of one client.
Objects == [ptr : Names, encoding : {"RAW", "EMBSTR", "INT"}, refcount : Int]
Strings == [text : Seq(Atoms), free : Nat, size : Nat]
Causes == {"shared tail", "padded integer", "short write"}
Clients ==
  [obj : [Names -> Objects], sds : [Names -> Strings], buf : Seq(Atoms), reply : Seq(Names),
   reply_bytes : Int, watched : BOOLEAN, close : BOOLEAN, spoiled : SUBSET Causes]

\* A text for which addReplyBulkLen finds a header.
HeaderKnown(text) ==
  Len(text) < REDIS_SHARED_BULKHDR_LEN \/ Header[Len(text)] \in Seq(Atoms)

\* Only the keyspace holds integers.
IntsStored(s) ==
  \A n \in Names : s.obj[n].encoding = "INT" => n \in DOMAIN StoredText /\ StoredEncoding[n] = "INT"

\* The allocation of every string covers its text and its free bytes.
Allocated(s) == \A n \in Names : s.sds[n].size > Len(s.sds[n].text) + s.sds[n].free

Headed(s) == \A n \in DOMAIN StoredText : HeaderKnown(TextOf(s, n))

WellTyped(s) ==
  /\ s \in Clients /\ Len(s.buf) <= REDIS_REPLY_CHUNK_BYTES
  /\ IntsStored(s) /\ Allocated(s) /\ Headed(s)

\* The references to the names of H beside those of the list.
Count(q, n) == Cardinality({i \in DOMAIN q : q[i] = n})
Counted(s, H) == \A n \in Names : s.obj[n].refcount = Count(s.reply, n) + (IF n \in H THEN 1 ELSE 0)

Room(s, k) == Cardinality(Free(s)) >= k

\* While nothing is spoiled every object has its own string, and the shared
\* and the stored ones have the texts they began with.
Untouched(s) ==
  /\ \A n \in Names : s.obj[n].ptr = n
  /\ \A n \in Permanent : s.sds[n].text = Text0(n)

Intact(s, bytes) == s.spoiled = {} => Untouched(s) /\ PendingBytes(s) = bytes

Good(s, H, k, bytes) == WellTyped(s) /\ Counted(s, H) /\ Room(s, k) /\ Intact(s, bytes)

RInv ==
  /\ WellTyped(out) /\ Counted(out, Permanent)
  /\ sender \in {"idle", "sending", "dead"} /\ written \in Nat /\ replies \in 0 .. MaxReplies
  /\ wire \in Seq(Atoms) /\ expected \in Seq(Atoms)
  /\ out.spoiled = {} =>
       Untouched(out) /\ (sender # "dead" => wire \o PendingBytes(out) = expected)

-----------------------------------------------------------------------------
\* Counting the nodes of a list that hold a name.
LEMMA CountNat ==
  ASSUME NEW q \in Seq(Names), NEW n
  PROVE  /\ IsFiniteSet({i \in DOMAIN q : q[i] = n}) /\ Count(q, n) \in Nat
         /\ \A i \in DOMAIN q : q[i] = n => Count(q, n) > 0
<1> DEFINE P == {i \in DOMAIN q : q[i] = n}
<1>1. DOMAIN q = 1 .. Len(q) /\ Len(q) \in Nat
  OBVIOUS
<1>2. IsFiniteSet(1 .. Len(q))
  BY <1>1, FS_Interval
<1>3. P \subseteq 1 .. Len(q)
  BY <1>1
<1>4. IsFiniteSet(P) /\ Cardinality(P) \in Nat
  <2> HIDE DEF P
  <2> QED BY <1>2, <1>3, FS_Subset, FS_CardinalityType
<1>5. Cardinality(P) = 0 <=> P = {}
  <2> HIDE DEF P
  <2> QED BY <1>4, FS_EmptySet
<1>6. Cardinality(P) = Count(q, n)
  BY DEF Count
<1> QED BY <1>4, <1>5, <1>6

\* A node at the end counts for its own object.
LEMMA CountAppend ==
  ASSUME NEW q \in Seq(Names), NEW m \in Names, NEW n
  PROVE  Count(Append(q, m), n) = Count(q, n) + (IF n = m THEN 1 ELSE 0)
<1> DEFINE r == Append(q, m)
           P == {i \in DOMAIN q : q[i] = n}
           R == {i \in DOMAIN r : r[i] = n}
           last == Len(q) + 1
<1>1. /\ Len(q) \in Nat /\ DOMAIN q = 1 .. Len(q) /\ DOMAIN r = 1 .. last
      /\ \A i \in 1 .. Len(q) : r[i] = q[i]
      /\ r[last] = m
  BY AppendProperties
<1>2. IsFiniteSet(P) /\ Cardinality(P) \in Nat
  BY CountNat DEF Count
<1>3. last \notin P
  BY <1>1
<1>4. 1 .. last = (1 .. Len(q)) \cup {last}
  BY <1>1
<1>5. R = IF n = m THEN P \cup {last} ELSE P
  <2> HIDE DEF r
  <2> QED BY <1>1, <1>4
<1>6. Cardinality(P \cup {last}) = Cardinality(P) + 1
  <2> HIDE DEF P, last
  <2> QED BY <1>2, <1>3, FS_AddElement
<1>7. Cardinality(R) = Cardinality(P) + (IF n = m THEN 1 ELSE 0)
  <2> HIDE DEF R, P, last
  <2> QED BY <1>2, <1>5, <1>6
<1> QED BY <1>7 DEF Count

\* A node taken from the front counts for its own object no more.
LEMMA CountTail ==
  ASSUME NEW q \in Seq(Names), q # <<>>, NEW n
  PROVE  Count(q, n) = Count(Tail(q), n) + (IF n = q[1] THEN 1 ELSE 0)
<1> DEFINE r == Tail(q)
           P == {i \in DOMAIN q : q[i] = n}
           R == {i \in DOMAIN r : r[i] = n}
           later == P \ {1}
<1>1. /\ Len(q) \in Nat /\ Len(q) # 0 /\ DOMAIN q = 1 .. Len(q) /\ DOMAIN r = 1 .. Len(q) - 1
      /\ r \in Seq(Names) /\ \A i \in 1 .. Len(q) - 1 : r[i] = q[i + 1]
  OBVIOUS
<1>2. IsFiniteSet(P) /\ Cardinality(P) \in Nat /\ IsFiniteSet(R)
  <2>1. IsFiniteSet(P) /\ Cardinality(P) \in Nat
    BY CountNat DEF Count
  <2>2. IsFiniteSet(R)
    <3> HIDE DEF r
    <3> QED BY <1>1, CountNat
  <2> QED BY <2>1, <2>2
<1> DEFINE f == [i \in R |-> i + 1]
<1>3. f \in Bijection(R, later)
  <2> HIDE DEF r
  <2>1. f \in [R -> later]
    <3>1. ASSUME NEW i \in R PROVE i + 1 \in later
      BY <1>1
    <3> HIDE DEF R, later
    <3> QED BY <3>1
  <2>2. \A i, j \in R : f[i] = f[j] => i = j
    <3>1. R \subseteq Int
      BY <1>1
    <3> HIDE DEF R
    <3> QED BY <3>1
  <2>3. \A j \in later : \E i \in R : f[i] = j
    <3>1. ASSUME NEW j \in later PROVE j - 1 \in R /\ (j - 1) + 1 = j
      BY <1>1
    <3> HIDE DEF R, later
    <3> QED BY <3>1
  <2> HIDE DEF f, R, later
  <2> QED BY <2>1, <2>2, <2>3 DEF Bijection, Injection, Surjection, IsInjective
<1>4. Cardinality(R) = Cardinality(later)
  <2> HIDE DEF f, R, later
  <2> QED BY <1>2, <1>3, FS_Bijection DEF ExistsBijection
<1>5. 1 \in P <=> n = q[1]
  BY <1>1
<1>6. Cardinality(later) = IF 1 \in P THEN Cardinality(P) - 1 ELSE Cardinality(P)
  <2> HIDE DEF P
  <2> QED BY <1>2, FS_RemoveElement
<1>7. Cardinality(P) = Cardinality(R) + (IF n = q[1] THEN 1 ELSE 0)
  <2> HIDE DEF P, R, later
  <2> QED BY <1>2, <1>4, <1>5, <1>6
<1> QED BY <1>7 DEF Count

\* A name that a list holds once, at its end.
LEMMA CountOnce ==
  ASSUME NEW q \in Seq(Names), q # <<>>, Count(q, Last(q)) <= 1
  PROVE  \A i \in 1 .. Len(q) - 1 : q[i] # Last(q)
<1> DEFINE f == Front(q)
           z == Last(q)
<1>1. /\ f \in Seq(Names) /\ z \in Names /\ q = Append(f, z) /\ Len(f) = Len(q) - 1
      /\ \A i \in 1 .. Len(q) - 1 : f[i] = q[i]
  BY LastOfList
<1>2. Count(q, z) = Count(f, z) + 1
  <2> HIDE DEF f, z
  <2>1. Count(Append(f, z), z) = Count(f, z) + 1
    BY <1>1, CountAppend
  <2> QED BY <1>1, <2>1
<1>3. Count(f, z) \in Nat /\ \A i \in DOMAIN f : f[i] = z => Count(f, z) > 0
  BY <1>1, CountNat
<1>4. \A i \in DOMAIN f : f[i] # z
  <2> HIDE DEF f, z
  <2> QED BY <1>2, <1>3 DEF z
<1>5. DOMAIN f = 1 .. Len(q) - 1
  BY <1>1
<1> QED BY <1>1, <1>4, <1>5

-----------------------------------------------------------------------------
\* The strings and the objects.
LEMMA CatKeeps ==
  ASSUME NEW x \in Strings, x.size > Len(x.text) + x.free, NEW text \in Seq(Atoms)
  PROVE  /\ sdscatlen(x, text) \in Strings /\ sdscatlen(x, text).text = x.text \o text
         /\ sdscatlen(x, text).size > Len(sdscatlen(x, text).text) + sdscatlen(x, text).free
<1> DEFINE n == Len(text)
           k == Len(x.text)
           total == k + n
           room == IF x.free >= n THEN x
                   ELSE [x EXCEPT !.size = @ + 2 * total - k, !.free = 2 * total - k]
           least == Min({n, k})
           y == [text |-> x.text \o text, free |-> room.free - n, size |-> room.size + least]
<1>1. /\ n \in Nat /\ k \in Nat /\ x.free \in Nat /\ x.size \in Nat /\ x.text \in Seq(Atoms)
      /\ x.size > k + x.free
  BY DEF Strings
<1>2. least \in Nat
  <2> HIDE DEF n, k
  <2>1. \E m \in {n, k} : \A j \in {n, k} : m <= j
    BY <1>1
  <2>2. Min({n, k}) \in {n, k}
    BY <2>1 DEF Min
  <2> QED BY <1>1, <2>2
<1>3. room.free \in Nat /\ room.size \in Nat /\ room.free >= n /\ room.size > k + room.free
  <2>1. CASE x.free >= n
    BY <1>1, <2>1
  <2>2. CASE ~(x.free >= n)
    <3>1. room.free = 2 * total - k /\ room.size = x.size + 2 * total - k
      BY <2>2 DEF Strings
    <3> HIDE DEF room, n, k
    <3> QED BY <1>1, <2>2, <3>1
  <2> QED BY <2>1, <2>2
<1>4. sdscatlen(x, text) = y
  BY DEF sdscatlen
<1>5. x.text \o text \in Seq(Atoms) /\ Len(x.text \o text) = k + n
  BY <1>1, ConcatProperties
<1>6. y \in Strings /\ y.text = x.text \o text /\ y.free = room.free - n /\ y.size = room.size + least
  <2>1. room.free - n \in Nat /\ room.size + least \in Nat
    <3> HIDE DEF room, n, k, least
    <3> QED BY <1>1, <1>2, <1>3
  <2> HIDE DEF room, n, k, least
  <2> QED BY <1>5, <2>1 DEF Strings
<1> HIDE DEF y, room, n, k, least
<1> QED BY <1>1, <1>2, <1>3, <1>4, <1>5, <1>6

\* The client t is s with a new object under the name n.
Creates(t, s, n, text, encoding) ==
  /\ t \in Clients
  /\ t.obj = [s.obj EXCEPT ![n] = [ptr |-> n, encoding |-> encoding, refcount |-> 1]]
  /\ t.sds = [s.sds EXCEPT ![n] = sdsnewlen(text)]
  /\ t.buf = s.buf /\ t.reply = s.reply /\ t.reply_bytes = s.reply_bytes
  /\ t.watched = s.watched /\ t.close = s.close /\ t.spoiled = s.spoiled

\* sdsnewlen returns a string that holds its text.
LEMMA NewString ==
  ASSUME NEW text \in Seq(Atoms)
  PROVE  /\ sdsnewlen(text) \in Strings /\ sdsnewlen(text).text = text
         /\ sdsnewlen(text).size > Len(sdsnewlen(text).text) + sdsnewlen(text).free
<1>1. Len(text) \in Nat
  OBVIOUS
<1> QED BY <1>1 DEF sdsnewlen, Strings

\* createObject changes one name and nothing else.
LEMMA CreatedIs ==
  ASSUME NEW s \in Clients, NewName(s) \in Names,
         NEW text \in Seq(Atoms), NEW encoding \in {"RAW", "EMBSTR", "INT"}
  PROVE  Creates(createObject(s, text, encoding), s, NewName(s), text, encoding)
<1> DEFINE n == NewName(s)
           o == [ptr |-> n, encoding |-> encoding, refcount |-> 1]
           z == sdsnewlen(text)
           t == [s EXCEPT !.obj[n] = o, !.sds[n] = z]
<1>1. o \in Objects /\ z \in Strings
  <2>1. n \in Names /\ 1 \in Int
    OBVIOUS
  <2> HIDE DEF n
  <2> QED BY <2>1, NewString DEF Objects
<1>2. t = createObject(s, text, encoding)
  BY DEF createObject
<1>3. Creates(t, s, n, text, encoding)
  <2>1. /\ t \in Clients /\ t.obj = [s.obj EXCEPT ![n] = o] /\ t.sds = [s.sds EXCEPT ![n] = z]
        /\ t.buf = s.buf /\ t.reply = s.reply /\ t.reply_bytes = s.reply_bytes
        /\ t.watched = s.watched /\ t.close = s.close /\ t.spoiled = s.spoiled
    <3> HIDE DEF n, o, z
    <3> QED BY <1>1 DEF Clients
  <2> HIDE DEF t
  <2> QED BY <2>1 DEF Creates
<1> QED BY <1>2, <1>3

\* A name is free when no object, no node and no string of another uses it.
LEMMA FreeName ==
  ASSUME NEW s, WellTyped(s), NEW k \in Nat, Room(s, k + 1), NEW H, Counted(s, H)
  PROVE  LET n == NewName(s)
         IN  /\ n \in Free(s) /\ n \in Names /\ n \notin Permanent
             /\ s.obj[n].refcount = 0 /\ n \notin H /\ Count(s.reply, n) = 0
             /\ \A m \in Names \ {n} : s.obj[m].ptr # n
             /\ \A i \in DOMAIN s.reply : s.reply[i] # n
<1> DEFINE n == NewName(s)
<1>1. IsFiniteSet(Free(s))
  <2>1. Free(s) \subseteq Fresh /\ IsFiniteSet(Fresh)
    BY ReplyAssumption DEF Free
  <2> QED BY <2>1, FS_Subset
<1>2. Free(s) # {}
  <2>1. Free(s) = {} => Cardinality(Free(s)) = 0
    BY <1>1, FS_EmptySet
  <2>2. Cardinality(Free(s)) >= k + 1 /\ ~(0 >= k + 1)
    BY DEF Room
  <2> QED BY <2>1, <2>2
<1>3. n \in Free(s)
  BY <1>2 DEF NewName
<1>4. n \in Names /\ n \notin Permanent /\ s.obj[n].refcount = 0 /\ \A m \in Names \ {n} : s.obj[m].ptr # n
  <2> HIDE DEF n
  <2> QED BY <1>3, ReplyAssumption DEF Free, Names
<1>5. s.reply \in Seq(Names)
  BY DEF WellTyped, Clients
<1>6. Count(s.reply, n) \in Nat /\ \A i \in DOMAIN s.reply : s.reply[i] = n => Count(s.reply, n) > 0
  BY <1>5, CountNat
<1>7. Count(s.reply, n) = 0 /\ n \notin H
  <2>1. 0 = Count(s.reply, n) + (IF n \in H THEN 1 ELSE 0)
    <3> HIDE DEF n
    <3> QED BY <1>4 DEF Counted
  <2> HIDE DEF n
  <2> QED BY <1>6, <2>1
<1>8. \A i \in DOMAIN s.reply : s.reply[i] # n
  <2> HIDE DEF n
  <2> QED BY <1>6, <1>7
<1> QED BY <1>3, <1>4, <1>7, <1>8

\* One name less is free after a step that takes one.
LEMMA RoomTaken ==
  ASSUME NEW s, NEW t, NEW n, NEW k \in Nat, Room(s, k + 1), Free(s) \ {n} \subseteq Free(t)
  PROVE  Room(t, k)
<1>1. IsFiniteSet(Fresh) /\ Free(s) \subseteq Fresh /\ Free(t) \subseteq Fresh
  BY ReplyAssumption DEF Free
<1>2. IsFiniteSet(Free(s)) /\ IsFiniteSet(Free(t))
  BY <1>1, FS_Subset
<1> DEFINE rest == Free(s) \ {n}
<1>3. IsFiniteSet(rest) /\ Cardinality(rest) >= Cardinality(Free(s)) - 1 /\ Cardinality(Free(s)) \in Nat
  <2> DEFINE F == Free(s)
  <2>1. Cardinality(F) \in Nat
    BY <1>2, FS_CardinalityType
  <2>2. IsFiniteSet(F \ {n}) /\ Cardinality(F \ {n}) = IF n \in F THEN Cardinality(F) - 1 ELSE Cardinality(F)
    <3> HIDE DEF F
    <3> QED BY <1>2, FS_RemoveElement DEF F
  <2> HIDE DEF F
  <2> QED BY <2>1, <2>2 DEF F
<1>4. Cardinality(rest) <= Cardinality(Free(t)) /\ Cardinality(rest) \in Nat /\ Cardinality(Free(t)) \in Nat
  <2> HIDE DEF rest
  <2>1. rest \subseteq Free(t)
    BY DEF rest
  <2> QED BY <1>2, <1>3, <2>1, FS_Subset, FS_CardinalityType
<1>5. Cardinality(Free(s)) >= k + 1
  BY DEF Room
<1>6. Cardinality(Free(t)) >= k
  <2> HIDE DEF rest
  <2> QED BY <1>3, <1>4, <1>5
<1> QED BY <1>6 DEF Room

\* A step that takes no name leaves as many free.
LEMMA RoomKept ==
  ASSUME NEW s, NEW t, NEW k \in Nat, Room(s, k), Free(s) \subseteq Free(t)
  PROVE  Room(t, k)
<1>1. IsFiniteSet(Fresh) /\ Free(s) \subseteq Fresh /\ Free(t) \subseteq Fresh
  BY ReplyAssumption DEF Free
<1>2. IsFiniteSet(Free(s)) /\ IsFiniteSet(Free(t))
  BY <1>1, FS_Subset
<1>3. Cardinality(Free(s)) <= Cardinality(Free(t)) /\ Cardinality(Free(s)) \in Nat /\ Cardinality(Free(t)) \in Nat
  BY <1>2, FS_Subset, FS_CardinalityType
<1>4. Cardinality(Free(s)) >= k
  BY DEF Room
<1> QED BY <1>3, <1>4 DEF Room

\* Room for one more is room.
LEMMA RoomLess ==
  ASSUME NEW s, NEW k \in Nat, Room(s, k + 1)
  PROVE  Room(s, k)
<1>1. Free(s) \ {0} \subseteq Free(s)
  OBVIOUS
<1> QED BY <1>1, RoomTaken

-----------------------------------------------------------------------------
\* The client t is s with its last object extended.
Extends(t, s, p, text) ==
  /\ t \in Clients /\ t.obj = s.obj
  /\ t.sds = [s.sds EXCEPT ![p] = sdscatlen(s.sds[p], text)]
  /\ t.buf = s.buf /\ t.reply = s.reply
  /\ t.watched = s.watched /\ t.close = s.close /\ t.spoiled = s.spoiled

\* The client t is s with its last object replaced by an extended duplicate.
Duplicates(t, s, n, text) ==
  LET tail == Last(s.reply)
  IN  /\ t \in Clients
      /\ t.obj = [s.obj EXCEPT ![n] = [ptr |-> n, encoding |-> "RAW", refcount |-> 1],
                               ![tail] = [s.obj[tail] EXCEPT !.refcount = @ - 1, !.ptr = n]]
      /\ t.sds = [s.sds EXCEPT ![n] = sdscatlen(sdsnewlen(TextOf(s, tail)), text)]
      /\ t.buf = s.buf /\ t.reply = Append(Front(s.reply), n)
      /\ t.watched = s.watched /\ t.close = s.close
      /\ t.spoiled = s.spoiled \cup {"shared tail"}

\* sdscatlen on the string of an object changes that string only.
LEMMA ExtendedIs ==
  ASSUME NEW s, WellTyped(s), NEW p \in Names, NEW text \in Seq(Atoms)
  PROVE  Extends([s EXCEPT !.sds[p] = sdscatlen(@, text)], s, p, text)
<1> DEFINE z == sdscatlen(s.sds[p], text)
           t == [s EXCEPT !.sds[p] = z]
<1>1. s \in Clients /\ s.sds[p] \in Strings /\ s.sds[p].size > Len(s.sds[p].text) + s.sds[p].free
  BY DEF WellTyped, Clients, Allocated
<1>2. z \in Strings
  BY <1>1, CatKeeps
<1>3. /\ t \in Clients /\ t.obj = s.obj /\ t.sds = [s.sds EXCEPT ![p] = z]
      /\ t.buf = s.buf /\ t.reply = s.reply
      /\ t.watched = s.watched /\ t.close = s.close /\ t.spoiled = s.spoiled
  <2> HIDE DEF z
  <2> QED BY <1>1, <1>2 DEF Clients
<1>4. [s EXCEPT !.sds[p] = sdscatlen(@, text)] = t
  BY <1>1 DEF Clients
<1> HIDE DEF t
<1> QED BY <1>3, <1>4 DEF Extends

\* The last object of the list, and its string.
LEMMA TailObject ==
  ASSUME NEW s, WellTyped(s), s.reply # <<>>
  PROVE  /\ Last(s.reply) \in Names /\ s.obj[Last(s.reply)] \in Objects
         /\ s.obj[Last(s.reply)].ptr \in Names
         /\ s.sds[s.obj[Last(s.reply)].ptr] \in Strings /\ TextOf(s, Last(s.reply)) \in Seq(Atoms)
<1>1. s \in Clients /\ s.reply \in Seq(Names)
  BY DEF WellTyped, Clients
<1>2. Last(s.reply) \in Names
  BY <1>1, LastOfList
<1> DEFINE z == Last(s.reply)
<1>3. s.obj[z] \in Objects /\ s.obj[z].ptr \in Names
  <2> HIDE DEF z
  <2>1. z \in Names
    BY <1>2 DEF z
  <2>2. s.obj[z] \in Objects
    BY <1>1, <2>1 DEF Clients
  <2> QED BY <2>2 DEF Objects
<1>4. s.sds[s.obj[z].ptr] \in Strings
  <2> HIDE DEF z
  <2> QED BY <1>1, <1>3 DEF Clients
<1>5. TextOf(s, z) \in Seq(Atoms)
  <2> HIDE DEF z
  <2> QED BY <1>4 DEF TextOf, Strings
<1> QED BY <1>2, <1>3, <1>4, <1>5

\* What extending the last object does, shared or not.
LEMMA MergedIs ==
  ASSUME NEW s, WellTyped(s), s.reply # <<>>, NEW text \in Seq(Atoms), NewName(s) \in Names,
         NewName(s) # Last(s.reply)
  PROVE  IF TailShared(s) THEN Duplicates(Merged(s, text), s, NewName(s), text)
                          ELSE Extends(Merged(s, text), s, s.obj[Last(s.reply)].ptr, text)
<1> DEFINE n == NewName(s)
           tail == Last(s.reply)
           dup == createObject(s, TextOf(s, tail), "RAW")
           less == Referenced(dup, tail, -1)
           own == [less EXCEPT !.reply = Append(Front(s.reply), n), !.obj[tail].ptr = n]
           extended(t) == [t EXCEPT !.sds[t.obj[tail].ptr] = sdscatlen(@, text)]
           new == [ptr |-> n, encoding |-> "RAW", refcount |-> 1]
           z == sdsnewlen(TextOf(s, tail))
<1>1. /\ s \in Clients /\ tail \in Names /\ s.obj[tail] \in Objects /\ s.obj[tail].ptr \in Names
      /\ TextOf(s, tail) \in Seq(Atoms) /\ n \in Names /\ n # tail
      /\ Front(s.reply) \in Seq(Names) /\ new \in Objects
  <2>1. s \in Clients /\ s.reply \in Seq(Names)
    BY DEF WellTyped, Clients
  <2>2. Front(s.reply) \in Seq(Names)
    BY <2>1, LastOfList
  <2>3. new \in Objects
    <3>1. n \in Names /\ 1 \in Int
      OBVIOUS
    <3> HIDE DEF n
    <3> QED BY <3>1 DEF Objects
  <2> QED BY <2>1, <2>2, <2>3, TailObject
<1>2. Creates(dup, s, n, TextOf(s, tail), "RAW")
  BY <1>1, CreatedIs
<1>3. Append(Front(s.reply), n) \in Seq(Names)
  BY <1>1
<1>4. dup \in Clients /\ dup.obj = [s.obj EXCEPT ![n] = new] /\ dup.sds = [s.sds EXCEPT ![n] = z]
      /\ dup.buf = s.buf /\ dup.reply = s.reply /\ dup.spoiled = s.spoiled
      /\ dup.watched = s.watched /\ dup.close = s.close
  <2> HIDE DEF dup, n
  <2> QED BY <1>2 DEF Creates
<1> DEFINE worn == [s.obj[tail] EXCEPT !.refcount = @ - 1, !.ptr = n]
           objs == [s.obj EXCEPT ![n] = new, ![tail] = worn]
<1>5. own \in Clients /\ own.obj = objs /\ own.sds = dup.sds
      /\ own.buf = s.buf /\ own.reply = Append(Front(s.reply), n) /\ own.spoiled = s.spoiled
      /\ own.watched = s.watched /\ own.close = s.close
  <2>1. dup.obj[tail] = s.obj[tail]
    <3> HIDE DEF dup, n, tail, new
    <3> QED BY <1>1, <1>4 DEF Clients
  <2>2. less \in Clients /\ less.obj = [dup.obj EXCEPT ![tail] = [s.obj[tail] EXCEPT !.refcount = @ - 1]]
        /\ less.sds = dup.sds
        /\ less.buf = s.buf /\ less.spoiled = s.spoiled
        /\ less.watched = s.watched /\ less.close = s.close
    <3>1. [s.obj[tail] EXCEPT !.refcount = @ - 1] \in Objects
      <4> HIDE DEF tail
      <4> QED BY <1>1 DEF Objects
    <3>2. less = [dup EXCEPT !.obj = [dup.obj EXCEPT ![tail] = [s.obj[tail] EXCEPT !.refcount = @ - 1]]]
      <4> HIDE DEF dup, tail
      <4> QED BY <1>1, <1>4, <2>1 DEF Referenced, Clients, Objects
    <3> HIDE DEF dup, tail, less
    <3> QED BY <1>1, <1>4, <3>1, <3>2 DEF Clients
  <2>3. worn \in Objects
    <3> DEFINE o == s.obj[tail]
    <3>1. o \in Objects /\ o.refcount - 1 \in Int /\ n \in Names
      <4> HIDE DEF n, tail
      <4> QED BY <1>1 DEF Objects
    <3>2. worn = [o EXCEPT !.refcount = @ - 1, !.ptr = n]
      OBVIOUS
    <3>3. [o EXCEPT !.refcount = @ - 1, !.ptr = n] \in Objects
      <4> HIDE DEF n, o, tail
      <4> QED BY <3>1 DEF Objects
    <3> HIDE DEF worn, o
    <3> QED BY <3>2, <3>3
  <2>4. objs = [less.obj EXCEPT ![tail] = worn] /\ objs \in [Names -> Objects]
    <3> HIDE DEF less, dup, n, tail, new, worn
    <3> QED BY <1>1, <1>4, <2>2, <2>3 DEF Clients
  <2>5. own = [less EXCEPT !.reply = Append(Front(s.reply), n), !.obj = objs]
    <3>1. [less.obj[tail] EXCEPT !.ptr = n] = worn
      <4> HIDE DEF less, dup, n, tail, new
      <4> QED BY <1>1, <1>4, <2>2 DEF Clients, Objects
    <3> HIDE DEF less, dup, n, tail, new, objs, worn
    <3> QED BY <1>1, <2>2, <2>4, <3>1 DEF Clients
  <2> HIDE DEF own, less, dup, n, tail, new, objs, worn
  <2> QED BY <1>3, <2>2, <2>4, <2>5 DEF Clients
<1>6. own.obj[tail].ptr = n
  <2>1. worn.ptr = n
    <3> HIDE DEF n, tail
    <3> QED BY <1>1 DEF Objects
  <2> HIDE DEF own, n, tail, new, worn
  <2> QED BY <1>1, <1>5, <2>1 DEF Clients
<1>7. ASSUME TailShared(s) PROVE Duplicates(Merged(s, text), s, n, text)
  <2> DEFINE x == sdscatlen(z, text)
             ext == extended(own)
             t == Spoiled(ext, "shared tail")
  <2>1. z \in Strings /\ x \in Strings
    <3>1. z \in Strings /\ z.size > Len(z.text) + z.free
      <4> HIDE DEF tail
      <4> QED BY <1>1, NewString
    <3> HIDE DEF z
    <3> QED BY <3>1, CatKeeps
  <2>2. own.sds[n] = z /\ own.sds = [s.sds EXCEPT ![n] = z]
    <3> HIDE DEF own, dup, n, z
    <3> QED BY <1>1, <1>4, <1>5 DEF Clients
  <2>3. ext = [own EXCEPT !.sds = [s.sds EXCEPT ![n] = x]]
    <3>1. ext = [own EXCEPT !.sds = [own.sds EXCEPT ![n] = x]]
      <4> HIDE DEF own, n, tail, z
      <4> QED BY <1>5, <1>6, <2>2 DEF Clients
    <3> HIDE DEF own, n, z, x, ext
    <3> QED BY <1>1, <2>2, <3>1 DEF Clients
  <2>4. ext \in Clients /\ ext.obj = own.obj /\ ext.sds = [s.sds EXCEPT ![n] = x]
        /\ ext.buf = own.buf /\ ext.reply = own.reply /\ ext.spoiled = own.spoiled
        /\ ext.watched = own.watched /\ ext.close = own.close
    <3> HIDE DEF own, n, x, ext
    <3> QED BY <1>1, <1>5, <2>1, <2>3 DEF Clients
  <2>5. t \in Clients /\ t.obj = ext.obj /\ t.sds = ext.sds /\ t.buf = ext.buf
        /\ t.reply = ext.reply /\ t.spoiled = ext.spoiled \cup {"shared tail"}
        /\ t.watched = ext.watched /\ t.close = ext.close
    <3> HIDE DEF ext
    <3> QED BY <2>4 DEF Spoiled, Clients, Causes
  <2>6. Merged(s, text) = t
    BY <1>7 DEF Merged
  <2> HIDE DEF t, ext, own
  <2> QED BY <1>5, <2>4, <2>5, <2>6 DEF Duplicates
<1>8. ASSUME ~TailShared(s) PROVE Extends(Merged(s, text), s, s.obj[tail].ptr, text)
  <2>1. Merged(s, text) = [s EXCEPT !.sds[s.obj[tail].ptr] = sdscatlen(@, text)]
    BY <1>8 DEF Merged
  <2> HIDE DEF tail
  <2> QED BY <1>1, <2>1, ExtendedIs
<1> QED BY <1>7, <1>8

-----------------------------------------------------------------------------
\* The bytes that wait in the list.
Texts(s) == [i \in DOMAIN s.reply |-> TextOf(s, s.reply[i])]

\* The texts of the list, and the bytes that are pending.
LEMMA ListedTexts ==
  ASSUME NEW s \in Clients
  PROVE  /\ Texts(s) \in Seq(Seq(Atoms)) /\ Len(Texts(s)) = Len(s.reply)
         /\ \A i \in 1 .. Len(s.reply) : Texts(s)[i] = TextOf(s, s.reply[i])
         /\ \A n \in Names : TextOf(s, n) \in Seq(Atoms)
         /\ FlattenSeq(Texts(s)) \in Seq(Atoms) /\ PendingBytes(s) = s.buf \o FlattenSeq(Texts(s))
         /\ PendingBytes(s) \in Seq(Atoms)
<1>1. s.reply \in Seq(Names) /\ s.buf \in Seq(Atoms) /\ s.obj \in [Names -> Objects] /\ s.sds \in [Names -> Strings]
  BY DEF Clients
<1>2. ASSUME NEW n \in Names PROVE TextOf(s, n) \in Seq(Atoms)
  <2>1. s.obj[n] \in Objects
    BY <1>1
  <2>2. s.obj[n].ptr \in Names
    BY <2>1 DEF Objects
  <2>3. s.sds[s.obj[n].ptr] \in Strings
    BY <1>1, <2>2
  <2> QED BY <2>3 DEF TextOf, Strings
<1>3. DOMAIN s.reply = 1 .. Len(s.reply) /\ Len(s.reply) \in Nat /\ \A i \in 1 .. Len(s.reply) : s.reply[i] \in Names
  BY <1>1
<1>4. \A i \in 1 .. Len(s.reply) : TextOf(s, s.reply[i]) \in Seq(Atoms)
  BY <1>2, <1>3
<1>5. Texts(s) = [i \in 1 .. Len(s.reply) |-> TextOf(s, s.reply[i])]
  BY <1>3 DEF Texts
<1>6. Texts(s) \in Seq(Seq(Atoms)) /\ Len(Texts(s)) = Len(s.reply)
  BY <1>3, <1>4, <1>5
<1>7. FlattenSeq(Texts(s)) \in Seq(Atoms)
  BY <1>6, FlattenType
<1>8. PendingBytes(s) = s.buf \o FlattenSeq(Texts(s))
  BY DEF PendingBytes, Texts
<1>9. PendingBytes(s) \in Seq(Atoms)
  BY <1>1, <1>7, <1>8, ConcatProperties
<1> QED BY <1>2, <1>5, <1>6, <1>7, <1>8, <1>9

\* Text that joins the list at its end joins the pending bytes at their end.
LEMMA PendingGrows ==
  ASSUME NEW s \in Clients, NEW t \in Clients, t.buf = s.buf, NEW text \in Seq(Atoms),
         FlattenSeq(Texts(t)) = FlattenSeq(Texts(s)) \o text
  PROVE  PendingBytes(t) = PendingBytes(s) \o text
<1>0. \A x, y, z \in Seq(Atoms) : (x \o y) \o z = x \o (y \o z)
  BY Regroup
<1>1. /\ FlattenSeq(Texts(s)) \in Seq(Atoms) /\ s.buf \in Seq(Atoms)
      /\ PendingBytes(s) = s.buf \o FlattenSeq(Texts(s))
      /\ PendingBytes(t) = t.buf \o FlattenSeq(Texts(t))
  BY ListedTexts DEF Clients
<1> DEFINE f == FlattenSeq(Texts(s))
<1>2. (s.buf \o f) \o text = s.buf \o (f \o text)
  <2> HIDE DEF f
  <2> QED BY <1>0, <1>1 DEF f
<1> QED BY <1>1, <1>2

\* A text of the size that Mergeable allows has a header.
LEMMA ShortHeaded ==
  ASSUME NEW text \in Seq(Atoms), Len(text) <= REDIS_REPLY_CHUNK_BYTES
  PROVE  HeaderKnown(text)
<1>1. Len(text) \in Nat /\ REDIS_SHARED_BULKHDR_LEN \in Nat /\ REDIS_REPLY_CHUNK_BYTES \in Nat
  BY ReplyAssumption
<1>2. Len(text) < REDIS_SHARED_BULKHDR_LEN \/ Len(text) \in REDIS_SHARED_BULKHDR_LEN .. REDIS_REPLY_CHUNK_BYTES
  BY <1>1
<1> QED BY <1>2, ReplyAssumption DEF HeaderKnown

\* An unshared object at the end of the list is extended in place.
LEMMA ExtendsGood ==
  ASSUME NEW s, NEW H, NEW k, NEW bytes, Good(s, H, k, bytes), Permanent \subseteq H, s.reply # <<>>,
         ~TailShared(s), NEW text \in Seq(Atoms), Mergeable(s, text),
         NEW t, Extends(t, s, s.obj[Last(s.reply)].ptr, text)
  PROVE  Good(t, H, k, bytes \o text)
<1> DEFINE tail == Last(s.reply)
           p == s.obj[tail].ptr
           z == sdscatlen(s.sds[p], text)
<1>1. /\ s \in Clients /\ t \in Clients /\ t.obj = s.obj /\ t.buf = s.buf /\ t.reply = s.reply
      /\ t.spoiled = s.spoiled /\ t.sds = [s.sds EXCEPT ![p] = z]
      /\ Len(s.buf) <= REDIS_REPLY_CHUNK_BYTES /\ IntsStored(s) /\ Allocated(s) /\ Headed(s)
  BY DEF Good, WellTyped, Extends
<1>2. tail \in Names /\ p \in Names /\ s.sds[p] \in Strings /\ TextOf(s, tail) = s.sds[p].text
  BY TailObject DEF Good, TextOf
<1>3. z \in Strings /\ z.text = s.sds[p].text \o text /\ z.size > Len(z.text) + z.free
  <2>1. s.sds[p].size > Len(s.sds[p].text) + s.sds[p].free
    BY <1>1, <1>2 DEF Allocated
  <2> HIDE DEF p
  <2> QED BY <1>2, <2>1, CatKeeps
<1>4. \A n \in Names : t.sds[n] = IF n = p THEN z ELSE s.sds[n]
  <2> HIDE DEF z, p
  <2> QED BY <1>1, <1>2 DEF Clients
<1>5. Len(z.text) <= REDIS_REPLY_CHUNK_BYTES
  <2>1. Len(TextOf(s, tail)) + Len(text) <= REDIS_REPLY_CHUNK_BYTES
    BY DEF Mergeable
  <2>2. s.sds[p].text \in Seq(Atoms)
    <3> HIDE DEF p
    <3> QED BY <1>2 DEF Strings
  <2>3. Len(s.sds[p].text \o text) = Len(s.sds[p].text) + Len(text)
    BY <2>2, ConcatProperties
  <2> HIDE DEF z, p, tail
  <2> QED BY <1>2, <1>3, <2>1, <2>3
<1>6. WellTyped(t)
  <2>1. Allocated(t)
    <3> HIDE DEF z, p
    <3> QED BY <1>1, <1>3, <1>4 DEF Allocated
  <2>2. IntsStored(t)
    BY <1>1 DEF IntsStored
  <2>3. ASSUME NEW n \in DOMAIN StoredText PROVE HeaderKnown(TextOf(t, n))
    <3>1. n \in Names /\ HeaderKnown(TextOf(s, n))
      BY <1>1 DEF Headed, Names, Permanent
    <3>2. s.obj[n].ptr \in Names
      <4>1. s.obj[n] \in Objects
        BY <1>1, <3>1 DEF Clients
      <4> QED BY <4>1 DEF Objects
    <3>3. TextOf(t, n) = IF s.obj[n].ptr = p THEN z.text ELSE TextOf(s, n)
      <4> HIDE DEF z, p
      <4> QED BY <1>1, <1>4, <3>2 DEF TextOf
    <3>4. HeaderKnown(z.text)
      <4> HIDE DEF z
      <4> QED BY <1>3, <1>5, ShortHeaded DEF Strings
    <3> HIDE DEF z, p
    <3> QED BY <3>1, <3>3, <3>4
  <2> QED BY <1>1, <2>1, <2>2, <2>3 DEF WellTyped, Headed
<1>7. Counted(t, H)
  BY <1>1 DEF Good, Counted
<1>8. Room(t, k)
  BY <1>1 DEF Good, Room, Free
<1>9. ASSUME t.spoiled = {} PROVE Untouched(t) /\ PendingBytes(t) = bytes \o text
  <2>1. Untouched(s) /\ PendingBytes(s) = bytes
    BY <1>1, <1>9 DEF Good, Intact
  <2>2. p = tail /\ \A n \in Names : s.obj[n].ptr = n /\ t.obj[n].ptr = n
    <3> HIDE DEF tail
    <3> QED BY <1>1, <1>2, <2>1 DEF Untouched
  <2>3. s.reply \in Seq(Names)
    BY <1>1 DEF Clients
  <2>4. Count(s.reply, tail) <= 1 /\ tail \notin H
    <3>1. s.obj[tail].refcount = Count(s.reply, tail) + (IF tail \in H THEN 1 ELSE 0)
      <4> HIDE DEF tail
      <4> QED BY <1>2 DEF Good, Counted
    <3>2. s.obj[tail].refcount <= 1 /\ s.obj[tail].refcount \in Int
      <4>1. s.obj[tail].refcount \in Int
        <5> HIDE DEF tail
        <5>1. s.obj[tail] \in Objects
          BY <1>1, <1>2 DEF Clients
        <5> QED BY <5>1 DEF Objects
      <4> QED BY <4>1 DEF TailShared
    <3>3. Count(s.reply, tail) \in Nat /\ Count(s.reply, tail) > 0
      <4>1. Len(s.reply) \in 1 .. Len(s.reply) /\ tail = s.reply[Len(s.reply)]
        BY <2>3, LastOfList
      <4>2. DOMAIN s.reply = 1 .. Len(s.reply)
        BY <2>3
      <4> HIDE DEF tail
      <4> QED BY <2>3, <4>1, <4>2, CountNat
    <3> HIDE DEF tail
    <3> QED BY <3>1, <3>2, <3>3
  <2>5. \A i \in 1 .. Len(s.reply) - 1 : s.reply[i] # tail
    BY <2>3, <2>4, CountOnce
  <2>6. Untouched(t)
    <3>1. tail \notin Permanent
      BY <2>4
    <3>2. ASSUME NEW n \in Permanent PROVE t.sds[n].text = Text0(n)
      <4>1. n \in Names /\ n # p
        <5> HIDE DEF p, tail
        <5> QED BY <2>2, <3>1 DEF Names
      <4> HIDE DEF p, z
      <4> QED BY <1>4, <2>1, <4>1 DEF Untouched
    <3> QED BY <2>2, <3>2 DEF Untouched
  <2>7. FlattenSeq(Texts(t)) = FlattenSeq(Texts(s)) \o text
    <3> DEFINE q == Texts(s)
               r == Texts(t)
               n == Len(s.reply)
    <3>1. q \in Seq(Seq(Atoms)) /\ r \in Seq(Seq(Atoms)) /\ Len(q) = n /\ Len(r) = n /\ n \in Nat \ {0}
      <4>1. n \in Nat \ {0}
        BY <2>3
      <4> QED BY <1>1, <4>1, ListedTexts
    <3>2. \A i \in 1 .. n : q[i] = s.sds[s.reply[i]].text /\ r[i] = t.sds[s.reply[i]].text /\ s.reply[i] \in Names
      <4>1. \A i \in 1 .. n : s.reply[i] \in Names
        BY <2>3
      <4>2. \A i \in 1 .. n : q[i] = TextOf(s, s.reply[i]) /\ r[i] = TextOf(t, t.reply[i])
        BY <1>1, ListedTexts
      <4> HIDE DEF q, r, n
      <4> QED BY <1>1, <2>2, <4>1, <4>2 DEF TextOf
    <3>3. q # <<>> /\ r # <<>>
      <4> HIDE DEF q, r, n
      <4>1. Len(<<>>) = 0
        OBVIOUS
      <4> QED BY <3>1, <4>1
    <3>4. s.reply[n] = tail
      BY <2>3, LastOfList
    <3> HIDE DEF n
    <3>5. \A i \in 1 .. n - 1 : r[i] = q[i]
      <4>1. \A i \in 1 .. n - 1 : i \in 1 .. n
        BY <3>1
      <4>2. \A i \in 1 .. n - 1 : s.reply[i] # tail
        BY <2>5 DEF n
      <4> HIDE DEF q, r, z, p, tail
      <4> QED BY <1>4, <2>2, <3>2, <4>1, <4>2
    <3>6. r[n] = q[n] \o text /\ q[n] \in Seq(Atoms)
      <4>1. n \in 1 .. n
        BY <3>1
      <4> HIDE DEF q, r, z, p, tail
      <4>2. q[n] = s.sds[p].text /\ r[n] = t.sds[p].text /\ p \in Names
        BY <1>2, <2>2, <3>2, <3>4, <4>1
      <4>3. r[n] = q[n] \o text
        BY <1>3, <1>4, <4>2
      <4> QED BY <3>1, <4>1, <4>3
    <3> HIDE DEF q, r
    <3> DEFINE f == Front(q)
    <3>7. /\ f \in Seq(Seq(Atoms)) /\ q = Append(f, q[n]) /\ Len(f) = n - 1
          /\ \A i \in 1 .. n - 1 : f[i] = q[i]
      BY <3>1, <3>3, LastOfList
    <3>8. Front(r) \in Seq(Seq(Atoms)) /\ r = Append(Front(r), r[n]) /\ Len(Front(r)) = n - 1
          /\ \A i \in 1 .. n - 1 : Front(r)[i] = r[i]
      BY <3>1, <3>3, LastOfList
    <3>9. Front(r) = f
      <4> HIDE DEF f
      <4>1. \A i \in 1 .. Len(f) : f[i] = Front(r)[i]
        BY <3>5, <3>7, <3>8
      <4> QED BY <3>7, <3>8, <4>1, SeqEqual
    <3> HIDE DEF f
    <3>10. FlattenSeq(q) = FlattenSeq(f) \o q[n] /\ FlattenSeq(f) \in Seq(Atoms)
      <4>1. FlattenSeq(Append(f, q[n])) = FlattenSeq(f) \o q[n]
        BY <3>6, <3>7, FlattenAppend
      <4> QED BY <3>7, <4>1, FlattenType
    <3>11. q[n] \o text \in Seq(Atoms)
      BY <3>6, ConcatProperties
    <3>12. FlattenSeq(r) = FlattenSeq(f) \o (q[n] \o text)
      <4>1. FlattenSeq(Append(f, q[n] \o text)) = FlattenSeq(f) \o (q[n] \o text)
        BY <3>7, <3>11, FlattenAppend
      <4> QED BY <3>6, <3>8, <3>9, <4>1
    <3> DEFINE g == FlattenSeq(f)
    <3>13. (g \o q[n]) \o text = g \o (q[n] \o text)
      <4>1. \A x, y, w \in Seq(Atoms) : (x \o y) \o w = x \o (y \o w)
        BY Regroup
      <4> HIDE DEF g
      <4> QED BY <3>6, <3>10, <4>1 DEF g
    <3> QED BY <3>10, <3>12, <3>13 DEF q, r
  <2>8. PendingBytes(t) = PendingBytes(s) \o text
    BY <1>1, <2>7, PendingGrows
  <2> QED BY <2>1, <2>6, <2>8
<1> QED BY <1>6, <1>7, <1>8, <1>9 DEF Good, Intact

-----------------------------------------------------------------------------
\* A shared object at the end of the list gives its reference to a duplicate.
LEMMA DuplicatesGood ==
  ASSUME NEW s, NEW H, NEW k \in Nat, NEW bytes, Good(s, H, k + 1, bytes), s.reply # <<>>,
         TailShared(s), NEW text \in Seq(Atoms), Mergeable(s, text),
         NEW t, Duplicates(t, s, NewName(s), text), NEW any
  PROVE  Good(t, H, k, any) /\ NewName(s) # Last(s.reply)
<1> DEFINE n == NewName(s)
           tail == Last(s.reply)
           z == sdscatlen(sdsnewlen(TextOf(s, tail)), text)
           f == Front(s.reply)
<1>1. /\ s \in Clients /\ t \in Clients /\ t.buf = s.buf /\ t.reply = Append(f, n)
      /\ t.obj = [s.obj EXCEPT ![n] = [ptr |-> n, encoding |-> "RAW", refcount |-> 1],
                               ![tail] = [s.obj[tail] EXCEPT !.refcount = @ - 1, !.ptr = n]]
      /\ t.sds = [s.sds EXCEPT ![n] = z] /\ t.spoiled = s.spoiled \cup {"shared tail"}
      /\ Len(s.buf) <= REDIS_REPLY_CHUNK_BYTES /\ IntsStored(s) /\ Allocated(s) /\ Headed(s)
  BY DEF Good, WellTyped, Duplicates
<1>2. /\ n \in Free(s) /\ n \in Names /\ n \notin Permanent
      /\ s.obj[n].refcount = 0 /\ n \notin H /\ Count(s.reply, n) = 0
      /\ \A m \in Names \ {n} : s.obj[m].ptr # n
      /\ \A i \in DOMAIN s.reply : s.reply[i] # n
  BY FreeName DEF Good
<1>3. tail \in Names /\ s.obj[tail] \in Objects /\ TextOf(s, tail) \in Seq(Atoms)
  BY TailObject DEF Good
<1>4. s.obj[tail].refcount > 1
  BY DEF TailShared
<1>5. n # tail
  <2> HIDE DEF n, tail
  <2> QED BY <1>2, <1>4
<1>6. /\ \A m \in Names : t.obj[m].encoding = IF m = n THEN "RAW" ELSE s.obj[m].encoding
      /\ \A m \in Names : t.obj[m].ptr = IF m \in {n, tail} THEN n ELSE s.obj[m].ptr
      /\ \A m \in Names : t.obj[m].refcount = IF m = n THEN 1 ELSE
                                              IF m = tail THEN s.obj[m].refcount - 1 ELSE s.obj[m].refcount
      /\ \A m \in Names : t.sds[m] = IF m = n THEN z ELSE s.sds[m]
  <2>1. s.obj \in [Names -> Objects] /\ s.sds \in [Names -> Strings]
    BY <1>1 DEF Clients
  <2> DEFINE new == [ptr |-> n, encoding |-> "RAW", refcount |-> 1]
             worn == [s.obj[tail] EXCEPT !.refcount = @ - 1, !.ptr = n]
  <2>2. worn.ptr = n /\ worn.refcount = s.obj[tail].refcount - 1 /\ worn.encoding = s.obj[tail].encoding
    <3> HIDE DEF n, tail
    <3> QED BY <1>3 DEF Objects
  <2>3. \A m \in Names : t.obj[m] = IF m = tail THEN worn ELSE IF m = n THEN new ELSE s.obj[m]
    <3> HIDE DEF n, tail, new, worn
    <3>1. t.obj = [s.obj EXCEPT ![n] = new, ![tail] = worn]
      BY <1>1 DEF new, worn
    <3> QED BY <2>1, <3>1
  <2>4. new.ptr = n /\ new.refcount = 1 /\ new.encoding = "RAW"
    OBVIOUS
  <2>5. \A m \in Names : t.sds[m] = IF m = n THEN z ELSE s.sds[m]
    <3> HIDE DEF n, z
    <3> QED BY <1>1, <2>1
  <2> HIDE DEF n, tail, new, worn, z
  <2> QED BY <1>5, <2>2, <2>3, <2>4, <2>5
<1>7. z \in Strings /\ z.text = TextOf(s, tail) \o text /\ z.size > Len(z.text) + z.free
  <2> DEFINE x == sdsnewlen(TextOf(s, tail))
  <2>1. x \in Strings /\ x.text = TextOf(s, tail) /\ x.size > Len(x.text) + x.free
    <3> HIDE DEF tail
    <3> QED BY <1>3, NewString
  <2> HIDE DEF x
  <2>2. sdscatlen(x, text) \in Strings /\ sdscatlen(x, text).text = x.text \o text
        /\ sdscatlen(x, text).size > Len(sdscatlen(x, text).text) + sdscatlen(x, text).free
    BY <2>1, CatKeeps
  <2> QED BY <2>1, <2>2 DEF x
<1>8. HeaderKnown(z.text)
  <2>1. Len(TextOf(s, tail)) + Len(text) <= REDIS_REPLY_CHUNK_BYTES
    BY DEF Mergeable
  <2>2. Len(TextOf(s, tail) \o text) = Len(TextOf(s, tail)) + Len(text) /\ TextOf(s, tail) \o text \in Seq(Atoms)
    <3> HIDE DEF tail
    <3> QED BY <1>3, ConcatProperties
  <2> HIDE DEF z, tail
  <2> QED BY <1>7, <2>1, <2>2, ShortHeaded
<1>9. f \in Seq(Names) /\ s.reply = Append(f, tail)
  <2>1. s.reply \in Seq(Names)
    BY <1>1 DEF Clients
  <2> QED BY <2>1, LastOfList
<1> HIDE DEF n, tail, z, f
<1>10. WellTyped(t)
  <2>1. Allocated(t)
    BY <1>1, <1>6, <1>7 DEF Allocated
  <2>2. IntsStored(t)
    BY <1>1, <1>6 DEF IntsStored
  <2>3. ASSUME NEW m \in DOMAIN StoredText PROVE HeaderKnown(TextOf(t, m))
    <3>1. m \in Names /\ m \in Permanent /\ HeaderKnown(TextOf(s, m))
      BY <1>1 DEF Headed, Names, Permanent
    <3>2. s.obj[m].ptr \in Names /\ m # n
      <4>1. s.obj[m] \in Objects
        BY <1>1, <3>1 DEF Clients
      <4> QED BY <1>2, <3>1, <4>1 DEF Objects
    <3>3. TextOf(t, m) = IF m = tail THEN z.text ELSE TextOf(s, m)
      BY <1>2, <1>6, <3>1, <3>2 DEF TextOf
    <3> QED BY <1>8, <3>1, <3>3
  <2> QED BY <1>1, <2>1, <2>2, <2>3 DEF WellTyped, Headed
<1>11. Counted(t, H)
  <2>1. ASSUME NEW m \in Names
        PROVE  t.obj[m].refcount = Count(t.reply, m) + (IF m \in H THEN 1 ELSE 0)
    <3>1. s.obj[m].refcount = Count(s.reply, m) + (IF m \in H THEN 1 ELSE 0)
      BY DEF Good, Counted
    <3>2. Count(s.reply, m) = Count(f, m) + (IF m = tail THEN 1 ELSE 0)
      BY <1>3, <1>9, CountAppend
    <3>3. Count(t.reply, m) = Count(f, m) + (IF m = n THEN 1 ELSE 0)
      <4>1. Count(Append(f, n), m) = Count(f, m) + (IF m = n THEN 1 ELSE 0)
        BY <1>2, <1>9, CountAppend
      <4>2. t.reply = Append(f, n)
        BY <1>1 DEF f, n
      <4> QED BY <4>1, <4>2
    <3>4. Count(f, m) \in Nat
      BY <1>9, CountNat
    <3>5. CASE m = n
      <4>1. Count(f, m) = 0
        BY <1>2, <1>5, <3>2, <3>4, <3>5
      <4>2. t.obj[m].refcount = 1 /\ m \notin H
        BY <1>2, <1>6, <3>5
      <4> QED BY <3>3, <3>5, <4>1, <4>2
    <3>6. CASE m = tail
      <4>1. t.obj[m].refcount = s.obj[m].refcount - 1 /\ m # n
        BY <1>5, <1>6, <3>6
      <4> QED BY <3>1, <3>2, <3>3, <3>4, <3>6, <4>1
    <3>7. CASE m # n /\ m # tail
      <4>1. t.obj[m].refcount = s.obj[m].refcount
        BY <1>6, <3>7
      <4> QED BY <3>1, <3>2, <3>3, <3>4, <3>7, <4>1
    <3> QED BY <3>5, <3>6, <3>7
  <2> QED BY <2>1 DEF Counted
<1>12. Room(t, k)
  <2>1. ASSUME NEW m \in Free(s) \ {n} PROVE m \in Free(t)
    <3>1. m \in Fresh /\ m \in Names /\ m # n /\ s.obj[m].refcount = 0 /\ \A x \in Names \ {m} : s.obj[x].ptr # m
      BY DEF Free, Names
    <3>2. m # tail
      BY <1>4, <3>1
    <3>3. t.obj[m].refcount = 0
      BY <1>6, <3>1, <3>2
    <3>4. \A x \in Names \ {m} : t.obj[x].ptr # m
      BY <1>6, <3>1
    <3> QED BY <3>1, <3>3, <3>4 DEF Free
  <2>2. Room(s, k + 1)
    BY DEF Good
  <2> QED BY <2>1, <2>2, RoomTaken
<1>13. Intact(t, any)
  BY <1>1 DEF Intact
<1> QED BY <1>5, <1>10, <1>11, <1>12, <1>13 DEF Good, n, tail

\* Extending the last object of the list, whoever else holds it.
LEMMA MergedGood ==
  ASSUME NEW s, NEW H, NEW k \in Nat, NEW bytes, Good(s, H, k + 1, bytes), Permanent \subseteq H,
         s.reply # <<>>, NEW text \in Seq(Atoms), Mergeable(s, text)
  PROVE  /\ Good(Merged(s, text), H, k, bytes \o text)
         /\ s.spoiled \subseteq Merged(s, text).spoiled
<1> DEFINE t == Merged(s, text)
           n == NewName(s)
<1>1. WellTyped(s) /\ Room(s, k + 1) /\ Counted(s, H)
  BY DEF Good
<1>2. n \in Names /\ s.obj[n].refcount = 0
  BY <1>1, FreeName
<1>3. CASE TailShared(s)
  <2>1. n # Last(s.reply)
    BY <1>2, <1>3 DEF TailShared
  <2>2. Duplicates(t, s, n, text)
    BY <1>1, <1>2, <1>3, <2>1, MergedIs
  <2>3. Good(t, H, k, bytes \o text)
    <3> HIDE DEF t
    <3> QED BY <1>3, <2>2, DuplicatesGood
  <2> QED BY <2>2, <2>3 DEF Duplicates
<1>4. CASE ~TailShared(s)
  <2>1. Extends(t, s, s.obj[Last(s.reply)].ptr, text)
    <3>1. Merged(s, text) = [s EXCEPT !.sds[s.obj[Last(s.reply)].ptr] = sdscatlen(@, text)]
      BY <1>4 DEF Merged
    <3>2. s.obj[Last(s.reply)].ptr \in Names
      BY <1>1, TailObject
    <3> QED BY <1>1, <3>1, <3>2, ExtendedIs
  <2>2. Good(s, H, k, bytes)
    BY <1>1, RoomLess DEF Good
  <2>3. Good(t, H, k, bytes \o text)
    <3> HIDE DEF t
    <3> QED BY <1>4, <2>1, <2>2, ExtendsGood
  <2> QED BY <2>1, <2>3 DEF Extends
<1> QED BY <1>3, <1>4

-----------------------------------------------------------------------------
\* A node that joins the list brings the text of its object.
LEMMA NodeGrows ==
  ASSUME NEW s \in Clients, NEW t \in Clients, NEW o \in Names, t.buf = s.buf,
         t.reply = Append(s.reply, o),
         \A i \in 1 .. Len(s.reply) : TextOf(t, s.reply[i]) = TextOf(s, s.reply[i])
  PROVE  PendingBytes(t) = PendingBytes(s) \o TextOf(t, o)
<1> DEFINE q == Texts(s)
           r == Texts(t)
           x == TextOf(t, o)
           n == Len(s.reply)
<1>1. /\ q \in Seq(Seq(Atoms)) /\ Len(q) = n /\ \A i \in 1 .. n : q[i] = TextOf(s, s.reply[i])
      /\ r \in Seq(Seq(Atoms)) /\ Len(r) = Len(t.reply)
      /\ \A i \in 1 .. Len(t.reply) : r[i] = TextOf(t, t.reply[i])
      /\ x \in Seq(Atoms)
  BY ListedTexts
<1>2. /\ Len(t.reply) = n + 1 /\ n \in Nat
      /\ \A i \in 1 .. n : t.reply[i] = s.reply[i]
      /\ t.reply[n + 1] = o
  <2>1. s.reply \in Seq(Names)
    BY DEF Clients
  <2> QED BY <2>1, AppendProperties
<1> DEFINE a == Append(q, x)
<1>3. a \in Seq(Seq(Atoms)) /\ Len(a) = n + 1 /\ (\A i \in 1 .. n : a[i] = q[i]) /\ a[n + 1] = x
  <2> HIDE DEF q, x, n
  <2> QED BY <1>1, AppendProperties
<1>4. r = a
  <2> HIDE DEF q, r, n, a
  <2>1. \A i \in 1 .. n + 1 : i \in 1 .. n \/ i = n + 1
    BY <1>2
  <2>2. \A i \in 1 .. Len(r) : r[i] = a[i]
    BY <1>1, <1>2, <1>3, <2>1 DEF n
  <2> QED BY <1>1, <1>2, <1>3, <2>2, SeqEqual
<1>5. FlattenSeq(r) = FlattenSeq(q) \o x
  <2> HIDE DEF q, r, x
  <2> QED BY <1>1, <1>4, FlattenAppend
<1> QED BY <1>1, <1>5, PendingGrows

Listed(s, n, count) == [s EXCEPT !.reply = Append(@, n), !.reply_bytes = count]

\* A reply that gets an object of its own in the list.
LEMMA NewNodeGood ==
  ASSUME NEW s, NEW H, NEW k \in Nat, NEW bytes, Good(s, H, k + 1, bytes), Permanent \subseteq H,
         NEW text \in Seq(Atoms), NEW encoding \in {"RAW", "EMBSTR"},
         NEW new, Creates(new, s, NewName(s), text, encoding), NEW count \in Int
  PROVE  /\ Good(Listed(new, NewName(s), count), H, k, bytes \o text)
         /\ Listed(new, NewName(s), count).spoiled = s.spoiled
<1> DEFINE n == NewName(s)
           z == sdsnewlen(text)
           o == [ptr |-> n, encoding |-> encoding, refcount |-> 1]
           t == [new EXCEPT !.reply = Append(@, n), !.reply_bytes = count]
<1>1. /\ s \in Clients /\ new \in Clients /\ new.buf = s.buf /\ new.reply = s.reply /\ new.spoiled = s.spoiled
      /\ new.obj = [s.obj EXCEPT ![n] = o] /\ new.sds = [s.sds EXCEPT ![n] = z]
      /\ Len(s.buf) <= REDIS_REPLY_CHUNK_BYTES /\ IntsStored(s) /\ Allocated(s) /\ Headed(s)
  BY DEF Good, WellTyped, Creates
<1>2. /\ n \in Free(s) /\ n \in Names /\ n \notin Permanent
      /\ s.obj[n].refcount = 0 /\ n \notin H /\ Count(s.reply, n) = 0
      /\ \A m \in Names \ {n} : s.obj[m].ptr # n
      /\ \A i \in DOMAIN s.reply : s.reply[i] # n
  BY FreeName DEF Good
<1>3. /\ t \in Clients /\ t.buf = s.buf /\ t.reply = Append(s.reply, n) /\ t.spoiled = s.spoiled
      /\ t.obj = new.obj /\ t.sds = new.sds
  <2>1. Append(s.reply, n) \in Seq(Names)
    <3>1. s.reply \in Seq(Names)
      BY <1>1 DEF Clients
    <3> QED BY <1>2, <3>1
  <2> HIDE DEF n
  <2> QED BY <1>1, <2>1 DEF Clients
<1>4. /\ \A m \in Names : t.obj[m] = IF m = n THEN o ELSE s.obj[m]
      /\ \A m \in Names : t.sds[m] = IF m = n THEN z ELSE s.sds[m]
  <2> HIDE DEF n, o, z, t
  <2> QED BY <1>1, <1>3 DEF Clients
<1>5. o.ptr = n /\ o.encoding = encoding /\ o.refcount = 1
  OBVIOUS
<1>6. z \in Strings /\ z.text = text /\ z.size > Len(z.text) + z.free
  BY NewString
<1>7. /\ \A m \in Names : s.obj[m] \in Objects /\ s.obj[m].ptr \in Names
      /\ s.reply \in Seq(Names)
  BY <1>1 DEF Clients, Objects
<1> HIDE DEF n, o, z, t
<1>8. \A m \in Names \ {n} : TextOf(t, m) = TextOf(s, m)
  BY <1>2, <1>4, <1>7 DEF TextOf
<1>9. TextOf(t, n) = text
  BY <1>2, <1>4, <1>5, <1>6 DEF TextOf
<1>10. WellTyped(t)
  <2>1. Allocated(t)
    BY <1>1, <1>4, <1>6 DEF Allocated
  <2>2. IntsStored(t)
    BY <1>1, <1>4, <1>5 DEF IntsStored
  <2>3. Headed(t)
    BY <1>1, <1>2, <1>8 DEF Headed, Names, Permanent
  <2> QED BY <1>1, <1>3, <2>1, <2>2, <2>3 DEF WellTyped
<1>11. Counted(t, H)
  <2>1. ASSUME NEW m \in Names
        PROVE  t.obj[m].refcount = Count(t.reply, m) + (IF m \in H THEN 1 ELSE 0)
    <3>1. s.obj[m].refcount = Count(s.reply, m) + (IF m \in H THEN 1 ELSE 0)
      BY DEF Good, Counted
    <3>2. Count(t.reply, m) = Count(s.reply, m) + (IF m = n THEN 1 ELSE 0)
      <4>1. Count(Append(s.reply, n), m) = Count(s.reply, m) + (IF m = n THEN 1 ELSE 0)
        BY <1>2, <1>7, CountAppend
      <4> QED BY <1>3, <4>1
    <3>3. Count(s.reply, m) \in Nat
      BY <1>7, CountNat
    <3> QED BY <1>2, <1>4, <1>5, <3>1, <3>2, <3>3
  <2> QED BY <2>1 DEF Counted
<1>12. Room(t, k)
  <2>1. ASSUME NEW m \in Free(s) \ {n} PROVE m \in Free(t)
    <3>1. m \in Fresh /\ m \in Names /\ m # n /\ s.obj[m].refcount = 0 /\ \A x \in Names \ {m} : s.obj[x].ptr # m
      BY DEF Free, Names
    <3>2. t.obj[m].refcount = 0 /\ \A x \in Names \ {m} : t.obj[x].ptr # m
      BY <1>4, <1>5, <3>1
    <3> QED BY <3>1, <3>2 DEF Free
  <2>2. Room(s, k + 1)
    BY DEF Good
  <2> QED BY <2>1, <2>2, RoomTaken
<1>13. ASSUME t.spoiled = {} PROVE Untouched(t) /\ PendingBytes(t) = bytes \o text
  <2>1. Untouched(s) /\ PendingBytes(s) = bytes
    BY <1>3, <1>13 DEF Good, Intact
  <2>2. Untouched(t)
    <3>1. \A m \in Names : t.obj[m].ptr = m
      BY <1>4, <1>5, <2>1 DEF Untouched
    <3>2. \A m \in Permanent : t.sds[m].text = Text0(m)
      BY <1>2, <1>4, <2>1 DEF Untouched, Names
    <3> QED BY <3>1, <3>2 DEF Untouched
  <2>3. \A i \in 1 .. Len(s.reply) : TextOf(t, s.reply[i]) = TextOf(s, s.reply[i])
    <3>1. \A i \in 1 .. Len(s.reply) : s.reply[i] \in Names /\ i \in DOMAIN s.reply
      BY <1>7
    <3> QED BY <1>2, <1>8, <3>1
  <2>4. PendingBytes(t) = PendingBytes(s) \o TextOf(t, n)
    BY <1>1, <1>2, <1>3, <2>3, NodeGrows
  <2> QED BY <1>9, <2>1, <2>2, <2>4
<1>14. Good(t, H, k, bytes \o text)
  BY <1>10, <1>11, <1>12, <1>13 DEF Good, Intact
<1> QED BY <1>3, <1>14 DEF t, n, Listed

\* The client t is s with a number of references more, or less, to a name.
Refers(t, s, o, by) ==
  /\ t \in Clients /\ t.buf = s.buf /\ t.reply = s.reply /\ t.spoiled = s.spoiled
  /\ t.sds = s.sds /\ t.reply_bytes = s.reply_bytes /\ t.watched = s.watched /\ t.close = s.close
  /\ \A m \in Names :
       /\ t.obj[m].ptr = s.obj[m].ptr /\ t.obj[m].encoding = s.obj[m].encoding
       /\ t.obj[m].refcount = IF m = o THEN s.obj[m].refcount + by ELSE s.obj[m].refcount

\* Counting references changes the count of one object.
LEMMA ReferencedIs ==
  ASSUME NEW s \in Clients, NEW o \in Names, NEW by \in Int
  PROVE  Refers(Referenced(s, o, by), s, o, by)
<1> DEFINE w == [s.obj[o] EXCEPT !.refcount = @ + by]
           t == [s EXCEPT !.obj = [s.obj EXCEPT ![o] = w]]
<1>1. s.obj \in [Names -> Objects] /\ s.obj[o] \in Objects
  BY DEF Clients
<1>2. w \in Objects /\ w.ptr = s.obj[o].ptr /\ w.encoding = s.obj[o].encoding /\ w.refcount = s.obj[o].refcount + by
  <2> DEFINE x == s.obj[o]
  <2>1. x \in Objects /\ x.refcount + by \in Int
    BY <1>1 DEF Objects
  <2> HIDE DEF x
  <2>2. /\ [x EXCEPT !.refcount = @ + by] \in Objects
        /\ [x EXCEPT !.refcount = @ + by].ptr = x.ptr
        /\ [x EXCEPT !.refcount = @ + by].encoding = x.encoding
        /\ [x EXCEPT !.refcount = @ + by].refcount = x.refcount + by
    BY <2>1 DEF Objects
  <2> QED BY <2>2 DEF x
<1>3. Referenced(s, o, by) = t
  <2> HIDE DEF w
  <2> QED BY <1>1 DEF Referenced, Clients, w
<1>4. /\ t \in Clients /\ t.buf = s.buf /\ t.reply = s.reply /\ t.spoiled = s.spoiled
      /\ t.sds = s.sds /\ t.reply_bytes = s.reply_bytes /\ t.watched = s.watched /\ t.close = s.close
      /\ t.obj = [s.obj EXCEPT ![o] = w]
  <2> HIDE DEF w
  <2> QED BY <1>1, <1>2 DEF Clients
<1>5. \A m \in Names : t.obj[m] = IF m = o THEN w ELSE s.obj[m]
  <2> HIDE DEF w, t
  <2> QED BY <1>1, <1>4
<1> HIDE DEF w, t
<1> QED BY <1>2, <1>3, <1>4, <1>5 DEF Refers

-----------------------------------------------------------------------------
\* Two clients that differ in no object, no reply and no damage.
Alike(t, s) ==
  /\ t \in Clients /\ t.obj = s.obj /\ t.sds = s.sds /\ t.buf = s.buf /\ t.reply = s.reply
  /\ t.spoiled = s.spoiled

\* Clients that are alike are equally good.
LEMMA AlikeGood ==
  ASSUME NEW s, NEW H, NEW k, NEW bytes, Good(s, H, k, bytes), NEW t, Alike(t, s)
  PROVE  Good(t, H, k, bytes)
<1>1. /\ t \in Clients /\ t.obj = s.obj /\ t.sds = s.sds /\ t.buf = s.buf /\ t.reply = s.reply
      /\ t.spoiled = s.spoiled
  BY DEF Alike
<1>2. \A n : TextOf(t, n) = TextOf(s, n)
  BY <1>1 DEF TextOf
<1>3. WellTyped(t)
  BY <1>1, <1>2 DEF Good, WellTyped, IntsStored, Allocated, Headed
<1>4. Counted(t, H) /\ Room(t, k)
  BY <1>1 DEF Good, Counted, Room, Free
<1>5. PendingBytes(t) = PendingBytes(s)
  BY <1>1, <1>2 DEF PendingBytes
<1>6. Intact(t, bytes)
  BY <1>1, <1>5 DEF Good, Intact, Untouched
<1> QED BY <1>3, <1>4, <1>6 DEF Good

\* The size of reply_bytes, the write event and the flag for closing.
LEMMA CountersAlike ==
  ASSUME NEW s \in Clients
  PROVE  /\ \A x \in Int : Alike([s EXCEPT !.reply_bytes = @ + x], s)
         /\ \A x \in BOOLEAN : Alike([s EXCEPT !.watched = x], s) /\ Alike([s EXCEPT !.close = x], s)
<1>1. ASSUME NEW x \in Int PROVE Alike([s EXCEPT !.reply_bytes = @ + x], s)
  <2>1. s.reply_bytes + x \in Int
    BY DEF Clients
  <2> DEFINE y == s.reply_bytes + x
  <2>2. [s EXCEPT !.reply_bytes = @ + x] = [s EXCEPT !.reply_bytes = y]
    BY DEF Clients
  <2> HIDE DEF y
  <2>3. y \in Int
    BY <2>1 DEF y
  <2>4. Alike([s EXCEPT !.reply_bytes = y], s)
    BY <2>3 DEF Alike, Clients
  <2> QED BY <2>2, <2>4
<1>2. ASSUME NEW x \in BOOLEAN
      PROVE  Alike([s EXCEPT !.watched = x], s) /\ Alike([s EXCEPT !.close = x], s)
  BY DEF Alike, Clients
<1> QED BY <1>1, <1>2

\* The text of an object and the size of its string.
LEMMA SizeType ==
  ASSUME NEW s \in Clients, NEW o \in Names
  PROVE  SizeOf(s, o) \in Int /\ TextOf(s, o) \in Seq(Atoms) /\ Len(TextOf(s, o)) \in Int
<1>1. s.obj[o] \in Objects
  BY DEF Clients
<1>2. s.obj[o].ptr \in Names
  BY <1>1 DEF Objects
<1>3. s.sds[s.obj[o].ptr] \in Strings
  BY <1>2 DEF Clients
<1>4. SizeOf(s, o) \in Int /\ TextOf(s, o) \in Seq(Atoms)
  BY <1>3 DEF Strings, SizeOf, TextOf
<1> QED BY <1>4

\* An object that joins the list is held by one node more.
LEMMA AppendedGood ==
  ASSUME NEW s, NEW H, NEW k \in Nat, NEW bytes, Good(s, H, k, bytes), NEW o \in H, H \subseteq Names
  PROVE  /\ Good(ObjectAppended(s, o), H, k, bytes \o TextOf(s, o))
         /\ ObjectAppended(s, o).spoiled = s.spoiled
<1> DEFINE u == Referenced(s, o, 1)
           t == [u EXCEPT !.reply = Append(@, o), !.reply_bytes = @ + SizeOf(s, o)]
<1>1. /\ s \in Clients /\ Len(s.buf) <= REDIS_REPLY_CHUNK_BYTES /\ IntsStored(s) /\ Allocated(s) /\ Headed(s)
      /\ s.reply \in Seq(Names) /\ o \in Names
  BY DEF Good, WellTyped, Clients
<1>2. /\ u \in Clients /\ u.buf = s.buf /\ u.reply = s.reply /\ u.spoiled = s.spoiled
      /\ u.sds = s.sds /\ u.reply_bytes = s.reply_bytes
      /\ \A m \in Names :
           /\ u.obj[m].ptr = s.obj[m].ptr /\ u.obj[m].encoding = s.obj[m].encoding
           /\ u.obj[m].refcount = IF m = o THEN s.obj[m].refcount + 1 ELSE s.obj[m].refcount
  <2>1. Refers(u, s, o, 1)
    BY <1>1, ReferencedIs
  <2> HIDE DEF u
  <2> QED BY <2>1 DEF Refers
<1>3. t \in Clients /\ t.buf = s.buf /\ t.reply = Append(s.reply, o) /\ t.spoiled = s.spoiled
      /\ t.sds = s.sds /\ t.obj = u.obj
  <2> DEFINE y == u.reply_bytes + SizeOf(s, o)
             r == Append(s.reply, o)
  <2>1. y \in Int /\ r \in Seq(Names)
    <3>1. SizeOf(s, o) \in Int
      BY <1>1, SizeType
    <3>2. u.reply_bytes \in Int
      <4> HIDE DEF u
      <4> QED BY <1>2 DEF Clients
    <3> HIDE DEF u
    <3> QED BY <1>1, <3>1, <3>2
  <2>2. t = [u EXCEPT !.reply = r, !.reply_bytes = y]
    <3> HIDE DEF u
    <3> QED BY <1>2 DEF Clients
  <2> HIDE DEF y, r, u, t
  <2>3. t \in Clients /\ t.buf = u.buf /\ t.reply = r /\ t.spoiled = u.spoiled /\ t.sds = u.sds /\ t.obj = u.obj
    BY <1>2, <2>1, <2>2 DEF Clients
  <2> QED BY <1>2, <2>3 DEF r
<1>4. t = ObjectAppended(s, o)
  BY DEF ObjectAppended
<1> HIDE DEF t, u
<1>5. \A m \in Names : t.obj[m].ptr = s.obj[m].ptr /\ TextOf(t, m) = TextOf(s, m)
  BY <1>2, <1>3 DEF TextOf
<1>6. WellTyped(t)
  <2>1. Allocated(t) /\ IntsStored(t)
    BY <1>1, <1>2, <1>3 DEF Allocated, IntsStored
  <2>2. Headed(t)
    BY <1>1, <1>5 DEF Headed, Names, Permanent
  <2> QED BY <1>1, <1>3, <2>1, <2>2 DEF WellTyped
<1>7. Counted(t, H)
  <2>1. ASSUME NEW m \in Names
        PROVE  t.obj[m].refcount = Count(t.reply, m) + (IF m \in H THEN 1 ELSE 0)
    <3>1. s.obj[m].refcount = Count(s.reply, m) + (IF m \in H THEN 1 ELSE 0)
      BY DEF Good, Counted
    <3>2. Count(t.reply, m) = Count(s.reply, m) + (IF m = o THEN 1 ELSE 0)
      <4>1. Count(Append(s.reply, o), m) = Count(s.reply, m) + (IF m = o THEN 1 ELSE 0)
        BY <1>1, CountAppend
      <4> QED BY <1>3, <4>1
    <3>3. Count(s.reply, m) \in Nat
      BY <1>1, CountNat
    <3>4. t.obj[m].refcount = IF m = o THEN s.obj[m].refcount + 1 ELSE s.obj[m].refcount
      BY <1>2, <1>3
    <3> QED BY <3>1, <3>2, <3>3, <3>4
  <2> QED BY <2>1 DEF Counted
<1>8. Room(t, k)
  <2>1. s.obj[o].refcount # 0
    <3>1. s.obj[o].refcount = Count(s.reply, o) + 1
      BY <1>1 DEF Good, Counted
    <3>2. Count(s.reply, o) \in Nat
      BY <1>1, CountNat
    <3> QED BY <3>1, <3>2
  <2>2. Free(s) \subseteq Free(t)
    <3>1. ASSUME NEW m \in Free(s) PROVE m \in Free(t)
      <4>1. m \in Fresh /\ m \in Names /\ s.obj[m].refcount = 0 /\ \A x \in Names \ {m} : s.obj[x].ptr # m
        BY DEF Free, Names
      <4>2. t.obj[m].refcount = 0 /\ \A x \in Names \ {m} : t.obj[x].ptr # m
        BY <1>2, <1>3, <2>1, <4>1
      <4> QED BY <4>1, <4>2 DEF Free
    <3> QED BY <3>1
  <2>3. Room(s, k)
    BY DEF Good
  <2> QED BY <2>2, <2>3, RoomKept
<1>9. ASSUME t.spoiled = {} PROVE Untouched(t) /\ PendingBytes(t) = bytes \o TextOf(s, o)
  <2>1. Untouched(s) /\ PendingBytes(s) = bytes
    BY <1>3, <1>9 DEF Good, Intact
  <2>2. Untouched(t)
    BY <1>3, <1>5, <2>1 DEF Untouched
  <2>3. \A i \in 1 .. Len(s.reply) : TextOf(t, s.reply[i]) = TextOf(s, s.reply[i])
    <3>1. \A i \in 1 .. Len(s.reply) : s.reply[i] \in Names
      BY <1>1
    <3> QED BY <1>5, <3>1
  <2>4. PendingBytes(t) = PendingBytes(s) \o TextOf(t, o)
    BY <1>1, <1>3, <2>3, NodeGrows
  <2> QED BY <1>1, <1>5, <2>1, <2>2, <2>4
<1>10. Good(t, H, k, bytes \o TextOf(s, o))
  BY <1>6, <1>7, <1>8, <1>9 DEF Good, Intact
<1> QED BY <1>3, <1>4, <1>10

\* A text goes into the buffer only while the list is empty.
LEMMA BufferedGood ==
  ASSUME NEW s, NEW H, NEW k, NEW bytes, Good(s, H, k, bytes),
         NEW text \in Seq(Atoms), s.reply = <<>>, Len(text) <= REDIS_REPLY_CHUNK_BYTES - Len(s.buf)
  PROVE  Good(Buffered(s, text), H, k, bytes \o text) /\ Buffered(s, text).spoiled = s.spoiled
<1> DEFINE b == s.buf \o text
           t == [s EXCEPT !.buf = b]
<1>1. /\ s \in Clients /\ Len(s.buf) <= REDIS_REPLY_CHUNK_BYTES /\ IntsStored(s) /\ Allocated(s) /\ Headed(s)
      /\ s.buf \in Seq(Atoms) /\ s.reply \in Seq(Names)
  BY DEF Good, WellTyped, Clients
<1>2. b \in Seq(Atoms) /\ Len(b) <= REDIS_REPLY_CHUNK_BYTES
  <2>1. b \in Seq(Atoms) /\ Len(b) = Len(s.buf) + Len(text)
    BY <1>1, ConcatProperties
  <2>2. Len(s.buf) \in Nat /\ Len(text) \in Nat /\ REDIS_REPLY_CHUNK_BYTES \in Nat
    BY <1>1, ReplyAssumption
  <2> HIDE DEF b
  <2> QED BY <2>1, <2>2
<1>3. Buffered(s, text) = t
  BY <1>1 DEF Buffered, Clients
<1>4. t \in Clients /\ t.buf = b /\ t.obj = s.obj /\ t.sds = s.sds /\ t.reply = s.reply /\ t.spoiled = s.spoiled
  <2> HIDE DEF b
  <2> QED BY <1>1, <1>2 DEF Clients
<1> HIDE DEF t
<1>5. \A n : TextOf(t, n) = TextOf(s, n)
  BY <1>4 DEF TextOf
<1>6. WellTyped(t)
  BY <1>1, <1>2, <1>4, <1>5 DEF WellTyped, IntsStored, Allocated, Headed
<1>7. Counted(t, H) /\ Room(t, k)
  BY <1>4 DEF Good, Counted, Room, Free
<1>8. PendingBytes(t) = PendingBytes(s) \o text
  <2>1. Texts(s) \in Seq(Seq(Atoms)) /\ Len(Texts(s)) = 0 /\ Len(Texts(t)) = 0 /\ Texts(t) \in Seq(Seq(Atoms))
    BY <1>1, <1>4, ListedTexts
  <2>2. Texts(s) = <<>> /\ Texts(t) = <<>>
    <3>1. \A q \in Seq(Seq(Atoms)) : Len(q) = 0 => q = <<>>
      OBVIOUS
    <3> QED BY <2>1, <3>1
  <2>3. FlattenSeq(Texts(s)) = <<>> /\ FlattenSeq(Texts(t)) = <<>>
    BY <2>2 DEF FlattenSeq
  <2>4. PendingBytes(s) = s.buf \o <<>> /\ PendingBytes(t) = b \o <<>>
    BY <1>1, <1>4, <2>3, ListedTexts
  <2>5. PendingBytes(s) = s.buf /\ PendingBytes(t) = b
    <3> HIDE DEF b
    <3> QED BY <1>1, <1>2, <2>4, ConcatEmptySeq
  <2> QED BY <2>5
<1>9. Intact(t, bytes \o text)
  BY <1>4, <1>8 DEF Good, Intact, Untouched
<1>10. Good(t, H, k, bytes \o text)
  BY <1>6, <1>7, <1>9 DEF Good
<1> QED BY <1>3, <1>4, <1>10

-----------------------------------------------------------------------------
\* The functions of the output, one after the other: each adds its text at
\* the end, takes no more names than it may and keeps every count.
LEMMA StringListGood ==
  ASSUME NEW s, NEW H, NEW k \in Nat, NEW bytes, Good(s, H, k + 1, bytes), Permanent \subseteq H,
         NEW text \in Seq(Atoms)
  PROVE  /\ Good(_addReplyStringToList(s, text), H, k, bytes \o text)
         /\ s.spoiled \subseteq _addReplyStringToList(s, text).spoiled
<1> DEFINE t == _addReplyStringToList(s, text)
<1>1. CASE s.reply # <<>> /\ Mergeable(s, text)
  <2>1. t = Merged(s, text)
    BY <1>1 DEF _addReplyStringToList
  <2>2. Good(Merged(s, text), H, k, bytes \o text) /\ s.spoiled \subseteq Merged(s, text).spoiled
    BY <1>1, MergedGood
  <2> QED BY <2>1, <2>2
<1>2. CASE ~(s.reply # <<>> /\ Mergeable(s, text))
  <2> DEFINE n == NewName(s)
             e == StringEncoding(text)
             new == createObject(s, text, e)
             count == new.reply_bytes + SizeOf(new, n)
             u == Listed(new, n, count)
  <2>1. s \in Clients /\ n \in Names /\ e \in {"RAW", "EMBSTR"}
    BY FreeName DEF Good, WellTyped, StringEncoding
  <2>2. Creates(new, s, n, text, e)
    <3> HIDE DEF e
    <3> QED BY <2>1, CreatedIs
  <2>3. new \in Clients /\ count \in Int
    <3> HIDE DEF new, n
    <3>1. new \in Clients
      BY <2>2 DEF Creates
    <3>2. SizeOf(new, n) \in Int
      BY <2>1, <3>1, SizeType
    <3> QED BY <3>1, <3>2 DEF Clients
  <2>4. t = u
    <3>1. t = [new EXCEPT !.reply = Append(@, n), !.reply_bytes = @ + SizeOf(new, n)]
      BY <1>2 DEF _addReplyStringToList
    <3> HIDE DEF new, n, t
    <3> QED BY <2>3, <3>1 DEF Clients, Listed
  <2>5. Good(u, H, k, bytes \o text) /\ u.spoiled = s.spoiled
    <3> HIDE DEF new, e, count
    <3> QED BY <2>1, <2>2, <2>3, NewNodeGood
  <2> HIDE DEF u
  <2> QED BY <2>4, <2>5
<1> QED BY <1>1, <1>2

\* _addReplyObjectToList: the object is merged or appended.
LEMMA ObjectListGood ==
  ASSUME NEW s, NEW H, NEW k \in Nat, NEW bytes, Good(s, H, k + 1, bytes),
         Permanent \subseteq H, H \subseteq Names, NEW o \in H
  PROVE  /\ Good(_addReplyObjectToList(s, o), H, k, bytes \o TextOf(s, o))
         /\ s.spoiled \subseteq _addReplyObjectToList(s, o).spoiled
<1> DEFINE t == _addReplyObjectToList(s, o)
           text == TextOf(s, o)
<1>1. s \in Clients /\ o \in Names /\ text \in Seq(Atoms) /\ Len(text) \in Int
  BY SizeType DEF Good, WellTyped
<1>2. CASE s.reply # <<>> /\ Mergeable(s, text)
  <2> DEFINE m == Merged(s, text)
             u == [m EXCEPT !.reply_bytes = @ + Len(text)]
  <2>1. t = u
    BY <1>2 DEF _addReplyObjectToList
  <2>2. Good(m, H, k, bytes \o text) /\ s.spoiled \subseteq m.spoiled
    <3> HIDE DEF text
    <3> QED BY <1>1, <1>2, MergedGood
  <2>3. Alike(u, m)
    <3> HIDE DEF m, text
    <3> QED BY <1>1, <2>2, CountersAlike DEF Good, WellTyped
  <2>4. Good(u, H, k, bytes \o text) /\ u.spoiled = m.spoiled
    <3> HIDE DEF u, m, text
    <3> QED BY <2>2, <2>3, AlikeGood DEF Alike
  <2> HIDE DEF u, m
  <2> QED BY <2>1, <2>2, <2>4
<1>3. CASE ~(s.reply # <<>> /\ Mergeable(s, text))
  <2>1. t = ObjectAppended(s, o)
    BY <1>3 DEF _addReplyObjectToList
  <2>2. Good(s, H, k, bytes)
    BY RoomLess DEF Good
  <2>3. Good(ObjectAppended(s, o), H, k, bytes \o TextOf(s, o)) /\ ObjectAppended(s, o).spoiled = s.spoiled
    BY <2>2, AppendedGood
  <2> QED BY <2>1, <2>3
<1> QED BY <1>2, <1>3

\* The object goes into the buffer or the list.
LEMMA AddObjectGood ==
  ASSUME NEW s, NEW H, NEW k \in Nat, NEW bytes, Good(s, H, k + 1, bytes),
         Permanent \subseteq H, H \subseteq Names, NEW o \in H
  PROVE  /\ Good(addReplyObject(s, o), H, k, bytes \o TextOf(s, o))
         /\ s.spoiled \subseteq addReplyObject(s, o).spoiled
<1>1. CASE FitsBuffer(s, TextOf(s, o))
  <2> DEFINE text == TextOf(s, o)
  <2>1. text \in Seq(Atoms)
    BY SizeType DEF Good, WellTyped
  <2>2. addReplyObject(s, o) = Buffered(s, text)
    BY <1>1 DEF addReplyObject
  <2>3. Good(s, H, k, bytes)
    BY RoomLess DEF Good
  <2> HIDE DEF text
  <2>4. s.reply = <<>> /\ Len(text) <= REDIS_REPLY_CHUNK_BYTES - Len(s.buf)
    BY <1>1 DEF FitsBuffer, text
  <2>5. Good(Buffered(s, text), H, k, bytes \o text) /\ Buffered(s, text).spoiled = s.spoiled
    BY <2>1, <2>3, <2>4, BufferedGood
  <2> QED BY <2>2, <2>5 DEF text
<1>2. CASE ~FitsBuffer(s, TextOf(s, o))
  <2>1. addReplyObject(s, o) = _addReplyObjectToList(s, o)
    BY <1>2 DEF addReplyObject
  <2> QED BY <2>1, ObjectListGood
<1> QED BY <1>1, <1>2

\* prepareClientToWrite touches the event only.
LEMMA PreparedGood ==
  ASSUME NEW s, NEW H, NEW k, NEW bytes, Good(s, H, k, bytes)
  PROVE  /\ Good(prepareClientToWrite(s), H, k, bytes)
         /\ Alike(prepareClientToWrite(s), s)
<1>1. s \in Clients
  BY DEF Good, WellTyped
<1>2. Alike(s, s)
  BY <1>1 DEF Alike
<1>3. Alike([s EXCEPT !.watched = TRUE], s)
  BY <1>1, CountersAlike
<1>4. Alike(prepareClientToWrite(s), s)
  BY <1>2, <1>3 DEF prepareClientToWrite
<1> QED BY <1>4, AlikeGood

\* addReplyString: the text goes into the buffer or the list.
LEMMA AddStringGood ==
  ASSUME NEW s, NEW H, NEW k \in Nat, NEW bytes, Good(s, H, k + 1, bytes), Permanent \subseteq H,
         NEW text \in Seq(Atoms)
  PROVE  /\ Good(addReplyString(s, text), H, k, bytes \o text)
         /\ s.spoiled \subseteq addReplyString(s, text).spoiled
<1> DEFINE p == prepareClientToWrite(s)
<1>1. Good(p, H, k + 1, bytes) /\ p.spoiled = s.spoiled
  BY PreparedGood DEF Alike
<1>2. CASE FitsBuffer(p, text)
  <2>1. addReplyString(s, text) = Buffered(p, text)
    BY <1>2 DEF addReplyString
  <2> HIDE DEF p
  <2>2. Good(p, H, k, bytes)
    BY <1>1, RoomLess DEF Good
  <2>3. Good(Buffered(p, text), H, k, bytes \o text) /\ Buffered(p, text).spoiled = p.spoiled
    BY <1>2, <2>2, BufferedGood DEF FitsBuffer
  <2> QED BY <1>1, <2>1, <2>3
<1>3. CASE ~FitsBuffer(p, text)
  <2>1. addReplyString(s, text) = _addReplyStringToList(p, text)
    BY <1>3 DEF addReplyString
  <2> HIDE DEF p
  <2> QED BY <1>1, <2>1, StringListGood
<1> QED BY <1>2, <1>3

\* A new object that its creator holds.
LEMMA CreatedGood ==
  ASSUME NEW s, NEW H, NEW k \in Nat, NEW bytes, Good(s, H, k + 1, bytes), Permanent \subseteq H,
         NEW text \in Seq(Atoms), NEW encoding \in {"RAW", "EMBSTR"},
         NEW t, Creates(t, s, NewName(s), text, encoding)
  PROVE  /\ WellTyped(t) /\ Counted(t, H \cup {NewName(s)}) /\ Room(t, k)
         /\ NewName(s) \in Names \ H
<1> DEFINE n == NewName(s)
           z == sdsnewlen(text)
           o == [ptr |-> n, encoding |-> encoding, refcount |-> 1]
<1>1. /\ s \in Clients /\ t \in Clients /\ t.buf = s.buf /\ t.reply = s.reply
      /\ t.obj = [s.obj EXCEPT ![n] = o] /\ t.sds = [s.sds EXCEPT ![n] = z]
      /\ Len(s.buf) <= REDIS_REPLY_CHUNK_BYTES /\ IntsStored(s) /\ Allocated(s) /\ Headed(s)
  BY DEF Good, WellTyped, Creates
<1>2. /\ n \in Free(s) /\ n \in Names /\ n \notin Permanent
      /\ s.obj[n].refcount = 0 /\ n \notin H /\ Count(s.reply, n) = 0
      /\ \A m \in Names \ {n} : s.obj[m].ptr # n
  BY FreeName DEF Good
<1>3. /\ \A m \in Names : t.obj[m] = IF m = n THEN o ELSE s.obj[m]
      /\ \A m \in Names : t.sds[m] = IF m = n THEN z ELSE s.sds[m]
  <2> HIDE DEF n, o, z
  <2> QED BY <1>1 DEF Clients
<1>4. o.ptr = n /\ o.encoding = encoding /\ o.refcount = 1
  OBVIOUS
<1>5. z \in Strings /\ z.text = text /\ z.size > Len(z.text) + z.free
  BY NewString
<1>6. \A m \in Names : s.obj[m] \in Objects /\ s.obj[m].ptr \in Names
  BY <1>1 DEF Clients, Objects
<1> HIDE DEF n, o, z
<1>7. \A m \in Names \ {n} : TextOf(t, m) = TextOf(s, m)
  BY <1>2, <1>3, <1>6 DEF TextOf
<1>8. WellTyped(t)
  <2>1. Allocated(t)
    BY <1>1, <1>3, <1>5 DEF Allocated
  <2>2. IntsStored(t)
    BY <1>1, <1>3, <1>4 DEF IntsStored
  <2>3. Headed(t)
    BY <1>1, <1>2, <1>7 DEF Headed, Names, Permanent
  <2> QED BY <1>1, <2>1, <2>2, <2>3 DEF WellTyped
<1>9. Counted(t, H \cup {n})
  <2>1. ASSUME NEW m \in Names
        PROVE  t.obj[m].refcount = Count(t.reply, m) + (IF m \in H \cup {n} THEN 1 ELSE 0)
    <3>1. s.obj[m].refcount = Count(s.reply, m) + (IF m \in H THEN 1 ELSE 0)
      BY DEF Good, Counted
    <3> QED BY <1>1, <1>2, <1>3, <1>4, <3>1
  <2> QED BY <2>1 DEF Counted
<1>10. Room(t, k)
  <2>1. ASSUME NEW m \in Free(s) \ {n} PROVE m \in Free(t)
    <3>1. m \in Fresh /\ m \in Names /\ m # n /\ s.obj[m].refcount = 0 /\ \A x \in Names \ {m} : s.obj[x].ptr # m
      BY DEF Free, Names
    <3>2. t.obj[m].refcount = 0 /\ \A x \in Names \ {m} : t.obj[x].ptr # m
      BY <1>3, <1>4, <3>1
    <3> QED BY <3>1, <3>2 DEF Free
  <2>2. Room(s, k + 1)
    BY DEF Good
  <2> QED BY <2>1, <2>2, RoomTaken
<1> QED BY <1>2, <1>8, <1>9, <1>10 DEF n

\* The reference its creator gives back.
LEMMA ReleasedGood ==
  ASSUME NEW s, NEW H, NEW n \in Names \ H, NEW k \in Nat,
         WellTyped(s), Counted(s, H \cup {n}), Room(s, k)
  PROVE  LET t == Referenced(s, n, -1)
         IN  WellTyped(t) /\ Counted(t, H) /\ Room(t, k) /\ t.spoiled = s.spoiled
<1> DEFINE t == Referenced(s, n, -1)
<1>1. /\ s \in Clients /\ Len(s.buf) <= REDIS_REPLY_CHUNK_BYTES /\ IntsStored(s) /\ Allocated(s) /\ Headed(s)
      /\ s.reply \in Seq(Names)
  BY DEF WellTyped, Clients
<1>2. /\ t \in Clients /\ t.buf = s.buf /\ t.reply = s.reply /\ t.spoiled = s.spoiled /\ t.sds = s.sds
      /\ \A m \in Names :
           /\ t.obj[m].ptr = s.obj[m].ptr /\ t.obj[m].encoding = s.obj[m].encoding
           /\ t.obj[m].refcount = IF m = n THEN s.obj[m].refcount + (-1) ELSE s.obj[m].refcount
  <2> DEFINE by == -1
  <2>1. by \in Int
    OBVIOUS
  <2> HIDE DEF by
  <2>2. Refers(Referenced(s, n, by), s, n, by)
    BY <1>1, <2>1, ReferencedIs
  <2>3. Refers(t, s, n, -1)
    BY <2>2 DEF by
  <2> HIDE DEF t
  <2> QED BY <2>3 DEF Refers
<1> HIDE DEF t
<1>3. \A m \in Names : TextOf(t, m) = TextOf(s, m)
  BY <1>2 DEF TextOf
<1>4. WellTyped(t)
  <2>1. Allocated(t) /\ IntsStored(t)
    BY <1>1, <1>2 DEF Allocated, IntsStored
  <2>2. Headed(t)
    BY <1>1, <1>3 DEF Headed, Names, Permanent
  <2> QED BY <1>1, <1>2, <2>1, <2>2 DEF WellTyped
<1>5. \A m \in Names : Count(s.reply, m) \in Nat
  BY <1>1, CountNat
<1>6. \A m \in Names : s.obj[m].refcount = Count(s.reply, m) + (IF m \in H \cup {n} THEN 1 ELSE 0)
  BY DEF Counted
<1>7. Counted(t, H)
  <2>1. ASSUME NEW m \in Names
        PROVE  t.obj[m].refcount = Count(t.reply, m) + (IF m \in H THEN 1 ELSE 0)
    BY <1>2, <1>5, <1>6
  <2> QED BY <2>1 DEF Counted
<1>8. Room(t, k)
  <2>1. s.obj[n].refcount # 0
    BY <1>5, <1>6
  <2>2. ASSUME NEW m \in Free(s) PROVE m \in Free(t)
    <3>1. m \in Fresh /\ m \in Names /\ s.obj[m].refcount = 0 /\ \A x \in Names \ {m} : s.obj[x].ptr # m
      BY DEF Free, Names
    <3>2. t.obj[m].refcount = 0 /\ \A x \in Names \ {m} : t.obj[x].ptr # m
      BY <1>2, <2>1, <3>1
    <3> QED BY <3>1, <3>2 DEF Free
  <2> QED BY <2>2, RoomKept
<1> QED BY <1>2, <1>4, <1>7, <1>8 DEF t

-----------------------------------------------------------------------------
\* The bytes of a reply may be named otherwise as long as nothing is spoiled.
LEMMA Reworded ==
  ASSUME NEW t, NEW H, NEW k, NEW x, NEW y, Good(t, H, k, x), t.spoiled = {} => x = y
  PROVE  Good(t, H, k, y)
BY DEF Good, Intact

\* A decoded integer is a text.
LEMMA PaddedType ==
  ASSUME NEW text \in Seq(Atoms)
  PROVE  Padded(text) \in Seq(Atoms)
<1>1. IntBytes \in Nat /\ "NUL" \in Atoms
  BY ReplyAssumption
<1>2. ASSUME NEW i \in 1 .. IntBytes
      PROVE  (IF i <= Len(text) THEN text[i] ELSE "NUL") \in Atoms
  BY <1>1
<1> QED BY <1>1, <1>2 DEF Padded

\* An integer goes into the buffer, or is decoded into an object of its own.
LEMMA AddIntGood ==
  ASSUME NEW s, NEW H, NEW k \in Nat, NEW bytes, Good(s, H, (k + 1) + 1, bytes),
         Permanent \subseteq H, H \subseteq Names,
         NEW text \in Seq(Atoms), Len(text) <= IntBytes
  PROVE  /\ Good(addReplyInt(s, text), H, k, bytes \o text)
         /\ s.spoiled \subseteq addReplyInt(s, text).spoiled
<1>1. k + 1 \in Nat /\ WellTyped(s) /\ Counted(s, H) /\ Room(s, (k + 1) + 1) /\ s \in Clients
  BY DEF Good, WellTyped
<1>2. CASE ~PaddedInt(s)
  <2>1. addReplyInt(s, text) = Buffered(s, text)
    BY <1>2 DEF addReplyInt
  <2>2. s.reply = <<>> /\ Len(text) <= REDIS_REPLY_CHUNK_BYTES - Len(s.buf)
    <3>1. s.reply = <<>> /\ ~(REDIS_REPLY_CHUNK_BYTES - Len(s.buf) < IntBytes)
      BY <1>2 DEF PaddedInt
    <3>2. s.buf \in Seq(Atoms)
      BY <1>1 DEF Clients
    <3>3. Len(text) \in Nat /\ Len(s.buf) \in Nat /\ IntBytes \in Nat /\ REDIS_REPLY_CHUNK_BYTES \in Nat
      BY <3>2, ReplyAssumption
    <3> QED BY <3>1, <3>3
  <2>3. Room(s, k)
    BY <1>1, RoomLess
  <2>4. Good(s, H, k, bytes)
    BY <2>3 DEF Good
  <2>5. Good(Buffered(s, text), H, k, bytes \o text) /\ Buffered(s, text).spoiled = s.spoiled
    BY <2>2, <2>4, BufferedGood
  <2> QED BY <2>1, <2>5
<1>3. CASE PaddedInt(s)
  <2> DEFINE n == NewName(s)
             made == createObject(s, Padded(text), "EMBSTR")
             dec == Spoiled(made, "padded integer")
             added == addReplyObject(dec, n)
             dropped == Referenced(added, n, -1)
             K == H \cup {n}
  <2>1. addReplyInt(s, text) = dropped
    BY <1>3 DEF addReplyInt
  <2>2. n \in Names
    BY <1>1, FreeName
  <2>3. Creates(made, s, n, Padded(text), "EMBSTR")
    BY <1>1, <2>2, PaddedType, CreatedIs
  <2>4. WellTyped(made) /\ Counted(made, K) /\ Room(made, k + 1) /\ n \in Names \ H
    <3> HIDE DEF made
    <3> QED BY <1>1, <2>3, PaddedType, CreatedGood
  <2>5. /\ dec \in Clients /\ dec.obj = made.obj /\ dec.sds = made.sds /\ dec.buf = made.buf
        /\ dec.reply = made.reply /\ dec.spoiled = made.spoiled \cup {"padded integer"}
    <3> HIDE DEF made
    <3>1. made \in Clients
      BY <2>4 DEF WellTyped
    <3> QED BY <3>1 DEF Spoiled, Clients, Causes
  <2>6. made.spoiled = s.spoiled
    BY <2>3 DEF Creates
  <2> HIDE DEF made, dec
  <2>7. Good(dec, K, k + 1, <<>>)
    <3>1. \A m : TextOf(dec, m) = TextOf(made, m)
      BY <2>5 DEF TextOf
    <3>2. WellTyped(dec)
      BY <2>4, <2>5, <3>1 DEF WellTyped, IntsStored, Allocated, Headed
    <3>3. Counted(dec, K) /\ Room(dec, k + 1)
      BY <2>4, <2>5 DEF Counted, Room, Free
    <3> QED BY <2>5, <3>2, <3>3 DEF Good, Intact
  <2>8. Permanent \subseteq K /\ K \subseteq Names /\ n \in K
    BY <2>2
  <2> HIDE DEF K, n
  <2>9. Good(added, K, k, <<>> \o TextOf(dec, n)) /\ dec.spoiled \subseteq added.spoiled
    BY <2>7, <2>8, AddObjectGood
  <2> HIDE DEF added
  <2>10. WellTyped(added) /\ Counted(added, H \cup {n}) /\ Room(added, k)
    BY <2>9 DEF Good, K
  <2>11. WellTyped(dropped) /\ Counted(dropped, H) /\ Room(dropped, k) /\ dropped.spoiled = added.spoiled
    BY <2>4, <2>10, ReleasedGood
  <2> HIDE DEF dropped
  <2>12. "padded integer" \in dropped.spoiled /\ s.spoiled \subseteq dropped.spoiled
    BY <2>5, <2>6, <2>9, <2>11
  <2>13. Good(dropped, H, k, bytes \o text)
    BY <2>11, <2>12 DEF Good, Intact
  <2> QED BY <2>1, <2>12, <2>13
<1> QED BY <1>2, <1>3

\* The shared and the stored objects have their names and their texts.
LEMMA PermanentTexts ==
  /\ Permanent \subseteq Names
  /\ \A n \in Permanent : Text0(n) \in Seq(Atoms)
  /\ \A n \in DOMAIN StoredText : n \in Permanent /\ Text0(n) = StoredText[n] /\ HeaderKnown(Text0(n))
  /\ \A n \in DOMAIN SharedText : n \in Permanent /\ n \notin DOMAIN StoredText /\ Text0(n) = SharedText[n]
<1>1. Permanent \subseteq Names
  BY DEF Names
<1>2. \A n \in Permanent : Text0(n) \in Seq(Atoms)
  BY ReplyAssumption DEF Permanent, Text0
<1>3. ASSUME NEW n \in DOMAIN StoredText PROVE n \in Permanent /\ Text0(n) = StoredText[n] /\ HeaderKnown(Text0(n))
  <2>1. n \in Permanent /\ Text0(n) = StoredText[n]
    BY ReplyAssumption DEF Permanent, Text0
  <2>2. StoredText[n] \in Seq(Atoms)
    BY ReplyAssumption
  <2> DEFINE l == Len(StoredText[n])
  <2>3. l \in Nat /\ REDIS_SHARED_BULKHDR_LEN \in Nat
    BY <2>2, ReplyAssumption
  <2>4. \A i \in REDIS_SHARED_BULKHDR_LEN .. l : Header[i] \in Seq(Atoms)
    BY ReplyAssumption
  <2> HIDE DEF l
  <2>5. l < REDIS_SHARED_BULKHDR_LEN \/ l \in REDIS_SHARED_BULKHDR_LEN .. l
    BY <2>3
  <2>6. HeaderKnown(StoredText[n])
    BY <2>4, <2>5 DEF HeaderKnown, l
  <2> QED BY <2>1, <2>6
<1>4. \A n \in DOMAIN SharedText : n \in Permanent /\ n \notin DOMAIN StoredText /\ Text0(n) = SharedText[n]
  BY ReplyAssumption DEF Permanent, Text0
<1> QED BY <1>1, <1>2, <1>3, <1>4

\* While nothing is spoiled, every permanent object has the text it began with.
LEMMA UntouchedText ==
  ASSUME NEW s, Untouched(s), NEW n \in Permanent
  PROVE  TextOf(s, n) = Text0(n)
BY PermanentTexts DEF Untouched, TextOf

\* An object that holds no integer.
LEMMA ReplyObjectGood ==
  ASSUME NEW s, NEW k \in Nat, NEW bytes, Good(s, Permanent, k + 1, bytes),
         NEW o \in Permanent, s.obj[o].encoding # "INT"
  PROVE  /\ Good(addReply(s, o), Permanent, k, bytes \o Text0(o))
         /\ s.spoiled \subseteq addReply(s, o).spoiled
<1> DEFINE p == prepareClientToWrite(s)
           t == addReplyObject(p, o)
<1>1. Good(p, Permanent, k + 1, bytes) /\ Alike(p, s)
  BY PreparedGood
<1>2. addReply(s, o) = t
  BY DEF addReply
<1> HIDE DEF p
<1>3. Good(t, Permanent, k, bytes \o TextOf(p, o)) /\ p.spoiled \subseteq t.spoiled
  BY <1>1, PermanentTexts, AddObjectGood
<1> HIDE DEF t
<1>4. s.spoiled \subseteq t.spoiled
  BY <1>1, <1>3 DEF Alike
<1>5. t.spoiled = {} => bytes \o TextOf(p, o) = bytes \o Text0(o)
  <2>1. SUFFICES ASSUME t.spoiled = {} PROVE TextOf(p, o) = Text0(o)
    OBVIOUS
  <2>2. Untouched(p)
    BY <1>1, <1>3, <2>1 DEF Good, Intact
  <2> QED BY <2>2, UntouchedText
<1> QED BY <1>2, <1>3, <1>4, <1>5, Reworded

\* Any object of the keyspace.
LEMMA ReplyStoredGood ==
  ASSUME NEW s, NEW k \in Nat, NEW bytes, Good(s, Permanent, (k + 1) + 1, bytes),
         NEW o \in DOMAIN StoredText
  PROVE  /\ Good(addReply(s, o), Permanent, k, bytes \o Text0(o))
         /\ s.spoiled \subseteq addReply(s, o).spoiled
<1>1. o \in Permanent /\ Permanent \subseteq Names /\ Text0(o) = StoredText[o] /\ Text0(o) \in Seq(Atoms) /\ k + 1 \in Nat
  BY PermanentTexts
<1>2. CASE s.obj[o].encoding = "INT"
  <2> DEFINE p == prepareClientToWrite(s)
  <2>1. Good(p, Permanent, (k + 1) + 1, bytes) /\ p.spoiled = s.spoiled
    BY PreparedGood DEF Alike
  <2>2. addReply(s, o) = addReplyInt(p, Text0(o))
    BY <1>2 DEF addReply
  <2>3. Len(Text0(o)) <= IntBytes
    <3>1. StoredEncoding[o] = "INT"
      BY <1>1, <1>2 DEF Good, WellTyped, IntsStored
    <3> QED BY <1>1, <3>1, ReplyAssumption
  <2> HIDE DEF p
  <2> QED BY <1>1, <2>1, <2>2, <2>3, AddIntGood
<1>3. CASE s.obj[o].encoding # "INT"
  <2>1. Good(s, Permanent, k + 1, bytes)
    BY <1>1, RoomLess DEF Good
  <2> QED BY <1>1, <1>3, <2>1, ReplyObjectGood
<1> QED BY <1>2, <1>3

\* The shared replies.
LEMMA ReplySharedGood ==
  ASSUME NEW s, NEW k \in Nat, NEW bytes, Good(s, Permanent, k + 1, bytes),
         NEW o \in DOMAIN SharedText
  PROVE  /\ Good(addReply(s, o), Permanent, k, bytes \o SharedText[o])
         /\ s.spoiled \subseteq addReply(s, o).spoiled
<1>1. o \in Permanent /\ Permanent \subseteq Names /\ Text0(o) = SharedText[o] /\ o \notin DOMAIN StoredText
  BY PermanentTexts
<1>2. s.obj[o].encoding # "INT"
  BY <1>1 DEF Good, WellTyped, IntsStored
<1> QED BY <1>1, <1>2, ReplyObjectGood

-----------------------------------------------------------------------------
\* Three texts one after the other.
LEMMA Regroup3 ==
  ASSUME NEW S
  PROVE  \A a, x, y, z \in Seq(S) :
           ((a \o x) \o y) \o z = a \o (x \o y \o z) /\ x \o y \o z \in Seq(S)
<1>1. \A u, v, w \in Seq(S) : (u \o v) \o w = u \o (v \o w)
  BY Regroup
<1>2. \A u, v \in Seq(S) : u \o v \in Seq(S)
  BY ConcatProperties
<1>3. SUFFICES ASSUME NEW a \in Seq(S), NEW x \in Seq(S), NEW y \in Seq(S), NEW z \in Seq(S)
      PROVE  ((a \o x) \o y) \o z = a \o (x \o y \o z) /\ x \o y \o z \in Seq(S)
  OBVIOUS
<1>4. (a \o x) \o y = a \o (x \o y)
  BY <1>1
<1>5. x \o y \in Seq(S) /\ (x \o y) \o z \in Seq(S)
  BY <1>2
<1>6. (a \o (x \o y)) \o z = a \o ((x \o y) \o z)
  BY <1>1, <1>5
<1> QED BY <1>4, <1>5, <1>6

\* Three texts of one byte.
LEMMA ThreeBytes ==
  ASSUME NEW S, NEW x \in S, NEW y \in S, NEW z \in S
  PROVE  <<x>> \o <<y>> \o <<z>> = <<x, y, z>>
<1> DEFINE p == <<x>> \o <<y>>
           w == <<z>>
           q == p \o w
<1>1. <<x>> \in Seq(S) /\ <<y>> \in Seq(S) /\ w \in Seq(S)
  OBVIOUS
<1>2. p \in Seq(S) /\ Len(p) = 2 /\ p[1] = x /\ p[2] = y
  <2>1. Len(<<x>>) = 1 /\ Len(<<y>>) = 1
    OBVIOUS
  <2>2. p \in Seq(S) /\ Len(p) = 2
    BY <1>1, <2>1, ConcatProperties
  <2>3. \A i \in 1 .. 2 : p[i] = IF i <= 1 THEN <<x>>[i] ELSE <<y>>[i - 1]
    BY <1>1, <2>1, ConcatProperties
  <2> QED BY <2>2, <2>3
<1>3. Len(w) = 1 /\ w[1] = z
  OBVIOUS
<1> HIDE DEF p, w
<1>4. q \in Seq(S) /\ Len(q) = 3 /\ q[1] = x /\ q[2] = y /\ q[3] = z
  <2>1. q \in Seq(S) /\ Len(q) = 2 + 1 /\ \A i \in 1 .. 2 + 1 : q[i] = IF i <= 2 THEN p[i] ELSE w[i - 2]
    BY <1>1, <1>2, <1>3, ConcatProperties
  <2> HIDE DEF q
  <2> QED BY <1>2, <1>3, <2>1
<1> HIDE DEF q
<1>5. <<x, y, z>> \in Seq(S) /\ Len(<<x, y, z>>) = 3
  OBVIOUS
<1>6. \A i \in 1 .. 3 : i = 1 \/ i = 2 \/ i = 3
  OBVIOUS
<1>7. \A i \in 1 .. Len(q) : q[i] = <<x, y, z>>[i]
  BY <1>4, <1>6
<1>8. q = <<x, y, z>>
  BY <1>4, <1>5, <1>7, SeqEqual
<1> QED BY <1>8 DEF p, q, w

\* The reply to GET of a stored object.
LEMMA BulkGood ==
  ASSUME NEW s, NEW bytes \in Seq(Atoms), Good(s, Permanent, 4, bytes), NEW o \in DOMAIN StoredText
  PROVE  LET text == HeaderText(Len(Text0(o))) \o Text0(o) \o SharedText["crlf"]
         IN  /\ Good(addReplyBulk(s, o), Permanent, 0, bytes \o text) /\ text \in Seq(Atoms)
             /\ s.spoiled \subseteq addReplyBulk(s, o).spoiled
<1> DEFINE n == ObjectLength(s, o)
           h == HeaderText(n)
           x == Text0(o)
           z == SharedText["crlf"]
           len == addReplyBulkLen(s, n)
           body == addReply(len, o)
           whole == addReply(body, "crlf")
           text == HeaderText(Len(x)) \o x \o z
<1>0. \A a, u, v, w \in Seq(Atoms) :
        ((a \o u) \o v) \o w = a \o (u \o v \o w) /\ u \o v \o w \in Seq(Atoms)
  BY Regroup3
<1>a. \A u, v, w \in Seq(Atoms) : (u \o v) \o w = u \o (v \o w)
  BY Regroup
<1>b. \A u, v \in Seq(Atoms) : u \o v \in Seq(Atoms)
  BY ConcatProperties
<1>1. /\ o \in Permanent /\ o \in Names /\ x \in Seq(Atoms) /\ HeaderKnown(x)
      /\ z \in Seq(Atoms) /\ "crlf" \in DOMAIN SharedText /\ "hdr" \in DOMAIN SharedText
      /\ SharedText["hdr"] \in Seq(Atoms)
  BY PermanentTexts, ReplyAssumption
<1>2. s \in Clients /\ Headed(s)
  BY DEF Good, WellTyped
<1>3. n < REDIS_SHARED_BULKHDR_LEN \/ Header[n] \in Seq(Atoms)
  BY <1>1, <1>2 DEF ObjectLength, Headed, HeaderKnown
<1>4. /\ HeaderText(Len(x)) \in Seq(Atoms)
      /\ h \in Seq(Atoms)
  BY <1>1, <1>3 DEF HeaderText, HeaderKnown
<1>5. Good(s, Permanent, 3 + 1, bytes) /\ 3 \in Nat /\ 1 \in Nat /\ 0 \in Nat
      /\ 3 = (1 + 1) + 1 /\ 1 = 0 + 1
  <2>1. 4 = 3 + 1
    OBVIOUS
  <2> QED BY <2>1
<1>6. Good(len, Permanent, 3, bytes \o h) /\ s.spoiled \subseteq len.spoiled
  <2>1. CASE n < REDIS_SHARED_BULKHDR_LEN
    <3>1. len = addReply(s, "hdr") /\ h = SharedText["hdr"]
      BY <2>1 DEF addReplyBulkLen, HeaderText
    <3> HIDE DEF len, h
    <3> QED BY <1>1, <1>5, <3>1, ReplySharedGood
  <2>2. CASE ~(n < REDIS_SHARED_BULKHDR_LEN)
    <3>1. len = addReplyString(s, Header[n]) /\ h = Header[n] /\ Header[n] \in Seq(Atoms)
      BY <1>3, <2>2 DEF addReplyBulkLen, HeaderText
    <3> HIDE DEF len, h, n
    <3> QED BY <1>5, <3>1, AddStringGood
  <2> QED BY <2>1, <2>2
<1>7. addReplyBulk(s, o) = whole
  BY DEF addReplyBulk
<1>8. n = Len(TextOf(s, o)) \/ n = Len(x)
  BY DEF ObjectLength
<1> HIDE DEF len, h, n, x, z
<1>9. Good(body, Permanent, 1, (bytes \o h) \o x) /\ len.spoiled \subseteq body.spoiled
  <2>1. Good(len, Permanent, (1 + 1) + 1, bytes \o h)
    BY <1>5, <1>6
  <2> QED BY <1>5, <2>1, ReplyStoredGood DEF x
<1> HIDE DEF body
<1>10. Good(whole, Permanent, 0, ((bytes \o h) \o x) \o z) /\ body.spoiled \subseteq whole.spoiled
  <2>1. Good(body, Permanent, 0 + 1, (bytes \o h) \o x)
    BY <1>5, <1>9
  <2> QED BY <1>1, <1>5, <2>1, ReplySharedGood DEF z
<1> HIDE DEF whole
<1>11. whole.spoiled = {} => n = Len(x)
  <2>1. SUFFICES ASSUME whole.spoiled = {} PROVE n = Len(x)
    OBVIOUS
  <2>2. s.spoiled = {}
    BY <1>6, <1>9, <1>10, <2>1
  <2>3. TextOf(s, o) = x
    BY <1>1, <2>2, UntouchedText DEF Good, Intact, x
  <2> QED BY <1>8, <2>3
<1>12. text \in Seq(Atoms)
  <2> DEFINE g == HeaderText(Len(x))
  <2>1. g \in Seq(Atoms)
    BY <1>4
  <2> HIDE DEF g
  <2>2. g \o x \o z \in Seq(Atoms)
    BY <1>0, <1>1, <2>1
  <2> QED BY <2>2 DEF g
<1>13. whole.spoiled = {} => ((bytes \o h) \o x) \o z = bytes \o text
  <2>1. ((bytes \o h) \o x) \o z = bytes \o (h \o x \o z)
    <3>1. bytes \in Seq(Atoms) /\ h \in Seq(Atoms) /\ x \in Seq(Atoms) /\ z \in Seq(Atoms)
      BY <1>1, <1>4
    <3>2. (bytes \o h) \o x = bytes \o (h \o x)
      BY <1>a, <3>1
    <3> DEFINE hx == h \o x
               bh == (bytes \o h) \o x
    <3>3. hx \in Seq(Atoms)
      BY <1>b, <3>1
    <3> HIDE DEF hx
    <3>4. (bytes \o hx) \o z = bytes \o (hx \o z)
      BY <1>a, <3>1, <3>3
    <3>5. bh = bytes \o hx
      BY <3>2 DEF hx
    <3> HIDE DEF bh
    <3>6. bh \o z = bytes \o (hx \o z)
      BY <3>4, <3>5
    <3> QED BY <3>6 DEF bh, hx
  <2>2. whole.spoiled = {} => h = HeaderText(Len(x))
    BY <1>11 DEF h
  <2> QED BY <2>1, <2>2
<1>14. Good(whole, Permanent, 0, bytes \o text)
  <2> HIDE DEF text
  <2> QED BY <1>10, <1>13, Reworded
<1>15. s.spoiled \subseteq whole.spoiled
  BY <1>6, <1>9, <1>10
<1> QED BY <1>7, <1>12, <1>14, <1>15 DEF x, z

\* The reply to a command that fails.
LEMMA ErrorGood ==
  ASSUME NEW s, NEW bytes \in Seq(Atoms), Good(s, Permanent, 4, bytes)
  PROVE  /\ Good(addReplyError(s), Permanent, 0, bytes \o <<"err", "msg", "eol">>)
         /\ <<"err", "msg", "eol">> \in Seq(Atoms)
         /\ s.spoiled \subseteq addReplyError(s).spoiled
<1> DEFINE x == <<"err">>
           y == <<"msg">>
           z == <<"eol">>
           one == addReplyString(s, x)
           two == addReplyString(one, y)
           three == addReplyString(two, z)
<1>0. \A a, u, v, w \in Seq(Atoms) :
        ((a \o u) \o v) \o w = a \o (u \o v \o w) /\ u \o v \o w \in Seq(Atoms)
  BY Regroup3
<1>1. x \in Seq(Atoms) /\ y \in Seq(Atoms) /\ z \in Seq(Atoms)
  BY ReplyAssumption
<1>2. x \o y \o z = <<"err", "msg", "eol">>
  <2>1. "err" \in Atoms /\ "msg" \in Atoms /\ "eol" \in Atoms
    BY ReplyAssumption
  <2> QED BY <2>1, ThreeBytes
<1>3. Permanent \subseteq Permanent /\ 0 \in Nat /\ 1 \in Nat /\ 2 \in Nat
      /\ 1 = 0 + 1 /\ 2 = 1 + 1 /\ Good(s, Permanent, 2 + 1, bytes)
  <2>1. (2 + 1) + 1 = 4 /\ 2 + 1 \in Nat
    OBVIOUS
  <2>2. Room(s, 2 + 1)
    <3>1. Room(s, (2 + 1) + 1)
      BY <2>1 DEF Good
    <3> QED BY <2>1, <3>1, RoomLess
  <2> QED BY <2>2 DEF Good
<1>4. addReplyError(s) = three
  BY DEF addReplyError
<1> HIDE DEF x, y, z
<1>5. Good(one, Permanent, 2, bytes \o x) /\ s.spoiled \subseteq one.spoiled
  BY <1>1, <1>3, AddStringGood
<1> HIDE DEF one
<1>6. Good(two, Permanent, 1, (bytes \o x) \o y) /\ one.spoiled \subseteq two.spoiled
  <2>1. Good(one, Permanent, 1 + 1, bytes \o x)
    BY <1>3, <1>5
  <2> QED BY <1>1, <1>3, <2>1, AddStringGood
<1> HIDE DEF two
<1>7. Good(three, Permanent, 0, ((bytes \o x) \o y) \o z) /\ two.spoiled \subseteq three.spoiled
  <2>1. Good(two, Permanent, 0 + 1, (bytes \o x) \o y)
    BY <1>3, <1>6
  <2> QED BY <1>1, <1>3, <2>1, AddStringGood
<1> HIDE DEF three
<1>8. ((bytes \o x) \o y) \o z = bytes \o (x \o y \o z) /\ x \o y \o z \in Seq(Atoms)
  BY <1>0, <1>1
<1> QED BY <1>2, <1>4, <1>5, <1>6, <1>7, <1>8

\* The reply of a command that has nothing else to say.
LEMMA OkGood ==
  ASSUME NEW s, NEW bytes, Good(s, Permanent, 4, bytes)
  PROVE  /\ Good(addReply(s, "ok"), Permanent, 3, bytes \o SharedText["ok"])
         /\ SharedText["ok"] \in Seq(Atoms)
         /\ s.spoiled \subseteq addReply(s, "ok").spoiled
<1>1. "ok" \in DOMAIN SharedText /\ SharedText["ok"] \in Seq(Atoms)
  BY ReplyAssumption
<1>2. 3 \in Nat /\ Good(s, Permanent, 3 + 1, bytes)
  <2>1. 4 = 3 + 1
    OBVIOUS
  <2> QED BY <2>1
<1> QED BY <1>1, <1>2, ReplySharedGood

-----------------------------------------------------------------------------
\* What the invariant says of a client that a step leaves.
LEMMA Continues ==
  ASSUME NEW s, out' = s, WellTyped(s), Counted(s, Permanent),
         sender' \in {"idle", "sending", "dead"}, written' \in Nat, replies' \in 0 .. MaxReplies,
         wire' \in Seq(Atoms), expected' \in Seq(Atoms),
         s.spoiled = {} => Untouched(s) /\ (sender' # "dead" => wire' \o PendingBytes(s) = expected')
  PROVE  RInv'
<1>1. WellTyped(out)' /\ Counted(out, Permanent)'
  BY DEF WellTyped, IntsStored, Allocated, Headed, TextOf, Counted
<1>2. (out.spoiled = {} => Untouched(out) /\ (sender # "dead" => wire \o PendingBytes(out) = expected))'
  BY DEF Untouched, PendingBytes, TextOf
<1> QED BY <1>1, <1>2 DEF RInv

-----------------------------------------------------------------------------
\* The invariant holds before the first reply.
LEMMA InitCounted == ReplyInit => RInv
<1> SUFFICES ASSUME ReplyInit PROVE RInv
  OBVIOUS
<1> DEFINE objects ==
             [n \in Names |->
                [ptr |-> n, refcount |-> IF n \in Permanent THEN 1 ELSE 0,
                 encoding |-> IF n \in DOMAIN StoredText THEN StoredEncoding[n] ELSE "RAW"]]
           strings == [n \in Names |-> sdsnewlen(IF n \in Permanent THEN Text0(n) ELSE <<>>)]
<1>1. out = [obj |-> objects, sds |-> strings, buf |-> <<>>, reply |-> <<>>, reply_bytes |-> 0,
           watched |-> FALSE, close |-> FALSE, spoiled |-> {}]
      /\ sender = "idle" /\ written = 0 /\ wire = <<>> /\ expected = <<>> /\ replies = 0
  BY DEF ReplyInit
<1>2. objects \in [Names -> Objects] /\ strings \in [Names -> Strings]
  <2>1. ASSUME NEW n \in Names PROVE objects[n] \in Objects
    <3>1. (IF n \in DOMAIN StoredText THEN StoredEncoding[n] ELSE "RAW") \in {"RAW", "EMBSTR", "INT"}
      BY ReplyAssumption
    <3> QED BY <3>1 DEF Objects
  <2>2. ASSUME NEW n \in Names PROVE strings[n] \in Strings
    <3>1. (IF n \in Permanent THEN Text0(n) ELSE <<>>) \in Seq(Atoms)
      BY PermanentTexts
    <3> QED BY <3>1, NewString
  <2> HIDE DEF Objects, Strings
  <2> QED BY <2>1, <2>2
<1>3. \A n \in Names : strings[n].size > Len(strings[n].text) + strings[n].free
  <2> SUFFICES ASSUME NEW n \in Names PROVE strings[n].size > Len(strings[n].text) + strings[n].free
    OBVIOUS
  <2> DEFINE x == IF n \in Permanent THEN Text0(n) ELSE <<>>
  <2>1. x \in Seq(Atoms) /\ strings[n] = sdsnewlen(x)
    BY PermanentTexts
  <2> HIDE DEF x, strings
  <2> QED BY <2>1, NewString
<1>4. \A n \in Permanent : n \in Names /\ strings[n].text = Text0(n)
  <2> SUFFICES ASSUME NEW n \in Permanent PROVE n \in Names /\ strings[n].text = Text0(n)
    OBVIOUS
  <2>1. n \in Names /\ Text0(n) \in Seq(Atoms)
    BY PermanentTexts
  <2>2. strings[n] = sdsnewlen(Text0(n))
    BY <2>1
  <2> HIDE DEF strings
  <2> QED BY <2>1, <2>2, NewString
<1>5. /\ \A n \in Names : objects[n].ptr = n
      /\ \A n \in Names : objects[n].refcount = IF n \in Permanent THEN 1 ELSE 0
      /\ \A n \in Names : objects[n].encoding = "INT" => n \in DOMAIN StoredText /\ StoredEncoding[n] = "INT"
  OBVIOUS
<1> HIDE DEF objects, strings
<1>6. out \in Clients
  <2>1. <<>> \in Seq(Atoms) /\ <<>> \in Seq(Names) /\ 0 \in Int /\ {} \in SUBSET Causes
    OBVIOUS
  <2> QED BY <1>1, <1>2, <2>1 DEF Clients
<1>7. out.obj = objects /\ out.sds = strings /\ out.buf = <<>> /\ out.reply = <<>> /\ out.spoiled = {}
  BY <1>1
<1>8. Untouched(out)
  BY <1>4, <1>5, <1>7 DEF Untouched
<1>9. WellTyped(out)
  <2>1. IntsStored(out) /\ Allocated(out)
    BY <1>3, <1>5, <1>7 DEF IntsStored, Allocated
  <2>2. Headed(out)
    <3>1. ASSUME NEW n \in DOMAIN StoredText PROVE HeaderKnown(TextOf(out, n))
      BY <1>8, PermanentTexts, UntouchedText
    <3> QED BY <3>1 DEF Headed
  <2>3. Len(out.buf) <= REDIS_REPLY_CHUNK_BYTES
    BY <1>7, ReplyAssumption
  <2> QED BY <1>6, <2>1, <2>2, <2>3 DEF WellTyped
<1>10. Counted(out, Permanent)
  <2>1. ASSUME NEW n \in Names PROVE Count(out.reply, n) = 0
    <3>1. {i \in DOMAIN out.reply : out.reply[i] = n} = {}
      BY <1>7
    <3> QED BY <3>1, FS_EmptySet DEF Count
  <2>2. ASSUME NEW n \in Names
        PROVE  out.obj[n].refcount = Count(out.reply, n) + (IF n \in Permanent THEN 1 ELSE 0)
    BY <1>5, <1>7, <2>1
  <2> QED BY <2>2 DEF Counted
<1>11. wire \o PendingBytes(out) = expected
  <2>1. [i \in DOMAIN out.reply |-> TextOf(out, out.reply[i])] = <<>>
    BY <1>7
  <2>2. PendingBytes(out) = <<>> \o FlattenSeq(<<>>)
    BY <1>7, <2>1 DEF PendingBytes
  <2>3. FlattenSeq(<<>>) = <<>>
    BY DEF FlattenSeq
  <2> QED BY <1>1, <2>2, <2>3
<1>12. 0 \in 0 .. MaxReplies /\ 0 \in Nat
  BY ReplyAssumption
<1> QED BY <1>1, <1>8, <1>9, <1>10, <1>11, <1>12 DEF RInv

\* The client before a reply, when a name is free for each new object.
LEMMA ReadyGood ==
  ASSUME RInv, NEW s, NEW bytes, Answer(s, bytes)
  PROVE  Good(out, Permanent, 4, PendingBytes(out)) /\ PendingBytes(out) \in Seq(Atoms)
<1>1. WellTyped(out) /\ Counted(out, Permanent) /\ Intact(out, PendingBytes(out))
  BY DEF RInv, Intact
<1>2. Room(out, 4)
  BY DEF Answer, NamesPerReply, Room
<1>3. PendingBytes(out) \in Seq(Atoms)
  BY <1>1, ListedTexts DEF WellTyped
<1> QED BY <1>1, <1>2, <1>3 DEF Good

\* The bytes of a reply follow those of the replies before it.
LEMMA AnswerGood ==
  ASSUME RInv, NEW s, NEW bytes \in Seq(Atoms), Answer(s, bytes), NEW k,
         Good(s, Permanent, k, PendingBytes(out) \o bytes), out.spoiled \subseteq s.spoiled
  PROVE  RInv'
<1>0. \A x, y, z \in Seq(Atoms) : (x \o y) \o z = x \o (y \o z)
  BY Regroup
<1>1. /\ out' = s /\ expected' = expected \o bytes /\ replies' = replies + 1 /\ replies < MaxReplies
      /\ sender' = sender /\ sender = "idle" /\ written' = written /\ wire' = wire
  BY DEF Answer
<1>2. /\ WellTyped(s) /\ Counted(s, Permanent)
      /\ s.spoiled = {} => Untouched(s) /\ PendingBytes(s) = PendingBytes(out) \o bytes
  BY DEF Good, Intact
<1>3. wire \in Seq(Atoms) /\ expected \in Seq(Atoms) /\ PendingBytes(out) \in Seq(Atoms)
      /\ replies \in 0 .. MaxReplies /\ written \in Nat
  BY ReadyGood DEF RInv
<1>4. s.spoiled = {} => wire \o PendingBytes(out) = expected
  BY <1>1 DEF RInv
<1>5. (wire \o PendingBytes(out)) \o bytes = wire \o (PendingBytes(out) \o bytes)
  BY <1>0, <1>3
<1>6. s.spoiled = {} => wire' \o PendingBytes(s) = expected'
  BY <1>1, <1>2, <1>4, <1>5
<1>7. expected' \in Seq(Atoms) /\ replies' \in 0 .. MaxReplies
  <2>1. expected \o bytes \in Seq(Atoms)
    BY <1>3, ConcatProperties
  <2>2. replies + 1 \in 0 .. MaxReplies
    BY <1>1, <1>3, ReplyAssumption
  <2> QED BY <1>1, <2>1, <2>2
<1> QED BY <1>1, <1>2, <1>3, <1>6, <1>7, Continues

\* The flag for closing changes nothing else.
LEMMA ClosedGood ==
  ASSUME NEW s, NEW k, NEW bytes, Good(s, Permanent, k, bytes)
  PROVE  /\ Good([s EXCEPT !.close = TRUE], Permanent, k, bytes)
         /\ [s EXCEPT !.close = TRUE].spoiled = s.spoiled
<1>1. s \in Clients
  BY DEF Good, WellTyped
<1>2. Alike([s EXCEPT !.close = TRUE], s)
  BY <1>1, CountersAlike
<1>3. Good([s EXCEPT !.close = TRUE], Permanent, k, bytes)
  BY <1>2, AlikeGood
<1> QED BY <1>2, <1>3 DEF Alike

\* +OK, to any command and to QUIT.
LEMMA OkKeeps ==
  ASSUME RInv, ReplyOk \/ ReplyQuit
  PROVE  RInv'
<1> DEFINE s == addReply(out, "ok")
           t == [s EXCEPT !.close = TRUE]
           bytes == SharedText["ok"]
<1>1. Answer(s, bytes) \/ Answer(t, bytes)
  BY DEF ReplyOk, ReplyQuit
<1>2. Good(out, Permanent, 4, PendingBytes(out))
  <2> HIDE DEF s, t, bytes
  <2> QED BY <1>1, ReadyGood
<1>3. Good(s, Permanent, 3, PendingBytes(out) \o bytes) /\ bytes \in Seq(Atoms) /\ out.spoiled \subseteq s.spoiled
  BY <1>2, OkGood
<1> HIDE DEF s, bytes
<1>4. Good(t, Permanent, 3, PendingBytes(out) \o bytes) /\ out.spoiled \subseteq t.spoiled
  BY <1>3, ClosedGood
<1> HIDE DEF t
<1> QED BY <1>1, <1>3, <1>4, AnswerGood

\* An error, and one that closes the client.
LEMMA ErrorKeeps ==
  ASSUME RInv, ReplyError \/ ReplyProtocolError
  PROVE  RInv'
<1> DEFINE s == addReplyError(out)
           t == [s EXCEPT !.close = TRUE]
           bytes == <<"err", "msg", "eol">>
<1>1. Answer(s, bytes) \/ Answer(t, bytes)
  BY DEF ReplyError, ReplyProtocolError
<1>2. Good(out, Permanent, 4, PendingBytes(out)) /\ PendingBytes(out) \in Seq(Atoms)
  <2> HIDE DEF s, t, bytes
  <2> QED BY <1>1, ReadyGood
<1>3. Good(s, Permanent, 0, PendingBytes(out) \o bytes) /\ bytes \in Seq(Atoms) /\ out.spoiled \subseteq s.spoiled
  BY <1>2, ErrorGood
<1> HIDE DEF s, bytes
<1>4. Good(t, Permanent, 0, PendingBytes(out) \o bytes) /\ out.spoiled \subseteq t.spoiled
  BY <1>3, ClosedGood
<1> HIDE DEF t
<1> QED BY <1>1, <1>3, <1>4, AnswerGood

\* The reply to GET.
LEMMA BulkKeeps ==
  ASSUME RInv, ReplyBulk
  PROVE  RInv'
<1>1. PICK o \in DOMAIN StoredText :
        Answer(addReplyBulk(out, o), HeaderText(Len(Text0(o))) \o Text0(o) \o SharedText["crlf"])
  BY DEF ReplyBulk
<1> DEFINE s == addReplyBulk(out, o)
           bytes == HeaderText(Len(Text0(o))) \o Text0(o) \o SharedText["crlf"]
<1>2. Good(out, Permanent, 4, PendingBytes(out)) /\ PendingBytes(out) \in Seq(Atoms)
  <2>1. Answer(s, bytes)
    BY <1>1
  <2> HIDE DEF s, bytes
  <2> QED BY <2>1, ReadyGood
<1>3. Good(s, Permanent, 0, PendingBytes(out) \o bytes) /\ bytes \in Seq(Atoms) /\ out.spoiled \subseteq s.spoiled
  BY <1>2, BulkGood
<1>4. Answer(s, bytes)
  BY <1>1
<1> HIDE DEF s, bytes
<1> QED BY <1>3, <1>4, AnswerGood

-----------------------------------------------------------------------------
\* A turn of the loop that writes the buffer.
LEMMA BufferSent ==
  ASSUME NEW s, WellTyped(s), Counted(s, Permanent), s.spoiled = {} => Untouched(s), s.buf # <<>>
  PROVE  /\ WellTyped(Sent(s)) /\ Counted(Sent(s), Permanent) /\ Sent(s).spoiled = s.spoiled
         /\ s.spoiled = {} => Untouched(Sent(s))
         /\ PendingBytes(s) = Outgoing(s) \o PendingBytes(Sent(s))
         /\ Outgoing(s) \in Seq(Atoms)
<1> DEFINE t == [s EXCEPT !.buf = <<>>]
<1>1. s \in Clients /\ s.buf \in Seq(Atoms) /\ IntsStored(s) /\ Allocated(s) /\ Headed(s)
  BY DEF WellTyped, Clients
<1>2. Sent(s) = t /\ Outgoing(s) = s.buf
  BY DEF Sent, Outgoing
<1>3. /\ t \in Clients /\ t.obj = s.obj /\ t.sds = s.sds /\ t.reply = s.reply /\ t.spoiled = s.spoiled
      /\ t.buf = <<>>
  <2>1. <<>> \in Seq(Atoms)
    OBVIOUS
  <2> QED BY <1>1, <2>1 DEF Clients
<1> HIDE DEF t
<1>4. \A n : TextOf(t, n) = TextOf(s, n)
  BY <1>3 DEF TextOf
<1>5. WellTyped(t)
  <2>1. Len(t.buf) <= REDIS_REPLY_CHUNK_BYTES
    BY <1>3, ReplyAssumption
  <2>2. IntsStored(t) /\ Allocated(t) /\ Headed(t)
    BY <1>1, <1>3, <1>4 DEF IntsStored, Allocated, Headed
  <2> QED BY <1>3, <2>1, <2>2 DEF WellTyped
<1>6. Counted(t, Permanent) /\ (s.spoiled = {} => Untouched(t))
  BY <1>3 DEF Counted, Untouched
<1>7. PendingBytes(s) = s.buf \o PendingBytes(t)
  <2> DEFINE f == FlattenSeq(Texts(s))
  <2>1. f \in Seq(Atoms) /\ PendingBytes(s) = s.buf \o f
    BY <1>1, ListedTexts
  <2>2. PendingBytes(t) = <<>> \o f
    <3>1. Texts(t) = Texts(s)
      BY <1>3, <1>4 DEF Texts
    <3>2. PendingBytes(t) = t.buf \o FlattenSeq(Texts(t))
      BY <1>3, ListedTexts
    <3> QED BY <1>3, <3>1, <3>2
  <2> HIDE DEF f
  <2>3. <<>> \o f = f
    BY <2>1, ConcatEmptySeq
  <2> QED BY <2>1, <2>2, <2>3
<1> QED BY <1>1, <1>2, <1>3, <1>5, <1>6, <1>7

\* A turn of the loop that writes the first object of the list and drops it.
LEMMA NodeSent ==
  ASSUME NEW s, WellTyped(s), Counted(s, Permanent), s.spoiled = {} => Untouched(s),
         s.buf = <<>>, s.reply # <<>>
  PROVE  /\ WellTyped(Sent(s)) /\ Counted(Sent(s), Permanent) /\ Sent(s).spoiled = s.spoiled
         /\ s.spoiled = {} => Untouched(Sent(s))
         /\ PendingBytes(s) = Outgoing(s) \o PendingBytes(Sent(s))
         /\ Outgoing(s) \in Seq(Atoms)
<1> DEFINE n == Head1(s)
           u == Referenced(s, n, -1)
           r == Tail(s.reply)
           t == [u EXCEPT !.reply = Tail(@), !.reply_bytes = @ - SizeOf(s, n)]
<1>1. /\ s \in Clients /\ s.reply \in Seq(Names) /\ IntsStored(s) /\ Allocated(s) /\ Headed(s)
      /\ Len(s.buf) <= REDIS_REPLY_CHUNK_BYTES
  BY DEF WellTyped, Clients
<1>2. Sent(s) = t /\ Outgoing(s) = TextOf(s, n) /\ n = s.reply[1]
  BY DEF Sent, NodeDropped, Outgoing, Head1
<1>3. n \in Names /\ r \in Seq(Names) /\ Len(s.reply) \in Nat /\ Len(s.reply) # 0 /\ Len(r) = Len(s.reply) - 1
      /\ \A i \in 1 .. Len(r) : r[i] = s.reply[i + 1]
  <2>1. s.reply[1] \in Names
    BY <1>1
  <2> QED BY <1>1, <1>2, <2>1
<1> HIDE DEF n
<1>4. /\ u \in Clients /\ u.buf = s.buf /\ u.reply = s.reply /\ u.spoiled = s.spoiled
      /\ u.sds = s.sds /\ u.reply_bytes = s.reply_bytes
      /\ \A m \in Names :
           /\ u.obj[m].ptr = s.obj[m].ptr /\ u.obj[m].encoding = s.obj[m].encoding
           /\ u.obj[m].refcount = IF m = n THEN s.obj[m].refcount + (-1) ELSE s.obj[m].refcount
  <2> DEFINE by == -1
  <2>1. by \in Int
    OBVIOUS
  <2> HIDE DEF by
  <2>2. Refers(Referenced(s, n, by), s, n, by)
    BY <1>1, <1>3, <2>1, ReferencedIs
  <2>3. Refers(u, s, n, -1)
    BY <2>2 DEF by
  <2> HIDE DEF u
  <2> QED BY <2>3 DEF Refers
<1> HIDE DEF u
<1>5. /\ t \in Clients /\ t.obj = u.obj /\ t.sds = s.sds /\ t.buf = s.buf /\ t.reply = r /\ t.spoiled = s.spoiled
  <2> DEFINE b == s.reply_bytes - SizeOf(s, n)
             t1 == [u EXCEPT !.reply = r, !.reply_bytes = b]
  <2>1. b \in Int
    <3>1. SizeOf(s, n) \in Int /\ s.reply_bytes \in Int
      BY <1>1, <1>3, SizeType DEF Clients
    <3> QED BY <3>1
  <2>2. t = t1
    BY <1>4
  <2> HIDE DEF t, b, r
  <2>3. /\ t1 \in Clients /\ t1.obj = u.obj /\ t1.sds = u.sds /\ t1.buf = u.buf /\ t1.reply = r /\ t1.spoiled = u.spoiled
    BY <1>3, <1>4, <2>1 DEF Clients
  <2> QED BY <1>4, <2>2, <2>3
<1> HIDE DEF t
<1>6. \A m \in Names : TextOf(t, m) = TextOf(s, m)
  BY <1>4, <1>5 DEF TextOf
<1>7. WellTyped(t)
  <2>1. IntsStored(t) /\ Allocated(t)
    BY <1>1, <1>4, <1>5 DEF IntsStored, Allocated
  <2>2. Headed(t)
    BY <1>1, <1>6, PermanentTexts DEF Headed
  <2> QED BY <1>1, <1>5, <2>1, <2>2 DEF WellTyped
<1>8. Counted(t, Permanent)
  <2>1. ASSUME NEW m \in Names
        PROVE  t.obj[m].refcount = Count(t.reply, m) + (IF m \in Permanent THEN 1 ELSE 0)
    <3>1. s.obj[m].refcount = Count(s.reply, m) + (IF m \in Permanent THEN 1 ELSE 0)
      BY DEF Counted
    <3>2. Count(s.reply, m) = Count(r, m) + (IF m = n THEN 1 ELSE 0)
      BY <1>1, <1>2, CountTail
    <3>3. Count(r, m) \in Nat
      BY <1>3, CountNat
    <3>4. t.obj[m].refcount = IF m = n THEN s.obj[m].refcount + (-1) ELSE s.obj[m].refcount
      BY <1>4, <1>5
    <3>5. t.reply = r
      BY <1>5
    <3> HIDE DEF r
    <3> QED BY <3>1, <3>2, <3>3, <3>4, <3>5
  <2> QED BY <2>1 DEF Counted
<1>9. s.spoiled = {} => Untouched(t)
  BY <1>4, <1>5, PermanentTexts DEF Untouched
<1>10. PendingBytes(s) = TextOf(s, n) \o PendingBytes(t)
  <2> DEFINE q == Texts(s)
             f == FlattenSeq(Texts(t))
  <2>1. /\ q \in Seq(Seq(Atoms)) /\ Len(q) = Len(s.reply)
        /\ \A i \in 1 .. Len(s.reply) : q[i] = TextOf(s, s.reply[i])
        /\ PendingBytes(s) = s.buf \o FlattenSeq(q) /\ FlattenSeq(q) \in Seq(Atoms)
    BY <1>1, ListedTexts
  <2>2. /\ Texts(t) \in Seq(Seq(Atoms)) /\ Len(Texts(t)) = Len(r)
        /\ \A i \in 1 .. Len(r) : Texts(t)[i] = TextOf(t, r[i])
        /\ PendingBytes(t) = t.buf \o f /\ f \in Seq(Atoms)
    <3> HIDE DEF r
    <3> QED BY <1>5, ListedTexts
  <2>3. Tail(q) = Texts(t)
    <3>1. Tail(q) \in Seq(Seq(Atoms)) /\ Len(Tail(q)) = Len(q) - 1 /\ \A i \in 1 .. Len(q) - 1 : Tail(q)[i] = q[i + 1]
      <4> HIDE DEF q
      <4>1. q # <<>>
        BY <1>3, <2>1
      <4> QED BY <2>1, <4>1
    <3>2. ASSUME NEW i \in 1 .. Len(r) PROVE Tail(q)[i] = Texts(t)[i]
      <4>1. i \in 1 .. Len(q) - 1 /\ i + 1 \in 1 .. Len(s.reply) /\ r[i] = s.reply[i + 1] /\ r[i] \in Names
        <5> HIDE DEF q, r
        <5> QED BY <1>3, <2>1
      <4>2. Tail(q)[i] = q[i + 1]
        BY <3>1, <4>1
      <4>3. q[i + 1] = TextOf(s, r[i])
        BY <2>1, <4>1
      <4>4. Texts(t)[i] = TextOf(t, r[i])
        BY <2>2
      <4>5. TextOf(t, r[i]) = TextOf(s, r[i])
        BY <1>6, <4>1
      <4> QED BY <4>2, <4>3, <4>4, <4>5
    <3> DEFINE a == Tail(q)
               b == Texts(t)
    <3>3. a \in Seq(Seq(Atoms)) /\ b \in Seq(Seq(Atoms)) /\ Len(a) = Len(b) /\ \A i \in 1 .. Len(a) : a[i] = b[i]
      <4>1. Len(q) - 1 = Len(r)
        BY <1>3, <2>1
      <4> HIDE DEF q, r
      <4> QED BY <2>2, <3>1, <3>2, <4>1
    <3>4. a = b
      <4> HIDE DEF a, b
      <4> QED BY <3>3, SeqEqual
    <3> QED BY <3>4
  <2>4. FlattenSeq(q) = q[1] \o FlattenSeq(Tail(q))
    <3>1. q # <<>>
      <4> HIDE DEF q
      <4> QED BY <1>3, <2>1
    <3> HIDE DEF q
    <3> QED BY <2>1, <3>1, FlattenFirst
  <2>5. q[1] = TextOf(s, n)
    BY <1>2, <1>3, <2>1
  <2>6. PendingBytes(s) = FlattenSeq(q) /\ PendingBytes(t) = f
    <3>1. \A x \in Seq(Atoms) : <<>> \o x = x
      BY ConcatEmptySeq
    <3> HIDE DEF q, f
    <3> QED BY <1>5, <2>1, <2>2, <3>1
  <2> QED BY <2>3, <2>4, <2>5, <2>6
<1>11. TextOf(s, n) \in Seq(Atoms)
  BY <1>1, <1>3, SizeType
<1> QED BY <1>2, <1>5, <1>7, <1>8, <1>9, <1>10, <1>11

\* The loop sends the bytes in front, and the rest stays pending.
LEMMA WriteAllKeeps ==
  ASSUME RInv, WriteAll
  PROVE  RInv'
<1>0. \A x, y, z \in Seq(Atoms) : (x \o y) \o z = x \o (y \o z)
  BY Regroup
<1> DEFINE s == Sent(out)
           going == Outgoing(out)
<1>1. /\ out' = s /\ wire' = wire \o going /\ sender' = sender /\ sender = "sending" /\ expected' = expected
      /\ replies' = replies /\ written' = WrittenAfter /\ Pending(out)
  BY DEF WriteAll
<1>2. /\ WellTyped(out) /\ Counted(out, Permanent) /\ (out.spoiled = {} => Untouched(out))
      /\ wire \in Seq(Atoms) /\ expected \in Seq(Atoms) /\ replies \in 0 .. MaxReplies /\ written \in Nat
      /\ out.spoiled = {} => wire \o PendingBytes(out) = expected
  BY <1>1 DEF RInv
<1>3. /\ WellTyped(s) /\ Counted(s, Permanent) /\ s.spoiled = out.spoiled
      /\ out.spoiled = {} => Untouched(s)
      /\ PendingBytes(out) = going \o PendingBytes(s) /\ going \in Seq(Atoms)
  <2>1. CASE out.buf # <<>>
    BY <1>2, <2>1, BufferSent
  <2>2. CASE out.buf = <<>>
    <3>1. out.reply # <<>>
      BY <1>1, <2>2 DEF Pending
    <3> QED BY <1>2, <2>2, <3>1, NodeSent
  <2> QED BY <2>1, <2>2
<1>4. written' \in Nat
  <2>1. REDIS_REPLY_CHUNK_BYTES \in Nat /\ Len(going) \in Nat
    BY <1>3, ReplyAssumption
  <2> QED BY <1>1, <1>2, <2>1 DEF WrittenAfter
<1> HIDE DEF s, going
<1>5. PendingBytes(s) \in Seq(Atoms)
  BY <1>3, ListedTexts DEF WellTyped
<1>6. (wire \o going) \o PendingBytes(s) = wire \o (going \o PendingBytes(s)) /\ wire \o going \in Seq(Atoms)
  BY <1>0, <1>2, <1>3, <1>5, ConcatProperties
<1>7. s.spoiled = {} => wire' \o PendingBytes(s) = expected'
  BY <1>1, <1>2, <1>3, <1>6
<1> QED BY <1>1, <1>2, <1>3, <1>4, <1>6, <1>7, Continues

\* The bytes at the front of the output.
LEMMA OutgoingType ==
  ASSUME NEW s \in Clients, Pending(s)
  PROVE  Outgoing(s) \in Seq(Atoms) /\ Len(Outgoing(s)) \in Nat
<1>1. s.buf \in Seq(Atoms) /\ s.reply \in Seq(Names)
  BY DEF Clients
<1>2. CASE s.buf # <<>>
  BY <1>1, <1>2 DEF Outgoing
<1>3. CASE s.buf = <<>>
  <2>1. s.reply # <<>>
    BY <1>3 DEF Pending
  <2>2. s.reply[1] \in Names
    BY <1>1, <2>1
  <2>3. TextOf(s, s.reply[1]) \in Seq(Atoms)
    BY <2>2, SizeType
  <2> QED BY <1>3, <2>3 DEF Outgoing, Head1
<1> QED BY <1>2, <1>3

\* A write that fails after a part of the bytes is noted; one that took
\* nothing leaves everything as it was.
LEMMA WriteBlockedKeeps ==
  ASSUME RInv, WriteBlocked
  PROVE  RInv'
<1> DEFINE going == Outgoing(out)
<1>1. /\ sender = "sending" /\ sender' = "idle" /\ Pending(out) /\ written' = written /\ expected' = expected
      /\ replies' = replies
  BY DEF WriteBlocked
<1>2. /\ WellTyped(out) /\ Counted(out, Permanent) /\ (out.spoiled = {} => Untouched(out)) /\ out \in Clients
      /\ wire \in Seq(Atoms) /\ expected \in Seq(Atoms) /\ replies \in 0 .. MaxReplies /\ written \in Nat
      /\ out.spoiled = {} => wire \o PendingBytes(out) = expected
  BY <1>1 DEF RInv, WellTyped
<1>3. going \in Seq(Atoms) /\ Len(going) \in Nat
  BY <1>1, <1>2, OutgoingType
<1>4. PICK k \in 0 .. Min({Len(going) - 1, ShortWriteLimit(out)}) :
        /\ wire' = wire \o SubSeq(going, 1, k)
        /\ out' = IF k > 0 THEN Spoiled(out, "short write") ELSE out
  BY DEF WriteBlocked
<1>5. k \in Int /\ 0 <= k /\ k <= Len(going)
  <2>1. ShortWriteLimit(out) \in Int /\ Len(going) - 1 \in Int
    <3>1. MaxShortWrite \in Int
      BY ReplyAssumption
    <3>2. ShortWriteLimit(out) \in {0, MaxShortWrite}
      BY DEF ShortWriteLimit
    <3> HIDE DEF going
    <3> QED BY <1>3, <3>1, <3>2
  <2> DEFINE m == Len(going) - 1
  <2>2. Min({m, ShortWriteLimit(out)}) \in Int /\ Min({m, ShortWriteLimit(out)}) <= m
    <3> HIDE DEF m
    <3> QED BY <2>1, MinOfTwo DEF m
  <2> HIDE DEF going
  <2> QED BY <1>3, <2>2
<1> HIDE DEF going
<1>6. SubSeq(going, 1, k) \in Seq(Atoms) /\ (k = 0 => SubSeq(going, 1, k) = <<>>)
  BY <1>3, <1>5, PartType
<1>7. wire' \in Seq(Atoms) /\ (k = 0 => wire' = wire)
  <2>1. wire \o SubSeq(going, 1, k) \in Seq(Atoms)
    BY <1>2, <1>6, ConcatProperties
  <2>2. wire \o <<>> = wire
    BY <1>2, ConcatEmptySeq
  <2> QED BY <1>4, <1>6, <2>1, <2>2
<1>8. CASE k = 0
  <2>1. out' = out /\ wire' = wire
    BY <1>4, <1>7, <1>8
  <2> QED BY <1>1, <1>2, <2>1, Continues
<1>9. CASE k # 0
  <2> DEFINE s == [out EXCEPT !.spoiled = @ \cup {"short write"}]
  <2>1. out' = s
    <3>1. k > 0
      BY <1>5, <1>9
    <3> QED BY <1>4, <3>1 DEF Spoiled
  <2>2. /\ s \in Clients /\ s.obj = out.obj /\ s.sds = out.sds /\ s.buf = out.buf /\ s.reply = out.reply
        /\ s.spoiled # {}
    <3>1. out.spoiled \cup {"short write"} \in SUBSET Causes
      BY <1>2 DEF Clients, Causes
    <3> QED BY <1>2, <3>1 DEF Clients
  <2> HIDE DEF s
  <2>3. \A n : TextOf(s, n) = TextOf(out, n)
    BY <2>2 DEF TextOf
  <2>4. WellTyped(s)
    BY <1>2, <2>2, <2>3 DEF WellTyped, IntsStored, Allocated, Headed
  <2>5. Counted(s, Permanent)
    BY <1>2, <2>2 DEF Counted
  <2> QED BY <1>1, <1>2, <1>7, <2>1, <2>2, <2>4, <2>5, Continues
<1> QED BY <1>8, <1>9

\* The process ends with a part of the bytes sent.
LEMMA WriteFailsKeeps ==
  ASSUME RInv, WriteFails
  PROVE  RInv'
<1> DEFINE going == Outgoing(out)
<1>1. /\ sender' = "dead" /\ Pending(out) /\ written' = written /\ expected' = expected
      /\ replies' = replies /\ out' = out
  BY DEF WriteFails
<1>2. /\ WellTyped(out) /\ Counted(out, Permanent) /\ (out.spoiled = {} => Untouched(out)) /\ out \in Clients
      /\ wire \in Seq(Atoms) /\ expected \in Seq(Atoms) /\ replies \in 0 .. MaxReplies /\ written \in Nat
  BY DEF RInv, WellTyped
<1>3. going \in Seq(Atoms) /\ Len(going) \in Nat
  BY <1>1, <1>2, OutgoingType
<1>4. PICK k \in 0 .. Len(going) - 1 : wire' = wire \o SubSeq(going, 1, k)
  BY DEF WriteFails
<1> HIDE DEF going
<1>5. k \in Int /\ 0 <= k /\ k <= Len(going)
  BY <1>3
<1>6. SubSeq(going, 1, k) \in Seq(Atoms)
  BY <1>3, <1>5, PartType
<1>7. wire' \in Seq(Atoms)
  BY <1>2, <1>4, <1>6, ConcatProperties
<1> QED BY <1>1, <1>2, <1>7, Continues

\* The event is deleted, or left for the next turn of the loop.
LEMMA StopWritingKeeps ==
  ASSUME RInv, StopWriting
  PROVE  RInv'
<1>1. /\ sender = "sending" /\ sender' \in {"idle", "dead"} /\ written' = written /\ expected' = expected
      /\ replies' = replies /\ wire' = wire
      /\ out' = [out EXCEPT !.watched = FALSE] \/ out' = out
  BY DEF StopWriting
<1>2. /\ WellTyped(out) /\ Counted(out, Permanent) /\ (out.spoiled = {} => Untouched(out)) /\ out \in Clients
      /\ wire \in Seq(Atoms) /\ expected \in Seq(Atoms) /\ replies \in 0 .. MaxReplies /\ written \in Nat
      /\ out.spoiled = {} => wire \o PendingBytes(out) = expected
  BY <1>1 DEF RInv, WellTyped
<1>3. Alike([out EXCEPT !.watched = FALSE], out) /\ Alike(out, out)
  BY <1>2, CountersAlike DEF Alike
<1>4. PICK s : out' = s /\ Alike(s, out)
  BY <1>1, <1>3
<1>5. /\ s \in Clients /\ s.obj = out.obj /\ s.sds = out.sds /\ s.buf = out.buf /\ s.reply = out.reply
      /\ s.spoiled = out.spoiled
  BY <1>4 DEF Alike
<1>6. \A n : TextOf(s, n) = TextOf(out, n)
  BY <1>5 DEF TextOf
<1>7. WellTyped(s) /\ Counted(s, Permanent) /\ (s.spoiled = {} => Untouched(s))
  BY <1>2, <1>5, <1>6 DEF WellTyped, IntsStored, Allocated, Headed, Counted, Untouched
<1>8. PendingBytes(s) = PendingBytes(out)
  BY <1>5, <1>6 DEF PendingBytes
<1> QED BY <1>1, <1>2, <1>4, <1>5, <1>7, <1>8, Continues

\* The handler begins, or nothing happens.
LEMMA SameKeeps ==
  ASSUME RInv, out' = out, wire' = wire, expected' = expected, replies' = replies,
         sender' = sender \/ (sender = "idle" /\ sender' = "sending"), written' \in Nat
  PROVE  RInv'
BY Continues DEF RInv

\* Every step keeps the invariant of the output.
LEMMA NextCounted == RInv /\ [ReplyNext]_outputVars => RInv'
<1> SUFFICES ASSUME RInv, [ReplyNext]_outputVars PROVE RInv'
  OBVIOUS
<1>1. CASE ReplyOk \/ ReplyQuit
  BY <1>1, OkKeeps
<1>2. CASE ReplyError \/ ReplyProtocolError
  BY <1>2, ErrorKeeps
<1>3. CASE ReplyBulk
  BY <1>3, BulkKeeps
<1>4. CASE sendReplyToClient
  <2>1. 0 \in Nat
    OBVIOUS
  <2> QED BY <1>4, <2>1, SameKeeps DEF sendReplyToClient
<1>5. CASE WriteAll
  BY <1>5, WriteAllKeeps
<1>6. CASE WriteBlocked
  BY <1>6, WriteBlockedKeeps
<1>7. CASE WriteFails
  BY <1>7, WriteFailsKeeps
<1>8. CASE StopWriting
  BY <1>8, StopWritingKeeps
<1>9. CASE UNCHANGED outputVars
  <2>1. written \in Nat
    BY DEF RInv
  <2> QED BY <1>9, <2>1, SameKeeps DEF outputVars
<1> QED BY <1>1, <1>2, <1>3, <1>4, <1>5, <1>6, <1>7, <1>8, <1>9 DEF ReplyNext

\* Every variable keeps its type, whatever the texts, the sizes and the number
\* of replies: the buffer of addReply never overflows, and no reference count
\* goes below zero when objects are duplicated, sent and dropped.
THEOREM OutputTypes == ReplySpec => []OutputOK
<1>1. RInv => OutputOK
  <2> SUFFICES ASSUME RInv PROVE OutputOK
    OBVIOUS
  <2>1. out \in Clients /\ Counted(out, Permanent) /\ Allocated(out) /\ Len(out.buf) <= REDIS_REPLY_CHUNK_BYTES
    BY DEF RInv, WellTyped
  <2>2. out.reply \in Seq(Names) /\ out.obj \in [Names -> Objects] /\ out.sds \in [Names -> Strings]
        /\ out.reply_bytes \in Int /\ out.watched \in BOOLEAN /\ out.close \in BOOLEAN /\ out.spoiled \subseteq Causes
    BY <2>1 DEF Clients
  <2>3. ASSUME NEW n \in Names
        PROVE  /\ out.obj[n].ptr \in Names /\ out.obj[n].refcount \in Nat
               /\ out.obj[n].encoding \in {"RAW", "EMBSTR", "INT"}
               /\ out.sds[n].free \in Nat /\ out.sds[n].size > Len(out.sds[n].text) + out.sds[n].free
    <3>1. out.obj[n] \in Objects /\ out.sds[n] \in Strings
      BY <2>2
    <3>2. out.obj[n].refcount = Count(out.reply, n) + (IF n \in Permanent THEN 1 ELSE 0)
      BY <2>1 DEF Counted
    <3>3. Count(out.reply, n) \in Nat
      BY <2>2, CountNat
    <3>4. out.obj[n].refcount \in Nat
      BY <3>2, <3>3
    <3> QED BY <2>1, <3>1, <3>4 DEF Objects, Strings, Allocated
  <2>4. \A i \in DOMAIN out.reply : out.reply[i] \in Names
    BY <2>2
  <2> QED BY <2>1, <2>2, <2>3, <2>4 DEF OutputOK, RInv, Causes
<1> QED BY <1>1, InitCounted, NextCounted, PTL DEF ReplySpec

\* An object has as many references as the list of replies and its permanent
\* owner hold: no mixture of addReply, duplications and writes frees one that
\* a client waits for, or keeps one for ever.
THEOREM ReferencesAreCounted == ReplySpec => []ReferencesCounted
<1>1. RInv => ReferencesCounted
  BY DEF RInv, Counted, Count, ReferencesCounted
<1> QED BY <1>1, InitCounted, NextCounted, PTL DEF ReplySpec

\* Nothing that addReply queued is lost, repeated or reordered by buffer, list,
\* merged objects and partial turns of sendReplyToClient, unless one of the
\* three noted events happened.
THEOREM RepliesStayIntact == ReplySpec => []RepliesIntact
<1>1. RInv => RepliesIntact
  <2>1. Untouched(out) => \A n \in Permanent : TextOf(out, n) = Text0(n)
    BY UntouchedText
  <2> QED BY <2>1 DEF RInv, RepliesIntact
<1> QED BY <1>1, InitCounted, NextCounted, PTL DEF ReplySpec
=============================================================================
