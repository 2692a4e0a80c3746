-------------------------------- MODULE Reply --------------------------------
(***************************************************************************)
(* The output of one client (networking.py): the fixed buffer, the list of *)
(* reply objects behind it, and sendReplyToClient.  Reply objects are      *)
(* shared: with the other replies (sharedObjects) and with the keyspace.   *)
(*                                                                         *)
(* Bytes are atoms: a reply is a sequence of a few of them and the sizes   *)
(* of the code shrink to match.  An object holds the name of its sds, and  *)
(* two objects may come to hold the same one.  The replies of commands and *)
(* the calls of the event loop interleave; each runs to its end.           *)
(***************************************************************************)
EXTENDS Integers, FiniteSetsExt, SequencesExt

CONSTANTS
  Atoms,           \* the atoms that texts are made of
  SharedText,      \* the objects of sharedObjects: name |-> text
  StoredText,      \* the objects of the keyspace: name |-> text
  StoredEncoding,  \* and their encoding
  Header,          \* "$<len>\r\n" by length, as an atom
  Fresh,           \* bound: names for the objects the replies create
  REDIS_REPLY_CHUNK_BYTES, REDIS_ENCODING_EMBSTR_SIZE_LIMIT,
  REDIS_SHARED_BULKHDR_LEN, REDIS_MAX_WRITE_PER_EVENT,
  IntBytes,        \* 32 in the code: the length of a decoded integer
  MaxShortWrite,   \* bound: bytes a failing write may have sent
  MaxReplies       \* bound: replies in a behaviour

Permanent == DOMAIN SharedText \cup DOMAIN StoredText
Names == Permanent \cup Fresh

\* The objects have names of their own, and an integer fits its buffer.  There
\* is a header for every text that a stored object may hold: its own, or one
\* that replies were merged into.
ASSUME ReplyAssumption ==
  /\ {"ok", "crlf", "hdr"} \subseteq DOMAIN SharedText
  /\ {"err", "msg", "eol", "NUL"} \subseteq Atoms
  /\ \A n \in DOMAIN SharedText : SharedText[n] \in Seq(Atoms)
  /\ \A n \in DOMAIN StoredText :
       /\ StoredText[n] \in Seq(Atoms) /\ StoredEncoding[n] \in {"RAW", "EMBSTR", "INT"}
       /\ StoredEncoding[n] = "INT" => Len(StoredText[n]) <= IntBytes
       /\ \A k \in REDIS_SHARED_BULKHDR_LEN .. Len(StoredText[n]) : Header[k] \in Seq(Atoms)
  /\ \A k \in REDIS_SHARED_BULKHDR_LEN .. REDIS_REPLY_CHUNK_BYTES : Header[k] \in Seq(Atoms)
  /\ DOMAIN StoredEncoding = DOMAIN StoredText
  /\ DOMAIN SharedText \cap DOMAIN StoredText = {}
  /\ Fresh \cap Permanent = {} /\ IsFiniteSet(Fresh)
  /\ REDIS_REPLY_CHUNK_BYTES \in Nat \ {0}
  /\ REDIS_SHARED_BULKHDR_LEN \in Nat
  /\ IntBytes \in Nat /\ MaxReplies \in Nat /\ MaxShortWrite \in Nat

Text0(n) == IF n \in DOMAIN SharedText THEN SharedText[n] ELSE StoredText[n]

VARIABLES
  out,       \* the client's output, the objects, and what has damaged a reply
  sender,    \* "idle", "sending" or "dead"
  written,   \* totwritten of sendReplyToClient
  wire,      \* the bytes the socket took
  expected,  \* the bytes the commands replied
  replies    \* how many replies there were

outputVars == <<out, sender, written, wire, expected, replies>>

-----------------------------------------------------------------------------
\* Strings: sdsnewlen and sdscatlen, with the bytes their buffers take.
sdsnewlen(text) == [text |-> text, free |-> 0, size |-> Len(text) + 1]

sdscatlen(s, text) ==
  LET n == Len(text)
      total == Len(s.text) + n
      room == IF s.free >= n THEN s
              ELSE [s EXCEPT !.size = @ + 2 * total - Len(s.text),
                             !.free = 2 * total - Len(s.text)]
  IN  [text |-> s.text \o text, free |-> room.free - n,
       size |-> room.size + Min({n, Len(s.text)})]

TextOf(s, o) == s.sds[s.obj[o].ptr].text
SizeOf(s, o) == s.sds[s.obj[o].ptr].size

Free(s) == {n \in Fresh : s.obj[n].refcount = 0 /\ \A m \in Names \ {n} : s.obj[m].ptr # n}
NewName(s) == CHOOSE n \in Free(s) : TRUE

createObject(s, text, encoding) ==
  LET n == NewName(s)
  IN  [s EXCEPT !.obj[n] = [ptr |-> n, encoding |-> encoding, refcount |-> 1],
                !.sds[n] = sdsnewlen(text)]

StringEncoding(text) ==
  IF Len(text) <= REDIS_ENCODING_EMBSTR_SIZE_LIMIT THEN "EMBSTR" ELSE "RAW"

Referenced(s, o, by) == [s EXCEPT !.obj[o].refcount = @ + by]

-----------------------------------------------------------------------------
\* Not in the code: a note of the three events after which replies are damaged.
Spoiled(s, cause) == [s EXCEPT !.spoiled = @ \cup {cause}]

Pending(s) == s.buf # <<>> \/ s.reply # <<>>

\* The write event is installed when the output goes from empty to pending.
prepareClientToWrite(s) == IF Pending(s) THEN s ELSE [s EXCEPT !.watched = TRUE]

\* Mutant: the buffer is used whenever there is room in it.
FitsBufferOnly(s, text) == Len(text) <= REDIS_REPLY_CHUNK_BYTES - Len(s.buf)

FitsBuffer(s, text) ==
  s.reply = <<>> /\ Len(text) <= REDIS_REPLY_CHUNK_BYTES - Len(s.buf)

\* The test by which the three functions extend the last object of the list.
Mergeable(s, text) ==
  /\ s.obj[Last(s.reply)].encoding = "RAW"
  /\ Len(TextOf(s, Last(s.reply))) + Len(text) <= REDIS_REPLY_CHUNK_BYTES

TailShared(s) == s.obj[Last(s.reply)].refcount > 1

\* dupLastObjectIfNeeded duplicates a shared object, and the statement that
\* calls it makes the shared object hold the string of its duplicate.
Merged(s, text) ==
  LET tail == Last(s.reply)
      dup == createObject(s, TextOf(s, tail), "RAW")
      own == [Referenced(dup, tail, -1) EXCEPT
                !.reply = Append(Front(s.reply), NewName(s)),
                !.obj[tail].ptr = NewName(s)]
      extended(t) == [t EXCEPT !.sds[t.obj[tail].ptr] = sdscatlen(@, text)]
  IN  IF TailShared(s) THEN Spoiled(extended(own), "shared tail") ELSE extended(s)

ObjectAppended(s, o) ==
  [Referenced(s, o, 1) EXCEPT !.reply = Append(@, o), !.reply_bytes = @ + SizeOf(s, o)]

_addReplyStringToList(s, text) ==
  IF s.reply # <<>> /\ Mergeable(s, text) THEN Merged(s, text)
  ELSE LET n == NewName(s)
           new == createObject(s, text, StringEncoding(text))
       IN  [new EXCEPT !.reply = Append(@, n), !.reply_bytes = @ + SizeOf(new, n)]

\* The one function that adjusts reply_bytes when it extends an object.
_addReplyObjectToList(s, o) ==
  IF s.reply # <<>> /\ Mergeable(s, TextOf(s, o))
  THEN [Merged(s, TextOf(s, o)) EXCEPT !.reply_bytes = @ + Len(TextOf(s, o))]
  ELSE ObjectAppended(s, o)

Buffered(s, text) == [s EXCEPT !.buf = @ \o text]

addReplyString(s, text) ==
  LET p == prepareClientToWrite(s)
  IN  IF FitsBuffer(p, text) THEN Buffered(p, text) ELSE _addReplyStringToList(p, text)

addReplyObject(p, o) ==
  IF FitsBuffer(p, TextOf(p, o)) THEN Buffered(p, TextOf(p, o))
                                 ELSE _addReplyObjectToList(p, o)

\* An integer that does not go into the buffer is decoded into IntBytes bytes,
\* the digits followed by NULs.
PaddedInt(s) == s.reply # <<>> \/ REDIS_REPLY_CHUNK_BYTES - Len(s.buf) < IntBytes
Padded(text) == [i \in 1 .. IntBytes |-> IF i <= Len(text) THEN text[i] ELSE "NUL"]

addReplyInt(p, text) ==
  IF ~PaddedInt(p) THEN Buffered(p, text)
  ELSE LET n == NewName(p)
           dec == Spoiled(createObject(p, Padded(text), "EMBSTR"), "padded integer")
       IN  Referenced(addReplyObject(dec, n), n, -1)

addReply(s, o) ==
  LET p == prepareClientToWrite(s)
  IN  IF s.obj[o].encoding = "INT" THEN addReplyInt(p, Text0(o)) ELSE addReplyObject(p, o)

\* A short length has a shared header object.
addReplyBulkLen(s, n) ==
  IF n < REDIS_SHARED_BULKHDR_LEN THEN addReply(s, "hdr") ELSE addReplyString(s, Header[n])

ObjectLength(s, o) == IF s.obj[o].encoding = "INT" THEN Len(Text0(o)) ELSE Len(TextOf(s, o))

addReplyBulk(s, o) == addReply(addReply(addReplyBulkLen(s, ObjectLength(s, o)), o), "crlf")

addReplyError(s) == addReplyString(addReplyString(addReplyString(s, <<"err">>), <<"msg">>), <<"eol">>)

HeaderText(n) == IF n < REDIS_SHARED_BULKHDR_LEN THEN SharedText["hdr"] ELSE Header[n]

-----------------------------------------------------------------------------
ReplyInit ==
  /\ out = [obj |-> [n \in Names |->
                     [ptr |-> n, refcount |-> IF n \in Permanent THEN 1 ELSE 0,
                      encoding |-> IF n \in DOMAIN StoredText THEN StoredEncoding[n] ELSE "RAW"]],
          sds |-> [n \in Names |-> sdsnewlen(IF n \in Permanent THEN Text0(n) ELSE <<>>)],
          buf |-> <<>>, reply |-> <<>>, reply_bytes |-> 0,
          watched |-> FALSE, close |-> FALSE, spoiled |-> {}]
  /\ sender = "idle" /\ written = 0
  /\ wire = <<>> /\ expected = <<>> /\ replies = 0

\* Bound: the objects that one reply creates at most.
NamesPerReply == 4

\* A command runs while the loop serves the read event; none runs once the
\* client is to be closed, so the tests of that flag here are never met.
Answer(s, bytes) ==
  /\ sender = "idle" /\ ~out.close /\ replies < MaxReplies
  /\ Cardinality(Free(out)) >= NamesPerReply
  /\ out' = s /\ expected' = expected \o bytes /\ replies' = replies + 1
  /\ UNCHANGED <<sender, written, wire>>

ReplyOk == Answer(addReply(out, "ok"), SharedText["ok"])

ReplyBulk ==
  \E o \in DOMAIN StoredText :
    Answer(addReplyBulk(out, o), HeaderText(Len(Text0(o))) \o Text0(o) \o SharedText["crlf"])

ReplyError == Answer(addReplyError(out), <<"err", "msg", "eol">>)

\* QUIT, and a protocol error: the client is closed after this reply.
ReplyQuit == Answer([addReply(out, "ok") EXCEPT !.close = TRUE], SharedText["ok"])

ReplyProtocolError ==
  Answer([addReplyError(out) EXCEPT !.close = TRUE], <<"err", "msg", "eol">>)

-----------------------------------------------------------------------------
\* sendReplyToClient, one turn of its loop at a time.
sendReplyToClient ==
  /\ sender = "idle" /\ out.watched
  /\ sender' = "sending" /\ written' = 0
  /\ UNCHANGED <<out, wire, expected, replies>>

Head1(s) == s.reply[1]
Outgoing(s) == IF s.buf # <<>> THEN s.buf ELSE TextOf(s, Head1(s))

\* Mutant: the node is removed and its object keeps the reference.
NodeDroppedReferenced(s) ==
  [s EXCEPT !.reply = Tail(@), !.reply_bytes = @ - SizeOf(s, Head1(s))]

NodeDropped(s) ==
  [Referenced(s, Head1(s), -1) EXCEPT
     !.reply = Tail(@), !.reply_bytes = @ - SizeOf(s, Head1(s))]

Sent(s) == IF s.buf # <<>> THEN [s EXCEPT !.buf = <<>>] ELSE NodeDropped(s)

\* The whole buffer is counted as written, whatever it held.
WrittenAfter ==
  written + (IF out.buf # <<>> THEN REDIS_REPLY_CHUNK_BYTES ELSE Len(Outgoing(out)))

\* The socket takes everything.  An empty object is dropped without a write.
WriteAll ==
  /\ sender = "sending" /\ Pending(out) /\ written <= REDIS_MAX_WRITE_PER_EVENT
  /\ wire' = wire \o Outgoing(out)
  /\ out' = Sent(out) /\ written' = WrittenAfter
  /\ UNCHANGED <<sender, expected, replies>>

\* Bound: the bytes taken by a write that fails, and one such write only.
ShortWriteLimit(s) == IF "short write" \in s.spoiled THEN 0 ELSE MaxShortWrite

\* sendall fails with EAGAIN after a part of the bytes: nothing is recorded of
\* them, and the handler will be called again.
WriteBlocked ==
  /\ sender = "sending" /\ Pending(out) /\ written <= REDIS_MAX_WRITE_PER_EVENT
  /\ \E k \in 0 .. Min({Len(Outgoing(out)) - 1, ShortWriteLimit(out)}) :
       /\ wire' = wire \o SubSeq(Outgoing(out), 1, k)
       /\ out' = IF k > 0 THEN Spoiled(out, "short write") ELSE out
  /\ sender' = "idle"
  /\ UNCHANGED <<written, expected, replies>>

\* Another error: freeClient, whose listRelease raises an exception that
\* nobody catches.
WriteFails ==
  /\ sender = "sending" /\ Pending(out) /\ written <= REDIS_MAX_WRITE_PER_EVENT
  /\ \E k \in 0 .. Len(Outgoing(out)) - 1 : wire' = wire \o SubSeq(Outgoing(out), 1, k)
  /\ sender' = "dead"
  /\ UNCHANGED <<out, written, expected, replies>>

\* Mutant: the write event is deleted when the buffer is empty.
SentEverythingBuffered(s) == s.buf = <<>>

SentEverything(s) == ~Pending(s)

\* The loop ends; the last reply of a client to be closed ends the process too.
StopWriting ==
  /\ sender = "sending"
  /\ SentEverything(out) \/ written > REDIS_MAX_WRITE_PER_EVENT
  /\ out' = IF SentEverything(out) THEN [out EXCEPT !.watched = FALSE] ELSE out
  /\ sender' = IF SentEverything(out) /\ out.close THEN "dead" ELSE "idle"
  /\ UNCHANGED <<written, wire, expected, replies>>

ReplyNext ==
  \/ ReplyOk \/ ReplyBulk \/ ReplyError \/ ReplyQuit \/ ReplyProtocolError
  \/ sendReplyToClient \/ WriteAll \/ WriteBlocked \/ WriteFails \/ StopWriting

ReplySpec == ReplyInit /\ [][ReplyNext]_outputVars

\* The loop calls the handler of a watched socket, and a client that reads
\* lets a write succeed now and then.
ReplyFairSpec == ReplySpec /\ WF_outputVars(sendReplyToClient \/ StopWriting) /\ SF_outputVars(WriteAll)

-----------------------------------------------------------------------------
\* Every variable keeps its type; the buffer never overflows, no reference
\* count goes below the holders the server itself keeps.
OutputOK ==
  /\ Len(out.buf) <= REDIS_REPLY_CHUNK_BYTES
  /\ \A n \in Names :
       /\ out.obj[n].ptr \in Names /\ out.obj[n].refcount \in Nat
       /\ out.obj[n].encoding \in {"RAW", "EMBSTR", "INT"}
       /\ out.sds[n].free \in Nat /\ out.sds[n].size > Len(out.sds[n].text) + out.sds[n].free
  /\ \A i \in DOMAIN out.reply : out.reply[i] \in Names
  /\ out.reply_bytes \in Int /\ out.watched \in BOOLEAN /\ out.close \in BOOLEAN
  /\ out.spoiled \subseteq {"shared tail", "padded integer", "short write"}
  /\ sender \in {"idle", "sending", "dead"} /\ written \in Nat /\ replies \in 0 .. MaxReplies

\* An object has one reference for every node of the list that holds it and
\* one of its permanent owner: none is freed while the client waits for it.
ReferencesCounted ==
  \A n \in Names :
    out.obj[n].refcount = Cardinality({i \in DOMAIN out.reply : out.reply[i] = n})
                        + (IF n \in Permanent THEN 1 ELSE 0)

\* Output that is pending has its write event: it cannot be left behind.
PendingIsWatched == Pending(out) /\ sender # "dead" => out.watched

PendingBytes(s) == s.buf \o FlattenSeq([i \in DOMAIN s.reply |-> TextOf(s, s.reply[i])])

\* The client receives the bytes of its replies in their order, each once, and
\* the shared objects keep their texts, until one of the three noted events.
RepliesIntact ==
  out.spoiled = {} =>
    /\ sender # "dead" => wire \o PendingBytes(out) = expected
    /\ \A n \in Permanent : out.obj[n].encoding # "INT" => TextOf(out, n) = Text0(n)

\* What a client is waiting for is sent in the end, or the process is gone.
OutputDrains == Pending(out) ~> (~Pending(out) \/ sender = "dead")

-----------------------------------------------------------------------------
\* redis.py:484 says that sentlen deals with short writes: they alone never
\* make the client see a byte twice.
ShortWritesHandled ==
  out.spoiled \subseteq {"short write"} => IsPrefix(wire, expected)
=============================================================================
