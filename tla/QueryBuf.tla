------------------------------- MODULE QueryBuf -------------------------------
(***************************************************************************)
(* The input of one client (networking.py): readQueryFromClient fills the  *)
(* query buffer, processInputBuffer takes requests from it, inline ones    *)
(* and multibulk ones.  The stream of a client arrives in pieces of any    *)
(* size.  The buffer is a string of sds.py: what has been consumed or      *)
(* overwritten stays behind its end, and every search looks there too.     *)
(*                                                                         *)
(* Bytes are atoms, positions count from 0 as in the code.  A turn of a    *)
(* loop is an action; nothing else runs before the handler returns.        *)
(***************************************************************************)
EXTENDS Integers, FiniteSetsExt, SequencesExt

CONSTANTS
  Bytes,                     \* the atoms that requests are made of
  Streams,                   \* what clients may send: sequences of requests
  Numeral(_),                \* the figures with which they write a number
  REDIS_IOBUF_LEN, REDIS_INLINE_MAX_SIZE, REDIS_MBULK_BIG_ARG,
  SDS_MAX_PREALLOC,
  client_max_querybuf_len,
  MaxMultibulk,              \* 1024 * 1024 in the code
  MaxBulk,                   \* 512 * 1024 * 1024 in the code
  LONG_MIN, LONG_MAX,
  Undecodable                \* the texts that are not UTF-8

Requests ==
  [kind : {"multibulk", "inline"}, args : Seq(Seq(Bytes))]
    \cup [kind : {"raw"}, bytes : Seq(Bytes), args : {<<>>}]

\* string2ll, with Python's int: NULs and white space around the figures do not
\* matter, a sign may precede and single underscores may part them, and a number
\* out of the range of a long is none.
Stripped(text, bytes) ==
  LET kept == {i \in DOMAIN text : text[i] \notin bytes}
  IN  IF kept = {} THEN <<>> ELSE SubSeq(text, Min(kept), Max(kept))

White == {"SP", "CR", "LF"}
Digits == <<"0", "1", "2", "3", "4", "5", "6", "7", "8", "9">>
Figures(text) == Stripped(Stripped(text, {"NUL"}), White)
Signed(figures) == figures # <<>> /\ figures[1] \in {"+", "-"}
Unsigned(text) == IF Signed(Figures(text)) THEN Tail(Figures(text)) ELSE Figures(text)
IsLiteral(figures) ==
  /\ figures # <<>> /\ ToSet(figures) \subseteq ToSet(Digits) \cup {"_"}
  /\ figures[1] # "_" /\ Last(figures) # "_"
  /\ \A i \in 2 .. Len(figures) : figures[i - 1] # "_" \/ figures[i] # "_"
Digit(d) == (CHOOSE n \in 1 .. 10 : Digits[n] = d) - 1
WithFigure(n, figure) == IF figure = "_" THEN n ELSE 10 * n + Digit(figure)
Value(figures) ==
  LET value[i \in 0 .. Len(figures)] ==
        IF i = 0 THEN 0 ELSE WithFigure(value[i - 1], figures[i])
  IN  value[Len(figures)]
Amount(text) ==
  IF Figures(text)[1] = "-" THEN - Value(Unsigned(text)) ELSE Value(Unsigned(text))
IsNumber(text) ==
  IsLiteral(Unsigned(text)) /\ LONG_MIN <= Amount(text) /\ Amount(text) <= LONG_MAX
Number(text) == IF IsNumber(text) THEN Amount(text) ELSE 0

\* What a client means for a request reads as one; the rest is "raw".
Written(n) ==
  /\ Numeral(n) \in Seq(Bytes) /\ "CR" \notin ToSet(Numeral(n))
  /\ IsNumber(Numeral(n)) /\ Number(Numeral(n)) = n

WellFormed(r) ==
  \/ /\ r.kind = "multibulk" /\ Len(r.args) <= MaxMultibulk /\ Written(Len(r.args))
     /\ \A j \in DOMAIN r.args : Len(r.args[j]) <= MaxBulk /\ Written(Len(r.args[j]))
  \/ /\ r.kind = "inline" /\ r.args # <<>> /\ r.args[1][1] # "*"
     /\ \A j \in DOMAIN r.args : r.args[j] # <<>> /\ ToSet(r.args[j]) \cap White = {}
  \/ r.kind = "raw" /\ r.bytes # <<>>

ASSUME QueryAssumption ==
  /\ {"NUL", "CR", "LF", "SP", "$", "*"} \subseteq Bytes
  /\ \A s \in Streams : s \in Seq(Requests) /\ \A i \in DOMAIN s : WellFormed(s[i])
  /\ REDIS_IOBUF_LEN \in Nat \ {0} /\ REDIS_INLINE_MAX_SIZE \in Nat
  /\ REDIS_MBULK_BIG_ARG \in Nat \ {0} /\ SDS_MAX_PREALLOC \in Nat
  /\ client_max_querybuf_len \in Nat /\ MaxMultibulk \in Nat /\ MaxBulk \in Nat
  /\ LONG_MIN \in Int /\ LONG_MAX \in Int

VARIABLES
  q,         \* the client: its querybuf and the state of its parser
  pos,       \* the local variable of processMultibulkBuffer
  at,        \* "idle", "turn" (processInputBuffer), "args"; the end of the
             \* process: "dead", and "reset" if the read itself has failed
  socket,    \* bytes sent and not read yet
  sent,      \* the requests of the stream
  executed,  \* the requests given to processCommand
  arrived,   \* how many requests have been read to their last byte
  orderly    \* has no read cut the stream where the parser loses its way?

vars == <<q, pos, at, socket, sent, executed, arrived, orderly>>

-----------------------------------------------------------------------------
\* The client's side: a request as bytes.  "cut" marks the bytes after which
\* a read may end without harm, "ends" the last byte of a request.
Plain(bytes, cut) == [i \in DOMAIN bytes |-> [byte |-> bytes[i], cut |-> cut, ends |-> "no"]]
Closed(bytes, kind) ==
  [i \in DOMAIN bytes |-> IF i < Len(bytes) THEN bytes[i]
                          ELSE [byte |-> bytes[i].byte, cut |-> TRUE, ends |-> kind]]
CutAtEnd(bytes) == Closed(bytes, "no")

BulkBytes(text) ==
  CutAtEnd(Plain(<<"$">> \o Numeral(Len(text)) \o <<"CR", "LF">>, FALSE))
    \o Plain(text \o <<"CR">>, TRUE) \o Plain(<<"LF">>, FALSE)
MultibulkBytes(args) ==
  Plain(<<"*">> \o Numeral(Len(args)) \o <<"CR", "LF">>, FALSE)
    \o FlattenSeq([i \in DOMAIN args |-> BulkBytes(args[i])])
InlineBytes(args) ==
  Plain(FlattenSeq([i \in DOMAIN args |-> args[i] \o (IF i < Len(args) THEN <<"SP">> ELSE <<"CR", "LF">>)]), FALSE)

Encode(r) ==
  CASE r.kind = "multibulk" -> Closed(MultibulkBytes(r.args), "multibulk")
    [] r.kind = "inline" -> Closed(InlineBytes(r.args), "inline")
    [] r.kind = "raw" ->
         [i \in DOMAIN r.bytes |-> [byte |-> r.bytes[i], cut |-> FALSE, ends |-> "raw"]]

-----------------------------------------------------------------------------
\* sds.py, on the querybuf of the client s.
Grown(n) == IF n < SDS_MAX_PREALLOC THEN 2 * n ELSE n + SDS_MAX_PREALLOC
Nuls(n) == [i \in 1 .. n |-> "NUL"]

\* Mutant: the whole allocation is counted as free.
sdsMakeRoomForAll(s, addlen) ==
  IF s.free >= addlen THEN s
  ELSE LET more == Grown(s.len + addlen) - s.len
       IN  [s EXCEPT !.buf = @ \o Nuls(more), !.free = more + s.len]

sdsMakeRoomFor(s, addlen) ==
  IF s.free >= addlen THEN s
  ELSE LET more == Grown(s.len + addlen) - s.len
       IN  [s EXCEPT !.buf = @ \o Nuls(more), !.free = more]

sdsIncrLen(s, incr) ==
  [s EXCEPT !.len = @ + incr, !.free = @ - incr, !.buf[s.len + incr + 1] = "NUL"]

\* sdsrange from a start to the end: the bytes behind stay where they are.
sdsrange(s, start) ==
  LET n == Max({0, s.len - start})
  IN  IF s.len = 0 THEN s
      ELSE [s EXCEPT !.buf = [i \in DOMAIN @ |-> IF i <= n THEN @[i + start]
                                                 ELSE IF i = n + 1 THEN "NUL" ELSE @[i]],
                     !.free = @ + s.len - n, !.len = n]

Slice(s, a, b) == SubSeq(s.buf, a + 1, b)

\* bytearray.find, over the whole allocation.
LineFeeds(s) == {i \in 0 .. Len(s.buf) - 1 : s.buf[i + 1] = "LF"}
LineEnds(s, from) ==
  {i \in from .. Len(s.buf) - 2 : s.buf[i + 1] = "CR" /\ s.buf[i + 2] = "LF"}

-----------------------------------------------------------------------------
EmptySds(s) == [s EXCEPT !.buf = <<"NUL">>, !.len = 0, !.free = 0]

Client == [buf |-> <<"NUL">>, len |-> 0, free |-> 0, reqtype |-> "none",
           multibulklen |-> 0, bulklen |-> -1, argv |-> <<>>, close |-> FALSE, error |-> FALSE]

Init ==
  /\ sent \in Streams
  /\ socket = FlattenSeq([i \in DOMAIN sent |-> Encode(sent[i])])
  /\ q = Client /\ pos = 0 /\ at = "idle"
  /\ executed = <<>> /\ arrived = 0 /\ orderly = TRUE

ghosts == <<socket, sent, arrived, orderly>>

\* A read is in order if it holds requests only, ends at a cut, and right after
\* an inline request if it holds one.
Orderly(chunk) ==
  /\ Last(chunk).cut
  /\ \A i \in 1 .. Len(chunk) - 1 : chunk[i].ends \notin {"inline", "raw"}

\* A big argument is read to its end and not beyond.
ReadLen(s) ==
  IF s.reqtype = "multibulk" /\ s.bulklen >= REDIS_MBULK_BIG_ARG
  THEN Min({REDIS_IOBUF_LEN, s.bulklen + 2 - s.len}) ELSE REDIS_IOBUF_LEN

Received(s, bytes) ==
  LET room == sdsMakeRoomFor(s, ReadLen(s))
      put == [room EXCEPT !.buf = [i \in DOMAIN @ |->
                IF i \in s.len + 1 .. s.len + Len(bytes) THEN bytes[i - s.len] ELSE @[i]]]
  IN  sdsIncrLen(put, Len(bytes))

\* A client over client_max_querybuf_len is freed, which ends the process.
readQueryFromClient ==
  /\ at = "idle"
  /\ \E k \in 1 .. Min({ReadLen(q), Len(socket)}) :
       LET chunk == SubSeq(socket, 1, k)
           filled == Received(q, [i \in 1 .. k |-> chunk[i].byte])
       IN  /\ q' = filled
           /\ at' = IF filled.len > client_max_querybuf_len THEN "dead" ELSE "turn"
           /\ socket' = SubSeq(socket, k + 1, Len(socket))
           /\ orderly' = (orderly /\ Orderly(chunk))
           /\ arrived' = arrived + Cardinality({i \in 1 .. k : chunk[i].ends \in {"multibulk", "inline"}})
  /\ UNCHANGED <<pos, sent, executed>>

\* The peer has closed its side: the handler returns, and the client stays.
readQueryEnd ==
  /\ at = "idle" /\ socket = <<>>
  /\ q' = sdsMakeRoomFor(q, ReadLen(q))
  /\ UNCHANGED <<pos, at, executed, ghosts>>

\* recv raises for a connection that was reset, and nothing catches it.
readQueryFails ==
  /\ at = "idle"
  /\ q' = sdsMakeRoomFor(q, ReadLen(q))
  /\ at' = "reset"
  /\ UNCHANGED <<pos, executed, ghosts>>

-----------------------------------------------------------------------------
\* Mutant: the arguments of the last request stay.
resetClientKeepsArgv(s) == [s EXCEPT !.reqtype = "none", !.multibulklen = 0, !.bulklen = -1]

resetClient(s) ==
  [s EXCEPT !.argv = <<>>, !.reqtype = "none", !.multibulklen = 0, !.bulklen = -1]

setProtocolError(s, p) == [sdsrange(s, p) EXCEPT !.close = TRUE, !.error = TRUE]

\* processCommand: QUIT closes the client and leaves its arguments.  A name that
\* is not UTF-8 raises where it is decoded, which ends the process.
Quit == <<"q">>
Raises(argv) == argv[1] # Quit /\ argv[1] \in Undecodable
Run(s) ==
  IF s.argv[1] = Quit THEN [s EXCEPT !.close = TRUE]
  ELSE IF Raises(s.argv) THEN s ELSE resetClient(s)
AfterRun(argv) == IF Raises(argv) THEN "dead" ELSE "turn"

\* The type of a request is decided once.
IsMultibulk == q.reqtype = "multibulk" \/ (q.reqtype = "none" /\ q.buf[1] = "*")
Typed(s) == [s EXCEPT !.reqtype = IF IsMultibulk THEN "multibulk" ELSE "inline"]

Turn == at = "turn" /\ q.len > 0 /\ ~q.close

StopProcessing ==
  /\ at = "turn" /\ (q.len = 0 \/ q.close)
  /\ at' = "idle"
  /\ UNCHANGED <<q, pos, executed, ghosts>>

-----------------------------------------------------------------------------
\* processInlineBuffer.
InlineTurn == Turn /\ ~IsMultibulk
NoLine == LineFeeds(q) = {} \/ 0 \in LineFeeds(q)

InlineWaits ==
  /\ InlineTurn /\ NoLine
  /\ q' = IF q.len > REDIS_INLINE_MAX_SIZE THEN setProtocolError(Typed(q), 0) ELSE Typed(q)
  /\ at' = "idle"
  /\ UNCHANGED <<pos, executed, ghosts>>

\* The line is cut at its line feed; a carriage return is a separator like
\* any other.  sdssplitargs splits the NUL of sds off and drops it.
Line == Append(Slice(q, 0, Min(LineFeeds(q))), "NUL")
WordStarts == {i \in DOMAIN Line : Line[i] \notin White /\ (i = 1 \/ Line[i - 1] \in White)}
WordEnd(i) == CHOOSE j \in i .. Len(Line) :
                /\ \A m \in i .. j : Line[m] \notin White
                /\ j = Len(Line) \/ Line[j + 1] \in White
WordStart(w) == CHOOSE i \in WordStarts : Cardinality({j \in WordStarts : j <= i}) = w
Words == [w \in 1 .. Cardinality(WordStarts) |-> SubSeq(Line, WordStart(w), WordEnd(WordStart(w)))]

\* The assertion of sdssplitargs fails if the last word has more than the NUL.
InlineAsserts ==
  /\ InlineTurn /\ ~NoLine /\ Last(Words)[1] # "NUL"
  /\ at' = "dead"
  /\ UNCHANGED <<q, pos, executed, ghosts>>

InlineEmpty ==
  /\ InlineTurn /\ ~NoLine /\ Last(Words)[1] = "NUL" /\ Len(Words) = 1
  /\ q' = setProtocolError(Typed(q), 0)
  /\ at' = "idle"
  /\ UNCHANGED <<pos, executed, ghosts>>

\* Two bytes more than the text before the line feed are consumed, the carriage
\* return being a part of that text.
InlineRequest ==
  /\ InlineTurn /\ ~NoLine /\ Last(Words)[1] = "NUL" /\ Len(Words) > 1
  /\ LET argv == Front(Words)
     IN  /\ q' = Run([sdsrange(Typed(q), Min(LineFeeds(q)) + 2) EXCEPT !.argv = argv])
         /\ executed' = Append(executed, argv)
         /\ at' = AfterRun(argv)
  /\ UNCHANGED <<pos, ghosts>>

-----------------------------------------------------------------------------
\* processMultibulkBuffer: the count of the arguments.  Without a line end the
\* line is the whole allocation but its last byte.
MultibulkTurn == Turn /\ IsMultibulk
CountLine ==
  IF LineEnds(q, 0) = {} THEN Slice(q, 0, Len(q.buf) - 1) ELSE Slice(q, 0, Min(LineEnds(q, 0)))
ArgCount == Number(Tail(CountLine))
CountBad == ~IsNumber(Tail(CountLine)) \/ ArgCount > MaxMultibulk

\* Mutant: a request without arguments is not consumed.
EmptyMultibulkKept(s, p) == s

EmptyMultibulk(s, p) == sdsrange(s, p)

\* An error here is noted, and the function goes on with the number it got.
MultibulkCount ==
  /\ MultibulkTurn /\ q.multibulklen = 0
  /\ LET s == IF CountBad THEN setProtocolError(Typed(q), 0) ELSE Typed(q)
         p == Len(CountLine) + 2
     IN  /\ pos' = p
         /\ IF ArgCount <= 0
            THEN q' = resetClient(EmptyMultibulk(s, p)) /\ UNCHANGED at
            ELSE q' = [s EXCEPT !.multibulklen = ArgCount] /\ at' = "args"
  /\ UNCHANGED <<executed, ghosts>>

MultibulkResumed ==
  /\ MultibulkTurn /\ q.multibulklen > 0
  /\ pos' = 0 /\ at' = "args"
  /\ UNCHANGED <<q, executed, ghosts>>

\* The length of one argument.
LengthTurn == at = "args" /\ q.multibulklen > 0 /\ q.bulklen = -1
LengthEnd == Min(LineEnds(q, pos))
LengthText == Slice(q, pos + 1, LengthEnd)
LengthGood == IsNumber(LengthText) /\ 0 <= Number(LengthText) /\ Number(LengthText) <= MaxBulk

BulkLengthTooLong ==
  /\ LengthTurn /\ LineEnds(q, pos) = {} /\ q.len > REDIS_INLINE_MAX_SIZE
  /\ q' = setProtocolError(q, 0) /\ at' = "idle"
  /\ UNCHANGED <<pos, executed, ghosts>>

BulkLengthBad ==
  /\ LengthTurn /\ LineEnds(q, pos) # {}
  /\ Slice(q, pos, pos + 1) # <<"$">> \/ ~LengthGood
  /\ q' = setProtocolError(q, pos) /\ at' = "idle"
  /\ UNCHANGED <<pos, executed, ghosts>>

\* A big argument is moved to the front, and room is made for its end.
BulkLength ==
  /\ LengthTurn /\ LineEnds(q, pos) # {}
  /\ Slice(q, pos, pos + 1) = <<"$">> /\ LengthGood
  /\ LET n == Number(LengthText)
         front == sdsrange(q, LengthEnd + 2)
     IN  IF n >= REDIS_MBULK_BIG_ARG
         THEN /\ q' = [(IF front.len < n + 2 THEN sdsMakeRoomFor(front, n + 2 - front.len)
                                             ELSE front) EXCEPT !.bulklen = n]
              /\ pos' = 0
         ELSE q' = [q EXCEPT !.bulklen = n] /\ pos' = LengthEnd + 2
  /\ UNCHANGED <<at, executed, ghosts>>

\* The argument itself.
Whole == q.len - pos >= q.bulklen + 2
BulkTurn == at = "args" /\ q.multibulklen > 0 /\ q.bulklen # -1

WithArgument(s, text) ==
  [s EXCEPT !.argv = Append(@, text), !.bulklen = -1, !.multibulklen = @ - 1]

\* A big argument that fills the buffer takes it over.
TakesBuffer == pos = 0 /\ q.bulklen >= REDIS_MBULK_BIG_ARG /\ q.len = q.bulklen + 2

\* Mutant: the line end after the argument counts as one byte.
AfterArgumentShort(p, n) == p + n + 1

AfterArgument(p, n) == p + n + 2

BulkArgument ==
  /\ BulkTurn /\ Whole
  /\ IF TakesBuffer
     THEN /\ q' = sdsMakeRoomFor(EmptySds(WithArgument(q, Slice(q, 0, q.bulklen))), q.bulklen + 2)
          /\ pos' = 0
     ELSE /\ q' = WithArgument(q, Slice(q, pos, pos + q.bulklen))
          /\ pos' = AfterArgument(pos, q.bulklen)
  /\ UNCHANGED <<at, executed, ghosts>>

\* The loop is left to wait for more bytes.
MultibulkWaits ==
  /\ \/ LengthTurn /\ LineEnds(q, pos) = {} /\ q.len <= REDIS_INLINE_MAX_SIZE
     \/ BulkTurn /\ ~Whole
  /\ q' = IF pos > 0 THEN sdsrange(q, pos) ELSE q
  /\ at' = "idle" /\ pos' = 0
  /\ UNCHANGED <<executed, ghosts>>

MultibulkRequest ==
  /\ at = "args" /\ q.multibulklen = 0
  /\ q' = Run(IF pos > 0 THEN sdsrange(q, pos) ELSE q)
  /\ executed' = Append(executed, q.argv)
  /\ at' = AfterRun(q.argv) /\ pos' = 0
  /\ UNCHANGED ghosts

-----------------------------------------------------------------------------
Processing ==
  \/ StopProcessing
  \/ InlineWaits \/ InlineAsserts \/ InlineEmpty \/ InlineRequest
  \/ MultibulkCount \/ MultibulkResumed
  \/ BulkLengthTooLong \/ BulkLengthBad \/ BulkLength
  \/ BulkArgument \/ MultibulkWaits \/ MultibulkRequest

Next == readQueryFromClient \/ readQueryEnd \/ readQueryFails \/ Processing

Spec == Init /\ [][Next]_vars

-----------------------------------------------------------------------------
\* The string keeps its room and its NUL, whatever is read and consumed.
TypeOK ==
  /\ q.len \in Nat /\ q.free \in Nat /\ q.len + q.free < Len(q.buf)
  /\ q.buf[q.len + 1] = "NUL"
  /\ q.reqtype \in {"none", "inline", "multibulk"}
  /\ q.multibulklen \in Nat /\ q.bulklen \in Nat \cup {-1}
  /\ q.close \in BOOLEAN /\ q.error \in BOOLEAN
  /\ pos \in Nat /\ at \in {"idle", "turn", "args", "dead", "reset"}
  /\ arrived \in 0 .. Len(sent) /\ orderly \in BOOLEAN

\* The assertions of processMultibulkBuffer hold for every stream, however it
\* is cut: a new request starts with its star and without arguments left over
\* from the one before, and a resumed one still wants some.
AssertionsHold ==
  /\ Turn /\ q.reqtype = "multibulk" /\ q.multibulklen = 0 => q.buf[1] = "*"
  /\ Turn /\ IsMultibulk /\ q.multibulklen = 0 => q.argv = <<>>
  /\ at = "args" /\ q.bulklen # -1 => q.multibulklen > 0

\* Until a read cuts the stream out of order, the requests that have arrived to
\* their last byte have been executed, in their order and with their arguments,
\* up to a QUIT or a name that cannot be decoded, and no other ever is; and the
\* process ends only over such a name, over a buffer that outgrows its limit, or
\* over a read that fails.
Requested(n) ==
  FlattenSeq([i \in 1 .. n |-> IF sent[i].args = <<>> THEN <<>> ELSE <<sent[i].args>>])
Final(argv) == argv[1] = Quit \/ Raises(argv)
Arrived ==
  LET real == Requested(arrived)
      finals == {i \in DOMAIN real : Final(real[i])}
  IN  IF finals = {} THEN real ELSE SubSeq(real, 1, Min(finals))

ArrivedAreExecuted ==
  orderly => /\ at = "idle" => executed = Arrived
             /\ IsPrefix(executed, Arrived)
             /\ ~q.error
             /\ at = "dead" => \/ q.len > client_max_querybuf_len
                               \/ executed # <<>> /\ Raises(Last(executed))

\* processInputBuffer ends for every chunk: a turn of its loop that goes round
\* again has consumed bytes, is to be closed, or left none.
TurnsConsume ==
  [][ at # "idle" /\ at' = "turn" => q'.len < q.len \/ q'.len = 0 \/ q'.close ]_vars
=============================================================================
