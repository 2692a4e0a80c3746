------------------------------- MODULE Session -------------------------------
(***************************************************************************)
(* A client's requests from the socket to its replies on the socket:       *)
(* QueryBuf reads and parses them, processCommand (redis.py) executes them *)
(* on the keyspace, Reply takes what they answer.  The loop calls the read *)
(* handler and the write handler in any order, each to its end.            *)
(*                                                                         *)
(* Here a key holds an object of Reply, one for each text; time to live    *)
(* and the options EX and PX of SET are in StringCommands.                 *)
(***************************************************************************)
EXTENDS QueryBuf, Reply

VARIABLE dict       \* the keyspace: key |-> object

sessionVars == <<vars, outputVars, dict>>

-----------------------------------------------------------------------------
Nothing == [k \in {} |-> k]
SessionInit == Init /\ ReplyInit /\ dict = Nothing

\* The commands of the table that are implemented; the code compares names in
\* lower case.
Get == <<"g">>
Set == <<"s">>

\* The options of SET, from its fourth word on.
Nx == <<"nx">>
Xx == <<"xx">>
Options(argv) == {argv[j] : j \in 4 .. Len(argv)}
IsStore(argv) == Len(argv) >= 3 /\ argv[1] = Set /\ Options(argv) \subseteq {Nx, Xx}

\* There is an object for every text that the streams store.  Bound: no stream
\* has a word EX or PX.
ASSUME SessionAssumption ==
  /\ {"nullbulk", "syntaxerr"} \subseteq DOMAIN SharedText
  /\ "garbled" \in DOMAIN StoredText
  /\ Get \notin Undecodable /\ Set \notin Undecodable
  /\ {"ex", "px"} \cap Bytes = {}
  /\ \A s \in Streams : \A i \in DOMAIN s :
       LET argv == s[i].args
       IN  IsStore(argv) => \E o \in DOMAIN StoredText : StoredText[o] = argv[3]
  /\ MaxReplies >= Max({Len(s) : s \in Streams}) + 1

ErrorText == <<"err", "msg", "eol">>

\* Bound: a text that no stream holds comes from a stream cut out of order; all
\* such texts are one object.
ObjectOf(text) ==
  IF \E o \in DOMAIN StoredText : StoredText[o] = text
  THEN CHOOSE o \in DOMAIN StoredText : StoredText[o] = text ELSE "garbled"

quit(argv) ==
  /\ argv[1] = Quit
  /\ ReplyQuit
  /\ UNCHANGED dict

\* lookupCommand decodes the name; nothing is answered if that raises.
undecoded(argv) == Raises(argv) /\ UNCHANGED <<outputVars, dict>>

\* The name is looked up, and the arity tested.
Accepted(argv) == (argv[1] = Get /\ Len(argv) = 2) \/ (argv[1] = Set /\ Len(argv) >= 3)

rejected(argv) ==
  /\ argv[1] # Quit /\ ~Raises(argv) /\ ~Accepted(argv)
  /\ Answer(addReplyError(out), ErrorText)
  /\ UNCHANGED dict

getCommand(argv) ==
  /\ argv[1] = Get /\ Accepted(argv)
  /\ IF argv[2] \in DOMAIN dict
     THEN LET o == dict[argv[2]]
          IN  Answer(addReplyBulk(out, o),
                      HeaderText(Len(Text0(o))) \o Text0(o) \o SharedText["crlf"])
     ELSE Answer(addReply(out, "nullbulk"), SharedText["nullbulk"])
  /\ UNCHANGED dict

\* Mutant: a key that exists keeps its object.
setKeyOnce(d, k, o) == [x \in DOMAIN d \cup {k} |-> IF x \in DOMAIN d THEN d[x] ELSE o]

\* setKey replaces the object of the key; the old one stays as long as a reply
\* holds it.
setKey(d, k, o) == [x \in DOMAIN d \cup {k} |-> IF x = k THEN o ELSE d[x]]

\* Mutant: the options are accepted and forgotten.
NeverRefused(options, k, keys) == FALSE

Refused(options, k, keys) == (Nx \in options /\ k \in keys) \/ (Xx \in options /\ k \notin keys)

setCommand(argv) ==
  /\ argv[1] = Set /\ Accepted(argv)
  /\ IF ~IsStore(argv)
     THEN Answer(addReply(out, "syntaxerr"), SharedText["syntaxerr"]) /\ UNCHANGED dict
     ELSE IF Refused(Options(argv), argv[2], DOMAIN dict)
     THEN Answer(addReply(out, "nullbulk"), SharedText["nullbulk"]) /\ UNCHANGED dict
     ELSE /\ dict' = setKey(dict, argv[2], ObjectOf(argv[3]))
          /\ Answer(addReply(out, "ok"), SharedText["ok"])

\* None runs once the client is to be closed: the loop of processInputBuffer
\* stops, and a count over the limit is followed by fewer arguments in the buffer.
processCommand(argv) ==
  quit(argv) \/ undecoded(argv) \/ rejected(argv) \/ getCommand(argv) \/ setCommand(argv)

-----------------------------------------------------------------------------
\* Both handlers run in the one thread of the loop, and the end of the process
\* ends both.
Read ==
  /\ sender = "idle"
  /\ readQueryFromClient \/ readQueryEnd \/ readQueryFails
  /\ UNCHANGED <<outputVars, dict>>

Execute ==
  /\ \/ InlineRequest \/ MultibulkRequest
  /\ processCommand(Last(executed'))

\* A protocol error is answered where it is noted; a second one is dropped.
Parse ==
  /\ Processing /\ executed' = executed
  /\ IF q'.error /\ ~q.error THEN ReplyProtocolError ELSE UNCHANGED outputVars
  /\ UNCHANGED dict

Write ==
  /\ at = "idle"
  /\ \/ sendReplyToClient \/ WriteAll \/ WriteBlocked \/ WriteFails
     \/ StopWriting
  /\ UNCHANGED <<vars, dict>>

SessionNext == Read \/ Execute \/ Parse \/ Write

SessionSpec == SessionInit /\ [][SessionNext]_sessionVars

-----------------------------------------------------------------------------
\* What a map from keys to texts answers to a request, and what it becomes.
Stores(map, a) ==
  /\ IsStore(a)
  /\ Nx \in Options(a) => a[2] \notin DOMAIN map
  /\ Xx \in Options(a) => a[2] \in DOMAIN map

AnswerTo(map, a) ==
  IF a[1] = Quit THEN SharedText["ok"]
  ELSE IF Raises(a) THEN <<>>
  ELSE IF a[1] = Get /\ Len(a) = 2
  THEN IF a[2] \in DOMAIN map
       THEN HeaderText(Len(map[a[2]])) \o map[a[2]] \o SharedText["crlf"]
       ELSE SharedText["nullbulk"]
  ELSE IF a[1] = Set /\ Len(a) >= 3
  THEN IF ~IsStore(a) THEN SharedText["syntaxerr"]
       ELSE IF Stores(map, a) THEN SharedText["ok"] ELSE SharedText["nullbulk"]
  ELSE ErrorText

MapAfter(map, a) ==
  IF Stores(map, a)
  THEN [k \in DOMAIN map \cup {a[2]} |-> IF k = a[2] THEN a[3] ELSE map[k]]
  ELSE map

\* What the map is, and what has been answered, after the first n requests.
Answered(requests) ==
  LET after[n \in 0 .. Len(requests)] ==
        IF n = 0 THEN [map |-> Nothing, bytes |-> <<>>]
        ELSE LET s == after[n - 1]
                 a == requests[n]
             IN  [map |-> MapAfter(s.map, a), bytes |-> s.bytes \o AnswerTo(s.map, a)]
  IN  after
AnswersTo(requests) == Answered(requests)[Len(requests)].bytes

\* Whatever the client has received answers the requests it has sent to their
\* last byte, one after the other, as a map would; and between two calls of the
\* handlers what is received and what waits answers every one of them.  This
\* holds up to a read that cuts the stream out of order and up to the events
\* after which Reply damages its output.
AnswersInOrder ==
  orderly /\ out.spoiled = {} =>
    /\ IsPrefix(wire, AnswersTo(Arrived))
    /\ at = "idle" /\ sender # "dead" =>
         wire \o PendingBytes(out) = AnswersTo(Arrived)
=============================================================================
