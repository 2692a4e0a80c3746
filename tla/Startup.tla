------------------------------- MODULE Startup -------------------------------
(***************************************************************************)
(* How a server starts (redis.py): parse_server_args takes the command     *)
(* line, loadServerConfig the lines of the file it names and of the files  *)
(* those include, then the options; initServer opens what they ask for.    *)
(* The process may be killed at any line, and started again in the same    *)
(* directory: the disk keeps what the last start left on it.               *)
(*                                                                         *)
(* A line is a sequence of words, "#" being one; keys are in lower case.   *)
(* No password of the model is longer than REDIS_AUTHPASS_MAX_LEN.         *)
(***************************************************************************)
EXTENDS Integers, FiniteSetsExt, SequencesExt

CONSTANTS
  CommandLines,   \* [file |-> its name or NoFile, options |-> seq of [key, val]]
  NoFile,
  Files,          \* <<directory, name>> |-> the lines of the file
  Home,           \* the directory the server is started in
  Into,           \* <<directory, name>> |-> the directory that chdir goes to
  Absolute,       \* the names that mean the same file in every directory
  IntOf,          \* word |-> the number int() makes of it
  BaseIntOf,      \* <<word, base>> |-> the number int() makes of it
  EventFlags,     \* word |-> the flags of notify-keyspace-events
  Defaults,       \* setting |-> value, by initServerConfig
  REDIS_MIN_HZ, REDIS_MAX_HZ, REDIS_BINDADDR_MAX, REDIS_EVENTLOOP_FDSET_INCR,
  ListenFd,       \* the highest descriptor listened on
  RecursionLimit, \* of the interpreter, in files included by one another
  MaxStarts,      \* bound: starts in a behaviour
  MaxLines        \* bound: lines of a start that LastLineWins compares with

\* The keys whose value is a number, and those whose value is a text.
NumberKeys ==
  {"timeout", "tcp-keepalive", "port", "tcp-backlog", "unixsocketperm", "databases",
   "maxclients", "rdbcompression", "rdbchecksum", "activerehashing", "daemonize", "hz",
   "appendonly", "no-appendfsync-on-rewrite", "auto-aof-rewrite-percentage",
   "auto-aof-rewrite-min-size", "aof-rewrite-incremental-fsync",
   "hash-max-ziplist-entries", "hash-max-ziplist-value", "list-max-ziplist-entries",
   "list-max-ziplist-value", "set-max-intset-entries", "zset-max-ziplist-entries",
   "zset-max-ziplist-value", "hll-sparse-max-bytes", "slowlog-log-slower-than",
   "slowlog-max-len", "stop-writes-on-bgsave-error"}
TextKeys == {"unixsocket", "dbfilename", "requirepass"}
LimitClasses == {"normal", "slave", "pubsub"}
Settings == NumberKeys \cup TextKeys \cup LimitClasses
              \cup {"bind", "save", "appendfsync", "pidfile", "notify-keyspace-events",
                    "appendfilename"}

\* Keys that argparse stores under another name than loadServerConfig asks for.
Undashed == {"timeout", "port", "bind", "unixsocket", "unixsocketperm", "save", "dir",
             "databases", "include", "maxclients", "rdbcompression", "rdbchecksum",
             "activerehashing", "daemonize", "hz", "appendonly", "appendfilename",
             "appendfsync", "requirepass", "pidfile", "dbfilename"}

ASSUME StartupAssumption ==
  /\ Defaults = [s \in Settings |-> Defaults[s]]
  /\ Defaults["save"] \in Seq(Int \X Int)
  /\ \A p \in DOMAIN BaseIntOf : BaseIntOf[p] \in Int
  /\ \A f \in DOMAIN Files : Files[f] \in Seq(Seq(STRING))
  /\ \A a \in CommandLines : a.file = NoFile \/ <<Home, a.file>> \in DOMAIN Files
  /\ \A a \in CommandLines : a.options \in Seq([key : STRING, val : Seq(STRING)])
  /\ RecursionLimit \in Nat \ {0} /\ MaxStarts \in Nat /\ MaxLines \in Nat

VARIABLES
  phase,     \* "off", "loading", "running" or "failed"
  args,      \* the command line of this start
  stack,     \* the directives to come, those of the innermost file first
  conf,      \* the settings
  cwd,       \* the working directory
  made,      \* what is on the disk: place |-> "dir" or "file"
  touched,   \* has this start asked for an append only file?
  outcomes,  \* command line |-> how its starts have ended
  starts     \* how many starts there were

startVars == <<phase, args, stack, conf, cwd, made, touched, outcomes, starts>>

-----------------------------------------------------------------------------
\* A line counts up to its first "#", and if it has a key and a value then.
Uncommented(line) ==
  IF "#" \in ToSet(line) THEN SubSeq(line, 1, SelectInSeq(line, LAMBDA w : w = "#") - 1) ELSE line
Unquoted(val) == IF val = <<"''">> THEN <<>> ELSE val
Directive(line) ==
  [key |-> Uncommented(line)[1], val |-> Unquoted(Tail(Uncommented(line)))]
Directives(lines) ==
  FlattenSeq([i \in DOMAIN lines |->
                IF Len(Uncommented(lines[i])) >= 2 THEN <<Directive(lines[i])>> ELSE <<>>])

\* An option whose name has a dash inside loses its value.
OptionLines(options) ==
  [i \in DOMAIN options |->
     IF options[i].key \in Undashed THEN options[i] ELSE [options[i] EXCEPT !.val = <<>>]]

\* The lines of the file a command line names, and its options after them.
Commanded(a) ==
  (IF a.file = NoFile THEN <<>> ELSE Directives(Files[<<Home, a.file>>]))
    \o OptionLines(a.options)

Place(dir, name) == IF name \in Absolute THEN <<"/", name>> ELSE <<dir, name>>

IsInt(val) == Len(val) = 1 /\ val[1] \in DOMAIN IntOf
AreInts(val) == \A i \in DOMAIN val : val[i] \in DOMAIN IntOf

\* The parentheses of the line give the second number to int() as a base.
SaveParam(val) == <<BaseIntOf[<<val[1], IntOf[val[2]]>>], 0>>
IsSaveParam(val) ==
  Len(val) >= 2 /\ val[2] \in DOMAIN IntOf /\ <<val[1], IntOf[val[2]]>> \in DOMAIN BaseIntOf

\* The two limits of hz are applied the wrong way round.
NumberFor(key, n) ==
  CASE key = "hz" -> Max({Min({n, REDIS_MIN_HZ}), REDIS_MAX_HZ})
    [] key = "appendonly" -> IF n = 0 THEN 0 ELSE 1
    [] OTHER -> n

\* A class nobody knows is the last one of the list.
ClassOf(name) == IF name \in LimitClasses THEN name ELSE "pubsub"

\* The setting a directive is about, and the value it gives it.
SettingOf(d) == IF d.key = "client-output-buffer-limit" THEN ClassOf(d.val[1]) ELSE d.key

ValueOf(d, dir, before) ==
  CASE d.key \in NumberKeys -> NumberFor(d.key, IntOf[d.val[1]])
    [] d.key \in TextKeys \cup {"bind", "appendfsync"} -> d.val
    [] d.key \in {"pidfile", "appendfilename"} -> Place(dir, d.val[1])
    [] d.key = "save" -> IF d.val = <<>> THEN <<>> ELSE Append(before, SaveParam(d.val))
    [] d.key = "client-output-buffer-limit" -> [i \in 1 .. 3 |-> IntOf[d.val[i + 1]]]
    [] d.key = "notify-keyspace-events" -> IF d.val = <<>> THEN 0 ELSE EventFlags[d.val[1]]

IsSetting(d) ==
  d.key \in (Settings \ LimitClasses) \cup {"client-output-buffer-limit"}

\* The conversions and assertions of loadServerConfig.
Valid(d) ==
  CASE d.key \in NumberKeys ->
         IsInt(d.val) /\ (d.key = "auto-aof-rewrite-percentage" => IntOf[d.val[1]] >= 0)
    [] d.key = "bind" -> Len(d.val) < REDIS_BINDADDR_MAX
    [] d.key = "appendfsync" -> d.val \in {<<"no">>, <<"always">>, <<"everysec">>}
    [] d.key = "save" -> d.val = <<>> \/ IsSaveParam(d.val)
    [] d.key = "client-output-buffer-limit" -> Len(d.val) = 4 /\ AreInts(Tail(d.val))
    [] d.key = "notify-keyspace-events" -> d.val = <<>> \/ (Len(d.val) = 1 /\ d.val[1] \in DOMAIN EventFlags)
    [] d.key \in {"pidfile", "appendfilename"} -> Len(d.val) = 1
    [] OTHER -> TRUE

-----------------------------------------------------------------------------
Nothing == [p \in {} |-> p]

StartupInit ==
  /\ phase = "off" /\ args \in CommandLines
  /\ stack = <<>> /\ conf = Defaults /\ cwd = Home
  /\ made = Nothing /\ touched = FALSE
  /\ outcomes = [a \in CommandLines |-> {}] /\ starts = 0

Twice(options) == \E i, j \in DOMAIN options : i # j /\ options[i].key = options[j].key

Ends(how) ==
  /\ phase' = how
  /\ outcomes' = [outcomes EXCEPT ![args] = @ \cup
       {[how |-> IF touched' THEN "disk" ELSE how,
         conf |-> IF touched' \/ how = "failed" THEN Defaults ELSE conf]}]

\* initServerConfig and parse_server_args; argparse refuses an option given twice.
Start ==
  /\ phase = "off" /\ starts < MaxStarts
  /\ starts' = starts + 1
  /\ \E a \in CommandLines :
       /\ args' = a
       /\ stack' = <<Commanded(a)>>
       /\ phase' = IF Twice(a.options) THEN "failed" ELSE "loading"
  /\ conf' = Defaults /\ cwd' = Home /\ touched' = FALSE
  /\ UNCHANGED <<made, outcomes>>

-----------------------------------------------------------------------------
\* loadServerConfig, a directive at a time.
Loading == phase = "loading" /\ stack # <<>> /\ stack[1] # <<>>
This == stack[1][1]

\* Mutant: the directive is not left behind.
RestKept(s) == s

Rest(s) == <<Tail(s[1])>> \o Tail(s)

Applied(d) ==
  [conf EXCEPT ![SettingOf(d)] = ValueOf(d, cwd, @)]

Set ==
  /\ Loading /\ IsSetting(This) /\ Valid(This) /\ This.key # "appendfilename"
  /\ conf' = Applied(This) /\ stack' = Rest(stack)
  /\ UNCHANGED <<phase, args, cwd, made, touched, outcomes, starts>>

\* The path of the append only file is made a directory.
SetAppendFilename ==
  /\ Loading /\ This.key = "appendfilename" /\ Valid(This)
  /\ touched' = TRUE
  /\ LET p == Place(cwd, This.val[1])
     IN  IF p \in DOMAIN made
         THEN Ends("failed") /\ UNCHANGED <<stack, conf, made>>
         ELSE /\ made' = [q \in DOMAIN made \cup {p} |-> IF q = p THEN "dir" ELSE made[q]]
              /\ conf' = Applied(This) /\ stack' = Rest(stack)
              /\ UNCHANGED <<phase, outcomes>>
  /\ UNCHANGED <<args, cwd, starts>>

Target(d) == <<cwd, d.val[1]>>

ChangeDir ==
  /\ Loading /\ This.key = "dir" /\ Target(This) \in DOMAIN Into
  /\ cwd' = Into[Target(This)] /\ stack' = Rest(stack)
  /\ UNCHANGED <<phase, args, conf, made, touched, outcomes, starts>>

\* Mutant: an included file is read when the file that includes it is through.
IncludedLast(rest, lines) == Append(rest, lines)

Included(rest, lines) == <<lines>> \o rest

Includable(d) ==
  Place(cwd, d.val[1]) \in DOMAIN Files /\ Len(stack) < RecursionLimit

Include ==
  /\ Loading /\ This.key = "include" /\ Includable(This)
  /\ stack' = Included(Rest(stack), Directives(Files[Place(cwd, This.val[1])]))
  /\ UNCHANGED <<phase, args, conf, cwd, made, touched, outcomes, starts>>

\* A key nobody knows is passed over.
Skip ==
  /\ Loading /\ ~IsSetting(This) /\ This.key \notin {"dir", "include"}
  /\ stack' = Rest(stack)
  /\ UNCHANGED <<phase, args, conf, cwd, made, touched, outcomes, starts>>

\* An exception ends the process: a value that does not convert, a directory or a
\* file that is not there, too many files within one another.
Raise ==
  /\ Loading
  /\ \/ IsSetting(This) /\ ~Valid(This)
     \/ This.key = "dir" /\ Target(This) \notin DOMAIN Into
     \/ This.key = "include" /\ ~Includable(This)
  /\ UNCHANGED <<args, stack, conf, cwd, made, touched, starts>>
  /\ Ends("failed")

FileEnds ==
  /\ phase = "loading" /\ stack # <<>> /\ stack[1] = <<>>
  /\ stack' = Tail(stack)
  /\ UNCHANGED <<phase, args, conf, cwd, made, touched, outcomes, starts>>

-----------------------------------------------------------------------------
\* The default name is relative and looked up when the file is opened.
AppendFile ==
  IF conf["appendfilename"] = Defaults["appendfilename"]
  THEN Place(cwd, conf["appendfilename"][1]) ELSE conf["appendfilename"]

\* Mutant: an append only file that is there is opened, wanted or not.
OpensIfThere(c) == c["appendonly"] = 1 \/ AppendFile \in DOMAIN made

Opens(c) == c["appendonly"] = 1

\* The listening sockets need their place in the event loop.
Watchable == ListenFd < conf["maxclients"] + REDIS_EVENTLOOP_FDSET_INCR
IsDirectory(p) == p \in DOMAIN made /\ made[p] = "dir"

OpenServer ==
  /\ phase = "loading" /\ stack = <<>>
  /\ touched' = (touched \/ (Watchable /\ conf["appendonly"] = 1))
  /\ IF Watchable /\ (Opens(conf) => ~IsDirectory(AppendFile))
     THEN /\ Ends("running")
          /\ made' = IF Opens(conf)
                     THEN [q \in DOMAIN made \cup {AppendFile} |->
                             IF q = AppendFile THEN "file" ELSE made[q]]
                     ELSE made
     ELSE Ends("failed") /\ UNCHANGED made
  /\ UNCHANGED <<args, stack, conf, cwd, starts>>

\* The process ends at any instant, killed or of itself.
Stop ==
  /\ phase # "off"
  /\ phase' = "off" /\ stack' = <<>>
  /\ UNCHANGED <<args, conf, cwd, made, touched, outcomes, starts>>

Load == Set \/ SetAppendFilename \/ ChangeDir \/ Include \/ Skip \/ Raise \/ FileEnds \/ OpenServer

StartupNext == Start \/ Load \/ Stop

\* The process runs.
StartupSpec == StartupInit /\ [][StartupNext]_startVars /\ WF_startVars(Load)

-----------------------------------------------------------------------------
\* The directives of a command line read as one text: a file that is included
\* stands in the place of its include, and each line has the directory in force there.
Onward(r) ==
  IF r.rest = <<>> THEN r
  ELSE LET d == r.rest[1]
           file == Place(r.dir, d.val[1])
           dir == <<r.dir, d.val[1]>>
       IN  [lines |-> Append(r.lines, [d |-> d, dir |-> r.dir]),
            rest |-> (IF d.key = "include" /\ file \in DOMAIN Files
                      THEN Directives(Files[file]) ELSE <<>>) \o Tail(r.rest),
            dir |-> IF d.key = "dir" /\ dir \in DOMAIN Into THEN Into[dir] ELSE r.dir]

Reading(a) ==
  LET read[n \in 0 .. MaxLines] ==
        IF n = 0 THEN [lines |-> <<>>, rest |-> Commanded(a), dir |-> Home] ELSE Onward(read[n - 1])
  IN  read[MaxLines]

\* The settings c are those of these lines: of each the last line about it counts,
\* and the save lines add up since the last empty one.
Follows(c, lines) ==
  LET about(s) == {i \in DOMAIN lines : IsSetting(lines[i].d) /\ SettingOf(lines[i].d) = s}
      given(l) == ValueOf(l.d, l.dir, <<>>)
      cleared == {i \in about("save") : lines[i].d.val = <<>>}
      adding == {i \in about("save") : \A j \in cleared : j < i}
      first == IF cleared = {} THEN Defaults["save"] ELSE <<>>
  IN  /\ \A s \in Settings \ {"save"} :
           c[s] = IF about(s) = {} THEN Defaults[s] ELSE given(lines[Max(about(s))])
      /\ Len(c["save"]) = Len(first) + Cardinality(adding)
      /\ \A k \in DOMAIN first : c["save"][k] = first[k]
      /\ \A i \in adding : c["save"][Len(first) + Cardinality({j \in adding : j <= i})]
                               = SaveParam(lines[i].d.val)

\* A running server has, for every setting, the value of the last line about it
\* in the order of the files, includes read in their places and relative to the
\* directory in force there, options after all of them; without such a line,
\* the default (redis.conf:22).  The save lines add up since the last empty one.
LastLineWins ==
  phase = "running" =>
    LET r == Reading(args) IN r.rest = <<>> => Follows(conf, r.lines)

\* What a start comes to depends on its command line and its files and on
\* nothing that earlier starts did, whatever they were and wherever they were
\* killed, as long as it asks for no append only file.
StartsAlike == \A a \in CommandLines : Cardinality(outcomes[a]) <= 1

\* Every start comes to an end, files that include each other included.
StartEnds == phase = "loading" ~> phase # "loading"
=============================================================================
