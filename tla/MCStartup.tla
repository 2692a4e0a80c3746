------------------------------- MODULE MCStartup -------------------------------
(* Startup on a few files: one that changes the directory between two includes   *)
(* of the same name, one that includes itself, one with a bad line, one that     *)
(* names its append only file, and one with comments, quotes, limits and save.   *)
EXTENDS Startup

MCFiles ==
  (<<"home", "main">> :>
     << <<"port", "1", "#", "2">>, <<"include", "part">>, <<"pidfile", "pid">>,
        <<"dir", "data">>, <<"include", "part">>, <<"pidfile", "pid">>, <<"hz", "10">> >>) @@
  (<<"home", "part">> :> << <<"port", "2">>, <<"databases", "16">>, <<"databases", "#", "2">> >>) @@
  (<<"data", "part">> :>
     << <<"#", "port">>, <<"databases", "2">>, <<"bind", "a", "b">>, <<"dir", "up">>, <<"port", "16">> >>) @@
  (<<"home", "loop">> :> << <<"port", "2">>, <<"include", "loop">> >>) @@
  (<<"home", "bad">> :>
     << <<"appendfilename", "appendonly.aof">>, <<"daemonize", "no">> >>) @@
  (<<"home", "aof">> :>
     << <<"dir", "data">>, <<"appendonly", "1">>, <<"dir", "up">>, <<"include", "/etc">> >>) @@
  (<<"/", "/etc">> :> << <<"appendfilename", "log">> >>) @@
  (<<"home", "many">> :>
     << <<"save", "16", "10">>, <<"save", "''">>, <<"save", "16", "10">>, <<"loglevel", "notice">>,
        <<"client-output-buffer-limit", "normal", "0", "1", "2">>,
        <<"client-output-buffer-limit", "master", "1", "1", "2">>,
        <<"appendfsync", "always">>, <<"notify-keyspace-events", "KEA">>,
        <<"requirepass", "a", "#", "b">>, <<"auto-aof-rewrite-percentage", "0">> >>)

MCInto == (<<"home", "data">> :> "data") @@ (<<"data", "up">> :> "home")

Opt(k, v) == [key |-> k, val |-> v]
With(file, options) == [file |-> file, options |-> options]

MCCommandLines ==
  { With(NoFile, <<>>), With("main", <<>>), With("main", <<Opt("port", <<"10">>)>>),
    With("loop", <<>>), With("bad", <<>>), With("aof", <<>>), With("many", <<>>),
    With(NoFile, <<Opt("appendonly", <<"1">>)>>),
    With(NoFile, <<Opt("appendonly", <<"1">>), Opt("dir", <<"data">>)>>),
    With(NoFile, <<Opt("include", <<"part">>), Opt("notify-keyspace-events", <<"KEA">>)>>),
    With("main", <<Opt("tcp-backlog", <<"16">>)>>),
    With("main", <<Opt("dir", <<"nowhere">>)>>),
    With("main", <<Opt("maxclients", <<"-1">>)>>),
    With(NoFile, <<Opt("port", <<"1">>), Opt("port", <<"2">>)>>) }

MCIntOf == ("-1" :> -1) @@ ("0" :> 0) @@ ("1" :> 1) @@ ("2" :> 2) @@ ("10" :> 10) @@ ("16" :> 16)
MCBaseIntOf == (<<"10", 16>> :> 16) @@ (<<"16", 10>> :> 16) @@ (<<"10", 2>> :> 2)
MCEventFlags == ("KEA" :> 7)

MCDefaults ==
  ("port" :> 6379) @@ ("databases" :> 16) @@ ("maxclients" :> 1) @@ ("hz" :> 10)
    @@ ("save" :> << <<3600, 1>>, <<300, 100>>, <<60, 10000>> >>)
    @@ ("bind" :> <<>>) @@ ("unixsocket" :> <<>>) @@ ("requirepass" :> <<>>)
    @@ ("dbfilename" :> <<"dump.rdb">>) @@ ("appendfsync" :> <<"everysec">>)
    @@ ("pidfile" :> <<"/", "/var/run/redis.pid">>) @@ ("appendfilename" :> <<"appendonly.aof">>)
    @@ [c \in LimitClasses |-> <<0, 0, 0>>] @@ [s \in Settings |-> 0]
=============================================================================
