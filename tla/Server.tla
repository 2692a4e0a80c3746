-------------------------------- MODULE Server --------------------------------
(***************************************************************************)
(* The running server: the event loop of Ae with the handlers that         *)
(* networking.py and redis.py register with it.  Descriptor 0 listens; an  *)
(* accepted connection gets the next number.  A peer's bytes are pieces:   *)
(* "c" is a command, "c1" and "c2" are the halves of one, "q" is QUIT or a *)
(* malformed request, which close the client in the same way, and "x" is a *)
(* request that raises: a name that is not UTF-8, quotes that stop         *)
(* sdssplitargs at its assertion.                                          *)
(* Replies are counted here; Reply models their bytes.                     *)
(* freeClient raises an exception nobody catches (listRelease deletes a    *)
(* name it never bound), so whatever frees a client ends the process.      *)
(***************************************************************************)
EXTENDS Ae

CONSTANTS
  maxclients,
  MAX_ACCEPTS_PER_CALL,
  MaxPieces               \* bound: pieces each peer sends

ASSUME ServerAssumption ==
  /\ setsize > maxclients + 1 /\ maxclients \in Nat
  /\ MAX_ACCEPTS_PER_CALL \in Nat \ {0}
  /\ Procs = {"acceptTcpHandler", "readQueryFromClient", "sendReplyToClient"}
  /\ NoProc \notin Procs
  /\ Delays # {}

Listener == 0
Conns == Fds \ {Listener}
Pieces == {"c", "c1", "c2", "q", "x"}
IsCommand(p) == p \in {"c", "c2"}

VARIABLES
  backlog,    \* connections waiting to be accepted
  clients,    \* server.clients, by descriptor
  peer,       \* per connection: the bytes in the socket, how many were sent, the
              \* end, whether it takes output, and the commands before its QUIT
  query,      \* per connection: querybuf
  closing,    \* the clients with REDIS_CLOSE_AFTER_REPLY
  out,        \* per connection: replies in the output buffers
  done,       \* per connection: commands executed
  stat        \* stat_numcommands, stat_numconnections, stat_rejected_conn

connVars == <<clients, query, closing, out, done, stat>>
allVars == <<vars, backlog, peer, connVars>>

-----------------------------------------------------------------------------
\* initServer and main: one listening socket, the time event of serverCron, and
\* the loop.  The clock stands still, for no handler depends on it.
ServerInit ==
  /\ Init
  /\ backlog = 0 /\ clients = {}
  /\ peer = [fd \in Conns |->
       [bytes |-> <<>>, sent |-> 0, half |-> FALSE, end |-> "open", blocked |-> FALSE,
        asked |-> 0, quit |-> FALSE]]
  /\ query = [fd \in Conns |-> <<>>]
  /\ closing = {}
  /\ out = [fd \in Conns |-> 0] /\ done = [fd \in Conns |-> 0]
  /\ stat = [numcommands |-> 0, numconnections |-> 0, rejected |-> 0]

initServer ==
  /\ at = "setup" /\ at' = "poll"
  /\ \E ms \in Delays :
       el' = TimerAdded(Registered(el, Listener, {"r"}, "acceptTcpHandler"), clock, ms)
  /\ UNCHANGED <<fired, rfired, running, clock, ran, backlog, peer, connVars>>

-----------------------------------------------------------------------------
\* The peers, while the process is there.
Connect ==
  /\ at # "dead" /\ Cardinality(clients) + backlog < Cardinality(Conns)
  /\ backlog' = backlog + 1
  /\ UNCHANGED <<vars, peer, connVars>>

\* asked counts the commands a peer sends in front of its first "q".
Send(fd, p) ==
  /\ at # "dead" /\ fd \in clients /\ peer[fd].end = "open" /\ peer[fd].sent < MaxPieces[fd]
  /\ peer[fd].half <=> p = "c2"
  /\ peer' = [peer EXCEPT ![fd].bytes = Append(@, p), ![fd].sent = @ + 1,
                          ![fd].half = (p = "c1"), ![fd].quit = @ \/ p = "q",
                          ![fd].asked = IF IsCommand(p) /\ ~peer[fd].quit THEN @ + 1 ELSE @]
  /\ UNCHANGED <<vars, backlog, connVars>>

\* A peer hangs up, or resets the connection, also one it has hung up before.
Hangup(fd) ==
  /\ at # "dead" /\ fd \in clients /\ peer[fd].end = "open"
  /\ peer' = [peer EXCEPT ![fd].end = "eof"]
  /\ UNCHANGED <<vars, backlog, connVars>>

Reset(fd) ==
  /\ at # "dead" /\ fd \in clients /\ peer[fd].end # "reset"
  /\ peer' = [peer EXCEPT ![fd].end = "reset", ![fd].blocked = FALSE]
  /\ UNCHANGED <<vars, backlog, connVars>>

\* The socket of a peer that does not read takes only a part of what waits for
\* it, or nothing, until the peer reads again.
Stall(fd) ==
  /\ at # "dead" /\ fd \in clients /\ out[fd] > 0 /\ peer[fd].end # "reset"
  /\ peer' = [peer EXCEPT ![fd].blocked = TRUE]
  /\ UNCHANGED <<vars, backlog, connVars>>

Resume(fd) ==
  /\ at # "dead" /\ peer[fd].blocked
  /\ peer' = [peer EXCEPT ![fd].blocked = FALSE]
  /\ UNCHANGED <<vars, backlog, connVars>>

-----------------------------------------------------------------------------
\* select answers with every socket that is ready.  A blocked one may be: there is
\* room in it, but not for the next piece.
Readable == {fd \in clients : peer[fd].bytes # <<>> \/ peer[fd].end # "open"}
            \cup (IF backlog > 0 THEN {Listener} ELSE {})

Poll ==
  /\ at = "poll" /\ at' = "file"
  /\ \E full \in SUBSET {fd \in clients : peer[fd].blocked} :
       fired' = Fired(el, Readable \cap el.rfds, el.wfds \ full)
  /\ UNCHANGED <<el, rfired, running, clock, ran, backlog, peer, connVars>>

Dispatch ==
  /\ CallReader \/ CallWriter \/ FileEventsServed \/ processTimeEvents
  /\ UNCHANGED <<backlog, peer, connVars>>

Finish == running' = Nobody /\ UNCHANGED <<fired, rfired, clock, ran>>
Die == at' = "dead" /\ Finish

\* freeClient, up to the call of listRelease, which raises.
Freed(s, fd) == Unregistered(Unregistered(s, fd, {"r"}), fd, {"w"})

\* acceptTcpHandler accepts until the backlog is empty, or for its share.
Accepted == Min({backlog, MAX_ACCEPTS_PER_CALL})
NewFds == {fd \in Conns : Cardinality(clients) < fd /\ fd <= Cardinality(clients) + Accepted}

\* acceptCommonHandler: the connection is already among the clients.
Full(n) == n > maxclients

\* Mutant: maxfd does not follow the new descriptors.
CreatedBeyondMaxfd(s, fds) ==
  [s EXCEPT !.mask = [fd \in Fds |-> IF fd \in fds THEN {"r"} ELSE @[fd]],
            !.rproc = [fd \in Fds |-> IF fd \in fds THEN "readQueryFromClient" ELSE @[fd]],
            !.rfds = @ \cup fds]

\* createClient, for each of the new sockets.
Created(s, fds) ==
  [s EXCEPT !.mask = [fd \in Fds |-> IF fd \in fds THEN {"r"} ELSE @[fd]],
            !.rproc = [fd \in Fds |-> IF fd \in fds THEN "readQueryFromClient" ELSE @[fd]],
            !.rfds = @ \cup fds,
            !.maxfd = Max({@} \cup fds)]

\* In this server nothing frees a client and lives, so the descriptors of the
\* clients are the numbers from 1 on.
acceptTcpHandler ==
  /\ running.proc = "acceptTcpHandler"
  /\ ~Full(Cardinality(clients) + Accepted)
  /\ el' = Created(el, NewFds)
  /\ clients' = clients \cup NewFds
  /\ backlog' = backlog - Accepted
  /\ stat' = [stat EXCEPT !.numcommands = @ + Accepted]
  /\ Finish /\ UNCHANGED <<at, peer, query, closing, out, done>>

\* One connection too many is told so, counted, and freed: its events are
\* deleted before the process ends, and it is still among the clients.
Excess == maxclients + 1
acceptRejects ==
  /\ running.proc = "acceptTcpHandler"
  /\ Full(Cardinality(clients) + Accepted)
  /\ LET fds == {fd \in NewFds : fd <= Excess}
     IN  /\ el' = Freed(Created(el, fds), Excess)
         /\ clients' = clients \cup fds
         /\ backlog' = backlog - Cardinality(fds)
         /\ stat' = [stat EXCEPT !.rejected = @ + 1,
                                 !.numcommands = @ + Cardinality(fds) - 1]
  /\ Die /\ UNCHANGED <<peer, query, closing, out, done>>

-----------------------------------------------------------------------------
\* Mutant: input that follows a QUIT in the same buffer is still processed.
ProcessedDespiteClose(input, closed) == Len(input)

\* How far processInputBuffer gets: to the request that closes the client or
\* raises, and nowhere if the client is being closed already.
Processed(input, closed) ==
  LET stops == {i \in DOMAIN input : input[i] \in {"q", "x"}}
  IN  IF closed THEN 0 ELSE IF stops = {} THEN Len(input) ELSE Min(stops)

Commands(input, n) == Cardinality({i \in 1 .. n : IsCommand(input[i])})

\* What stays in querybuf: everything not processed, and a half command.
Leftover(input, n) ==
  IF n > 0 /\ input[n] = "c1" THEN SubSeq(input, n, Len(input))
                              ELSE SubSeq(input, n + 1, Len(input))

\* A request that raises ends the process, after those in front of it were run.
readQueryFromClient ==
  LET fd == running.fd
  IN  /\ running.proc = "readQueryFromClient" /\ peer[fd].bytes # <<>>
      /\ \E k \in 1 .. Len(peer[fd].bytes) :
           LET input == query[fd] \o SubSeq(peer[fd].bytes, 1, k)
               n == Processed(input, fd \in closing)
               commands == Commands(input, n)
               closes == n > 0 /\ input[n] = "q"
               replies == commands + (IF closes THEN 1 ELSE 0)
           IN  /\ peer' = [peer EXCEPT ![fd].bytes = SubSeq(@, k + 1, Len(@))]
               /\ query' = [query EXCEPT ![fd] = Leftover(input, n)]
               /\ done' = [done EXCEPT ![fd] = @ + commands]
               /\ out' = [out EXCEPT ![fd] = @ + replies]
               /\ closing' = IF closes THEN closing \cup {fd} ELSE closing
               /\ stat' = [stat EXCEPT !.numcommands = @ + commands]
               /\ el' = IF replies > 0 /\ out[fd] = 0
                        THEN Registered(el, fd, {"w"}, "sendReplyToClient") ELSE el
               /\ at' = IF n > 0 /\ input[n] = "x" THEN "dead" ELSE at
      /\ Finish /\ UNCHANGED <<backlog, clients>>

\* The peer has hung up: recv answers with nothing and the handler returns.
readQueryEof ==
  /\ running.proc = "readQueryFromClient"
  /\ peer[running.fd].bytes = <<>> /\ peer[running.fd].end # "reset"
  /\ Finish /\ UNCHANGED <<el, at, backlog, peer, connVars>>

\* recv raises for a reset connection, perhaps before its bytes were read.  A
\* buffer that holds an unfinished request, or what came behind a QUIT, may outgrow
\* client_max_querybuf_len with the next read, and its client is freed.
readQueryDies ==
  LET fd == running.fd
  IN  /\ running.proc = "readQueryFromClient"
      /\ \/ peer[fd].end = "reset" /\ UNCHANGED el
         \/ peer[fd].bytes # <<>> /\ query[fd] # <<>> /\ el' = Freed(el, fd)
      /\ Die /\ UNCHANGED <<backlog, peer, connVars>>

\* Mutant: the write event outlives the output it was installed for.
WriterKept(s, fd) == s

WriterRemoved(s, fd) == Unregistered(s, fd, {"w"})

\* What is left when sendReplyToClient ends its loop: a blocked socket raises
\* EAGAIN in front of some piece; another takes all, or at least one piece until
\* REDIS_MAX_WRITE_PER_EVENT is reached.
Unsent(fd) ==
  {n \in 0 .. out[fd] : out[fd] > 0 => IF peer[fd].blocked THEN n > 0 ELSE n < out[fd]}

sendReplyToClient ==
  LET fd == running.fd
  IN  /\ running.proc = "sendReplyToClient" /\ peer[fd].end # "reset"
      /\ \E n \in Unsent(fd) :
           /\ n = 0 => fd \notin closing
           /\ out' = [out EXCEPT ![fd] = n]
           /\ el' = IF n = 0 THEN WriterRemoved(el, fd) ELSE el
      /\ Finish /\ UNCHANGED <<at, backlog, clients, peer, query, closing, done, stat>>

\* The last reply of a client to be closed: freeClient.
sendLastReply ==
  LET fd == running.fd
  IN  /\ running.proc = "sendReplyToClient" /\ peer[fd].end # "reset"
      /\ fd \in closing /\ 0 \in Unsent(fd)
      /\ out' = [out EXCEPT ![fd] = 0] /\ el' = Freed(WriterRemoved(el, fd), fd)
      /\ Die /\ UNCHANGED <<backlog, clients, peer, query, closing, done, stat>>

\* Any error of the socket but EAGAIN: freeClient.
sendFails ==
  LET fd == running.fd
  IN  /\ running.proc = "sendReplyToClient" /\ peer[fd].end = "reset" /\ out[fd] > 0
      /\ el' = Freed(el, fd)
      /\ Die /\ UNCHANGED <<backlog, peer, connVars>>

Handlers ==
  \/ acceptTcpHandler \/ acceptRejects
  \/ readQueryFromClient \/ readQueryEof \/ readQueryDies
  \/ sendReplyToClient \/ sendLastReply \/ sendFails

Serving == initServer \/ Poll \/ Dispatch \/ Handlers

PeersMove ==
  \/ Connect
  \/ \E fd \in Conns : \/ Hangup(fd) \/ Reset(fd) \/ Stall(fd) \/ Resume(fd)
                       \/ \E p \in Pieces : Send(fd, p)

ServerNext ==
  \/ initServer \/ Poll \/ Dispatch
  \/ acceptTcpHandler \/ acceptRejects
  \/ readQueryFromClient \/ readQueryEof \/ readQueryDies
  \/ sendReplyToClient \/ sendLastReply \/ sendFails
  \/ PeersMove

ServerSpec == ServerInit /\ [][ServerNext]_allVars

\* The process runs; the peers owe nothing.
ServerFairSpec == ServerSpec /\ WF_allVars(Serving)

-----------------------------------------------------------------------------
\* Between two handlers the sets given to select are those the clients call
\* for: every client is read from, and written to exactly while it has output.
SelectFollowsClients ==
  at \in {"poll", "file", "time"} =>
    /\ el.rfds = {Listener} \cup clients
    /\ el.wfds = {fd \in clients : out[fd] > 0}

\* Every command a peer sends in front of its QUIT, or of its malformed request, is
\* executed once, and none behind it: at any time those executed and those that
\* wait, in the query buffer or in the socket, are together the ones asked for.
\* Halves meet, whatever reads cut them, and nothing runs that came with the QUIT
\* in one read or stayed in the buffer after it.
Unexecuted(fd) ==
  LET input == query[fd] \o peer[fd].bytes
  IN  {i \in DOMAIN input : IsCommand(input[i]) /\ \A j \in 1 .. i : input[j] # "q"}
CommandsRunOnce ==
  at # "dead" =>
    \A fd \in Conns :
      done[fd] + (IF fd \in closing THEN 0 ELSE Cardinality(Unexecuted(fd))) = peer[fd].asked

\* A peer that sent a whole command is answered in the end, however many others
\* are ready or take no output, and although hung-up sockets stay ready for ever,
\* unless it ended the conversation before, does not read, or the process died, as
\* it does when a connection more than maxclients comes.
Unanswered(fd) == \E i \in DOMAIN peer[fd].bytes : IsCommand(peer[fd].bytes[i])
CommandsAreAnswered ==
  \A fd \in 1 .. maxclients :
    (Unanswered(fd) \/ out[fd] > 0) ~> \/ ~Unanswered(fd) /\ out[fd] = 0
                                       \/ fd \in closing \/ peer[fd].blocked
                                       \/ at = "dead"

-----------------------------------------------------------------------------
\* redis.conf:368 says that a connection over the limit is closed with an error.
RejectionIsSurvived == [][stat'.rejected > stat.rejected => at' # "dead"]_allVars
=============================================================================
