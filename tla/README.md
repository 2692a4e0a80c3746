# redis-server-py, specified

`src/redis_server/` is a rewrite of a Redis 3.0 server in Python, "for learning redis". It is one
single-threaded process: an event loop over `select` reads requests from sockets, executes
commands on an in-memory keyspace and writes replies. Only `GET` and `SET` do something; several
data structures of the original are translated and have no caller yet.

These TLA+ modules model that program from its source, TLC checks them on small instances, and
TLAPS proves the central invariants for every instance. File and line references are to
`src/redis_server/`; `PROJECT.json` maps each definition to the lines it stands for.

## 1. The system

| component | state | operations | works with |
|---|---|---|---|
| event loop (`ae.py`, `ae_select.py`) | registered masks and procedures per descriptor, `maxfd`, the two sets of `select`, fired events, time events | create and delete file and time events, one pass: poll, serve, run time events | calls back the handlers; they change it while a pass is under way |
| clients and server (`redis.py`, `networking.py`) | `clients`, per client flags and buffers, statistics | start, accept, reject, read, write, free | registers its handlers with the loop; a client that is freed ends the process (below) |
| client input (`networking.py`, `sds.py`) | `querybuf` with its stale bytes, `reqtype`, `multibulklen`, `bulklen`, `argv` | `readQueryFromClient`, `processInputBuffer`, the inline and the multibulk parser | hands complete requests to `processCommand` |
| client output (`networking.py`, `adlist.py`) | fixed buffer, reply list, `reply_bytes`, `sentlen` | `addReply*`, `sendReplyToClient` | shares reply objects with the keyspace and with `sharedObjects`; installs and removes the write event |
| string commands (`commands/string.py`) | none | `SET` with `NX XX EX PX`, `GET` | read the clock several times per command; use the keyspace |
| keyspace (`db.py`) | `dict`, `expires`, counters | lookup with lazy expiry, set, set expire, delete | two dictionaries that must agree |
| dictionary (`rdict.py`) | two tables, `rehashidx`, `iterators`, `dict_can_resize` | add, replace, delete, find, resize, expand, a rehash step in every call, iterators | under the keyspace |
| linked list (`adlist.py`) | links of the nodes, `head`, `tail`, `len`; iterators | add, insert, delete, rotate, search, index, copy, iterate | the reply list and the list of clients |
| skip list (`zskiplist.py`) | levels with forward links and spans, backward links | insert, delete, range deletions, rank, element by rank | a dictionary of the same members; no command uses it |
| objects (`robject.py`) | encodings, reference counts | encode, decode, count | values and replies |
| configuration and startup (`redis.py`, `config.py`) | command line, lines still to be loaded, settings, working directory, what is on the disk | `parse_server_args`, `loadServerConfig` with its includes, `initServer` | decides the limits the other parts work under; its effects on the disk outlive the process |
| compact encodings, socket wrappers, stubs | | | see section 7 |

What is hard to get right, and hard to test, is listed line by line under `hazards` in
`PROJECT.json`. In short:

* *interleaving without threads*: a procedure called by the loop changes the registrations of
  descriptors that are still to be served; a rehash advances inside every call of a dictionary;
  an iterator of a list lives across calls that change the list;
* *two copies of one fact*: masks and select sets, keys and deadlines, tables and their counters,
  links in both directions, spans and positions;
* *stale data*: the query buffer keeps consumed bytes behind its end and the parser searches them;
  an expired key stays until a command touches it; an object that is extended in place is held by
  others;
* *partial work*: requests cut anywhere by reads, replies cut anywhere by writes, `freeClient`
  failing half way;
* *time*: a command reads the wall clock several times, and the clock may be set back;
* *order across parts*: replies of one read wait in the buffer, in the list or half sent while the
  next requests change the keyspace; a file is included in the middle of another, in a directory
  that lines before it may have changed;
* *restarts*: loading a line already changes the disk, so that a start that is killed or fails
  further on meets its own remains at the next start.

What makes each component correct: the dictionary is a map, and loses or doubles nothing during a
rehash; the keyspace cannot be told from one whose keys vanish at their deadline; the loop calls
what is wanted and only that, and does not sleep past a time event; requests are executed as sent
and in order; replies arrive whole and in order; every command is answered; the list is a
sequence and the skip list a sorted set; the last line about a setting wins, and a start does not
depend on those before it.

## 2. The modules

Each component has a module; an abstract module says what it promises, an `MC` module and its
`.cfg` files give the instance that TLC checks, a `Proofs` module holds the theorems.

| module | models | promise |
|---|---|---|
| `RDict` | `rdict.py` | `DictMap`, through `RDictCalls` |
| `Db`, `StringCommands` | `db.py`, `commands/string.py`, the conversions of `robject.py` | `ExpiringMap` |
| `Ae` | `ae.py`, `ae_select.py` | properties |
| `Server` (extends `Ae`) | startup, accept, read, write and free handlers of `networking.py`, `redis.py` | properties |
| `QueryBuf` | the input half of `networking.py`, the calls of `sds.py` it makes | properties |
| `Reply` | the output half of `networking.py`, reply objects | properties |
| `Session` (extends `QueryBuf` and `Reply`, composes the two) | `processCommand`, `lookupCommand`, `GET`, `SET`, `QUIT` between both halves | the answers of a map, in order |
| `Startup` | `parse_server_args`, `loadServerConfig`, `initServerConfig`, `initServer`, over several starts | properties |
| `AdList` | `adlist.py` | `ListSeq`, through `AdListCalls` |
| `ZSkipList` | `zskiplist.py` | `SortedSet`, through `ZSkipListCalls` |

The three `...Calls` modules add one variable, the last call with its arguments, so that the
refinement compares the effect and the answer of a call with what the promise says *for these
arguments*. `ExpiringMap` gets the same from the variable `request`.

The proof modules are `RDictProofs` (which extends `RDictCalls`), `StringProofs`, `ServerProofs`
(which has the theorems of `Ae` first, then those of `Server`, which extends `Ae`, and last those of
`Startup`, which is why the specification of `Startup` is called `StartupSpec`),
`ReplyProofs`, `QueryBufProofs` (which extends `Session` and `ReplyProofs`, and ends with the theorem
about the two together), `AdListProofs` (which extends
`AdListCalls`) and `ZSkipListProofs` (which extends `ZSkipListCalls`).
`CommonLemmas` has what they share: least and greatest numbers, the ends of a sequence, texts joined
to one (`FlattenSeq`), elements inserted, removed or moved, and the existence of recursive functions
(`RecursionExists`).

How the modules are written:

* One handler or API call is one action, since nothing else runs before it returns. The exceptions
  are the places where control does pass: `Ae` has a step for each call of a procedure, because the
  procedures change the registrations; `QueryBuf` has a step for each turn of the parser's loops;
  `Reply` has a step for each `send`. The code's helper functions are operators on a record that
  stands for the object they change, composed in the order of the code.
* An exception that nobody catches ends the process: the variable `at` becomes `"dead"`.
  `freeClient` always raises one, because `listRelease` executes `del rList` on a name that is not
  local (`adlist.py:63`). `Server`, `QueryBuf` and `Reply` therefore end where the code frees a
  client, and their runs switch the deadlock check off. At the end of a connection
  `readQueryFromClient` returns without freeing the client (`networking.py:402-404`); its socket
  stays ready at every pass, and `Server` keeps it so.
* `Db` reads the clock at an instant that is an argument; `StringCommands` chooses the instants of
  one command in order between the clock before and after it. The clock may be set back between two
  commands, not inside one.
* `RDict` keeps a chain as the set of its entries; the order in a chain decides nothing. `Find` is
  `dictFind`; `FetchValue` is `dictFetchValue`, which answers with nothing for a value that Python
  takes for false (the constant `Falsy`, `rdict.py:426`), and `DictMap` says so. Sizes are
  taken from `TableSizes`, which the assumption `SizesSuffice` makes large enough.
* `Server` extends `Ae`: its handlers change the loop with the operators of `Ae`, and `Ae`'s own
  steps for polling and time events are its steps. Requests are abstract there (two halves of a
  command, QUIT or malformed, one that raises), since `QueryBuf` has their bytes, and replies are
  counted, since `Reply` has theirs. A peer may hang up, reset its connection, or stop reading
  (`Stall`): then `select` reports its socket writable or not, and a write takes a part of the
  output, or nothing, and ends with EAGAIN. Another write takes everything, or stops at
  `REDIS_MAX_WRITE_PER_EVENT`; one on a reset connection frees the client, and a read from it raises
  (`networking.py:396`). A process that ends leaves what it had done: the events deleted by
  `freeClient`, the client still in the list.
* `Reply` lets two objects hold the same string: `_addReplyStringToList` copies the last object of
  the list and then stores the copy's pointer in the *old* object too (`networking.py:130`).
  `spoiled` notes when this, a padded integer or a partly sent buffer has happened.
* `Session` joins the actions of `QueryBuf` with those of `Reply`, whose names for a specification
  begin with `Reply` (`ReplyInit`, `ReplySpec`) so that both can be extended: a turn of the parser that completes a request is the
  same step as the reply of its command, and a handler starts only when the other has returned.
  Its keyspace maps keys to the objects of `Reply`. `SET` has its options `NX` and `XX`; `EX` and `PX`,
  and the deadlines they set, are in `StringCommands`, and no stream has these two words. A name that
  is not UTF-8 (`Undecodable`) raises in `lookupCommand` (`redis.py:632`) and ends the process.
  `AnswersInOrder` compares what the client has received, byte for byte, with the answers that a
  map gives to the requests the client has sent.
* `Startup` loads one directive at a time from a stack of files; `made` is the disk, `outcomes`
  remembers for every command line how its starts have ended. A setting is compared by its value, a
  path by the directory it means. `Reading`, the reference that `LastLineWins` compares with, reads
  the files as one text with the included files in their places, and `Follows` says which of its
  lines count; it knows no stack and no settings. The comparison covers starts of up to `MaxLines`
  lines; in the run every start that serves has fewer.
* `QueryBuf` works on atoms instead of characters; positions, lengths, `len`, `free` and the bytes
  behind the end are those of the code. `orderly` notes whether a read has cut the stream where the
  parser loses its way: inside the line of a header, or inside an inline request. How a client
  writes a number is the constant `Numeral`, of which `WellFormed` asks only that `string2ll` reads
  the same number back; what a client may send besides well-formed requests is `raw`.
  `string2ll` is Python's `int` between `LONG_MIN` and `LONG_MAX`, with signs and underscores, so that `*-1` is an empty request (`ArgCount`); an argument longer than `MaxBulk` is a protocol
  error. `recv` may find the end of input (`readQueryEnd`) or raise (`readQueryFails`).
* `AdList` numbers its nodes; a deleted node keeps its links while an iterator stands on it.
  `start`, `seen` and `upset` are history: what an iterator should return, has returned, and
  whether the node under it was deleted.
* `ZSkipList` knows a node by its object and takes the level of a new node from all levels instead
  of from `zslRandomLevel`. The loops of a search (`Descend`) and of a range deletion
  (`DeletedWhile`) take their condition as the set of the nodes, with their ranks, that it admits.

Definitions marked `Mutant:` are plausible mistakes in the definition that follows them. No
specification uses them; each shows that a property can fail.

## 3. What is checked

| run | instance | what it shows |
|---|---|---|
| `dict` | 3 keys of which 2 collide, 2 values, tables of 1 to 8 slots, one iterator | `Placement`, `OneHome`, `UsedCounts`, `RehashFrontier`; no entry moves while an iterator is open (`IteratorsFreezeEntries`); a rehash ends if calls keep coming and iterators are closed (`RehashEnds`); `RDictCalls` implements `DictMap`, with a falsy value in it |
| `strings` | 2 keys, 2 texts, 3 option words, a clock that may be set back | keys and deadlines agree, a deadline is new and in the future, used once, and nothing is lost before it; `StringCommands` implements `ExpiringMap`: lazy expiry is invisible but for entries that come back when the clock is set back |
| `loop` | 3 descriptors, 2 procedures, which create and delete any event; or 2 time events with delays 1, 2 and 4 and 3 ms per second | `SelectAgrees`, `MaxfdCovers`; each call uses up an event that fired in this pass and calls the procedure registered at that moment (`CallsAreWanted`), none is lost (`FiredIsServed`); the sleep ends by the nearest deadline (`SleepEndsByDeadline`) |
| `reply_output` | 3 replies of every kind, buffer of 3 bytes | references counted, pending output watched and sent in the end, bytes intact and in order unless spoiled |
| `server` | 3 connections, 2 clients allowed, 2 pieces of input from one peer and 1 from the others, any of which stops reading, resets or hangs up | the select sets follow the clients (`SelectFollowsClients`), the commands in front of a QUIT run once and none behind it (`CommandsRunOnce`), every command is answered (`CommandsAreAnswered`) |
| `session` | 16 streams of SETs, GETs and others, reads of up to 12 bytes, buffer of 3 bytes | the string keeps its room (`TypeOK`), no assertion fails, every turn consumes, requests are executed as sent while `orderly`, and the client receives their answers in order (`AnswersInOrder`) |
| `list` | 3 nodes, 2 values, one iterator | links mirror each other, an iterator returns every node once, `AdListCalls` implements `ListSeq` |
| `skiplist` | 3 objects, 2 scores, 3 levels | level and backward links in order, spans exact, a rank finds its node, `ZSkipListCalls` implements `SortedSet` |
| `startup` | 14 command lines, 7 files, 3 starts, each killed anywhere | `LastLineWins`; a start is not changed by those before it unless it asks for an append only file (`StartsAlike`); files that include themselves end (`StartEnds`) |

The type invariants of the dictionary, of the string commands and of the loop are theorems
(section 5) and not repeated as runs; the one of `QueryBuf` stays in `session`, because it says that
no write leaves the room of the string.

Why these bounds are enough to meet the cases that matter:

* *dictionary*: three keys grow a table from one slot to four, and with removals let it shrink
  again; every call meets a table in the middle of a rehash. Two keys share a slot in every small
  table, one does not. The forced resize ratio is 1 instead of 5, so that three keys reach it while
  resizing is disabled.
* *strings*: a second has 2 ms, so that `EX 1` and `PX 1` differ, and time 0 to 2 lets the deadline
  of `PX 1` pass between two clock readings of one command. Three words are the longest combination
  of options that is not a repetition (`nx`, `ex` and its number); `0`, `-5` and a word that is no
  number are the expiries that are refused, and a key word at the end takes no number.
  `MaxCommands` only bounds the counters. The two keys are symmetric.
* *loop*: three descriptors have a highest one, one below it and one to be served later in the same
  pass. The third is only ever registered for reading and by one procedure: it is there for
  `maxfd`, while the first two have every combination of kinds and procedures. Three ms per second
  and delays around them exercise carry, borrow and truncation. The code for time events does not
  look at registrations nor the other way round, so the constraint `RegistrationsOrTimeEvents`
  explores registrations with the clock at rest, and time events with the clock running and no
  procedure registered; the theorems of `ServerProofs` about `Ae` hold without it.
* *reply*: the buffer is shorter than two replies, a value is smaller, equal or larger than the
  limits, three replies are needed for one to reach a list whose last object is shared. Twelve
  names are enough for the three replies, which take at most `NamesPerReply` each.
* *server*: with two clients allowed and three connecting, one is over the limit. Two pieces
  (`MaxPieces`) make a whole command, two pipelined ones, one cut in half, and one before or behind a
  QUIT or a request that raises; the other peers send one piece each, which is enough to be in the
  way. Two replies wait at once, so that a write can take a part.
* *session*: streams hold pipelined requests that set a key and read it back, values that share
  an object with a reply still waiting, an argument above `REDIS_MBULK_BIG_ARG`, an empty request,
  both request types after each other, commands that are refused, `NX` and `XX` with and without
  effect, QUIT, a name that is not UTF-8, a count over the limit, one below zero, one with an
  underscore that is out of the range, an argument longer than `MaxBulk` and an empty line; the
  limits are small (`MaxBulk` 6, longs from -9 to 9) so that one or two figures cross them;
  reads end everywhere; the longest stream does not fit in the buffer's limit twice;
  a value does not fit in the fixed buffer, so that answers go to the list and overtaking is
  possible. `AnsweredOrUnsent` stops following what is sent once `AnswersInOrder` says nothing any
  more, and goes on with the parser alone. Short writes are in `reply_output`.
* *startup*: one file includes the same name twice with a change of directory between, one includes
  itself (the interpreter's recursion limit is 4 files), one fails after it named its append only
  file, one comes back from another directory and names it in an absolute include; options with and
  without inner dashes, refused twice, or out of range. Three starts let a first leave something, a
  second fail on it and a third show that it still does.
* *lists*: with three nodes there is one at, one before and one behind an iterator; two equal values
  show that a search answers the first. With three levels a node is passed over by a level above
  and has one below; with two scores the objects decide among equals.

**Fairness.** `loop_cron` assumes weak fairness of the loop's steps, `server` of the server's,
`startup` of loading: the process runs. The peers of `server` owe nothing: they need not connect, send,
read or close. `CommandsAreAnswered` therefore excepts a peer that does not read (its socket is
blocked at some moment of the wait), one whose conversation is closing, and the end of the process.
`reply_output` adds strong fairness of a
write that the socket takes whole: the peer reads, so that one succeeds again and again. `dict` has
no fairness; that calls come and iterators end is the premise of `RehashEnds`, since nothing in the
code guarantees it. `FiredIsServed` says of every step that it loses no event, which needs none.

`TurnsConsume` stands where one would ask that `processInputBuffer` ends: every turn takes bytes,
arguments or the connection away, so no input keeps it going for ever.

**Why `orderly`.** `processMultibulkBuffer` searches the whole allocation for the end of a line and
takes "not found" (-1) for a position. A read that ends inside `*n\r\n` makes it a protocol error,
and one that ends between two arguments may find a stale CR LF. An inline request consumes two
bytes after its text (`networking.py:278`), whatever its line ended with, and a read that ends
inside an inline request may execute stale bytes. `ArrivedAreExecuted` holds until a read does
one of these; the model shows nothing about the requests after that.

## 4. Where the code and its own words disagree

Three are runs that TLC ends with a counterexample, listed under `findings`:

| run | what happens |
|---|---|
| `loop_cron` | `timeEventNextId` stays 0, so `processTimeEvents` skips every event (`ae.py:185`): `serverCron` never runs, although `redis.py:109` gives its frequency |
| `reply_short_write` | after a short write `sendall` starts again from the first byte, although `redis.py:484` keeps `sentlen` for that case |
| `server_reject` | a connection over `maxclients` ends the process, although `redis.conf:368` says it gets an error and is closed |

Met while reading the code, modelled as they are, and without a run of their own:

* a loop without time events fails `assert tvp` (`ae_select.py:62`) where `ae.py:236` says it blocks;
  the server always has one;
* a string merged into the last object of the reply list is not counted in `reply_bytes`
  (`networking.py:149`);
* `stat_numcommands` counts accepted connections besides commands and `stat_numconnections` nothing
  (`networking.py:485`);
* a line feed in front of the buffer holds up all lines behind it (`networking.py:261`), and a line
  ended by a bare line feed fails the assertion of `sdssplitargs` (`sds.py:224`);
* at the start: the limits of `hz` are swapped and it is always 500, although `redis.conf` says 1
  to 500; the shipped `redis.conf` cannot be loaded, since `daemonize no` goes to `int()`; the two
  numbers of a `save` line go to one `int()` as digits and base; a client class that is not known
  sets the limits of pubsub; options with a dash inside their name lose their value;
  `appendfilename` makes a *directory* of that name, so that a second start fails and an append only
  file of that name cannot be opened. `StartsAlike` therefore excepts starts that ask for one;
* `zslGetRank` answers 0 for every member (`zskiplist.py:167`), so that the lookup of
  `tests/test_zskiplist.py` works for the first element only (this function is not modelled);
* `EX` or `PX` as the last word is ignored; `NX` together with `XX` never stores; texts that look
  like integers are read back in canonical form; the exclusive upper bound of
  `zslDeleteRangeByScore` includes its score; every time event has the id 1.

## 5. What is proved

TLAPS checks every step; the assumptions are those named in the modules (`RDictAssumption`,
`SizesSuffice`, `StringAssumption`, `AeAssumption`, `ServerAssumption`, `ReplyAssumption`,
`QueryAssumption`, `SessionAssumption`, `StartupAssumption`, `AdListAssumption`, `ZSkipListAssumption`), which TLC evaluates in the runs of these modules.

* `RDictProofs`, for every set of keys, hash function, set of table sizes and number of iterators:
  `TypeOK`, `Placement`, `OneHome`, `UsedCounts` and `RehashFrontier` hold in every reachable state.
  None of them is inductive alone. A rehash step keeps `OneHome` only because entries lie in the
  slots of their hashes and below the frontier there are none; `UsedCounts` survives only because
  an entry that is moved is not yet in the other table; the assertion of `dictRehash` needs
  `UsedCounts` to find a full bucket. So `DictOK` is their conjunction with the type, every helper
  of `rdict.py` has a lemma that it keeps `DictOK` (`StepKeeps`, `ExpandKeeps`, `InsertKeeps`...),
  every call composes these lemmas, and `StructureHolds` is the induction.
* `StringProofs`, for every set of keys and texts, every clock and any number of option words:
  `TypeOK`, `ExpiresInDict`, `ExpiredOnce`, and the action properties `KeysLeaveOnlyExpired` and
  `NewDeadlineInFuture`. The invariant `DbOK` adds to them the shape of the record and that the
  deadlines are finite in number. The action properties follow from an account of what one command
  does to one key: an expiry removes only the key it looks at and only after its deadline, and a
  deadline is added only by `setExpire`.
* `ServerProofs` on `Ae`, for every number of descriptors, set of procedures, delays and clock: `TypeOK`,
  `SelectAgrees`, `MaxfdCovers` and the action property `CallsAreWanted`. The masks, the two sets and
  `maxfd` change in separate statements, so one invariant `LoopOK` holds them together, with the
  procedures that are registered (`ProcsKnown`). `Registered` and `Unregistered` keep it
  (`RegisteredKeeps`, `UnregisteredKeeps`); for the latter `HighestBelowBounds` shows that the
  downward scan stops at no lower place than the highest descriptor still registered, by the
  greatest element of a bounded set. Whatever else a pass does leaves the registrations as they are
  (`TimersKeep`). `CallsAreWanted` follows because mask and procedure are looked up again for every
  call (`StillWanted`), and because a pass only ever takes from the calls it may still make
  (`Callable`); the fired events alone would not give it.
* `ServerProofs` on `Server`, for every number of descriptors and connections, every input, every
  `maxclients` below the size of the set, and peers that stop reading, reset or hang up at any time:
  `SelectFollowsClients` and `CommandsRunOnce`. While the process lives (`Alive`), the clients are the
  numbers from 1 to their count (`Numbered`), only clients have output or are being closed (`Buffers`),
  what is registered follows from both (`Watched`), and a handler runs for a descriptor it belongs to
  (`Served`). The first is what makes `accept`
  give a new client a descriptor that is free; the last is what lets `readQueryFromClient` assume a
  client. `CommandsRunOnce` is `Accounts`, which compares what was executed with what was sent: a read moves pieces from
  the socket behind those in the buffer and changes neither what is asked nor what waits; what
  `processInputBuffer` takes away is what it executes; and a half command stays, so that its other
  half meets it. It speaks of the read of the QUIT itself, since what came with it is left in the
  buffer and no longer waits. The proofs use those about `Ae` for every change of the loop.
* `ReplyProofs`, for all texts, sizes and numbers of replies: `PendingIsWatched`, `OutputOK`,
  `ReferencesCounted` and `RepliesIntact`. Every function that adds output calls
  `prepareClientToWrite` first and no function behind it touches the event (`SameEvent`, one lemma
  for each function), and the event is removed only when nothing is pending. The rest is one
  invariant, `RInv`. It has the type with the room of the fixed buffer and of every string
  (`WellTyped`), the counts (`Counted`, which takes a set of names held besides the list, because a
  function holds an object before it is in the list), and, while nothing is spoiled, that no two
  objects share a string and that what is pending is what was replied (`Intact`). None stands
  alone: `createObject` gives a name that is free because counts are right, a text is extended in
  place only where nobody else sees it because names do not share, and a type says that a header
  exists for every text that merging makes. `NamesPerReply` is the number of names one reply may
  take; `Fresh` must have that many free, which bounds the model and not the code.
* `QueryBufProofs`, for every stream of requests and every place where reads cut it: `TypeOK`,
  `AssertionsHold` and the action property `TurnsConsume`. `QInv` joins the string and the parser
  (`QState`) with what is still to come (`QStream`). Each function of the parser has a lemma that it
  keeps the string and takes away what it says; `TurnsConsume` needs all of them, because a turn
  that finds no end of line must not be one that goes round. `SessionReads` shows that a session is
  a behaviour of the input alone, so that what is proved of the input holds of every session.
* `RequestsAreExecuted`, for every stream, alphabet and way to write numbers, and for all sizes:
  `ArrivedAreExecuted`. Its invariant `QFlow` says where in the stream the parser is. While the reads
  are in order, the requests executed are a prefix of the stream, the bytes in the buffer are a
  part of what follows it, and the parser stands in front of a request (`AtStart`), of the length
  or the text of an argument it has not yet (`AtLength`, `AtText`), or behind the last (`AtEnd`),
  with the arguments before that place in `argv` and the fields that belong to it; after a QUIT it
  does nothing more (`Gone`). `QSocket` says that the socket holds the rest of the stream. A step is
  then a lemma of its own: a read that ends at a cut leaves the buffer at one of these places, the
  first CR LF found is the one of the header because nothing before it can be one, not even among
  the stale bytes, the number found is the one written, the words of a line are the arguments of an
  inline request, and the big argument that takes over the whole buffer is exactly the rest of it.
  The requests of a stream are within the limits of the protocol (`WellFormed`), which the parser
  must not reject; beyond them are `raw` bytes, of which it promises nothing. A name that is not
  UTF-8 and a QUIT are the last request (`Final`); a read that fails ends the process as `"reset"`.
  TLC checked the invariant on the streams of `session` before it was proved.
* `AdListProofs`, for any values and any number of nodes: `MirrorImage`, `IteratorCovers` and the
  refinement `RefinesListSeq`. The invariant `Chain(l, p)` says that the links are those of a
  sequence p of distinct nodes; it is what gives a meaning to `Walk`, which follows links without
  knowing where they lead (`WalkIs`, with a pigeonhole for its length). `InsertedIs`, `DeletedIs` and
  `RotatedIs` show that the calls, link by link, make `Chain` of the sequence with a node more, one
  less, or turned; both ends and the middle are the same argument. The iterator has its own
  invariant, `Covers`: what it returned is in the list and not ahead, and of what was there from the
  start nothing is missed. The refinement takes the values of the chain.
* `ZSkipListProofs`, for any finite set of objects, any integer scores and any number of levels:
  `LevelsInOrder`, `SpansMeasure`, `ElementsByRank` and the refinement `RefinesSortedSet`. They speak
  of the order of the scores; the invariant `Skips(z, p)` speaks of a sequence p instead, which has
  the nodes in that order (`Listed`, `Backed`), and of every level as jumps along p from one node
  that is high enough over those that are not (`Jumps`), with the span of each jump. So a search on
  all levels ends at a place of p that only depends on the nodes it admits (`SlideIs`, `DescendIs`),
  whatever levels were drawn; an insertion and a deletion there make `Skips` of p with a node more
  (`InsertedSkips`) or less (`DeletedSkips`), each proved for a level that reaches the place, one
  that jumps over it, one that ends at it and one that is new or falls empty; and a range deletion is
  as many deletions at the same place (`DeletedWhileIs`), since its path stays valid after each.
  Which nodes a search admits is where the order matters: those before a score and an object, and
  those below or above a bound, are the first of p (`BeforeAreFirst`, `BelowAreFirst`), and a place in
  p is a rank in the sorted set (`PlaceIs`).
* the refinements: `DictIsAMap` (`RDictCalls` implements `DictMap`), `LazyExpiryIsHidden`
  (`StringCommands` implements `ExpiringMap`), `ListIsASequence` (`AdListCalls` implements
  `ListSeq`) and `SkipListIsASortedSet` (`ZSkipListCalls` implements `SortedSet`). Each maps the initial state to an initial state and every step to a step or a stutter,
  under the inductive invariant of the component. For the dictionary the content is read from both
  tables (`ContentPairs`), and a rehash step keeps it (`StepSame`), so that calls differ only by the
  pair they put or drop. For the keyspace what a client sees (`Seen`) is the keyspace without what
  has expired, and `ExpiryHidden` says that a deletion on touch is seen by nobody.
* `EntriesFrozen`: with an iterator open no call rehashes (`HeldStill`), so a call grows, links,
  overwrites or unlinks, and an entry that stays stays where it is (`Unmoved`).
* `NoFiredEventLost` and `SleepIsShort`: a pass that calls a reader knows for which descriptor
  (`PassOK`), and every step takes away the first of the fired events or none. The sleep needs that
  seconds and milliseconds compare as the instants do (`BeforeIsEarlier`), that the search finds the
  least (`NearestType`), and the arithmetic of borrow and truncation (`TimeoutEnds`).

* `StartsNeverDiffer`, for any files and command lines: `StartsAlike`. A start is a run of a function
  of its files, settings and directory (`Moved`) until it asks for an append only file, which is
  where the disk matters for the first time; runs of one command line agree as far as both go
  (`StepsAgree`), so it settles in one state (`SettlesOnce`), and `AInv` says that every end that was
  noted is one of a settled state. A step of the model is a step of the function whatever happened
  to the starts before (`MovesAlike`).
* `SettingsFollowLines`: `LastLineWins`. `LInv` says that a part of the text has been read, that the
  settings follow this part, and that what is left of all files, joined, is the rest of the text
  (`HasRead`). The proof takes one line at a time: the setting it is about (`OthersSet`), the save
  lines (`SaveSet`), an include, which puts a file in front of the rest in both views
  (`IncludedIs`), a change of the directory, a line that is passed over (`PassedOver`).

* `AnswersAreInOrder`, for every stream without `EX` and `PX` and every interleaving of reads, commands and writes:
  `AnswersInOrder`. It joins the invariants of both halves (`QFlow`, `RInv`) with one of its own,
  `SInv`: what the commands have replied is what a map answers to the requests executed so far, the
  keyspace holds for each key an object with the map's text (`Agrees`), and what was sent begins what
  was replied (`SentFirst`), which must be said apart because a process that dies in the middle of a
  write has nothing pending any more. A command is compared with the map once (`CommandAnswers`), with
  `NX` and `XX`, which ask the map, and with the name that cannot be decoded, to which nothing is answered;
  `Answered`, the map's run over the requests, is a recursive function, so that it exists
  (`AnsweredIs`) and that fewer requests have the first of the answers (`AnswersGrow`) are lemmas.

They assume what the modules name: `AeAssumption` (there is a descriptor, a second has
milliseconds, delays are natural), `ServerAssumption` (the limit leaves a place for the listener, as
`REDIS_EVENTLOOP_FDSET_INCR` does), `ReplyAssumption` (names of objects do not clash, a decoded
integer fits its 32 bytes, a header exists for the lengths that occur), `SessionAssumption` (the
replies of `GET` and `SET` exist, every text that a stream stores has an object, and no stream has a
word `EX` or `PX`), `QueryAssumption` (streams
are sequences of requests that read as what they mean, buffer sizes are positive), `AdListAssumption` (`None` is no value and no
node), `StartupAssumption` (a file is a list of lines of words, the default save lines and `int()`
give integers, every setting has a default) and `ZSkipListAssumption` (objects are finitely many and numbered in their order, scores are
integers in place of floats, which the code only compares).

Only model-checked is liveness (`RehashEnds`, `OutputDrains`, `CommandsAreAnswered`, `StartEnds`):
TLAPS does not reach fairness and ENABLED. Every invariant, action property and refinement that a
passing run checks is proved.

## 6. Plan

Done: the modules above, in the order of the table in section 2, with the proof modules.
Left: `RDictIter`, `dictNext` and `dictReleaseIterator` over the tables, what a safe iterator returns
while calls change the dictionary, and its step beyond the table (`rdict.py:475`). No code calls
`dictNext`, so this comes last.

## 7. What is not modelled

* `intset.py`, `ziplist.py`, `endianconv.py`: byte layouts with unfinished functions and no caller.
* Of the startup: `--version`, the daemon fork, sentinel mode, sockets that cannot be bound, and the
  constants of `config.py` that nothing reads. The words of a line are given; how a line is split
  into them and how a text becomes a number are tables of the instance.
* `anet.py`, `util.py`'s socket cache: thin calls of the operating system; what they do to the loop
  (ready, blocked, end of input, error) is in `Server` and `Reply`.
* `multi.py`, `pubsub.py`, `aof.py`, persistence, replication, cluster, sentinel and `serverCron`:
  empty or never reached. No data is stored on disk, so nothing is recovered after a crash; all
  that survives a killed process is what `Startup` keeps in `made`.
* In `rdict.py`: `dictScan`, `dictGetRandomKey`, fingerprints and `dictEmpty`, without a caller. In
  `zskiplist.py`: `zslGetRank` and the range predicates, whose upper bound test is reversed (line 197); members
  encoded as integers, for which `compareStringObjects` fails, the assertion that a score is a number,
  and `decrRefCount` of a deleted member. In `adlist.py`: the methods `free`, `dup` and `match` of a list.
  `createClient` sets them on the lists of a client (`redis.py:721`, `734`); they count references,
  which `Reply` does for the reply list, and no links depend on them.
* Authentication and `selectDb`: no password is set and the one database is selected at the start.
  Commands other than `GET`, `SET` and `QUIT` are commented out of the table or empty functions
  (`commands/core.py`).

## 8. Running it

    tlc -config MCRDict.cfg MCRDict        # a run: configuration and module from PROJECT.json
    tlapm RDictProofs.tla                  # the proofs, likewise StringProofs,
                                           # ServerProofs, ReplyProofs, QueryBufProofs,
                                           # AdListProofs, ZSkipListProofs and CommonLemmas
