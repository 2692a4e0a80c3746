---------------------------------- MODULE Ae ----------------------------------
(***************************************************************************)
(* The event loop of ae.py over select (ae_select.py).  One pass polls,    *)
(* calls the procedures of the descriptors that were ready, in the order   *)
(* of their numbers, then runs the time events.  Whoever holds the control *)
(* (the program before aeMain, or the procedure being called) may create   *)
(* and delete events of any descriptor, those still to be served included. *)
(*                                                                         *)
(* A mask is a set of kinds: "r" is AE_READABLE, "w" is AE_WRITABLE.       *)
(* The instant of a time event is kept as the code keeps it, in seconds    *)
(* and milliseconds; the clock counts milliseconds.                        *)
(***************************************************************************)
EXTENDS Integers, Sequences, FiniteSetsExt, SequencesExt

CONSTANTS
  setsize,       \* slots of the loop; descriptors are 0 .. setsize - 1
  Procs,         \* file procedures
  NoProc,        \* what a slot holds before its first registration
  Delays,        \* milliseconds a time event may ask for
  MsPerSecond,   \* 1000 in the code
  MaxTimers,     \* bound: time events at a time
  MaxClock       \* bound: the clock

ASSUME AeAssumption ==
  /\ setsize \in Nat \ {0}
  /\ Delays \subseteq Nat
  /\ MsPerSecond \in Nat \ {0}
  /\ MaxTimers \in Nat /\ MaxClock \in Nat

Fds == 0 .. setsize - 1
Kinds == {"r", "w"}

VARIABLES
  el,        \* the aeEventLoop and its aeApiState
  at,        \* where the program is: "setup", "poll", "file", "time", "dead"
  fired,     \* the fired events not served yet
  rfired,    \* has the read procedure of the event being served been called?
  running,   \* the procedure being called
  clock,     \* datetime.now()
  ran        \* has a time event's procedure been called?

vars == <<el, at, fired, rfired, running, clock, ran>>
loopVars == <<at, fired, rfired, running, ran>>

Nobody == [fd |-> -1, kind |-> "none", proc |-> NoProc]

-----------------------------------------------------------------------------
\* The two sets given to select.
aeApiAddEvent(s, fd, mask) ==
  [s EXCEPT !.rfds = IF "r" \in mask THEN @ \cup {fd} ELSE @,
            !.wfds = IF "w" \in mask THEN @ \cup {fd} ELSE @]

\* Mutant: the descriptor stays in the sets of select.
aeApiDelNothing(s, fd, mask) == s

aeApiDelEvent(s, fd, mask) ==
  [s EXCEPT !.rfds = IF "r" \in mask THEN @ \ {fd} ELSE @,
            !.wfds = IF "w" \in mask THEN @ \ {fd} ELSE @]

Registered(s, fd, mask, proc) ==
  [aeApiAddEvent(s, fd, mask) EXCEPT
     !.mask[fd] = @ \cup mask,
     !.rproc[fd] = IF "r" \in mask THEN proc ELSE @,
     !.wproc[fd] = IF "w" \in mask THEN proc ELSE @,
     !.maxfd = IF fd > @ THEN fd ELSE @]

\* Mutant: the scan for the new highest descriptor starts one too low.
HighestBelowSkipped(m, fd) ==
  LET used == {j \in 0 .. fd - 2 : m[j] # {}}
  IN  IF fd = 0 THEN -1 ELSE IF used = {} THEN 0 ELSE Max(used)

\* The scan downwards from fd - 1.  When it finds nothing it ends on 0, or on
\* -1 if there was nothing to scan.
HighestBelow(m, fd) ==
  LET used == {j \in 0 .. fd - 1 : m[j] # {}}
  IN  IF fd = 0 THEN -1 ELSE IF used = {} THEN 0 ELSE Max(used)

Unregistered(s, fd, mask) ==
  IF s.mask[fd] = {} THEN s
  ELSE LET m == [s.mask EXCEPT ![fd] = @ \ mask]
       IN  [aeApiDelEvent(s, fd, mask) EXCEPT
              !.mask = m,
              !.maxfd = IF fd = @ /\ m[fd] = {} THEN HighestBelow(m, fd) ELSE @]

-----------------------------------------------------------------------------
\* Time events: a list, the newest first.
When(te) == te.sec * MsPerSecond + te.ms

aeAddMillisecondsToNow(now, ms) ==
  LET m == (now % MsPerSecond) + (ms % MsPerSecond)
      s == (now \div MsPerSecond) + (ms \div MsPerSecond)
  IN  IF m >= MsPerSecond THEN [sec |-> s + 1, ms |-> m - MsPerSecond]
                          ELSE [sec |-> s, ms |-> m]

\* timeEventNextId is read and never advanced.
TimerAdded(s, now, ms) ==
  LET when == aeAddMillisecondsToNow(now, ms)
  IN  [s EXCEPT !.timers =
         <<[id |-> s.nextId + 1, sec |-> when.sec, ms |-> when.ms]>> \o @]

\* The first time event with that identifier, if there is one.
TimerDeleted(s, id) ==
  LET having == {i \in DOMAIN s.timers : s.timers[i].id = id}
  IN  IF having = {} THEN s ELSE [s EXCEPT !.timers = RemoveAt(@, Min(having))]

Before(a, b) == a.sec < b.sec \/ (a.sec = b.sec /\ a.ms < b.ms)

aeSearchNearestTimer(s) ==
  s.timers[CHOOSE i \in DOMAIN s.timers :
             \A j \in DOMAIN s.timers :
               /\ ~Before(s.timers[j], s.timers[i])
               /\ j < i => Before(s.timers[i], s.timers[j])]

\* Mutant: no second is borrowed when the milliseconds are.
SecondsLeftUnborrowed(te, now) == te.sec - (now \div MsPerSecond)

\* tv_sec as aeProcessEvents computes it.
SecondsLeft(te, now) ==
  te.sec - (now \div MsPerSecond) - (IF te.ms < now % MsPerSecond THEN 1 ELSE 0)

\* timeval.time drops tv_usec: select waits for whole seconds.
Timeout(s, now) ==
  Max({0, SecondsLeft(aeSearchNearestTimer(s), now)}) * MsPerSecond

\* The comparison of processTimeEvents, which compares the current second
\* with the milliseconds of the event.
Due(te, now) ==
  \/ now \div MsPerSecond > te.sec
  \/ now \div MsPerSecond = te.ms /\ now % MsPerSecond >= te.ms

\* Events above maxId, those created by this very pass, are passed over.
Runnable(s, now) ==
  {i \in DOMAIN s.timers : s.timers[i].id <= s.nextId - 1 /\ Due(s.timers[i], now)}

\* A clock set back makes every event overdue.
StepBackHandled(s, now) ==
  [s EXCEPT !.lastTime = now,
            !.timers = IF now < s.lastTime
                       THEN [i \in DOMAIN @ |-> [@[i] EXCEPT !.sec = 0]] ELSE @]

TimerMoved(te, now, ms) ==
  LET when == aeAddMillisecondsToNow(now, ms)
  IN  [te EXCEPT !.sec = when.sec, !.ms = when.ms]

\* The procedure of a time event answers with a new delay, or AE_NOMORE.
TimerRun(s, now) ==
  LET i == Min(Runnable(s, now))
  IN  {TimerDeleted(s, s.timers[i].id)} \cup
      {[s EXCEPT !.timers[i] = TimerMoved(@, now, ms)] : ms \in Delays}

-----------------------------------------------------------------------------
Init ==
  /\ clock \in 0 .. MaxClock
  /\ el = [maxfd |-> -1, mask |-> [fd \in Fds |-> {}],
           rproc |-> [fd \in Fds |-> NoProc], wproc |-> [fd \in Fds |-> NoProc],
           rfds |-> {}, wfds |-> {}, timers |-> <<>>, nextId |-> 0,
           lastTime |-> clock, stop |-> FALSE]
  /\ at = "setup" /\ fired = {} /\ rfired = FALSE /\ running = Nobody /\ ran = FALSE

Calling == running # Nobody
InControl == at = "setup" \/ Calling

aeCreateFileEvent ==
  /\ InControl
  /\ \E fd \in Fds, mask \in (SUBSET Kinds) \ {{}}, proc \in Procs :
       el' = Registered(el, fd, mask, proc)
  /\ UNCHANGED <<loopVars, clock>>

\* fd >= setsize: the exception is caught by nobody.
aeCreateFileEventFails ==
  /\ InControl
  /\ at' = "dead" /\ running' = Nobody /\ fired' = {}
  /\ UNCHANGED <<el, rfired, ran, clock>>

aeDeleteFileEvent ==
  /\ InControl
  /\ \E fd \in Fds, mask \in (SUBSET Kinds) \ {{}} : el' = Unregistered(el, fd, mask)
  /\ UNCHANGED <<loopVars, clock>>

aeCreateTimeEvent ==
  /\ InControl /\ Len(el.timers) < MaxTimers
  /\ \E ms \in Delays : el' = TimerAdded(el, clock, ms)
  /\ UNCHANGED <<loopVars, clock>>

aeDeleteTimeEvent ==
  /\ InControl
  /\ \E te \in ToSet(el.timers) : el' = TimerDeleted(el, te.id)
  /\ UNCHANGED <<loopVars, clock>>

aeStop ==
  /\ InControl
  /\ el' = [el EXCEPT !.stop = TRUE]
  /\ UNCHANGED <<loopVars, clock>>

-----------------------------------------------------------------------------
aeMain ==
  /\ at = "setup"
  /\ at' = "poll" /\ el' = [el EXCEPT !.stop = FALSE]
  /\ UNCHANGED <<fired, rfired, running, ran, clock>>

\* What aeApiPoll fires when select answers rr and ww: every registered
\* descriptor up to maxfd, the mask being empty for one that is not ready.
Fired(s, rr, ww) ==
  {[fd |-> fd, mask |-> (IF fd \in rr THEN s.mask[fd] \cap {"r"} ELSE {})
                        \cup (IF fd \in ww THEN s.mask[fd] \cap {"w"} ELSE {})] :
     fd \in {f \in 0 .. s.maxfd : s.mask[f] # {}}}

\* select answers before its timeout, or with nothing after it.
aeApiPoll ==
  /\ at = "poll" /\ ~el.stop /\ el.timers # <<>>
  /\ \E rr \in SUBSET el.rfds, ww \in SUBSET el.wfds :
       /\ fired' = Fired(el, rr, ww)
       /\ clock' \in IF rr \cup ww # {} THEN {clock}
                     ELSE {clock + Timeout(el, clock)} \cap 0 .. MaxClock
  /\ at' = "file"
  /\ UNCHANGED <<el, rfired, running, ran>>

\* Without a time event tv stays None, and aeApiPoll asserts that it is not.
aeApiPollAsserts ==
  /\ at = "poll" /\ ~el.stop /\ el.timers = <<>>
  /\ at' = "dead"
  /\ UNCHANGED <<el, fired, rfired, running, ran, clock>>

Current == CHOOSE e \in fired : \A f \in fired : e.fd <= f.fd

\* Mutant: the mask is not read again once the procedures of the pass run.
StillWantedAsFired(e, kind) == kind \in e.mask

StillWanted(e, kind) == kind \in e.mask \cap el.mask[e.fd]

CallReader ==
  /\ at = "file" /\ ~Calling /\ fired # {} /\ ~rfired
  /\ StillWanted(Current, "r")
  /\ running' = [fd |-> Current.fd, kind |-> "r", proc |-> el.rproc[Current.fd]]
  /\ rfired' = TRUE
  /\ UNCHANGED <<el, at, fired, ran, clock>>

\* The read half is over, because its procedure returned or there was none;
\* a procedure registered for both kinds is not called a second time.
ReaderOver == rfired \/ ~StillWanted(Current, "r")

\* A procedure registered for both kinds is called once.
WriterCalled(e) ==
  StillWanted(e, "w") /\ (~rfired \/ el.wproc[e.fd] # el.rproc[e.fd])

\* Mutant: rfired is set to 0 before the loop over the fired events, not in it.
CallWriterKeepsFlag ==
  /\ at = "file" /\ ~Calling /\ fired # {} /\ ReaderOver
  /\ running' = IF WriterCalled(Current)
                THEN [fd |-> Current.fd, kind |-> "w", proc |-> el.wproc[Current.fd]]
                ELSE Nobody
  /\ fired' = fired \ {Current} /\ rfired' = (rfired /\ fired' # {})
  /\ UNCHANGED <<el, at, ran, clock>>

CallWriter ==
  /\ at = "file" /\ ~Calling /\ fired # {} /\ ReaderOver
  /\ running' = IF WriterCalled(Current)
                THEN [fd |-> Current.fd, kind |-> "w", proc |-> el.wproc[Current.fd]]
                ELSE Nobody
  /\ fired' = fired \ {Current} /\ rfired' = FALSE
  /\ UNCHANGED <<el, at, ran, clock>>

Return ==
  /\ Calling
  /\ running' = Nobody
  /\ UNCHANGED <<el, at, fired, rfired, ran, clock>>

FileEventsServed ==
  /\ at = "file" /\ ~Calling /\ fired = {}
  /\ at' = "time" /\ el' = StepBackHandled(el, clock)
  /\ UNCHANGED <<fired, rfired, running, ran, clock>>

\* One time event at a time; the pass ends when none is left to run.
processTimeEvents ==
  /\ at = "time"
  /\ IF Runnable(el, clock) = {}
     THEN at' = "poll" /\ UNCHANGED <<el, ran>>
     ELSE ran' = TRUE /\ el' \in TimerRun(el, clock) /\ UNCHANGED at
  /\ UNCHANGED <<fired, rfired, running, clock>>

\* The wall clock, which somebody may set back.
Tick == clock' \in 0 .. MaxClock /\ UNCHANGED <<el, loopVars>>

Loop ==
  \/ aeMain \/ aeApiPoll \/ aeApiPollAsserts \/ CallReader \/ CallWriter \/ Return
  \/ FileEventsServed \/ processTimeEvents

Calls ==
  \/ aeCreateFileEvent \/ aeCreateFileEventFails \/ aeDeleteFileEvent
  \/ aeCreateTimeEvent \/ aeDeleteTimeEvent \/ aeStop

Next == Loop \/ Calls \/ Tick

Spec == Init /\ [][Next]_vars

\* Procedures return and the loop goes on.
FairSpec == Spec /\ WF_vars(Loop)

-----------------------------------------------------------------------------
FileProcs == Procs \cup {NoProc}

\* Every variable keeps its type, whatever the procedures register.
TypeOK ==
  /\ el.maxfd \in Fds \cup {-1}
  /\ el.mask \in [Fds -> SUBSET Kinds]
  /\ el.rproc \in [Fds -> FileProcs] /\ el.wproc \in [Fds -> FileProcs]
  /\ el.rfds \subseteq Fds /\ el.wfds \subseteq Fds
  /\ Len(el.timers) <= MaxTimers
  /\ \A te \in ToSet(el.timers) : te.sec \in Nat /\ te.ms \in 0 .. MsPerSecond - 1
  /\ el.nextId \in Nat /\ el.lastTime \in 0 .. MaxClock /\ el.stop \in BOOLEAN
  /\ at \in {"setup", "poll", "file", "time", "dead"}
  /\ fired \subseteq [fd : Fds, mask : SUBSET Kinds]
  /\ rfired \in BOOLEAN /\ ran \in BOOLEAN
  /\ running \in [fd : Fds, kind : Kinds, proc : FileProcs] \cup {Nobody}
  /\ clock \in 0 .. MaxClock

\* The two records of what is watched, the masks of the loop and the sets given
\* to select, agree after any sequence of registrations and removals.
SelectAgrees ==
  /\ el.rfds = {fd \in Fds : "r" \in el.mask[fd]}
  /\ el.wfds = {fd \in Fds : "w" \in el.mask[fd]}

\* maxfd, which bounds the scan of aeApiPoll, is never below a descriptor that
\* is registered: no ready descriptor is left out of a pass.
MaxfdCovers == \A fd \in Fds : el.mask[fd] # {} => fd <= el.maxfd

\* The calls a pass may still make: of what fired, less what was served.
Callable ==
  {c \in Fds \X Kinds : \E e \in fired : /\ e.fd = c[1] /\ c[2] \in e.mask
                                         /\ ~(e = Current /\ rfired /\ c[2] = "r")}

\* Whatever the procedures of a pass create and delete, a call uses up an event
\* that fired in this pass, and no event of the pass is there again once it was
\* used: none is called twice before the next poll.  The descriptor still is in
\* its set, and the procedure is the one registered at that moment.
CallsAreWanted ==
  [][/\ at = "file" => Callable' \subseteq Callable
     /\ running' \notin {running, Nobody} =>
          LET fd == running'.fd  kind == running'.kind
          IN  /\ <<fd, kind>> \in Callable \ Callable'
              /\ fd \in (IF kind = "r" THEN el.rfds ELSE el.wfds)
              /\ running'.proc = (IF kind = "r" THEN el.rproc ELSE el.wproc)[fd]]_vars

\* Waiting in select never makes the nearest time event late.
SleepEndsByDeadline ==
  [][at = "poll" /\ at' = "file" =>
       clock' <= Max({clock, When(aeSearchNearestTimer(el))})]_vars

\* No event of a pass is lost: it waits until its procedure is called, a procedure
\* called before it withdraws it, or the one call of a procedure registered for
\* both kinds covers it.
Waiting(fd, k) ==
  \E e \in fired :
    /\ e.fd = fd /\ k \in e.mask
    /\ e = Current /\ rfired => k = "w" /\ el.rproc[fd] # el.wproc[fd]
FiredIsServed ==
  [][\A fd \in Fds, k \in Kinds :
       Waiting(fd, k) /\ ~Waiting(fd, k)' =>
         \/ running'.fd = fd /\ (running'.kind = k \/ el'.rproc[fd] = el'.wproc[fd])
         \/ k \notin el.mask[fd]
         \/ at' = "dead"]_vars

-----------------------------------------------------------------------------
\* redis.py:109 calls hz the number of calls of serverCron per second: a time
\* event that stays overdue has its procedure called.
Overdue == \E te \in ToSet(el.timers) : When(te) < clock
TimeEventsRun == (<>[]Overdue /\ []<>(at = "poll" /\ ~el.stop)) => <>ran
=============================================================================
