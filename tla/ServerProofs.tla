----------------------------- MODULE ServerProofs -----------------------------
(***************************************************************************)
(* The event loop and the server that runs on it, for any number of        *)
(* descriptors and connections, any procedures and any clock.  First the   *)
(* loop alone: whatever the procedures create and delete while a pass is   *)
(* under way, the sets given to select say what the masks say, maxfd       *)
(* covers them, and only wanted procedures are called.  Then the server:   *)
(* select watches what the clients need, and each command in front of a    *)
(* QUIT runs once, none behind it.  Last the start of a server, for any    *)
(* files and command lines: what it comes to does not depend on the starts *)
(* before it, and its settings are those of the last lines about them.     *)
(***************************************************************************)
EXTENDS Server, Startup, CommonLemmas, SequenceTheorems, TLAPS

TimeEvent == [id : Nat, sec : Nat, ms : 0 .. MsPerSecond - 1]

EventLoop ==
  [maxfd : Fds \cup {-1}, mask : [Fds -> SUBSET Kinds],
   rproc : [Fds -> FileProcs], wproc : [Fds -> FileProcs],
   rfds : SUBSET Fds, wfds : SUBSET Fds, timers : Seq(TimeEvent),
   nextId : Nat, lastTime : 0 .. MaxClock, stop : BOOLEAN]

\* A kind that is registered has a procedure that was registered for it.
ProcsKnown(s) ==
  \A fd \in Fds : /\ "r" \in s.mask[fd] => s.rproc[fd] \in Procs
                  /\ "w" \in s.mask[fd] => s.wproc[fd] \in Procs

\* The registrations of one event loop.
LoopOK(s) ==
  /\ s \in EventLoop
  /\ \A fd \in Fds : /\ fd \in s.rfds <=> "r" \in s.mask[fd]
                     /\ fd \in s.wfds <=> "w" \in s.mask[fd]
                     /\ s.mask[fd] # {} => fd <= s.maxfd
  /\ ProcsKnown(s)

\* Two event loops with the same registrations.
SameFiles(e, s) ==
  /\ e.mask = s.mask /\ e.maxfd = s.maxfd /\ e.rproc = s.rproc /\ e.wproc = s.wproc
  /\ e.rfds = s.rfds /\ e.wfds = s.wfds

FiredEvents == [fd : Fds, mask : SUBSET Kinds]

IInv ==
  /\ LoopOK(el) /\ Len(el.timers) <= MaxTimers
  /\ at \in {"setup", "poll", "file", "time", "dead"}
  /\ fired \subseteq FiredEvents
  /\ rfired \in BOOLEAN /\ ran \in BOOLEAN
  /\ running \in [fd : Fds, kind : Kinds, proc : FileProcs] \cup {Nobody}
  /\ clock \in 0 .. MaxClock

-----------------------------------------------------------------------------
\* The event loop e is s with one registration more.
Registers(e, s, fd, mask, proc) ==
  /\ e.timers = s.timers
  /\ e.mask = [s.mask EXCEPT ![fd] = @ \cup mask]
  /\ e.rproc = [s.rproc EXCEPT ![fd] = IF "r" \in mask THEN proc ELSE @]
  /\ e.wproc = [s.wproc EXCEPT ![fd] = IF "w" \in mask THEN proc ELSE @]
  /\ e.maxfd = (IF fd > s.maxfd THEN fd ELSE s.maxfd)
  /\ e.rfds = (IF "r" \in mask THEN s.rfds \cup {fd} ELSE s.rfds)
  /\ e.wfds = (IF "w" \in mask THEN s.wfds \cup {fd} ELSE s.wfds)

\* What aeCreateFileEvent leaves as it was, and what it sets.
LEMMA RegisteredFields ==
  ASSUME NEW s \in EventLoop, NEW fd \in Fds, NEW mask \in SUBSET Kinds, NEW proc \in Procs
  PROVE  /\ Registered(s, fd, mask, proc) \in EventLoop
         /\ Registers(Registered(s, fd, mask, proc), s, fd, mask, proc)
<1> DEFINE e == Registered(s, fd, mask, proc)
           a == aeApiAddEvent(s, fd, mask)
           masks == [s.mask EXCEPT ![fd] = @ \cup mask]
           readers == [s.rproc EXCEPT ![fd] = IF "r" \in mask THEN proc ELSE @]
           writers == [s.wproc EXCEPT ![fd] = IF "w" \in mask THEN proc ELSE @]
<1>1. /\ a \in EventLoop
      /\ a.mask = s.mask /\ a.rproc = s.rproc /\ a.wproc = s.wproc
      /\ a.maxfd = s.maxfd /\ a.timers = s.timers
      /\ a.rfds = (IF "r" \in mask THEN s.rfds \cup {fd} ELSE s.rfds)
      /\ a.wfds = (IF "w" \in mask THEN s.wfds \cup {fd} ELSE s.wfds)
  BY DEF aeApiAddEvent, EventLoop
<1>2. /\ s.mask \in [Fds -> SUBSET Kinds] /\ s.maxfd \in Fds \cup {-1}
      /\ s.rproc \in [Fds -> FileProcs] /\ s.wproc \in [Fds -> FileProcs]
  BY DEF EventLoop
<1>3. /\ masks \in [Fds -> SUBSET Kinds]
      /\ readers \in [Fds -> FileProcs] /\ writers \in [Fds -> FileProcs]
  BY <1>2 DEF FileProcs
<1>4. e = [a EXCEPT !.mask = masks, !.rproc = readers, !.wproc = writers,
                    !.maxfd = IF fd > s.maxfd THEN fd ELSE s.maxfd]
  <2> HIDE DEF a
  <2> QED BY <1>1 DEF Registered, EventLoop, a
<1> HIDE DEF a, e, masks, readers, writers
<1>5. /\ e \in EventLoop
      /\ e.mask = masks /\ e.rproc = readers /\ e.wproc = writers
      /\ e.maxfd = (IF fd > s.maxfd THEN fd ELSE s.maxfd)
      /\ e.rfds = a.rfds /\ e.wfds = a.wfds /\ e.timers = a.timers
  BY <1>1, <1>2, <1>3, <1>4 DEF EventLoop
<1> QED BY <1>1, <1>5 DEF Registers, e, masks, readers, writers

\* A registration enters the masks and the sets together, and raises maxfd.
LEMMA RegisteredKeeps ==
  ASSUME NEW s, LoopOK(s), NEW fd \in Fds, NEW mask \in SUBSET Kinds, NEW proc \in Procs
  PROVE  LoopOK(Registered(s, fd, mask, proc)) /\ Registered(s, fd, mask, proc).timers = s.timers
<1> DEFINE e == Registered(s, fd, mask, proc)
<1>1. s \in EventLoop
  BY DEF LoopOK
<1>2. e \in EventLoop /\ Registers(e, s, fd, mask, proc)
  BY <1>1, RegisteredFields
<1> HIDE DEF e
<1>3. /\ s.mask \in [Fds -> SUBSET Kinds] /\ s.maxfd \in Int /\ Fds \subseteq Int
      /\ s.rproc \in [Fds -> FileProcs] /\ s.wproc \in [Fds -> FileProcs]
  BY <1>1, AeAssumption DEF EventLoop, Fds
<1>4. \A x \in Fds : e.mask[x] = (IF x = fd THEN s.mask[x] \cup mask ELSE s.mask[x])
  BY <1>2, <1>3 DEF Registers
<1>5. \A x \in Fds : /\ x \in e.rfds <=> "r" \in e.mask[x]
                     /\ x \in e.wfds <=> "w" \in e.mask[x]
  BY <1>2, <1>4 DEF LoopOK, Registers
<1>6. ASSUME NEW x \in Fds, e.mask[x] # {} PROVE x <= e.maxfd
  <2>1. x \in Int /\ fd \in Int /\ s.maxfd \in Int
    BY <1>3
  <2> QED BY <1>2, <1>4, <1>6, <2>1 DEF LoopOK, Registers
<1>7. ProcsKnown(e)
  BY <1>2, <1>3, <1>4 DEF LoopOK, ProcsKnown, Registers
<1> QED BY <1>2, <1>5, <1>6, <1>7 DEF LoopOK, Registers, e

\* The scan downwards passes no registered descriptor.
LEMMA HighestBelowBounds ==
  ASSUME NEW m \in [Fds -> SUBSET Kinds], NEW fd \in Fds
  PROVE  /\ HighestBelow(m, fd) \in Fds \cup {-1}
         /\ \A x \in Fds : x < fd /\ m[x] # {} => x <= HighestBelow(m, fd)
<1> DEFINE used == {j \in 0 .. fd - 1 : m[j] # {}}
<1>1. fd \in Nat /\ fd < setsize /\ setsize \in Nat
  BY AeAssumption DEF Fds
<1>2. CASE fd = 0
  BY <1>1, <1>2 DEF HighestBelow, Fds
<1>3. CASE fd # 0 /\ used = {}
  BY <1>1, <1>3 DEF HighestBelow, Fds
<1>4. CASE fd # 0 /\ used # {}
  <2>1. used \in SUBSET (0 .. fd - 1) /\ fd - 1 \in Nat
    BY <1>1, <1>4
  <2>2. \E x \in used : \A y \in used : x >= y
    <3> HIDE DEF used
    <3> QED BY <1>4, <2>1, GreatestNatural
  <2>3. Max(used) \in used /\ \A y \in used : Max(used) >= y
    BY <2>2 DEF Max
  <2>4. HighestBelow(m, fd) = Max(used)
    BY <1>4 DEF HighestBelow
  <2>5. \A x \in Fds : x < fd /\ m[x] # {} => x \in used
    BY <1>1 DEF Fds
  <2>6. Max(used) \in Fds
    BY <1>1, <2>3 DEF Fds
  <2>7. \A x \in Fds : x < fd /\ m[x] # {} => x <= Max(used)
    <3> HIDE DEF used
    <3> QED BY <1>1, <2>3, <2>5, <2>6 DEF Fds
  <2> QED BY <2>4, <2>6, <2>7
<1> QED BY <1>2, <1>3, <1>4

\* A removal leaves the masks and the sets together, and lowers maxfd no
\* further than the next registered descriptor.
LEMMA UnregisteredKeeps ==
  ASSUME NEW s, LoopOK(s), NEW fd \in Fds, NEW mask \in SUBSET Kinds
  PROVE  LoopOK(Unregistered(s, fd, mask)) /\ Unregistered(s, fd, mask).timers = s.timers
<1> DEFINE e == Unregistered(s, fd, mask)
           m == [s.mask EXCEPT ![fd] = @ \ mask]
<1>1. CASE s.mask[fd] = {}
  BY <1>1 DEF Unregistered
<1>2. CASE s.mask[fd] # {}
  <2>1. s \in EventLoop
    BY DEF LoopOK
  <2>2. s.mask \in [Fds -> SUBSET Kinds] /\ s.maxfd \in Int /\ Fds \subseteq Int
    BY <2>1, AeAssumption DEF EventLoop, Fds
  <2>3. m \in [Fds -> SUBSET Kinds]
    BY <2>2
  <2>4. HighestBelow(m, fd) \in Fds \cup {-1}
    BY <2>3, HighestBelowBounds
  <2> DEFINE high == IF fd = s.maxfd /\ m[fd] = {} THEN HighestBelow(m, fd) ELSE s.maxfd
  <2>5. e = [aeApiDelEvent(s, fd, mask) EXCEPT !.mask = m, !.maxfd = high]
    BY <1>2, <2>1 DEF Unregistered, aeApiDelEvent, EventLoop
  <2>6. high \in Fds \cup {-1}
    BY <2>1, <2>4 DEF EventLoop
  <2> HIDE DEF m, high, e
  <2>7. /\ e \in EventLoop
        /\ e.mask = m /\ e.maxfd = high /\ e.rproc = s.rproc /\ e.wproc = s.wproc
        /\ e.rfds = (IF "r" \in mask THEN s.rfds \ {fd} ELSE s.rfds)
        /\ e.wfds = (IF "w" \in mask THEN s.wfds \ {fd} ELSE s.wfds)
        /\ e.timers = s.timers
    BY <2>1, <2>3, <2>5, <2>6 DEF aeApiDelEvent, EventLoop
  <2>8. \A x \in Fds : m[x] = (IF x = fd THEN s.mask[x] \ mask ELSE s.mask[x])
    BY <2>2 DEF m
  <2>9. \A x \in Fds : /\ x \in e.rfds <=> "r" \in e.mask[x]
                       /\ x \in e.wfds <=> "w" \in e.mask[x]
    BY <2>7, <2>8 DEF LoopOK
  <2>10. \A x \in Fds : m[x] # {} => x <= high
    <3>1. \A x \in Fds : m[x] # {} => x <= s.maxfd
      BY <2>8 DEF LoopOK
    <3>2. ASSUME fd = s.maxfd, m[fd] = {} PROVE \A x \in Fds : m[x] # {} => x <= HighestBelow(m, fd)
      <4>1. \A x \in Fds : m[x] # {} => x < fd
        BY <2>2, <3>1, <3>2
      <4> QED BY <2>3, <4>1, HighestBelowBounds
    <3> QED BY <3>1, <3>2 DEF high
  <2>11. ProcsKnown(e)
    BY <2>7, <2>8 DEF LoopOK, ProcsKnown
  <2> QED BY <2>7, <2>9, <2>10, <2>11 DEF LoopOK, e
<1> QED BY <1>1, <1>2

\* What a removal leaves alone, and what it takes out of the sets of select.
Unregisters(e, s, fd, mask) ==
  /\ e.rproc = s.rproc /\ e.wproc = s.wproc
  /\ e.rfds = (IF "r" \in mask THEN s.rfds \ {fd} ELSE s.rfds)
  /\ e.wfds = (IF "w" \in mask THEN s.wfds \ {fd} ELSE s.wfds)

\* What aeDeleteFileEvent clears, and what it leaves as it was.
LEMMA UnregisteredFields ==
  ASSUME NEW s, LoopOK(s), NEW fd \in Fds, NEW mask \in SUBSET Kinds
  PROVE  Unregisters(Unregistered(s, fd, mask), s, fd, mask)
<1>1. CASE s.mask[fd] = {}
  <2>1. Unregistered(s, fd, mask) = s /\ fd \notin s.rfds /\ fd \notin s.wfds
    BY <1>1 DEF Unregistered, LoopOK
  <2> QED BY <2>1 DEF Unregisters
<1>2. CASE s.mask[fd] # {}
  BY <1>2 DEF Unregisters, Unregistered, aeApiDelEvent, LoopOK, EventLoop
<1> QED BY <1>1, <1>2

-----------------------------------------------------------------------------
\* An instant has less than a second of milliseconds.
LEMMA InstantType ==
  ASSUME NEW now \in Nat, NEW ms \in Nat
  PROVE  aeAddMillisecondsToNow(now, ms) \in [sec : Nat, ms : 0 .. MsPerSecond - 1]
<1>1. MsPerSecond \in Nat /\ MsPerSecond > 0
  BY AeAssumption
<1>2. /\ now % MsPerSecond \in 0 .. MsPerSecond - 1
      /\ ms % MsPerSecond \in 0 .. MsPerSecond - 1
      /\ now \div MsPerSecond \in Nat
      /\ ms \div MsPerSecond \in Nat
  BY <1>1
<1> QED BY <1>1, <1>2 DEF aeAddMillisecondsToNow

\* What is registered decides everything but the types of the other fields.
LEMMA SameFilesKeeps ==
  ASSUME NEW s, LoopOK(s), NEW e \in EventLoop, SameFiles(e, s)
  PROVE  LoopOK(e)
BY DEF LoopOK, ProcsKnown, SameFiles

\* What changes the time events only, and keeps their type, keeps the rest.
LEMMA TimersKeep ==
  ASSUME NEW s, LoopOK(s), NEW timers \in Seq(TimeEvent)
  PROVE  LET e == [s EXCEPT !.timers = timers]
         IN  LoopOK(e) /\ SameFiles(e, s) /\ e.timers = timers
<1> DEFINE e == [s EXCEPT !.timers = timers]
<1>1. s \in EventLoop
  BY DEF LoopOK
<1>2. e \in EventLoop /\ SameFiles(e, s) /\ e.timers = timers
  BY <1>1 DEF EventLoop, SameFiles
<1> HIDE DEF e
<1> QED BY <1>2, SameFilesKeeps DEF e

\* A new timer has an id that no other has.
LEMMA TimerAddedKeeps ==
  ASSUME NEW s, LoopOK(s), NEW now \in Nat, NEW ms \in Nat
  PROVE  /\ LoopOK(TimerAdded(s, now, ms)) /\ SameFiles(TimerAdded(s, now, ms), s)
         /\ Len(TimerAdded(s, now, ms).timers) = Len(s.timers) + 1
<1> DEFINE when == aeAddMillisecondsToNow(now, ms)
           te == [id |-> s.nextId + 1, sec |-> when.sec, ms |-> when.ms]
           ts == <<te>> \o s.timers
<1>1. s.timers \in Seq(TimeEvent) /\ s.nextId \in Nat
  BY DEF LoopOK, EventLoop
<1>2. te \in TimeEvent
  <2>1. when \in [sec : Nat, ms : 0 .. MsPerSecond - 1]
    BY InstantType
  <2> HIDE DEF when
  <2> QED BY <1>1, <2>1 DEF TimeEvent
<1> HIDE DEF te
<1>3. <<te>> \in Seq(TimeEvent) /\ Len(<<te>>) = 1
  BY <1>2
<1>4. ts \in Seq(TimeEvent) /\ Len(ts) = 1 + Len(s.timers)
  BY <1>1, <1>3, ConcatProperties
<1>5. TimerAdded(s, now, ms) = [s EXCEPT !.timers = ts]
  BY DEF TimerAdded, LoopOK, EventLoop, te
<1>6. Len(s.timers) \in Nat
  BY <1>1
<1> HIDE DEF ts
<1> QED BY <1>4, <1>5, <1>6, TimersKeep

\* aeDeleteTimeEvent touches the list of timers only.
LEMMA TimerDeletedKeeps ==
  ASSUME NEW s, LoopOK(s), NEW id
  PROVE  /\ LoopOK(TimerDeleted(s, id)) /\ SameFiles(TimerDeleted(s, id), s)
         /\ Len(TimerDeleted(s, id).timers) <= Len(s.timers)
<1> DEFINE having == {i \in DOMAIN s.timers : s.timers[i].id = id}
           n == Len(s.timers)
<1>1. s.timers \in Seq(TimeEvent) /\ n \in Nat /\ DOMAIN s.timers = 1 .. n
  BY DEF LoopOK, EventLoop
<1>2. CASE having = {}
  <2>1. TimerDeleted(s, id) = s
    BY <1>2 DEF TimerDeleted
  <2> QED BY <1>1, <2>1 DEF SameFiles
<1>3. CASE having # {}
  <2>1. having \in SUBSET Nat /\ having \subseteq 1 .. n
    BY <1>1
  <2>2. \E x \in having : \A y \in having : x <= y
    <3> HIDE DEF having
    <3> QED BY <1>3, <2>1, LeastNatural
  <2>3. Min(having) \in having
    BY <2>2 DEF Min
  <2> DEFINE i == Min(having)
             front == SubSeq(s.timers, 1, i - 1)
             back == SubSeq(s.timers, i + 1, n)
  <2>4. i \in 1 .. n
    BY <2>1, <2>3
  <2> HIDE DEF i
  <2>5. /\ front \in Seq(TimeEvent) /\ Len(front) = i - 1
        /\ back \in Seq(TimeEvent) /\ Len(back) = n - i
    <3>1. /\ \A j \in 1 .. i - 1 : s.timers[j] \in TimeEvent
          /\ \A j \in i + 1 .. n : s.timers[j] \in TimeEvent
      BY <1>1, <2>4
    <3>2. front \in Seq(TimeEvent) /\ Len(front) = i - 1
      BY <2>4, <3>1, SubSeqProperties
    <3>3. back \in Seq(TimeEvent) /\ Len(back) = n - i
      BY <1>1, <2>4, <3>1, SubSeqProperties
    <3> QED BY <3>2, <3>3
  <2> HIDE DEF front, back
  <2>6. front \o back \in Seq(TimeEvent) /\ Len(front \o back) = n - 1
    <3>1. front \o back \in Seq(TimeEvent) /\ Len(front \o back) = Len(front) + Len(back)
      BY <2>5, ConcatProperties
    <3> QED BY <1>1, <2>4, <2>5, <3>1
  <2>7. TimerDeleted(s, id) = [s EXCEPT !.timers = front \o back]
    BY <1>3 DEF TimerDeleted, RemoveAt, LoopOK, EventLoop, i, front, back
  <2> DEFINE ts == front \o back
  <2> HIDE DEF ts
  <2>8. /\ LoopOK(TimerDeleted(s, id)) /\ SameFiles(TimerDeleted(s, id), s)
        /\ TimerDeleted(s, id).timers = ts
    BY <2>6, <2>7, TimersKeep DEF ts
  <2> QED BY <1>1, <2>6, <2>8 DEF ts
<1> QED BY <1>2, <1>3

\* A time event that has run is moved or removed.
LEMMA TimerRunKeeps ==
  ASSUME NEW s, LoopOK(s), NEW now \in Nat, Runnable(s, now) # {},
         NEW e \in TimerRun(s, now)
  PROVE  LoopOK(e) /\ SameFiles(e, s) /\ Len(e.timers) <= Len(s.timers)
<1> DEFINE runnable == Runnable(s, now)
           i == Min(runnable)
           n == Len(s.timers)
<1>1. s.timers \in Seq(TimeEvent) /\ n \in Nat /\ DOMAIN s.timers = 1 .. n
  BY DEF LoopOK, EventLoop
<1>2. i \in 1 .. n
  <2>1. runnable \in SUBSET Nat /\ runnable \subseteq 1 .. n
    BY <1>1 DEF Runnable
  <2>2. \E x \in runnable : \A y \in runnable : x <= y
    <3> HIDE DEF runnable
    <3> QED BY <2>1, LeastNatural DEF runnable
  <2> QED BY <2>1, <2>2 DEF Min
<1>3. CASE e = TimerDeleted(s, s.timers[i].id)
  BY <1>3, TimerDeletedKeeps
<1>4. CASE \E ms \in Delays : e = [s EXCEPT !.timers[i] = TimerMoved(@, now, ms)]
  <2>1. PICK ms \in Delays : e = [s EXCEPT !.timers[i] = TimerMoved(@, now, ms)]
    BY <1>4
  <2>2. ms \in Nat
    BY AeAssumption
  <2> DEFINE te == TimerMoved(s.timers[i], now, ms)
             ts == [s.timers EXCEPT ![i] = te]
  <2> HIDE DEF i
  <2>3. s.timers[i] \in TimeEvent
    BY <1>1, <1>2
  <2>4. te \in TimeEvent
    BY <2>2, <2>3, InstantType DEF TimerMoved, TimeEvent
  <2> HIDE DEF te
  <2>5. ts \in Seq(TimeEvent) /\ Len(ts) = n
    BY <1>1, <1>2, <2>4
  <2>6. e = [s EXCEPT !.timers = ts]
    BY <2>1 DEF te
  <2> HIDE DEF ts
  <2> QED BY <1>1, <2>5, <2>6, TimersKeep
<1> QED BY <1>3, <1>4 DEF TimerRun

\* A clock that was set back makes every timer due and keeps the rest.
LEMMA StepBackKeeps ==
  ASSUME NEW s, LoopOK(s), NEW now \in 0 .. MaxClock
  PROVE  /\ LoopOK(StepBackHandled(s, now)) /\ SameFiles(StepBackHandled(s, now), s)
         /\ Len(StepBackHandled(s, now).timers) = Len(s.timers)
<1> DEFINE ts == IF now < s.lastTime
                 THEN [i \in DOMAIN s.timers |-> [s.timers[i] EXCEPT !.sec = 0]] ELSE s.timers
           e == StepBackHandled(s, now)
           n == Len(s.timers)
<1>1. s \in EventLoop
  BY DEF LoopOK
<1>2. s.timers \in Seq(TimeEvent) /\ n \in Nat /\ DOMAIN s.timers = 1 .. n
  BY <1>1 DEF EventLoop
<1>3. ts \in Seq(TimeEvent) /\ Len(ts) = n
  <2> DEFINE zero == [i \in 1 .. n |-> [s.timers[i] EXCEPT !.sec = 0]]
  <2>1. \A i \in 1 .. n : s.timers[i] \in TimeEvent
    BY <1>2
  <2>2. \A i \in 1 .. n : [s.timers[i] EXCEPT !.sec = 0] \in TimeEvent
    BY <2>1 DEF TimeEvent
  <2>3. zero \in [1 .. n -> TimeEvent]
    BY <2>2
  <2>4. zero \in Seq(TimeEvent) /\ Len(zero) = n
    <3> HIDE DEF zero
    <3> QED BY <1>2, <2>3
  <2>5. ts = zero \/ ts = s.timers
    BY <1>2
  <2> HIDE DEF zero, ts
  <2> QED BY <1>2, <2>4, <2>5
<1>4. e = [s EXCEPT !.lastTime = now, !.timers = ts]
  BY <1>1 DEF StepBackHandled, EventLoop
<1> HIDE DEF ts, e
<1>5. e \in EventLoop /\ SameFiles(e, s) /\ e.timers = ts
  BY <1>1, <1>3, <1>4 DEF EventLoop, SameFiles
<1>6. LoopOK(e)
  BY <1>5, SameFilesKeeps
<1> QED BY <1>3, <1>5, <1>6 DEF e

-----------------------------------------------------------------------------
\* The invariant holds before the loop starts.
LEMMA InitHolds == Init => IInv
<1> SUFFICES ASSUME Init PROVE IInv
  OBVIOUS
<1>1. el \in EventLoop
  <2>1. <<>> \in Seq(TimeEvent) /\ clock \in 0 .. MaxClock
    BY DEF Init
  <2> QED BY <2>1 DEF Init, EventLoop, FileProcs
<1>2. \A fd \in Fds : el.mask[fd] = {}
  BY DEF Init
<1>3. el.rfds = {} /\ el.wfds = {} /\ Len(el.timers) = 0
  BY DEF Init
<1>4. LoopOK(el)
  BY <1>1, <1>2, <1>3 DEF LoopOK, ProcsKnown
<1>5. clock \in 0 .. MaxClock /\ MaxTimers \in Nat
  BY AeAssumption DEF Init
<1>6. at = "setup" /\ fired = {} /\ rfired = FALSE /\ ran = FALSE /\ running = Nobody
  BY DEF Init
<1>7. Len(el.timers) <= MaxTimers
  BY <1>3, <1>5
<1>8. fired \subseteq FiredEvents /\ rfired \in BOOLEAN /\ ran \in BOOLEAN
  BY <1>6
<1>9. running \in [fd : Fds, kind : Kinds, proc : FileProcs] \cup {Nobody}
  BY <1>6
<1> QED BY <1>4, <1>5, <1>6, <1>7, <1>8, <1>9 DEF IInv

\* The calls of procedures change the loop by its functions and nothing else.
LEMMA CallsKeep == IInv /\ Calls => IInv'
<1> SUFFICES ASSUME IInv, Calls PROVE IInv'
  OBVIOUS
<1>1. LoopOK(el) /\ Len(el.timers) \in Nat /\ clock \in Nat
  BY DEF IInv, LoopOK, EventLoop
<1>2. CASE aeCreateFileEvent
  <2>1. PICK fd \in Fds, mask \in (SUBSET Kinds) \ {{}}, proc \in Procs :
          el' = Registered(el, fd, mask, proc)
    BY <1>2 DEF aeCreateFileEvent
  <2>2. LoopOK(el') /\ el'.timers = el.timers
    BY <1>1, <2>1, RegisteredKeeps
  <2> QED BY <1>2, <2>2 DEF IInv, aeCreateFileEvent, loopVars
<1>3. CASE aeCreateFileEventFails
  BY <1>3 DEF IInv, aeCreateFileEventFails
<1>4. CASE aeDeleteFileEvent
  <2>1. PICK fd \in Fds, mask \in (SUBSET Kinds) \ {{}} : el' = Unregistered(el, fd, mask)
    BY <1>4 DEF aeDeleteFileEvent
  <2>2. LoopOK(el') /\ el'.timers = el.timers
    BY <1>1, <2>1, UnregisteredKeeps
  <2> QED BY <1>4, <2>2 DEF IInv, aeDeleteFileEvent, loopVars
<1>5. CASE aeCreateTimeEvent
  <2>1. PICK ms \in Delays : el' = TimerAdded(el, clock, ms)
    BY <1>5 DEF aeCreateTimeEvent
  <2>2. LoopOK(el') /\ Len(el'.timers) = Len(el.timers) + 1
    BY <1>1, <2>1, TimerAddedKeeps, AeAssumption
  <2>3. Len(el'.timers) <= MaxTimers
    BY <1>1, <1>5, <2>2, AeAssumption DEF aeCreateTimeEvent
  <2> QED BY <1>5, <2>2, <2>3 DEF IInv, aeCreateTimeEvent, loopVars
<1>6. CASE aeDeleteTimeEvent
  <2>1. PICK te \in ToSet(el.timers) : el' = TimerDeleted(el, te.id)
    BY <1>6 DEF aeDeleteTimeEvent
  <2>2. LoopOK(el') /\ Len(el'.timers) <= Len(el.timers)
    BY <1>1, <2>1, TimerDeletedKeeps
  <2>3. Len(el'.timers) \in Nat
    BY <2>2 DEF LoopOK, EventLoop
  <2>4. Len(el'.timers) <= MaxTimers
    BY <1>1, <2>2, <2>3, AeAssumption DEF IInv
  <2> QED BY <1>6, <2>2, <2>4 DEF IInv, aeDeleteTimeEvent, loopVars
<1>7. CASE aeStop
  <2>1. el' = [el EXCEPT !.stop = TRUE]
    BY <1>7 DEF aeStop
  <2>2. el \in EventLoop
    BY <1>1 DEF LoopOK
  <2>3. el' \in EventLoop /\ SameFiles(el', el) /\ el'.timers = el.timers
    BY <2>1, <2>2 DEF EventLoop, SameFiles
  <2>4. LoopOK(el')
    BY <1>1, <2>3, SameFilesKeeps
  <2> QED BY <1>7, <2>3, <2>4 DEF IInv, aeStop, loopVars
<1> QED BY <1>2, <1>3, <1>4, <1>5, <1>6, <1>7 DEF Calls

\* The event that is served next is one of the fired ones.  Descriptors are
\* numbers, so there is one of least number.
LEMMA CurrentIsFired ==
  ASSUME fired \subseteq FiredEvents, fired # {}
  PROVE  Current \in fired
<1> DEFINE fds == {e.fd : e \in fired}
<1>1. fds \in SUBSET Nat /\ fds # {}
  BY DEF FiredEvents, Fds
<1>2. \E m \in fds : \A n \in fds : m <= n
  <2> HIDE DEF fds
  <2> QED BY <1>1, LeastNatural
<1>3. \E e \in fired : \A f \in fired : e.fd <= f.fd
  BY <1>2
<1> QED BY <1>3 DEF Current

\* What select fires are events of descriptors of the loop.
LEMMA FiredType ==
  ASSUME NEW s, LoopOK(s), NEW rr, NEW ww
  PROVE  Fired(s, rr, ww) \subseteq FiredEvents
<1>1. s.maxfd \in Fds \cup {-1} /\ s.mask \in [Fds -> SUBSET Kinds] /\ setsize \in Nat
  BY AeAssumption DEF LoopOK, EventLoop
<1>2. 0 .. s.maxfd \subseteq Fds
  BY <1>1 DEF Fds
<1>3. \A fd \in Fds : s.mask[fd] \in SUBSET Kinds
  BY <1>1
<1> QED BY <1>2, <1>3 DEF Fired, FiredEvents

\* The procedure that is called next is one of the loop, and is wanted.
LEMMA CallersWant ==
  ASSUME IInv, NEW kind \in Kinds, fired # {}, StillWanted(Current, kind)
  PROVE  /\ Current.fd \in Fds /\ kind \in el.mask[Current.fd]
         /\ kind = "r" => el.rproc[Current.fd] \in Procs
         /\ kind = "w" => el.wproc[Current.fd] \in Procs
<1>1. Current \in FiredEvents
  BY CurrentIsFired DEF IInv
<1> QED BY <1>1 DEF StillWanted, IInv, LoopOK, ProcsKnown, FiredEvents

\* Every step of the loop keeps it,
LEMMA LoopKeeps == IInv /\ Loop => IInv'
<1> SUFFICES ASSUME IInv, Loop PROVE IInv'
  OBVIOUS
<1>1. LoopOK(el) /\ el \in EventLoop /\ Len(el.timers) \in Nat /\ clock \in Nat
  BY DEF IInv, LoopOK, EventLoop
<1>2. CASE aeMain
  <2>1. el' = [el EXCEPT !.stop = FALSE]
    BY <1>2 DEF aeMain
  <2>2. el' \in EventLoop /\ SameFiles(el', el) /\ el'.timers = el.timers
    BY <1>1, <2>1 DEF EventLoop, SameFiles
  <2>3. LoopOK(el')
    BY <1>1, <2>2, SameFilesKeeps
  <2> QED BY <1>2, <2>2, <2>3 DEF IInv, aeMain
<1>3. CASE aeApiPoll
  <2>1. PICK rr \in SUBSET el.rfds, ww \in SUBSET el.wfds :
          /\ fired' = Fired(el, rr, ww)
          /\ clock' \in IF rr \cup ww # {} THEN {clock}
                        ELSE {clock + Timeout(el, clock)} \cap 0 .. MaxClock
    BY <1>3 DEF aeApiPoll
  <2>2. fired' \subseteq FiredEvents
    BY <1>1, <2>1, FiredType
  <2>3. clock' \in 0 .. MaxClock
    BY <2>1 DEF IInv
  <2> QED BY <1>3, <2>2, <2>3 DEF IInv, aeApiPoll
<1>4. CASE aeApiPollAsserts
  BY <1>4 DEF IInv, aeApiPollAsserts
<1>5. CASE CallReader
  <2>1. /\ Current.fd \in Fds /\ el.rproc[Current.fd] \in Procs
    BY <1>5, CallersWant DEF CallReader, Kinds
  <2>2. running' \in [fd : Fds, kind : Kinds, proc : FileProcs]
    BY <1>5, <2>1 DEF CallReader, Kinds, FileProcs
  <2> QED BY <1>5, <2>2 DEF IInv, CallReader
<1>6. CASE CallWriter
  <2>1. CASE WriterCalled(Current)
    <3>1. Current.fd \in Fds /\ el.wproc[Current.fd] \in Procs
      BY <1>6, <2>1, CallersWant DEF CallWriter, WriterCalled, Kinds
    <3>2. running' \in [fd : Fds, kind : Kinds, proc : FileProcs]
      BY <1>6, <2>1, <3>1 DEF CallWriter, Kinds, FileProcs
    <3> QED BY <1>6, <3>2 DEF IInv, CallWriter
  <2>2. CASE ~WriterCalled(Current)
    BY <1>6, <2>2 DEF IInv, CallWriter
  <2> QED BY <2>1, <2>2
<1>7. CASE Return
  BY <1>7 DEF IInv, Return
<1>8. CASE FileEventsServed
  <2>1. LoopOK(el') /\ Len(el'.timers) = Len(el.timers)
    BY <1>1, <1>8, StepBackKeeps DEF FileEventsServed, IInv
  <2> QED BY <1>8, <2>1 DEF IInv, FileEventsServed
<1>9. CASE processTimeEvents
  <2>1. CASE Runnable(el, clock) = {}
    BY <1>9, <2>1 DEF IInv, processTimeEvents
  <2>2. CASE Runnable(el, clock) # {}
    <3>1. el' \in TimerRun(el, clock)
      BY <1>9, <2>2 DEF processTimeEvents
    <3>2. LoopOK(el') /\ Len(el'.timers) <= Len(el.timers)
      BY <1>1, <2>2, <3>1, TimerRunKeeps
    <3>3. Len(el'.timers) \in Nat
      BY <3>2 DEF LoopOK, EventLoop
    <3>4. Len(el'.timers) <= MaxTimers
      BY <1>1, <3>2, <3>3, AeAssumption DEF IInv
    <3> QED BY <1>9, <2>2, <3>2, <3>4 DEF IInv, processTimeEvents
  <2> QED BY <2>1, <2>2
<1> QED BY <1>2, <1>3, <1>4, <1>5, <1>6, <1>7, <1>8, <1>9 DEF Loop

\* and so does every step of the system.
LEMMA NextKeeps == IInv /\ [Next]_vars => IInv'
<1>1. IInv /\ Tick => IInv'
  BY DEF IInv, Tick, loopVars
<1>2. IInv /\ UNCHANGED vars => IInv'
  BY DEF IInv, vars
<1> QED BY <1>1, <1>2, LoopKeeps, CallsKeep DEF Next

\* The registrations stay sound through every pass and every procedure.
THEOREM RegistrationsHold == Spec => []IInv
BY InitHolds, NextKeeps, PTL DEF Spec

\* The state keeps its types, whatever the procedures do.
THEOREM TypeCorrect == Spec => []TypeOK
<1>1. IInv => TypeOK
  <2> SUFFICES ASSUME IInv PROVE TypeOK
    OBVIOUS
  <2>1. el \in EventLoop
    BY DEF IInv, LoopOK
  <2>2. \A te \in ToSet(el.timers) : te \in TimeEvent
    BY <2>1 DEF ToSet, EventLoop
  <2>3. \A te \in ToSet(el.timers) : te.sec \in Nat /\ te.ms \in 0 .. MsPerSecond - 1
    BY <2>2 DEF TimeEvent
  <2> QED BY <2>1, <2>3 DEF IInv, TypeOK, EventLoop, FiredEvents
<1> QED BY <1>1, RegistrationsHold, PTL

\* The two records of what is watched (ae.py, ae_select.py) never disagree.
THEOREM SelectAgreesHolds == Spec => []SelectAgrees
<1>1. IInv => SelectAgrees
  BY DEF IInv, LoopOK, EventLoop, SelectAgrees
<1> QED BY <1>1, RegistrationsHold, PTL

\* The scan of aeApiPoll reaches every registered descriptor.
THEOREM MaxfdCoversHolds == Spec => []MaxfdCovers
<1>1. IInv => MaxfdCovers
  BY DEF IInv, LoopOK, MaxfdCovers
<1> QED BY <1>1, RegistrationsHold, PTL

-----------------------------------------------------------------------------
\* Where a pass stands: events are fired only while they are being served, a
\* descriptor has one of them, and a read procedure that runs is that of the
\* event being served.
PassOK ==
  /\ at # "file" => fired = {}
  /\ \A e, f \in fired : e.fd = f.fd => e = f
  /\ Calling /\ rfired => fired # {} /\ running.fd = Current.fd

\* No pass is running before the first poll.
LEMMA PassInit == Init => PassOK
BY DEF Init, PassOK, Calling

\* Which event is served next depends on the fired ones only.
LEMMA CurrentStays == fired' = fired => Current' = Current
BY DEF Current

\* Every step keeps what is known of the running pass.
LEMMA PassKeeps == PassOK /\ [Next]_vars => PassOK'
<1> SUFFICES ASSUME PassOK, [Next]_vars PROVE PassOK'
  OBVIOUS
<1>1. CASE CallReader
  <2>1. /\ fired' = fired /\ fired # {} /\ at' = "file"
        /\ running' = [fd |-> Current.fd, kind |-> "r", proc |-> el.rproc[Current.fd]]
    BY <1>1 DEF CallReader
  <2>2. running'.fd = Current.fd
    BY <2>1
  <2> QED BY <2>1, <2>2, CurrentStays DEF PassOK
<1>2. CASE CallWriter
  BY <1>2 DEF CallWriter, PassOK
<1>3. CASE aeCreateFileEventFails
  BY <1>3 DEF aeCreateFileEventFails, PassOK, Calling
<1>4. CASE Return
  BY <1>4 DEF Return, PassOK, Calling
<1>5. CASE aeApiPoll
  <2>1. PICK rr, ww : fired' = Fired(el, rr, ww)
    BY <1>5 DEF aeApiPoll
  <2>2. \A e, f \in Fired(el, rr, ww) : e.fd = f.fd => e = f
    BY DEF Fired
  <2>3. \A e, f \in fired' : e.fd = f.fd => e = f
    BY <2>1, <2>2
  <2> QED BY <1>5, <2>3 DEF aeApiPoll, PassOK, Calling
<1>6. ASSUME UNCHANGED <<fired, rfired, running>>, at # "file" \/ at' = at \/ fired = {}
      PROVE  PassOK'
  BY <1>6, CurrentStays DEF PassOK, Calling
<1>7. CASE aeMain \/ aeApiPollAsserts \/ FileEventsServed \/ processTimeEvents
  BY <1>6, <1>7 DEF aeMain, aeApiPollAsserts, FileEventsServed, processTimeEvents
<1>8. CASE aeCreateFileEvent \/ aeDeleteFileEvent \/ aeCreateTimeEvent \/ aeDeleteTimeEvent
           \/ aeStop \/ Tick \/ UNCHANGED vars
  BY <1>6, <1>8 DEF aeCreateFileEvent, aeDeleteFileEvent, aeCreateTimeEvent,
                    aeDeleteTimeEvent, aeStop, Tick, loopVars, vars
<1> QED BY <1>1, <1>2, <1>3, <1>4, <1>5, <1>7, <1>8 DEF Next, Loop, Calls

\* A pass never has more to call than before, and calls only what is wanted and
\* was not called yet, by the procedure registered now.
THEOREM CallsAreWantedHolds == Spec => CallsAreWanted
<1> DEFINE Proc(fd, kind) == (IF kind = "r" THEN el.rproc ELSE el.wproc)[fd]
           Watching(kind) == IF kind = "r" THEN el.rfds ELSE el.wfds
           Wanted(fd, kind) ==
             /\ <<fd, kind>> \in Callable \ Callable'
             /\ fd \in Watching(kind) /\ running'.proc = Proc(fd, kind)
           Called == /\ at = "file" => Callable' \subseteq Callable
                     /\ running' \notin {running, Nobody} => Wanted(running'.fd, running'.kind)
<1>1. IInv /\ PassOK /\ [Next]_vars => [Called]_vars
  <2> SUFFICES ASSUME IInv, PassOK, Next PROVE Called
    OBVIOUS
  <2>1. ASSUME fired # {}
        PROVE  Current \in fired /\ Current.fd \in Fds /\ LoopOK(el)
    BY <2>1, CurrentIsFired DEF IInv, FiredEvents
  <2>2. CASE CallReader
    <3>1. /\ at = "file" /\ fired # {} /\ ~rfired /\ fired' = fired /\ rfired'
          /\ running' = [fd |-> Current.fd, kind |-> "r", proc |-> el.rproc[Current.fd]]
          /\ "r" \in Current.mask /\ "r" \in el.mask[Current.fd] /\ Current' = Current
      BY <2>2, CurrentStays DEF CallReader, StillWanted
    <3>2. Callable' \subseteq Callable
      BY <3>1 DEF Callable
    <3>3. <<Current.fd, "r">> \in Callable
      BY <2>1, <3>1 DEF Callable, Kinds
    <3>4. <<Current.fd, "r">> \notin Callable'
      BY <2>1, <3>1 DEF Callable, PassOK
    <3>5. Current.fd \in el.rfds
      BY <2>1, <3>1 DEF LoopOK
    <3> QED BY <3>1, <3>2, <3>3, <3>4, <3>5
  <2>3. CASE CallWriter
    <3>1. at = "file" /\ fired # {} /\ fired' = fired \ {Current} /\ ~rfired'
      BY <2>3 DEF CallWriter
    <3>2. Callable' \subseteq Callable
      BY <3>1 DEF Callable
    <3>3. CASE WriterCalled(Current)
      <4>1. /\ running' = [fd |-> Current.fd, kind |-> "w", proc |-> el.wproc[Current.fd]]
            /\ "w" \in Current.mask /\ "w" \in el.mask[Current.fd]
        BY <2>3, <3>3 DEF CallWriter, WriterCalled, StillWanted
      <4>2. <<Current.fd, "w">> \in Callable
        BY <2>1, <3>1, <4>1 DEF Callable, Kinds
      <4>3. <<Current.fd, "w">> \notin Callable'
        BY <2>1, <3>1 DEF Callable, PassOK
      <4>4. Current.fd \in el.wfds
        BY <2>1, <3>1, <4>1 DEF LoopOK
      <4> QED BY <3>2, <4>1, <4>2, <4>3, <4>4
    <3>4. CASE ~WriterCalled(Current)
      BY <2>3, <3>2, <3>4 DEF CallWriter
    <3> QED BY <3>3, <3>4
  <2>4. ASSUME at = "file" => fired' = {} \/ UNCHANGED <<fired, rfired>>,
               running' \in {running, Nobody}
        PROVE  Called
    <3>1. CASE fired' = {}
      BY <2>4, <3>1 DEF Callable
    <3>2. CASE UNCHANGED <<fired, rfired>>
      <4>1. Callable' = Callable
        BY <3>2, CurrentStays DEF Callable
      <4> QED BY <2>4, <4>1
    <3> QED BY <2>4, <3>1, <3>2
  <2>5. CASE aeMain \/ aeApiPoll \/ aeApiPollAsserts \/ Return \/ FileEventsServed
             \/ processTimeEvents
    <3>1. at = "file" => UNCHANGED <<fired, rfired>>
      BY <2>5 DEF aeMain, aeApiPoll, aeApiPollAsserts, Return, FileEventsServed,
                  processTimeEvents
    <3>2. running' \in {running, Nobody}
      BY <2>5 DEF aeMain, aeApiPoll, aeApiPollAsserts, Return, FileEventsServed,
                  processTimeEvents
    <3> QED BY <2>4, <3>1, <3>2
  <2>6. CASE Calls \/ Tick
    <3>1. fired' = {} \/ UNCHANGED <<fired, rfired>>
      BY <2>6 DEF Calls, aeCreateFileEvent, aeCreateFileEventFails, aeDeleteFileEvent,
                  aeCreateTimeEvent, aeDeleteTimeEvent, aeStop, Tick, loopVars
    <3>2. running' \in {running, Nobody}
      BY <2>6 DEF Calls, aeCreateFileEvent, aeCreateFileEventFails, aeDeleteFileEvent,
                  aeCreateTimeEvent, aeDeleteTimeEvent, aeStop, Tick, loopVars
    <3> QED BY <2>4, <3>1, <3>2
  <2> QED BY <2>2, <2>3, <2>5, <2>6 DEF Next, Loop
<1>2. Spec => [][Called]_vars
  BY <1>1, RegistrationsHold, PassInit, PassKeeps, PTL DEF Spec
<1>3. Called <=> /\ at = "file" => Callable' \subseteq Callable
                 /\ running' \notin {running, Nobody} =>
                      LET fd == running'.fd  kind == running'.kind
                      IN  /\ <<fd, kind>> \in Callable \ Callable'
                          /\ fd \in (IF kind = "r" THEN el.rfds ELSE el.wfds)
                          /\ running'.proc = (IF kind = "r" THEN el.rproc ELSE el.wproc)[fd]
  OBVIOUS
<1> QED BY <1>2, <1>3, PTL DEF CallsAreWanted

\* Whatever the procedures of a pass create and delete, no event of the pass is
\* lost: its procedure is called, or it was withdrawn before its turn, or the one
\* call of a procedure registered for both kinds stands for it.
THEOREM NoFiredEventLost == Spec => FiredIsServed
<1> DEFINE Served ==
      \A fd \in Fds, k \in Kinds :
        Waiting(fd, k) /\ ~Waiting(fd, k)' =>
          \/ running'.fd = fd /\ (running'.kind = k \/ el'.rproc[fd] = el'.wproc[fd])
          \/ k \notin el.mask[fd]
          \/ at' = "dead"
<1>1. PassOK /\ [Next]_vars => [Served]_vars
  <2> SUFFICES ASSUME PassOK, Next, NEW fd \in Fds, NEW k \in Kinds,
                      Waiting(fd, k), ~Waiting(fd, k)', at' # "dead"
               PROVE  \/ running'.fd = fd /\ (running'.kind = k \/ el'.rproc[fd] = el'.wproc[fd])
                      \/ k \notin el.mask[fd]
    OBVIOUS
  <2>1. PICK e \in fired : /\ e.fd = fd /\ k \in e.mask
                           /\ e = Current /\ rfired => k = "w" /\ el.rproc[fd] # el.wproc[fd]
    BY DEF Waiting
  <2>2. at = "file" /\ fired # {}
    BY <2>1 DEF PassOK
  <2>3. CASE CallReader
    <3>1. /\ fired' = fired /\ el' = el /\ Current' = Current
          /\ running' = [fd |-> Current.fd, kind |-> "r", proc |-> el.rproc[Current.fd]]
      BY <2>3, CurrentStays DEF CallReader
    <3>2. e = Current /\ ~(k = "w" /\ el'.rproc[fd] # el'.wproc[fd])
      BY <2>1, <3>1 DEF Waiting
    <3>3. running'.fd = fd /\ running'.kind = "r"
      BY <2>1, <3>1, <3>2
    <3> QED BY <3>2, <3>3 DEF Kinds
  <2>4. CASE CallWriter
    <3>1. /\ fired' = fired \ {Current} /\ rfired' = FALSE
          /\ WriterCalled(Current) =>
               running' = [fd |-> Current.fd, kind |-> "w", proc |-> el.wproc[Current.fd]]
          /\ rfired \/ ~StillWanted(Current, "r")
      BY <2>4 DEF CallWriter, ReaderOver
    <3>2. e = Current
      BY <2>1, <3>1 DEF Waiting
    <3>3. CASE k = "r"
      BY <2>1, <3>1, <3>2, <3>3 DEF StillWanted
    <3>4. CASE k = "w"
      <4>1. k \in el.mask[fd] => WriterCalled(Current)
        BY <2>1, <3>2, <3>4 DEF WriterCalled, StillWanted
      <4>2. WriterCalled(Current) => running'.fd = fd /\ running'.kind = k
        BY <2>1, <3>1, <3>2, <3>4
      <4> QED BY <4>1, <4>2
    <3> QED BY <3>3, <3>4 DEF Kinds
  <2>5. CASE Return \/ Tick
    <3>1. fired' = fired /\ rfired' = rfired /\ el' = el /\ Current' = Current
      BY <2>5, CurrentStays DEF Return, Tick, loopVars
    <3> QED BY <3>1 DEF Waiting
  <2>6. CASE aeCreateFileEvent \/ aeDeleteFileEvent \/ aeCreateTimeEvent
             \/ aeDeleteTimeEvent \/ aeStop
    <3>1. UNCHANGED loopVars /\ InControl
      BY <2>6 DEF aeCreateFileEvent, aeDeleteFileEvent, aeCreateTimeEvent,
                  aeDeleteTimeEvent, aeStop
    <3>2. /\ fired' = fired /\ rfired' = rfired /\ running' = running /\ Calling
          /\ Current' = Current
      BY <2>2, <3>1, CurrentStays DEF loopVars, InControl
    <3>3. e = Current /\ rfired /\ el'.rproc[fd] = el'.wproc[fd]
      BY <2>1, <3>2 DEF Waiting
    <3> QED BY <2>1, <3>2, <3>3 DEF PassOK
  <2>7. CASE aeCreateFileEventFails \/ aeApiPollAsserts
    BY <2>7 DEF aeCreateFileEventFails, aeApiPollAsserts
  <2>8. CASE aeMain \/ aeApiPoll \/ FileEventsServed \/ processTimeEvents
    BY <2>2, <2>8 DEF aeMain, aeApiPoll, FileEventsServed, processTimeEvents
  <2> QED BY <2>3, <2>4, <2>5, <2>6, <2>7, <2>8 DEF Next, Loop, Calls
<1>2. Spec => [][Served]_vars
  BY <1>1, PassInit, PassKeeps, PTL DEF Spec
<1> QED BY <1>2 DEF FiredIsServed

-----------------------------------------------------------------------------
\* The larger of two numbers.
LEMMA PairMax ==
  ASSUME NEW a \in Int, NEW b \in Int
  PROVE  Max({a, b}) = IF a >= b THEN a ELSE b
<1> DEFINE m == IF a >= b THEN a ELSE b
<1>1. m \in {a, b} /\ \A y \in {a, b} : m >= y
  OBVIOUS
<1>2. \A x \in {a, b} : (\A y \in {a, b} : x >= y) => x = m
  OBVIOUS
<1>3. Max({a, b}) = CHOOSE x \in {a, b} : \A y \in {a, b} : x >= y
  BY DEF Max
<1> QED BY <1>1, <1>2, <1>3

\* The order of the two fields is the order of the instants.
LEMMA BeforeIsEarlier ==
  ASSUME NEW a \in TimeEvent, NEW b \in TimeEvent
  PROVE  When(a) \in Nat /\ When(b) \in Nat /\ (Before(a, b) <=> When(a) < When(b))
<1> DEFINE M == MsPerSecond
<1>1. /\ a.sec \in Nat /\ b.sec \in Nat /\ a.ms \in Nat /\ b.ms \in Nat /\ M \in Nat
      /\ a.ms < M /\ b.ms < M
  BY AeAssumption DEF TimeEvent
<1> HIDE DEF M
<1>2. When(a) = a.sec * M + a.ms /\ When(b) = b.sec * M + b.ms
  BY DEF When, M
<1>3. \A x, y \in Nat : x < y => x * M + M <= y * M
  <2> SUFFICES ASSUME NEW x \in Nat, NEW y \in Nat, x < y PROVE x * M + M <= y * M
    OBVIOUS
  <2>1. (x + 1) * M <= y * M
    BY <1>1
  <2>2. (x + 1) * M = x * M + M
    BY <1>1
  <2> QED BY <2>1, <2>2
<1>4. a.sec * M \in Nat /\ b.sec * M \in Nat
  BY <1>1
<1>5. /\ a.sec < b.sec => a.sec * M + M <= b.sec * M
      /\ b.sec < a.sec => b.sec * M + M <= a.sec * M
  BY <1>1, <1>3
<1>6. When(a) \in Nat /\ When(b) \in Nat
  BY <1>1, <1>2, <1>4
<1>7. Before(a, b) <=> When(a) < When(b)
  <2> DEFINE x == a.sec * M
             y == b.sec * M
  <2>1. x \in Nat /\ y \in Nat /\ (a.sec < b.sec => x + M <= y) /\ (b.sec < a.sec => y + M <= x)
        /\ (a.sec = b.sec => x = y)
    BY <1>4, <1>5
  <2>2. When(a) = x + a.ms /\ When(b) = y + b.ms
    BY <1>2
  <2> HIDE DEF x, y
  <2>3. a.sec < b.sec \/ a.sec = b.sec \/ b.sec < a.sec
    BY <1>1
  <2> QED BY <1>1, <2>1, <2>2, <2>3 DEF Before
<1> QED BY <1>6, <1>7

\* The search for the nearest time event finds one of the list.
LEMMA NearestType ==
  ASSUME NEW s, LoopOK(s), s.timers # <<>>
  PROVE  aeSearchNearestTimer(s) \in TimeEvent
<1> DEFINE ts == s.timers
           n == Len(ts)
           whens == {When(ts[i]) : i \in 1 .. n}
           Nearest(i) == \A j \in 1 .. n : /\ ~Before(ts[j], ts[i])
                                           /\ j < i => Before(ts[i], ts[j])
<1>1. /\ ts \in Seq(TimeEvent) /\ n \in Nat /\ n # 0 /\ DOMAIN ts = 1 .. n
      /\ \A i \in 1 .. n : ts[i] \in TimeEvent
  BY DEF LoopOK, EventLoop
<1>2. aeSearchNearestTimer(s) = ts[CHOOSE i \in 1 .. n : Nearest(i)]
  BY <1>1 DEF aeSearchNearestTimer
<1> HIDE DEF ts, n
<1>3. \A i, j \in 1 .. n : /\ When(ts[i]) \in Nat
                           /\ Before(ts[i], ts[j]) <=> When(ts[i]) < When(ts[j])
  BY <1>1, BeforeIsEarlier
<1>4. PICK m \in whens : \A w \in whens : m <= w
  <2>1. whens \in SUBSET Nat /\ whens # {}
    BY <1>1, <1>3
  <2> HIDE DEF whens
  <2> QED BY <2>1, LeastNatural
<1> DEFINE first == {i \in 1 .. n : When(ts[i]) = m}
<1>5. PICK i \in first : \A j \in first : i <= j
  <2>1. first \in SUBSET Nat /\ first # {}
    BY <1>1, <1>4
  <2> HIDE DEF first
  <2> QED BY <2>1, LeastNatural
<1>6. i \in 1 .. n /\ When(ts[i]) = m
  BY <1>5
<1>7. \A j \in 1 .. n : m <= When(ts[j]) /\ (j < i => m # When(ts[j]))
  BY <1>1, <1>4, <1>5
<1>8. Nearest(i)
  BY <1>3, <1>6, <1>7
<1> HIDE DEF Nearest
<1> QED BY <1>1, <1>2, <1>6, <1>8

\* The time select waits, rounded down to seconds, ends no later than the event.
LEMMA TimeoutEnds ==
  ASSUME NEW s, LoopOK(s), s.timers # <<>>, NEW now \in Nat
  PROVE  /\ Timeout(s, now) \in Nat
         /\ now + Timeout(s, now) <= Max({now, When(aeSearchNearestTimer(s))})
<1> DEFINE M == MsPerSecond
           te == aeSearchNearestTimer(s)
           q == now \div M
           r == now % M
           b == IF te.ms < r THEN 1 ELSE 0
           n == te.sec - q - b
<1>1. M \in Nat /\ M > 0 /\ q \in Nat /\ r \in Nat /\ r < M /\ now = M * q + r
  BY AeAssumption
<1>2. te.sec \in Nat /\ te.ms \in Nat /\ te.ms < M
  <2> HIDE DEF te
  <2> QED BY NearestType, AeAssumption DEF TimeEvent, te
<1>3. SecondsLeft(te, now) = n
  BY DEF SecondsLeft
<1>4. When(te) = te.sec * M + te.ms
  BY DEF When
<1>5. Timeout(s, now) = Max({0, SecondsLeft(te, now)}) * M
  BY DEF Timeout
<1> HIDE DEF M, te, q, r
<1>6. n \in Int /\ b \in {0, 1} /\ r <= te.ms + b * M
  BY <1>1, <1>2
<1>7. Timeout(s, now) = (IF n <= 0 THEN 0 ELSE n) * M
  BY <1>3, <1>5, <1>6, PairMax
<1>8. When(te) \in Nat /\ Max({now, When(te)}) = IF now >= When(te) THEN now ELSE When(te)
  <2>1. te.sec * M \in Nat
    BY <1>1, <1>2
  <2>2. When(te) \in Nat /\ When(te) \in Int
    BY <1>2, <1>4, <2>1
  <2>3. now \in Int
    OBVIOUS
  <2>4. Max({now, When(te)}) = IF now >= When(te) THEN now ELSE When(te)
    BY ONLY <2>2, <2>3, PairMax
  <2> QED BY ONLY <2>2, <2>4
<1>9. CASE n <= 0
  <2>1. Timeout(s, now) = 0
    BY <1>1, <1>7, <1>9
  <2> QED BY <1>8, <2>1 DEF te
<1>10. CASE n > 0
  <2>1. Timeout(s, now) = n * M
    BY <1>1, <1>7, <1>10, <1>6
  <2>2. n * M = te.sec * M - q * M - b * M
    BY <1>1, <1>2, <1>6
  <2>3. M * q = q * M /\ n * M \in Nat
    BY <1>1, <1>6, <1>10
  <2> HIDE DEF n, b
  <2>4. now + n * M <= When(te)
    BY <1>1, <1>2, <1>4, <1>6, <2>2, <2>3
  <2> QED BY <1>8, <2>1, <2>3, <2>4 DEF te
<1> QED BY <1>6, <1>9, <1>10

\* While nothing becomes ready, select returns no later than the nearest time
\* event: dropping the microseconds wakes the loop early, never late.
THEOREM SleepIsShort == Spec => SleepEndsByDeadline
<1> DEFINE InTime == at = "poll" /\ at' = "file" =>
                       clock' <= Max({clock, When(aeSearchNearestTimer(el))})
<1>1. IInv /\ [Next]_vars => [InTime]_vars
  <2> SUFFICES ASSUME IInv, Next, at = "poll", at' = "file"
               PROVE  clock' <= Max({clock, When(aeSearchNearestTimer(el))})
    OBVIOUS
  <2>1. aeApiPoll
    BY DEF Next, Loop, Calls, aeMain, aeApiPollAsserts, CallReader, CallWriter, Return,
           FileEventsServed, processTimeEvents, aeCreateFileEvent, aeCreateFileEventFails,
           aeDeleteFileEvent, aeCreateTimeEvent, aeDeleteTimeEvent, aeStop, Tick, loopVars
  <2>2. clock' = clock \/ clock' = clock + Timeout(el, clock)
    BY <2>1 DEF aeApiPoll
  <2>3. LoopOK(el) /\ el.timers # <<>> /\ clock \in Nat
    BY <2>1 DEF IInv, aeApiPoll
  <2>4. /\ Timeout(el, clock) \in Nat
        /\ clock + Timeout(el, clock) <= Max({clock, When(aeSearchNearestTimer(el))})
    BY <2>3, TimeoutEnds
  <2>5. Max({clock, When(aeSearchNearestTimer(el))}) \in Int
    <3>1. When(aeSearchNearestTimer(el)) \in Nat
      BY <2>3, NearestType, BeforeIsEarlier
    <3> QED BY <2>3, <3>1, PairMax
  <2> HIDE DEF Timeout
  <2> QED BY <2>2, <2>3, <2>4, <2>5
<1>2. Spec => [][InTime]_vars
  BY <1>1, RegistrationsHold, PTL DEF Spec
<1> QED BY <1>2 DEF SleepEndsByDeadline

-----------------------------------------------------------------------------
\* The descriptors of the clients are the numbers from 1 on, and there is one
\* for every connection that waits.
Numbered ==
  /\ Cardinality(clients) \in Nat /\ clients = 1 .. Cardinality(clients)
  /\ backlog \in Nat /\ Cardinality(clients) + backlog < setsize
  /\ Cardinality(clients) <= maxclients

Peers == [bytes : Seq(Pieces), sent : Nat, half : BOOLEAN, end : {"open", "eof", "reset"},
          blocked : BOOLEAN, asked : Nat, quit : BOOLEAN]

\* Only clients have output, and only clients are being closed.
Buffers ==
  /\ out \in [Conns -> Nat] /\ \A fd \in Conns : out[fd] > 0 => fd \in clients
  /\ query \in [Conns -> Seq(Pieces)] /\ done \in [Conns -> Nat]
  /\ closing \subseteq clients
  /\ peer \in [Conns -> Peers]

\* The commands in front of the first QUIT among some pieces, and whether there is one.
HasQuit(s) == \E i \in DOMAIN s : s[i] = "q"
Heeded(s) == {i \in DOMAIN s : IsCommand(s[i]) /\ \A j \in 1 .. i : s[j] # "q"}
Heard(s) == Cardinality(Heeded(s))

\* The commands a peer asked for in front of its QUIT are those executed and those
\* that wait; a client is being closed only if its QUIT was read.
Input(fd) == query[fd] \o peer[fd].bytes
Account(fd) ==
  /\ fd \in closing => peer[fd].quit /\ done[fd] = peer[fd].asked
  /\ fd \notin closing => /\ peer[fd].quit <=> HasQuit(Input(fd))
                         /\ done[fd] + Heard(Input(fd)) = peer[fd].asked
Accounts == \A fd \in Conns : Account(fd)

\* What is registered follows from the clients and their output.
Watched ==
  /\ el.rfds = IF at = "setup" THEN {} ELSE {Listener} \cup clients
  /\ el.wfds = {fd \in clients : out[fd] > 0}
  /\ at # "setup" => el.rproc[Listener] = "acceptTcpHandler"
  /\ \A fd \in clients : el.rproc[fd] = "readQueryFromClient"
  /\ \A fd \in el.wfds : el.wproc[fd] = "sendReplyToClient"

\* A procedure is called for the descriptor it belongs to.
Served ==
  running # Nobody =>
    /\ at = "file"
    /\ \/ running.proc = "acceptTcpHandler" /\ running.fd = Listener
       \/ running.proc \in {"readQueryFromClient", "sendReplyToClient"} /\ running.fd \in clients

Alive ==
  /\ LoopOK(el) /\ clock \in 0 .. MaxClock /\ fired \subseteq FiredEvents
  /\ at \in {"setup", "poll", "file", "time"} /\ (at = "setup" => clients = {})
  /\ Numbered /\ Buffers /\ Accounts /\ Watched /\ Served

\* Nothing happens in a process that has ended.
SInv == (at = "dead" /\ running = Nobody) \/ Alive

-----------------------------------------------------------------------------
\* The listening descriptor, and those of the connections.
LEMMA Descriptors ==
  /\ Listener \in Fds /\ Conns \subseteq Fds /\ Conns = 1 .. setsize - 1
  /\ Cardinality(Conns) = setsize - 1 /\ setsize \in Nat /\ setsize > 1
<1>1. setsize \in Nat /\ setsize > 1
  BY AeAssumption, ServerAssumption
<1>2. Conns = 1 .. setsize - 1
  BY <1>1 DEF Conns, Fds, Listener
<1>3. Cardinality(1 .. setsize - 1) = setsize - 1
  BY <1>1, FS_Interval
<1> QED BY <1>1, <1>2, <1>3 DEF Fds, Listener

\* Clients have descriptors of connections, the first ones.
LEMMA ClientsAreConns ==
  ASSUME Numbered
  PROVE  clients \subseteq Conns
BY Descriptors DEF Numbered

\* What leaves the registrations, the clients and their output alone keeps what
\* is watched.
LEMMA WatchedKept ==
  ASSUME Watched, SameFiles(el', el), clients' = clients, out' = out,
         at # "setup", at' # "setup"
  PROVE  Watched'
BY DEF Watched, SameFiles

\* Whoever leaves the peers, the input and the commands alone keeps the accounts.
LEMMA AccountsKept ==
  ASSUME Accounts, UNCHANGED <<peer, query, closing, done>>
  PROVE  Accounts'
BY DEF Accounts, Account, Input

-----------------------------------------------------------------------------
\* The commands heeded are finitely many.
LEMMA HeardType ==
  ASSUME NEW s \in Seq(Pieces)
  PROVE  IsFiniteSet(Heeded(s)) /\ Heard(s) \in Nat
<1>1. IsFiniteSet(1 .. Len(s)) /\ Heeded(s) \subseteq 1 .. Len(s)
  BY FS_Interval DEF Heeded
<1>2. IsFiniteSet(Heeded(s))
  BY <1>1, FS_Subset
<1> QED BY <1>2, FS_CardinalityType DEF Heard

\* Pieces without a command.
LEMMA NoneHeard ==
  ASSUME NEW s, \A i \in DOMAIN s : ~IsCommand(s[i])
  PROVE  Heard(s) = 0
<1>1. Heeded(s) = {}
  BY DEF Heeded
<1> QED BY <1>1, FS_EmptySet DEF Heard

\* The invariant holds before the server has started.
LEMMA ServerInitHolds == ServerInit => SInv
<1> SUFFICES ASSUME ServerInit PROVE Alive
  BY DEF SInv
<1>1. LoopOK(el) /\ clock \in 0 .. MaxClock /\ fired \subseteq FiredEvents
  BY InitHolds DEF ServerInit, IInv
<1>2. /\ el.rfds = {} /\ el.wfds = {} /\ at = "setup" /\ running = Nobody
      /\ clients = {} /\ backlog = 0
  BY DEF ServerInit, Init
<1>3. Numbered
  <2>1. Cardinality(clients) = 0 /\ maxclients \in Nat
    BY <1>2, FS_EmptySet, ServerAssumption
  <2> QED BY <1>2, <2>1, Descriptors DEF Numbered
<1>4. Buffers
  <2>1. <<>> \in Seq(Pieces)
    OBVIOUS
  <2>2. peer \in [Conns -> Peers]
    BY <2>1 DEF ServerInit, Peers
  <2> QED BY <2>1, <2>2 DEF ServerInit, Buffers
<1>5. Watched /\ Served
  BY <1>2 DEF Watched, Served
<1>6. Accounts
  <2> SUFFICES ASSUME NEW fd \in Conns PROVE Account(fd)
    BY DEF Accounts
  <2>1. /\ query[fd] = <<>> /\ peer[fd].bytes = <<>> /\ ~peer[fd].quit
        /\ peer[fd].asked = 0 /\ done[fd] = 0 /\ fd \notin closing
    BY DEF ServerInit
  <2>2. Input(fd) = <<>>
    BY <2>1 DEF Input
  <2>3. ~HasQuit(<<>>) /\ Heard(<<>>) = 0
    BY NoneHeard DEF HasQuit
  <2> QED BY <2>1, <2>2, <2>3 DEF Account
<1> QED BY <1>1, <1>2, <1>3, <1>4, <1>5, <1>6 DEF Alive

\* What comes behind a QUIT does not count, what comes behind other pieces does.
LEMMA HeardJoined ==
  ASSUME NEW s \in Seq(Pieces), NEW t \in Seq(Pieces)
  PROVE  /\ s \o t \in Seq(Pieces)
         /\ HasQuit(s \o t) <=> HasQuit(s) \/ HasQuit(t)
         /\ Heard(s \o t) = IF HasQuit(s) THEN Heard(s) ELSE Heard(s) + Heard(t)
<1> DEFINE u == s \o t
           m == Len(s)
           n == Len(t)
<1>1. /\ u \in Seq(Pieces) /\ Len(u) = m + n /\ m \in Nat /\ n \in Nat
      /\ \A i \in 1 .. m : u[i] = s[i]
      /\ \A i \in 1 .. n : u[m + i] = t[i]
  BY JoinedIs DEF Joined
<1>2. DOMAIN u = 1 .. m + n /\ DOMAIN s = 1 .. m /\ DOMAIN t = 1 .. n
  BY <1>1
<1> HIDE DEF u, m, n
<1>3. ASSUME NEW i \in 1 .. m + n, i > m
      PROVE  i - m \in 1 .. n /\ u[i] = t[i - m] /\ i = m + (i - m)
  <2>1. i - m \in 1 .. n /\ i = m + (i - m)
    BY <1>1, <1>3
  <2> QED BY <1>1, <2>1
<1>4. HasQuit(u) <=> HasQuit(s) \/ HasQuit(t)
  <2>1. ASSUME HasQuit(u) PROVE HasQuit(s) \/ HasQuit(t)
    <3>1. PICK i \in 1 .. m + n : u[i] = "q"
      BY <1>2, <2>1 DEF HasQuit
    <3>2. CASE i > m
      BY <1>2, <1>3, <3>1, <3>2 DEF HasQuit
    <3>3. CASE ~(i > m)
      <4>1. i \in 1 .. m
        BY <1>1, <3>3
      <4> QED BY <1>1, <1>2, <3>1, <4>1 DEF HasQuit
    <3> QED BY <3>2, <3>3
  <2>2. HasQuit(s) => HasQuit(u)
    <3>1. \A i \in 1 .. m : i \in 1 .. m + n
      BY <1>1
    <3> QED BY <1>1, <1>2, <3>1 DEF HasQuit
  <2>3. HasQuit(t) => HasQuit(u)
    <3>1. \A i \in 1 .. n : m + i \in 1 .. m + n
      BY <1>1
    <3> QED BY <1>1, <1>2, <3>1 DEF HasQuit
  <2> QED BY <2>1, <2>2, <2>3
<1>5. \A i \in 1 .. m : i \in Heeded(u) <=> i \in Heeded(s)
  <2>1. \A i \in 1 .. m : i \in 1 .. m + n /\ 1 .. i \subseteq 1 .. m
    BY <1>1
  <2> QED BY <1>1, <1>2, <2>1 DEF Heeded
<1>6. CASE HasQuit(s)
  <2>1. \A i \in Heeded(u) : i \in 1 .. m
    <3>1. PICK j \in 1 .. m : s[j] = "q"
      BY <1>2, <1>6 DEF HasQuit
    <3> SUFFICES ASSUME NEW i \in Heeded(u), ~(i \in 1 .. m) PROVE FALSE
      OBVIOUS
    <3>2. i \in 1 .. m + n /\ \A k \in 1 .. i : u[k] # "q"
      BY <1>2 DEF Heeded
    <3>3. j \in 1 .. i
      BY <1>1, <3>2
    <3> QED BY <1>1, <3>1, <3>2, <3>3
  <2>2. Heeded(u) = Heeded(s)
    BY <1>2, <1>5, <2>1 DEF Heeded
  <2> QED BY <1>1, <1>4, <1>6, <2>2 DEF Heard, u
<1>7. CASE ~HasQuit(s)
  <2> DEFINE Behind == {i \in Heeded(u) : i > m}
             F == [i \in Heeded(t) |-> m + i]
  <2>1. ASSUME NEW i \in 1 .. n PROVE m + i \in Heeded(u) <=> i \in Heeded(t)
    <3>1. m + i \in 1 .. m + n
      BY <1>1
    <3>2. (\A k \in 1 .. m + i : u[k] # "q") <=> \A k \in 1 .. i : t[k] # "q"
      <4>1. ASSUME \A k \in 1 .. i : t[k] # "q", NEW k \in 1 .. m + i PROVE u[k] # "q"
        <5>1. CASE k > m
          <6>1. k \in 1 .. m + n /\ k - m \in 1 .. i
            BY <1>1, <5>1
          <6> QED BY <1>3, <4>1, <5>1, <6>1
        <5>2. CASE ~(k > m)
          <6>1. k \in 1 .. m
            BY <1>1, <5>2
          <6> QED BY <1>1, <1>2, <1>7, <6>1 DEF HasQuit
        <5> QED BY <5>1, <5>2
      <4>2. ASSUME \A k \in 1 .. m + i : u[k] # "q", NEW k \in 1 .. i PROVE t[k] # "q"
        <5>1. m + k \in 1 .. m + i /\ k \in 1 .. n
          BY <1>1
        <5> QED BY <1>1, <4>2, <5>1
      <4> QED BY <4>1, <4>2
    <3> QED BY <1>1, <1>2, <3>1, <3>2 DEF Heeded
  <2>2. F \in Bijection(Heeded(t), Behind)
    <3>1. Heeded(t) \subseteq 1 .. n /\ Behind \subseteq 1 .. m + n
      BY <1>2 DEF Heeded
    <3>2. F \in [Heeded(t) -> Behind]
      <4>1. \A i \in Heeded(t) : m + i \in Heeded(u) /\ m + i > m
        BY <1>1, <2>1, <3>1
      <4> QED BY <4>1
    <3>3. \A i, j \in Heeded(t) : F[i] = F[j] => i = j
      BY <1>1, <3>1
    <3>4. ASSUME NEW k \in Behind PROVE \E i \in Heeded(t) : F[i] = k
      <4>1. k - m \in 1 .. n /\ k = m + (k - m)
        BY <1>3, <3>1
      <4>2. k - m \in Heeded(t)
        BY <2>1, <4>1
      <4> QED BY <4>1, <4>2
    <3> QED BY <3>2, <3>3, <3>4 DEF Bijection, Injection, Surjection, IsInjective
  <2>3. IsFiniteSet(Behind) /\ Cardinality(Behind) = Heard(t)
    BY <2>2, HeardType, FS_Bijection DEF ExistsBijection, Heard
  <2>4. Heeded(u) = Heeded(s) \cup Behind /\ Heeded(s) \cap Behind = {}
    <3>1. Heeded(u) \subseteq 1 .. m + n /\ Heeded(s) \subseteq 1 .. m
      BY <1>2 DEF Heeded
    <3>2. \A i \in 1 .. m + n : i > m \/ i \in 1 .. m
      BY <1>1
    <3>3. \A i \in 1 .. m : ~(i > m)
      BY <1>1
    <3> QED BY <1>5, <3>1, <3>2, <3>3
  <2> HIDE DEF Behind
  <2>5. Heard(u) = Heard(s) + Heard(t) - Cardinality(Heeded(s) \cap Behind)
    BY <2>3, <2>4, HeardType, FS_Union DEF Heard
  <2>6. Heard(u) = Heard(s) + Heard(t)
    <3>1. Cardinality(Heeded(s) \cap Behind) = 0
      BY <2>4, FS_EmptySet
    <3>2. Heard(s) \in Nat /\ Heard(t) \in Nat
      BY HeardType
    <3> QED BY <2>5, <3>1, <3>2
  <2> QED BY <1>1, <1>4, <1>7, <2>6 DEF u
<1> QED BY <1>6, <1>7

\* One more piece.
LEMMA HeardAppend ==
  ASSUME NEW s \in Seq(Pieces), NEW p \in Pieces
  PROVE  /\ Append(s, p) = s \o <<p>> /\ <<p>> \in Seq(Pieces)
         /\ HasQuit(<<p>>) <=> p = "q"
         /\ Heard(<<p>>) = IF IsCommand(p) THEN 1 ELSE 0
<1>1. Append(s, p) = s \o <<p>> /\ <<p>> \in Seq(Pieces)
  BY AppendIsConcat
<1>2. DOMAIN <<p>> = {1} /\ <<p>>[1] = p /\ 1 .. 1 = {1}
  OBVIOUS
<1>3. HasQuit(<<p>>) <=> p = "q"
  BY <1>2 DEF HasQuit
<1>4. IsCommand(p) => p # "q"
  BY DEF IsCommand
<1>5. Heeded(<<p>>) = IF IsCommand(p) THEN {1} ELSE {}
  BY <1>2, <1>4 DEF Heeded
<1> QED BY <1>1, <1>3, <1>5, FS_Singleton, FS_EmptySet DEF Heard

\* The part of a sequence that is one place.
LEMMA LastPart ==
  ASSUME NEW S, NEW s \in Seq(S), NEW m \in 1 .. Len(s)
  PROVE  SubSeq(s, m, m) \in Seq(S) /\ Len(SubSeq(s, m, m)) = 1 /\ SubSeq(s, m, m)[1] = s[m]
<1> DEFINE n == m
<1>0. n = m /\ m \in Int
  OBVIOUS
<1> HIDE DEF n
<1>1. n \in Int /\ m \in Int /\ m <= n /\ n - m + 1 = 1
  BY <1>0
<1>2. \A i \in m .. n : s[i] \in S
  BY <1>0
<1>3. /\ SubSeq(s, m, n) \in Seq(S)
      /\ Len(SubSeq(s, m, n)) = IF m <= n THEN n - m + 1 ELSE 0
      /\ \A i \in 1 .. n - m + 1 : SubSeq(s, m, n)[i] = s[m + i - 1]
  BY <1>1, <1>2, SubSeqProperties
<1>4. SubSeq(s, m, n) \in Seq(S) /\ Len(SubSeq(s, m, n)) = 1 /\ SubSeq(s, m, n)[1] = s[m]
  BY <1>1, <1>3
<1> QED BY <1>0, <1>4

\* What processInputBuffer runs when nothing raises are the commands heeded, and
\* what it leaves has none.
LEMMA ProcessedHeard ==
  ASSUME NEW input \in Seq(Pieces), NEW fd, fd \notin closing,
         NEW n, n = Processed(input, fd \in closing)
  PROVE  /\ n \in 0 .. Len(input)
         /\ n > 0 /\ input[n] = "q" => HasQuit(input) /\ Commands(input, n) = Heard(input)
         /\ ~(n > 0 /\ input[n] \in {"q", "x"}) =>
              /\ ~HasQuit(input) /\ Commands(input, n) = Heard(input)
              /\ ~HasQuit(Leftover(input, n)) /\ Heard(Leftover(input, n)) = 0
<1> DEFINE stops == {i \in DOMAIN input : input[i] \in {"q", "x"}}
<1>1. Len(input) \in Nat /\ DOMAIN input = 1 .. Len(input)
  OBVIOUS
<1>0. n = IF stops = {} THEN Len(input) ELSE Min(stops)
  BY DEF Processed
<1>01. \A i : i \in stops <=> i \in 1 .. Len(input) /\ input[i] \in {"q", "x"}
  BY <1>1
<1> HIDE DEF stops
<1>2. CASE stops = {}
  <2>1. n = Len(input)
    BY <1>0, <1>2
  <2>2. ~HasQuit(input) /\ ~(n > 0 /\ input[n] \in {"q", "x"})
    BY <1>01, <1>1, <1>2, <2>1 DEF HasQuit
  <2>3. Commands(input, n) = Heard(input)
    <3>1. {i \in 1 .. n : IsCommand(input[i])} = Heeded(input)
      <4>1. \A i \in 1 .. n : \A j \in 1 .. i : j \in 1 .. n
        BY <1>1, <2>1
      <4> QED BY <1>1, <2>1, <2>2, <4>1 DEF Heeded, HasQuit
    <3> QED BY <3>1 DEF Commands, Heard
  <2>4. \/ Leftover(input, n) = <<>>
        \/ n > 0 /\ input[n] = "c1" /\ Leftover(input, n) = <<"c1">>
    <3>1. SubSeq(input, n + 1, Len(input)) = <<>>
      BY <1>1, <2>1
    <3>2. ASSUME n > 0, input[n] = "c1" PROVE SubSeq(input, n, Len(input)) = <<"c1">>
      <4> DEFINE rest == SubSeq(input, n, n)
      <4>1. rest \in Seq(Pieces) /\ Len(rest) = 1 /\ rest[1] = input[n]
        <5>1. n \in 1 .. Len(input) /\ n \in Nat
          BY <1>1, <2>1, <3>2
        <5> QED BY <5>1, LastPart
      <4> HIDE DEF rest
      <4>2. rest = <<"c1">>
        BY <3>2, <4>1
      <4> QED BY <2>1, <4>2 DEF rest
    <3>3. CASE n > 0 /\ input[n] = "c1"
      BY <3>2, <3>3 DEF Leftover
    <3>4. CASE ~(n > 0 /\ input[n] = "c1")
      <4>1. Leftover(input, n) = SubSeq(input, n + 1, Len(input))
        BY <3>4 DEF Leftover
      <4> QED BY <3>1, <4>1
    <3> QED BY <3>3, <3>4
  <2>5. "c1" \in Pieces /\ ~IsCommand("c1") /\ <<>> \in Seq(Pieces)
    BY DEF Pieces, IsCommand
  <2>6. ~HasQuit(<<"c1">>) /\ Heard(<<"c1">>) = 0
    BY <2>5, HeardAppend
  <2>7. ~HasQuit(<<>>) /\ Heard(<<>>) = 0
    BY NoneHeard DEF HasQuit
  <2> QED BY <1>1, <2>1, <2>2, <2>3, <2>4, <2>6, <2>7
<1>3. CASE stops # {}
  <2>1. /\ n \in stops /\ \A i \in stops : n <= i
    <3>1. stops \in SUBSET Nat
      BY <1>01
    <3>2. \E x \in stops : \A y \in stops : x <= y
      BY <1>3, <3>1, LeastNatural
    <3>3. n = Min(stops)
      BY <1>0, <1>3
    <3> QED BY <3>2, <3>3 DEF Min
  <2>2. n \in 1 .. Len(input) /\ input[n] \in {"q", "x"}
    BY <1>01, <2>1
  <2>3. ASSUME input[n] = "q" PROVE HasQuit(input) /\ Commands(input, n) = Heard(input)
    <3>1. {i \in 1 .. n : IsCommand(input[i])} = Heeded(input)
      <4>1. ASSUME NEW i \in 1 .. n, IsCommand(input[i]) PROVE i \in Heeded(input)
        <5>1. i # n /\ i \in 1 .. Len(input)
          BY <2>2, <2>3, <4>1 DEF IsCommand
        <5>2. \A j \in 1 .. i : j \in 1 .. Len(input) /\ ~(n <= j)
          BY <1>1, <2>2, <5>1
        <5>3. \A j \in 1 .. i : input[j] # "q"
          BY <1>01, <2>1, <5>2
        <5> QED BY <1>1, <4>1, <5>1, <5>3 DEF Heeded
      <4>2. ASSUME NEW i \in Heeded(input) PROVE i \in 1 .. n
        <5>1. i \in 1 .. Len(input) /\ \A j \in 1 .. i : input[j] # "q"
          BY <1>1 DEF Heeded
        <5>2. n \notin 1 .. i
          BY <2>3, <5>1
        <5> QED BY <1>1, <2>2, <5>1, <5>2
      <4> QED BY <4>1, <4>2 DEF Heeded
    <3> QED BY <1>1, <2>2, <2>3, <3>1 DEF Commands, Heard, HasQuit
  <2> QED BY <1>1, <2>2, <2>3
<1> QED BY <1>2, <1>3

-----------------------------------------------------------------------------
\* The peers and the loop.
LEMMA StartKeeps == Alive /\ initServer => Alive'
<1> SUFFICES ASSUME Alive, initServer PROVE Alive'
  OBVIOUS
<1>1. PICK ms \in Delays :
        el' = TimerAdded(Registered(el, Listener, {"r"}, "acceptTcpHandler"), clock, ms)
  BY DEF initServer
<1> DEFINE a == Registered(el, Listener, {"r"}, "acceptTcpHandler")
<1>2. /\ LoopOK(el) /\ el \in EventLoop /\ {"r"} \in SUBSET Kinds
      /\ "acceptTcpHandler" \in Procs /\ clock \in Nat /\ ms \in Nat
  BY ServerAssumption, AeAssumption DEF Alive, LoopOK, Kinds
<1>3. LoopOK(a) /\ Registers(a, el, Listener, {"r"}, "acceptTcpHandler")
  BY <1>2, RegisteredKeeps, RegisteredFields, Descriptors
<1> HIDE DEF a
<1>4. LoopOK(el') /\ SameFiles(el', a)
  BY <1>1, <1>2, <1>3, TimerAddedKeeps DEF a
<1>5. el.rproc \in [Fds -> FileProcs]
  BY <1>2 DEF EventLoop
<1>6. /\ el'.rfds = el.rfds \cup {Listener} /\ el'.wfds = el.wfds
      /\ el'.wproc = el.wproc
      /\ el'.rproc[Listener] = "acceptTcpHandler"
  <2>1. "w" \notin {"r"}
    OBVIOUS
  <2>2. el'.wproc = [el.wproc EXCEPT ![Listener] = @]
    BY <1>3, <1>4, <2>1 DEF Registers, SameFiles
  <2>3. el'.wproc = el.wproc
    BY <1>2, <2>2 DEF EventLoop
  <2> QED BY <1>3, <1>4, <1>5, <2>1, <2>3, Descriptors DEF Registers, SameFiles
<1>7. Watched' /\ at' = "poll" /\ running = Nobody
  <2>1. /\ at = "setup" /\ at' = "poll" /\ clients = {} /\ clients' = {} /\ running = Nobody
    BY DEF Alive, initServer, Served, connVars
  <2>2. el'.rfds = {Listener} /\ el'.wfds = {}
    BY <1>6, <2>1 DEF Alive, Watched
  <2> QED BY <1>6, <2>1, <2>2 DEF Watched
<1>8. Accounts'
  BY AccountsKept DEF Alive, initServer, connVars
<1> QED BY <1>4, <1>7, <1>8 DEF Alive, initServer, Numbered, Buffers, Served, connVars

\* Pieces joined one by one.
LEMMA Rejoined ==
  \A x, y, z \in Seq(Pieces) : (x \o y) \o z = x \o (y \o z)
BY Regroup

\* What a peer does changes nothing in the server but what it is asked for.
LEMMA PeersKeep == Alive /\ PeersMove => Alive'
<1> SUFFICES ASSUME Alive, PeersMove PROVE Alive'
  OBVIOUS
<1>1. CASE Connect
  <2>1. UNCHANGED <<vars, peer, connVars>>
    BY <1>1 DEF Connect
  <2>2. Numbered'
    BY <1>1, <2>1, Descriptors DEF Connect, Alive, Numbered, connVars
  <2>3. Buffers' /\ Watched' /\ Served'
    BY <2>1 DEF Alive, Buffers, Watched, Served, vars, connVars
  <2>4. Accounts'
    BY <2>1, AccountsKept DEF Alive, connVars
  <2> QED BY <2>1, <2>2, <2>3, <2>4 DEF Alive, vars, connVars
<1>2. ASSUME NEW fd \in Conns, NEW p \in Peers, peer' = [peer EXCEPT ![fd] = p],
             UNCHANGED <<vars, backlog, connVars>>, Account(fd)'
      PROVE  Alive'
  <2>1. peer' \in [Conns -> Peers] /\ \A x \in Conns : x # fd => peer'[x] = peer[x]
    BY <1>2 DEF Alive, Buffers
  <2>2. \A x \in Conns : Account(x)'
    BY <1>2, <2>1 DEF Alive, Accounts, Account, Input, connVars
  <2>3. Accounts'
    BY <2>2 DEF Accounts
  <2> QED BY <1>2, <2>1, <2>3 DEF Alive, Numbered, Buffers, Watched, Served, vars, connVars
<1>3. peer \in [Conns -> Peers] /\ \A fd \in Conns : Account(fd)
  BY DEF Alive, Buffers, Accounts
<1>4. ASSUME NEW fd \in Conns, Hangup(fd) \/ Reset(fd) \/ Stall(fd) \/ Resume(fd) PROVE Alive'
  <2> DEFINE p == peer'[fd]
  <2>1. peer[fd] \in Peers
    BY <1>3
  <2>2. \E q \in Peers : /\ peer' = [peer EXCEPT ![fd] = q]
                         /\ q.bytes = peer[fd].bytes /\ q.asked = peer[fd].asked
                         /\ q.quit = peer[fd].quit
    <3>1. CASE Hangup(fd)
      <4>1. [peer[fd] EXCEPT !.end = "eof"] \in Peers
        BY <2>1 DEF Peers
      <4>2. peer' = [peer EXCEPT ![fd] = [peer[fd] EXCEPT !.end = "eof"]]
        BY <3>1 DEF Hangup
      <4> QED BY <2>1, <4>1, <4>2 DEF Peers
    <3>2. CASE Reset(fd)
      <4>1. [peer[fd] EXCEPT !.end = "reset", !.blocked = FALSE] \in Peers
        BY <2>1 DEF Peers
      <4>2. peer' = [peer EXCEPT ![fd] = [peer[fd] EXCEPT !.end = "reset", !.blocked = FALSE]]
        BY <1>3, <3>2 DEF Reset
      <4> QED BY <2>1, <4>1, <4>2 DEF Peers
    <3>3. ASSUME NEW b \in BOOLEAN, peer' = [peer EXCEPT ![fd].blocked = b]
          PROVE  \E q \in Peers : /\ peer' = [peer EXCEPT ![fd] = q]
                                  /\ q.bytes = peer[fd].bytes /\ q.asked = peer[fd].asked
                                  /\ q.quit = peer[fd].quit
      <4>1. [peer[fd] EXCEPT !.blocked = b] \in Peers
        BY <2>1 DEF Peers
      <4>2. peer' = [peer EXCEPT ![fd] = [peer[fd] EXCEPT !.blocked = b]]
        BY <3>3
      <4> QED BY <2>1, <4>1, <4>2 DEF Peers
    <3>4. CASE Stall(fd) \/ Resume(fd)
      BY <3>3, <3>4 DEF Stall, Resume
    <3> QED BY <1>4, <3>1, <3>2, <3>4
  <2>3. UNCHANGED <<vars, backlog, connVars>>
    BY <1>4 DEF Hangup, Reset, Stall, Resume
  <2>4. PICK q \in Peers : /\ peer' = [peer EXCEPT ![fd] = q]
                          /\ q.bytes = peer[fd].bytes /\ q.asked = peer[fd].asked
                          /\ q.quit = peer[fd].quit
    BY <2>2
  <2>5. peer'[fd] = q
    BY <1>3, <2>4
  <2>6. Account(fd)'
    BY <1>3, <2>3, <2>4, <2>5 DEF Account, Input, connVars
  <2> QED BY <1>2, <2>3, <2>4, <2>6
<1>5. ASSUME NEW fd \in Conns, NEW p \in Pieces, Send(fd, p) PROVE Alive'
  <2>1. peer[fd] \in Peers /\ query[fd] \in Seq(Pieces) /\ done[fd] \in Nat
    BY <1>3 DEF Alive, Buffers
  <2> DEFINE bytes == Append(peer[fd].bytes, p)
             quit == peer[fd].quit \/ p = "q"
             asked == IF IsCommand(p) /\ ~peer[fd].quit THEN peer[fd].asked + 1
                                                       ELSE peer[fd].asked
             q == [peer[fd] EXCEPT !.bytes = bytes, !.sent = @ + 1, !.half = (p = "c1"),
                                   !.quit = quit, !.asked = asked]
  <2>2. bytes \in Seq(Pieces) /\ asked \in Nat /\ peer[fd].sent + 1 \in Nat /\ quit \in BOOLEAN
    BY <2>1 DEF Peers
  <2>3. /\ q \in Peers /\ q.bytes = bytes /\ q.quit = quit /\ q.asked = asked
    <3> HIDE DEF bytes, quit, asked
    <3> QED BY <2>1, <2>2 DEF Peers
  <2>4. peer' = [peer EXCEPT ![fd] = q] /\ UNCHANGED <<vars, backlog, connVars>>
    BY <1>3, <1>5 DEF Send
  <2> HIDE DEF q
  <2>5. peer'[fd] = q
    BY <1>3, <2>4
  <2>6. Input(fd)' = Input(fd) \o <<p>>
    <3>1. peer[fd].bytes \in Seq(Pieces) /\ <<p>> \in Seq(Pieces) /\ bytes = peer[fd].bytes \o <<p>>
      BY <2>1, HeardAppend DEF Peers
    <3>2. Input(fd)' = query[fd] \o (peer[fd].bytes \o <<p>>)
      BY <2>3, <2>4, <2>5, <3>1 DEF Input, connVars
    <3>3. query[fd] \o (peer[fd].bytes \o <<p>>) = (query[fd] \o peer[fd].bytes) \o <<p>>
      BY <2>1, <3>1, Rejoined, Zenon DEF Peers
    <3> QED BY <3>2, <3>3 DEF Input
  <2>7. Input(fd) \in Seq(Pieces) /\ <<p>> \in Seq(Pieces)
    BY <2>1, HeardJoined, HeardAppend DEF Input, Peers
  <2>8. /\ HasQuit(Input(fd)') <=> HasQuit(Input(fd)) \/ p = "q"
        /\ Heard(Input(fd)') = IF HasQuit(Input(fd)) THEN Heard(Input(fd))
                               ELSE Heard(Input(fd)) + (IF IsCommand(p) THEN 1 ELSE 0)
    <3> DEFINE s == Input(fd)
    <3>1. /\ HasQuit(s \o <<p>>) <=> HasQuit(s) \/ HasQuit(<<p>>)
          /\ Heard(s \o <<p>>) = IF HasQuit(s) THEN Heard(s) ELSE Heard(s) + Heard(<<p>>)
      BY <2>7, HeardJoined, Zenon
    <3>2. /\ HasQuit(<<p>>) <=> p = "q"
          /\ Heard(<<p>>) = IF IsCommand(p) THEN 1 ELSE 0
      BY <2>7, HeardAppend
    <3> QED BY <2>6, <3>1, <3>2, Zenon
  <2>9. Heard(Input(fd)) \in Nat
    BY <2>7, HeardType
  <2>10. UNCHANGED <<done, closing>> /\ Account(fd)
    BY <1>3, <2>4 DEF connVars
  <2>11. Account(fd)'
    <3>1. CASE fd \in closing
      <4>1. asked = peer[fd].asked /\ quit
        BY <2>10, <3>1 DEF Account
      <4> QED BY <2>3, <2>5, <2>10, <3>1, <4>1 DEF Account
    <3>2. CASE fd \notin closing
      <4>1. /\ peer[fd].quit <=> HasQuit(Input(fd))
            /\ done[fd] + Heard(Input(fd)) = peer[fd].asked
        BY <2>10, <3>2 DEF Account
      <4>2. quit <=> HasQuit(Input(fd)')
        BY <2>8, <4>1
      <4>3. done[fd] + Heard(Input(fd)') = asked
        BY <2>1, <2>8, <2>9, <4>1
      <4>4. HasQuit(Input(fd)') = HasQuit(Input(fd))' /\ Heard(Input(fd)') = Heard(Input(fd))'
        BY DEF HasQuit, Heard, Heeded
      <4> QED BY <2>3, <2>5, <2>10, <3>2, <4>2, <4>3 DEF Account
    <3> QED BY <3>1, <3>2
  <2> QED BY <1>2, <2>3, <2>4, <2>11
<1> QED BY <1>1, <1>4, <1>5 DEF PeersMove

\* select keeps the invariant.
LEMMA PollKeeps == Alive /\ Poll => Alive'
<1> SUFFICES ASSUME Alive, Poll PROVE Alive'
  OBVIOUS
<1>1. fired' \subseteq FiredEvents
  BY FiredType DEF Alive, Poll
<1>2. SameFiles(el', el) /\ at # "setup" /\ at' = "file" /\ running' = running /\ running = Nobody
  BY DEF Poll, SameFiles, Alive, Served
<1>3. Watched'
  BY <1>2, WatchedKept DEF Alive, Poll, connVars
<1>4. Accounts'
  BY AccountsKept DEF Alive, Poll, connVars
<1> QED BY <1>1, <1>2, <1>3, <1>4 DEF Alive, Poll, Numbered, Buffers, Served, connVars

\* The loop keeps the invariant.
LEMMA DispatchKeeps == Alive /\ Dispatch => Alive'
<1> SUFFICES ASSUME Alive, Dispatch PROVE Alive'
  OBVIOUS
<1>1. UNCHANGED <<backlog, peer, connVars>> /\ LoopOK(el) /\ clock \in Nat
  BY DEF Dispatch, Alive
<1>2. ASSUME SameFiles(el', el), LoopOK(el'), at # "setup", at' \in {"poll", "file", "time"},
             fired' \subseteq FiredEvents, clock' = clock, Served'
      PROVE  Alive'
  <2>1. Watched'
    BY <1>1, <1>2, WatchedKept DEF Alive, connVars
  <2>2. Accounts'
    BY <1>1, AccountsKept DEF Alive, connVars
  <2> QED BY <1>1, <1>2, <2>1, <2>2 DEF Alive, Numbered, Buffers, connVars
<1>3. ASSUME fired # {} PROVE Current \in fired /\ Current.fd \in Fds
  BY <1>3, CurrentIsFired DEF Alive, FiredEvents
<1>4. CASE CallReader
  <2>1. Current.fd \in Fds /\ "r" \in el.mask[Current.fd] /\ at = "file"
    BY <1>3, <1>4 DEF CallReader, StillWanted
  <2>2. Current.fd \in {Listener} \cup clients
    BY <1>1, <2>1 DEF Alive, Watched, LoopOK
  <2>3. /\ running'.fd = Current.fd /\ running'.proc = el.rproc[Current.fd]
        /\ UNCHANGED <<el, at, fired, clock>>
    BY <1>4 DEF CallReader
  <2>4. Served'
    BY <1>1, <2>1, <2>2, <2>3 DEF Served, Alive, Watched, connVars
  <2> QED BY <1>1, <1>2, <2>1, <2>3, <2>4 DEF Alive, SameFiles
<1>5. CASE CallWriter
  <2>1. at = "file" /\ fired' \subseteq FiredEvents /\ UNCHANGED <<el, at, clock>>
    BY <1>5 DEF CallWriter, Alive
  <2>2. Served'
    <3>1. CASE WriterCalled(Current)
      <4>1. Current.fd \in Fds /\ "w" \in el.mask[Current.fd]
        BY <1>3, <1>5, <3>1 DEF CallWriter, WriterCalled, StillWanted
      <4>2. Current.fd \in clients /\ el.wproc[Current.fd] = "sendReplyToClient"
        BY <1>1, <4>1 DEF Alive, Watched, LoopOK
      <4>3. running'.fd = Current.fd /\ running'.proc = el.wproc[Current.fd]
        BY <1>5, <3>1 DEF CallWriter
      <4> QED BY <1>1, <2>1, <4>2, <4>3 DEF Served, connVars
    <3>2. CASE ~WriterCalled(Current)
      BY <1>5, <3>2 DEF CallWriter, Served
    <3> QED BY <3>1, <3>2
  <2> QED BY <1>1, <1>2, <2>1, <2>2 DEF SameFiles
<1>6. CASE FileEventsServed
  <2>1. LoopOK(el') /\ SameFiles(el', el)
    BY <1>1, <1>6, StepBackKeeps DEF FileEventsServed, Alive
  <2>2. Served'
    BY <1>6 DEF FileEventsServed, Served, Calling
  <2> QED BY <1>2, <1>6, <2>1, <2>2 DEF FileEventsServed, Alive
<1>7. CASE processTimeEvents
  <2>1. LoopOK(el') /\ SameFiles(el', el) /\ at' \in {"poll", "time"}
    <3>1. CASE Runnable(el, clock) = {}
      BY <1>1, <1>7, <3>1 DEF processTimeEvents, SameFiles
    <3>2. CASE Runnable(el, clock) # {}
      BY <1>1, <1>7, <3>2, TimerRunKeeps DEF processTimeEvents
    <3> QED BY <3>1, <3>2
  <2>2. Served'
    BY <1>7 DEF processTimeEvents, Alive, Served
  <2> QED BY <1>2, <1>7, <2>1, <2>2 DEF processTimeEvents, Alive
<1> QED BY <1>4, <1>5, <1>6, <1>7 DEF Dispatch

-----------------------------------------------------------------------------
\* acceptTcpHandler registers the next numbers.
LEMMA CreatedKeeps ==
  ASSUME NEW s, LoopOK(s), NEW fds \in SUBSET Fds, s.maxfd \in Fds,
         \A fd \in fds : s.mask[fd] = {}
  PROVE  /\ LoopOK(Created(s, fds))
         /\ Created(s, fds).rfds = s.rfds \cup fds
         /\ Created(s, fds).wfds = s.wfds /\ Created(s, fds).wproc = s.wproc
         /\ Created(s, fds).rproc =
              [fd \in Fds |-> IF fd \in fds THEN "readQueryFromClient" ELSE s.rproc[fd]]
<1> DEFINE masks == [fd \in Fds |-> IF fd \in fds THEN {"r"} ELSE s.mask[fd]]
           readers == [fd \in Fds |-> IF fd \in fds THEN "readQueryFromClient" ELSE s.rproc[fd]]
           high == Max({s.maxfd} \cup fds)
           e == Created(s, fds)
<1>1. /\ s \in EventLoop /\ s.mask \in [Fds -> SUBSET Kinds] /\ s.rproc \in [Fds -> FileProcs]
      /\ "readQueryFromClient" \in Procs
  BY ServerAssumption DEF LoopOK, EventLoop
<1>2. masks \in [Fds -> SUBSET Kinds] /\ readers \in [Fds -> FileProcs]
  BY <1>1 DEF Kinds, FileProcs
<1>3. high \in {s.maxfd} \cup fds /\ \A x \in {s.maxfd} \cup fds : high >= x
  <2> DEFINE T == {s.maxfd} \cup fds
  <2>1. T \in SUBSET (0 .. setsize - 1) /\ T # {} /\ setsize - 1 \in Nat
    <3>1. T \subseteq Fds /\ T # {}
      OBVIOUS
    <3> HIDE DEF T
    <3> QED BY <3>1, Descriptors DEF Fds
  <2> HIDE DEF T
  <2>2. \E m \in T : \A k \in T : m >= k
    BY <2>1, GreatestNatural
  <2> QED BY <2>2 DEF Max, T
<1>4. high \in Fds
  BY <1>3
<1>5. e = [s EXCEPT !.mask = masks, !.rproc = readers, !.rfds = s.rfds \cup fds, !.maxfd = high]
  BY <1>1 DEF Created, EventLoop
<1> HIDE DEF masks, readers, high, e
<1>6. /\ e \in EventLoop
      /\ e.mask = masks /\ e.rproc = readers /\ e.wproc = s.wproc
      /\ e.rfds = s.rfds \cup fds /\ e.wfds = s.wfds /\ e.maxfd = high
  BY <1>1, <1>2, <1>4, <1>5 DEF EventLoop
<1>7. \A fd \in Fds : masks[fd] = (IF fd \in fds THEN {"r"} ELSE s.mask[fd])
  BY DEF masks
<1>8. \A fd \in Fds : /\ fd \in e.rfds <=> "r" \in e.mask[fd]
                      /\ fd \in e.wfds <=> "w" \in e.mask[fd]
  BY <1>6, <1>7 DEF LoopOK
<1>9. ASSUME NEW fd \in Fds, e.mask[fd] # {} PROVE fd <= e.maxfd
  <2>1. fd \in Int /\ high \in Int /\ s.maxfd \in Int /\ s.maxfd <= high
    BY <1>3, <1>4 DEF Fds
  <2>2. CASE fd \in fds
    BY <1>3, <1>6, <2>1, <2>2
  <2>3. CASE fd \notin fds
    BY <1>6, <1>7, <1>9, <2>1, <2>3 DEF LoopOK
  <2> QED BY <2>2, <2>3
<1>10. ProcsKnown(e)
  <2>1. \A fd \in Fds : e.rproc[fd] = (IF fd \in fds THEN "readQueryFromClient" ELSE s.rproc[fd])
    BY <1>6 DEF readers
  <2> QED BY <1>1, <1>6, <1>7, <2>1 DEF LoopOK, ProcsKnown
<1> QED BY <1>6, <1>8, <1>9, <1>10 DEF LoopOK, e, readers

\* Accepting keeps the invariant.
LEMMA AcceptKeeps == Alive /\ acceptTcpHandler => Alive'
<1> SUFFICES ASSUME Alive, acceptTcpHandler PROVE Alive'
  OBVIOUS
<1> DEFINE n == Cardinality(clients)
<1>1. /\ n \in Nat /\ clients = 1 .. n /\ backlog \in Nat /\ n + backlog < setsize
      /\ MAX_ACCEPTS_PER_CALL \in Nat
  BY ServerAssumption DEF Alive, Numbered
<1> HIDE DEF n
<1>2. Accepted \in Nat /\ Accepted <= backlog
  <2>1. \E x \in {backlog, MAX_ACCEPTS_PER_CALL} : \A y \in {backlog, MAX_ACCEPTS_PER_CALL} : x <= y
    BY <1>1
  <2>2. /\ Accepted \in {backlog, MAX_ACCEPTS_PER_CALL}
        /\ \A y \in {backlog, MAX_ACCEPTS_PER_CALL} : Accepted <= y
    BY <2>1 DEF Accepted, Min
  <2> QED BY <1>1, <2>2
<1>3. NewFds = n + 1 .. n + Accepted /\ clients' = 1 .. n + Accepted
  <2>1. NewFds = n + 1 .. n + Accepted
    BY <1>1, <1>2, Descriptors DEF NewFds, n
  <2>2. clients' = (1 .. n) \cup NewFds
    BY <1>1 DEF acceptTcpHandler
  <2> QED BY <1>1, <1>2, <2>1, <2>2
<1>4. Cardinality(clients') = n + Accepted
  BY <1>1, <1>2, <1>3, FS_Interval
<1>5. Numbered'
  <2>1. n + Accepted <= maxclients
    BY <1>1, <1>2, ServerAssumption DEF acceptTcpHandler, Full, n
  <2>2. backlog' = backlog - Accepted
    BY DEF acceptTcpHandler
  <2> QED BY <1>1, <1>2, <1>3, <1>4, <2>1, <2>2 DEF Numbered
<1>6. /\ running # Nobody /\ at = "file" /\ at' = "file" /\ running' = Nobody
      /\ UNCHANGED <<fired, clock, peer, query, closing, out, done>>
  BY ServerAssumption DEF Alive, Served, acceptTcpHandler, Finish, Nobody
<1>7. /\ Listener \in el.rfds /\ el.rfds = {Listener} \cup clients
      /\ el.wfds = {fd \in clients : out[fd] > 0}
  BY <1>6 DEF Alive, Watched
<1>8. NewFds \subseteq Conns /\ NewFds \subseteq Fds /\ \A fd \in NewFds : fd \notin clients /\ fd # Listener
  BY <1>1, <1>2, <1>3, Descriptors DEF Listener
<1>9. \A fd \in NewFds : el.mask[fd] = {}
  <2>1. \A fd \in NewFds : fd \notin el.rfds /\ fd \notin el.wfds
    BY <1>7, <1>8
  <2>2. el.mask \in [Fds -> SUBSET {"r", "w"}]
    BY DEF Alive, LoopOK, EventLoop, Kinds
  <2> QED BY <1>8, <2>1, <2>2 DEF Alive, LoopOK
<1>10. el.maxfd \in Fds
  <2>1. el.mask[Listener] # {} /\ el.maxfd \in Fds \cup {-1}
    BY <1>7, Descriptors DEF Alive, LoopOK, EventLoop
  <2>2. Listener <= el.maxfd
    BY <2>1, Descriptors DEF Alive, LoopOK
  <2> QED BY <2>1, <2>2 DEF Listener
<1>11. /\ LoopOK(el') /\ el'.rfds = el.rfds \cup NewFds
       /\ el'.wfds = el.wfds /\ el'.wproc = el.wproc
       /\ el'.rproc = [fd \in Fds |-> IF fd \in NewFds THEN "readQueryFromClient" ELSE el.rproc[fd]]
  BY <1>8, <1>9, <1>10, CreatedKeeps DEF Alive, acceptTcpHandler
<1>12. clients' = clients \cup NewFds
  BY DEF acceptTcpHandler
<1>13. \A fd \in NewFds : out[fd] = 0
  BY <1>8 DEF Alive, Buffers
<1>14. clients \subseteq Conns /\ Conns \subseteq Fds
  BY ClientsAreConns, Descriptors DEF Alive
<1>15. Watched'
  <2>1. el'.rfds = {Listener} \cup clients'
    BY <1>7, <1>11, <1>12
  <2>2. el'.wfds = {fd \in clients' : out'[fd] > 0}
    BY <1>6, <1>7, <1>11, <1>12, <1>13
  <2>3. el'.rproc[Listener] = "acceptTcpHandler"
    BY <1>6, <1>8, <1>11, Descriptors DEF Alive, Watched
  <2>4. \A fd \in clients' : el'.rproc[fd] = "readQueryFromClient"
    BY <1>8, <1>11, <1>12, <1>14 DEF Alive, Watched
  <2>5. \A fd \in el'.wfds : el'.wproc[fd] = "sendReplyToClient"
    BY <1>11 DEF Alive, Watched
  <2> QED BY <1>6, <2>1, <2>2, <2>3, <2>4, <2>5 DEF Watched
<1>16. Buffers'
  BY <1>6, <1>12 DEF Alive, Buffers
<1>17. Accounts'
  BY <1>6, AccountsKept DEF Alive
<1> QED BY <1>5, <1>6, <1>11, <1>15, <1>16, <1>17 DEF Alive, Served

-----------------------------------------------------------------------------
\* The commands among some pieces are a number of them.
LEMMA CommandsType ==
  ASSUME NEW input, NEW n \in Nat
  PROVE  Commands(input, n) \in Nat /\ (n = 0 => Commands(input, n) = 0)
<1> DEFINE run == {i \in 1 .. n : IsCommand(input[i])}
<1>1. IsFiniteSet(1 .. n)
  BY FS_Interval
<1>2. IsFiniteSet(run)
  BY <1>1, FS_Subset
<1>3. Cardinality(run) \in Nat
  BY <1>2, FS_CardinalityType
<1>4. n = 0 => run = {}
  OBVIOUS
<1> HIDE DEF run
<1>5. n = 0 => Cardinality(run) = 0
  BY <1>4, FS_EmptySet
<1> QED BY <1>3, <1>5 DEF Commands, run

\* A part of a sequence is one.
LEMMA SubSeqType ==
  ASSUME NEW S, NEW s \in Seq(S), NEW m \in Nat, NEW n \in Nat, 1 <= m, n <= Len(s)
  PROVE  SubSeq(s, m, n) \in Seq(S)
<1>1. \A i \in m .. n : s[i] \in S
  OBVIOUS
<1> QED BY <1>1, SubSeqProperties

\* What is left of a peer's pieces are pieces.
LEMMA LeftoverType ==
  ASSUME NEW input \in Seq(Pieces), NEW n \in 0 .. Len(input)
  PROVE  Leftover(input, n) \in Seq(Pieces)
<1>1. Len(input) \in Nat /\ n \in Nat /\ n + 1 \in Nat /\ 1 <= n + 1
  OBVIOUS
<1>2. SubSeq(input, n + 1, Len(input)) \in Seq(Pieces)
  BY <1>1, SubSeqType
<1>3. n > 0 => SubSeq(input, n, Len(input)) \in Seq(Pieces)
  BY <1>1, SubSeqType
<1> QED BY <1>2, <1>3 DEF Leftover

\* A call of a client's procedure is for a client with an event.
LEMMA CallIsServed ==
  ASSUME Alive, running.proc \in {"readQueryFromClient", "sendReplyToClient"}
  PROVE  /\ running # Nobody /\ at = "file" /\ running.fd \in clients
         /\ running.fd \in Conns /\ running.fd \in Fds
<1>1. running # Nobody
  BY ServerAssumption DEF Nobody
<1>2. at = "file" /\ running.fd \in clients
  BY <1>1 DEF Alive, Served
<1> QED BY <1>1, <1>2, ClientsAreConns, Descriptors DEF Alive

\* The part of the socket that was read counts for what its commands are, the rest
\* still waits.
LEMMA ReadAccounts ==
  ASSUME Accounts, NEW fd \in Conns, NEW input \in Seq(Pieces), NEW rest \in Seq(Pieces),
         Input(fd) = input \o rest, done[fd] \in Nat, peer[fd].asked \in Nat,
         NEW n, n = Processed(input, fd \in closing),
         ~(n > 0 /\ input[n] = "x"),
         peer'[fd].bytes = rest, peer'[fd].asked = peer[fd].asked, peer'[fd].quit = peer[fd].quit,
         query'[fd] = Leftover(input, n), done'[fd] = done[fd] + Commands(input, n),
         closing' = IF n > 0 /\ input[n] = "q" THEN closing \cup {fd} ELSE closing,
         \A x \in Conns : x # fd => peer'[x] = peer[x] /\ query'[x] = query[x] /\ done'[x] = done[x]
  PROVE  Accounts'
<1>2. Account(fd)
  BY DEF Accounts
<1>3. Account(fd)'
  <2>1. CASE fd \in closing
    <3>1. n = 0 /\ Commands(input, n) = 0
      <4>1. n = 0
        BY <2>1 DEF Processed
      <4> QED BY <4>1, CommandsType
    <3>2. done'[fd] = done[fd] /\ fd \in closing'
      BY <2>1, <3>1
    <3> QED BY <1>2, <2>1, <3>2 DEF Account
  <2>2. CASE fd \notin closing /\ n > 0 /\ input[n] = "q"
    <3>1. HasQuit(input) /\ Commands(input, n) = Heard(input)
      BY <2>2, ProcessedHeard
    <3>2. HasQuit(Input(fd)) /\ Heard(Input(fd)) = Heard(input)
      <4>1. HasQuit(input \o rest) /\ Heard(input \o rest) = Heard(input)
        BY <3>1, HeardJoined
      <4> QED BY <4>1
    <3>3. fd \in closing' /\ done'[fd] = peer'[fd].asked /\ peer'[fd].quit
      BY <1>2, <2>2, <3>1, <3>2 DEF Account
    <3> QED BY <3>3 DEF Account
  <2>3. CASE fd \notin closing /\ ~(n > 0 /\ input[n] = "q")
    <3>1. /\ n \in 0 .. Len(input) /\ ~HasQuit(input) /\ Commands(input, n) = Heard(input)
          /\ ~HasQuit(Leftover(input, n)) /\ Heard(Leftover(input, n)) = 0
      <4>1. fd \notin closing /\ ~(n > 0 /\ input[n] \in {"q", "x"})
        BY <2>3
      <4> QED BY <4>1, ProcessedHeard
    <3>2. Leftover(input, n) \in Seq(Pieces)
      BY <3>1, LeftoverType
    <3>3. /\ HasQuit(Input(fd)) <=> HasQuit(rest)
          /\ Heard(Input(fd)) = Heard(input) + Heard(rest)
      <4>1. /\ HasQuit(input \o rest) <=> HasQuit(rest)
            /\ Heard(input \o rest) = Heard(input) + Heard(rest)
        BY <3>1, HeardJoined
      <4> QED BY <4>1
    <3>4. /\ HasQuit(Leftover(input, n) \o rest) <=> HasQuit(rest)
          /\ Heard(Leftover(input, n) \o rest) = 0 + Heard(rest)
      BY <3>1, <3>2, HeardJoined
    <3>5. Heard(rest) \in Nat /\ Heard(input) \in Nat
      BY HeardType
    <3>6. /\ Input(fd)' = Leftover(input, n) \o rest
      BY DEF Input
    <3>7. HasQuit(Input(fd))' = HasQuit(Leftover(input, n) \o rest)
      BY <3>6 DEF HasQuit
    <3>8. Heard(Input(fd))' = Heard(Leftover(input, n) \o rest)
      BY <3>6 DEF Heard, Heeded
    <3>9. /\ peer[fd].quit <=> HasQuit(Input(fd))
          /\ done[fd] + Heard(Input(fd)) = peer[fd].asked
      BY <1>2, <2>3 DEF Account
    <3>10. done'[fd] + Heard(rest) = peer[fd].asked
      BY <3>1, <3>3, <3>5, <3>9
    <3>11. fd \notin closing'
      BY <2>3
    <3>12. Heard(Input(fd))' = Heard(rest)
      BY <3>4, <3>5, <3>8
    <3>13. peer'[fd].quit <=> HasQuit(Input(fd))'
      BY <3>3, <3>4, <3>7, <3>9
    <3>14. done'[fd] + Heard(Input(fd))' = peer'[fd].asked
      BY <3>10, <3>12
    <3> QED BY <3>11, <3>13, <3>14 DEF Account
  <2> QED BY <2>1, <2>2, <2>3
<1>4. ASSUME NEW x \in Conns, x # fd PROVE Account(x)'
  <2>1. Account(x) /\ peer'[x] = peer[x] /\ query'[x] = query[x] /\ done'[x] = done[x]
    BY <1>4 DEF Accounts
  <2>2. x \in closing' <=> x \in closing
    BY <1>4
  <2> QED BY <2>1, <2>2 DEF Account, Input
<1> QED BY <1>3, <1>4 DEF Accounts

\* Reading a query keeps the invariant, unless a request raises.
LEMMA ReadKeeps ==
  ASSUME Alive, readQueryFromClient, at' # "dead"
  PROVE  Alive'
<1> DEFINE fd == running.fd
           input(k) == query[fd] \o SubSeq(peer[fd].bytes, 1, k)
           n(k) == Processed(input(k), fd \in closing)
           commands(k) == Commands(input(k), n(k))
           closes(k) == n(k) > 0 /\ input(k)[n(k)] = "q"
           replies(k) == commands(k) + (IF closes(k) THEN 1 ELSE 0)
           Result(k) ==
             /\ peer' = [peer EXCEPT ![fd].bytes = SubSeq(@, k + 1, Len(@))]
             /\ query' = [query EXCEPT ![fd] = Leftover(input(k), n(k))]
             /\ done' = [done EXCEPT ![fd] = @ + commands(k)]
             /\ out' = [out EXCEPT ![fd] = @ + replies(k)]
             /\ closing' = IF closes(k) THEN closing \cup {fd} ELSE closing
             /\ el' = IF replies(k) > 0 /\ out[fd] = 0
                      THEN Registered(el, fd, {"w"}, "sendReplyToClient") ELSE el
             /\ at' = IF n(k) > 0 /\ input(k)[n(k)] = "x" THEN "dead" ELSE at
<1>1. PICK k \in 1 .. Len(peer[fd].bytes) : Result(k)
  BY DEF readQueryFromClient
<1>2. /\ running' = Nobody /\ ~(n(k) > 0 /\ input(k)[n(k)] = "x")
      /\ UNCHANGED <<fired, clock, at, backlog, clients>>
  BY <1>1 DEF readQueryFromClient, Finish
<1>3. fd \in clients /\ fd \in Conns /\ fd \in Fds /\ at = "file"
  BY CallIsServed DEF readQueryFromClient
<1> HIDE DEF fd, Result
<1>4. /\ peer[fd] \in Peers /\ query[fd] \in Seq(Pieces) /\ out[fd] \in Nat /\ done[fd] \in Nat
      /\ peer \in [Conns -> Peers] /\ query \in [Conns -> Seq(Pieces)]
      /\ out \in [Conns -> Nat] /\ done \in [Conns -> Nat]
  BY <1>3 DEF Alive, Buffers
<1>5. /\ peer[fd].bytes \in Seq(Pieces) /\ Len(peer[fd].bytes) \in Nat /\ k \in Nat
      /\ 1 <= k /\ k <= Len(peer[fd].bytes)
  BY <1>1, <1>4 DEF Peers
<1>6. /\ SubSeq(peer[fd].bytes, 1, k) \in Seq(Pieces)
      /\ SubSeq(peer[fd].bytes, k + 1, Len(peer[fd].bytes)) \in Seq(Pieces)
  BY <1>5, SubSeqType
<1>7. input(k) \in Seq(Pieces)
  BY <1>4, <1>6, ConcatProperties
<1> HIDE DEF input
<1>8. n(k) \in 0 .. Len(input(k)) /\ n(k) \in Nat
  <2>1. CASE fd \in closing
    <3>1. n(k) = 0
      BY <2>1 DEF Processed
    <3> QED BY <1>7, <3>1
  <2>2. CASE fd \notin closing
    <3>1. n(k) \in 0 .. Len(input(k))
      BY <1>7, <2>2, ProcessedHeard
    <3> QED BY <1>7, <3>1
  <2> QED BY <2>1, <2>2
<1>16. Accounts'
  <2> DEFINE part == SubSeq(peer[fd].bytes, 1, k)
             left == SubSeq(peer[fd].bytes, k + 1, Len(peer[fd].bytes))
  <2>1. peer[fd].bytes = SubSeq(peer[fd].bytes, 1, k) \o SubSeq(peer[fd].bytes, k + 1, Len(peer[fd].bytes))
    <3> DEFINE b == peer[fd].bytes
               m == Len(b)
    <3>1. b \in Seq(Pieces) /\ m \in Nat /\ k \in Nat /\ 1 <= k /\ k <= m
      BY <1>5
    <3> HIDE DEF b
    <3>2. 1 \in 1 .. Len(b) + 1 /\ k \in 1 - 1 .. Len(b) /\ m \in k .. Len(b)
      BY <3>1
    <3>3. SubSeq(b, 1, k) \o SubSeq(b, k + 1, m) = SubSeq(b, 1, m)
      BY <3>1, <3>2, ConcatAdjacentSubSeq
    <3>4. SubSeq(b, 1, m) = b
      BY <3>1
    <3> QED BY <3>3, <3>4 DEF b
  <2>2. Input(fd) = input(k) \o left
    <3>1. part \in Seq(Pieces) /\ left \in Seq(Pieces) /\ query[fd] \in Seq(Pieces)
      BY <1>4, <1>6
    <3> HIDE DEF part, left
    <3>2. query[fd] \o (part \o left) = (query[fd] \o part) \o left
      BY <3>1, Rejoined, Zenon
    <3> QED BY <2>1, <3>2 DEF Input, input, part, left
  <2>3. peer' = [peer EXCEPT ![fd] = [peer[fd] EXCEPT !.bytes = left]]
    BY <1>1, <1>4 DEF Result
  <2>4. /\ peer'[fd].bytes = left /\ peer'[fd].asked = peer[fd].asked
        /\ peer'[fd].quit = peer[fd].quit
    <3>1. peer'[fd] = [peer[fd] EXCEPT !.bytes = left]
      BY <1>3, <1>4, <2>3
    <3> HIDE DEF left
    <3> QED BY <1>4, <3>1 DEF Peers
  <2>5. /\ query'[fd] = Leftover(input(k), n(k))
        /\ done'[fd] = done[fd] + Commands(input(k), n(k))
        /\ closing' = IF n(k) > 0 /\ input(k)[n(k)] = "q" THEN closing \cup {fd} ELSE closing
    BY <1>1, <1>3, <1>4 DEF Result
  <2>6. \A x \in Conns : x # fd => peer'[x] = peer[x] /\ query'[x] = query[x] /\ done'[x] = done[x]
    BY <1>1, <1>4, <2>3 DEF Result
  <2>7. peer[fd].asked \in Nat /\ Accounts
    BY <1>4 DEF Peers, Alive
  <2>8. n(k) = Processed(input(k), fd \in closing)
    OBVIOUS
  <2> HIDE DEF n, part, left
  <2> QED BY <1>2, <1>3, <1>4, <1>6, <1>7, <2>2, <2>4, <2>5, <2>6, <2>7, <2>8, ReadAccounts DEF part, left
<1> HIDE DEF n
<1>9. commands(k) \in Nat
  BY <1>8, CommandsType
<1>10. Leftover(input(k), n(k)) \in Seq(Pieces)
  BY <1>7, <1>8, LeftoverType
<1> HIDE DEF commands
<1>11. replies(k) \in Nat
  BY <1>9
<1> HIDE DEF closes, replies
<1>13. Buffers'
  <2>1. query' \in [Conns -> Seq(Pieces)] /\ done' \in [Conns -> Nat] /\ out' \in [Conns -> Nat]
    <3>1. query' \in [Conns -> Seq(Pieces)]
      BY <1>1, <1>4, <1>10 DEF Result
    <3>2. done[fd] + commands(k) \in Nat /\ out[fd] + replies(k) \in Nat
      BY <1>4, <1>9, <1>11
    <3>3. /\ done' = [done EXCEPT ![fd] = done[fd] + commands(k)]
          /\ out' = [out EXCEPT ![fd] = out[fd] + replies(k)]
      BY <1>1 DEF Result
    <3> QED BY <1>4, <3>1, <3>2, <3>3
  <2>2. peer' \in [Conns -> Peers]
    <3>1. peer' = [peer EXCEPT ![fd].bytes = SubSeq(peer[fd].bytes, k + 1, Len(peer[fd].bytes))]
      BY <1>1 DEF Result
    <3>2. [peer[fd] EXCEPT !.bytes = SubSeq(peer[fd].bytes, k + 1, Len(peer[fd].bytes))] \in Peers
      BY <1>4, <1>6 DEF Peers
    <3>3. peer' = [peer EXCEPT ![fd] =
                     [peer[fd] EXCEPT !.bytes = SubSeq(peer[fd].bytes, k + 1, Len(peer[fd].bytes))]]
      BY <3>1
    <3> QED BY <1>4, <3>2, <3>3
  <2>3. closing' \subseteq clients'
    BY <1>1, <1>2, <1>3 DEF Result, Alive, Buffers
  <2>4. \A x \in Conns : out'[x] > 0 => x \in clients'
    BY <1>1, <1>2, <1>3, <1>4 DEF Result, Alive, Buffers
  <2> QED BY <2>1, <2>2, <2>3, <2>4 DEF Buffers
<1>14. clients \subseteq Conns /\ Conns \subseteq Fds
  BY ClientsAreConns, Descriptors DEF Alive
<1>15. LoopOK(el') /\ Watched'
  <2>1. CASE replies(k) > 0 /\ out[fd] = 0
    <3>1. el' = Registered(el, fd, {"w"}, "sendReplyToClient")
      BY <1>1, <2>1 DEF Result
    <3>2. LoopOK(el) /\ el \in EventLoop /\ {"w"} \in SUBSET Kinds /\ "sendReplyToClient" \in Procs
      BY ServerAssumption DEF Alive, LoopOK, Kinds
    <3>3. LoopOK(el') /\ Registers(el', el, fd, {"w"}, "sendReplyToClient")
      BY <1>3, <3>1, <3>2, RegisteredKeeps, RegisteredFields
    <3>4. "r" \notin {"w"} /\ el.wproc \in [Fds -> FileProcs] /\ el.rproc \in [Fds -> FileProcs]
      BY <3>2 DEF EventLoop
    <3>5. /\ el'.rfds = el.rfds /\ el'.wfds = el.wfds \cup {fd}
          /\ el'.rproc = [el.rproc EXCEPT ![fd] = @]
          /\ el'.wproc = [el.wproc EXCEPT ![fd] = "sendReplyToClient"]
      BY <3>3, <3>4 DEF Registers
    <3>6. /\ \A x \in Fds : el'.rproc[x] = el.rproc[x]
          /\ \A x \in Fds : el'.wproc[x] = IF x = fd THEN "sendReplyToClient" ELSE el.wproc[x]
      BY <3>4, <3>5
    <3>7. \A x \in Conns : out'[x] = IF x = fd THEN out[fd] + replies(k) ELSE out[x]
      BY <1>1, <1>4 DEF Result
    <3>8. out'[fd] > 0
      BY <1>3, <1>11, <2>1, <3>7
    <3>9. el'.wfds = {x \in clients' : out'[x] > 0}
      <4>1. \A x \in clients : x # fd => out'[x] = out[x]
        BY <1>14, <3>7
      <4> QED BY <1>2, <1>3, <3>5, <3>8, <4>1 DEF Alive, Watched
    <3>10. \A x \in el'.wfds : el'.wproc[x] = "sendReplyToClient"
      <4>1. el.wfds \subseteq Fds
        BY <3>2 DEF EventLoop
      <4> QED BY <1>3, <3>5, <3>6, <4>1 DEF Alive, Watched
    <3>11. el'.rproc[Listener] = "acceptTcpHandler"
      BY <1>3, <3>6, Descriptors DEF Alive, Watched
    <3>12. \A x \in clients' : el'.rproc[x] = "readQueryFromClient"
      BY <1>2, <1>14, <3>6 DEF Alive, Watched
    <3>13. el'.rfds = {Listener} \cup clients' /\ at' # "setup"
      BY <1>2, <1>3, <3>5 DEF Alive, Watched
    <3> QED BY <3>3, <3>9, <3>10, <3>11, <3>12, <3>13 DEF Watched
  <2>2. CASE ~(replies(k) > 0 /\ out[fd] = 0)
    <3>1. el' = el
      BY <1>1, <2>2 DEF Result
    <3>2. \A x \in Conns : out'[x] > 0 <=> out[x] > 0
      BY <1>1, <1>4, <1>11, <2>2 DEF Result
    <3>3. {x \in clients' : out'[x] > 0} = {x \in clients : out[x] > 0}
      BY <1>2, <1>14, <3>2
    <3> QED BY <1>2, <3>1, <3>3 DEF Alive, Watched
  <2> QED BY <2>1, <2>2
<1> QED BY <1>2, <1>3, <1>13, <1>15, <1>16 DEF Alive, Numbered, Served

\* Sending replies keeps the invariant, whatever the socket takes.
LEMMA SendKeeps == Alive /\ sendReplyToClient => Alive'
<1> SUFFICES ASSUME Alive, sendReplyToClient PROVE Alive'
  OBVIOUS
<1> DEFINE fd == running.fd
<1>1. PICK n \in Unsent(fd) : /\ out' = [out EXCEPT ![fd] = n]
                             /\ el' = IF n = 0 THEN WriterRemoved(el, fd) ELSE el
  BY DEF sendReplyToClient
<1>01. /\ running' = Nobody
       /\ UNCHANGED <<fired, clock, at, backlog, clients, peer, query, closing, done>>
  BY DEF sendReplyToClient, Finish
<1>2. fd \in clients /\ fd \in Conns /\ fd \in Fds /\ at = "file"
  BY CallIsServed DEF sendReplyToClient
<1> HIDE DEF fd
<1>3. /\ LoopOK(el) /\ {"w"} \in SUBSET Kinds /\ out \in [Conns -> Nat] /\ clients \subseteq Conns
      /\ n \in Nat /\ n <= out[fd]
  <2>1. LoopOK(el) /\ {"w"} \in SUBSET Kinds /\ out \in [Conns -> Nat] /\ clients \subseteq Conns
    BY ClientsAreConns DEF Alive, Buffers, Kinds
  <2> QED BY <1>2, <2>1 DEF Unsent
<1>4. /\ LoopOK(el') /\ el'.rfds = el.rfds /\ el'.rproc = el.rproc /\ el'.wproc = el.wproc
      /\ el'.wfds = IF n = 0 THEN el.wfds \ {fd} ELSE el.wfds
  <2>1. CASE n = 0
    <3>1. LoopOK(el') /\ Unregisters(el', el, fd, {"w"})
      BY <1>1, <1>2, <1>3, <2>1, UnregisteredKeeps, UnregisteredFields DEF WriterRemoved
    <3> QED BY <2>1, <3>1 DEF Unregisters
  <2>2. CASE n # 0
    BY <1>1, <1>3, <2>2
  <2> QED BY <2>1, <2>2
<1>6. \A x \in Conns : out'[x] = IF x = fd THEN n ELSE out[x]
  BY <1>1, <1>3
<1>7. Watched'
  <2>1. el'.wfds = {x \in clients' : out'[x] > 0}
    <3>1. el.wfds = {x \in clients : out[x] > 0}
      BY DEF Alive, Watched
    <3>2. n # 0 => out[fd] > 0
      BY <1>2, <1>3
    <3>3. clients' = clients
      BY <1>01
    <3>4. \A x \in clients : out'[x] > 0 <=> x \in el'.wfds
      BY <1>2, <1>3, <1>4, <1>6, <3>1, <3>2
    <3>5. el'.wfds \subseteq clients
      BY <1>4, <3>1
    <3> QED BY <3>3, <3>4, <3>5
  <2>2. \A x \in el'.wfds : el'.wproc[x] = "sendReplyToClient"
    BY <1>4 DEF Alive, Watched
  <2> QED BY <1>01, <1>2, <1>4, <2>1, <2>2 DEF Alive, Watched
<1>8. Buffers'
  BY <1>1, <1>01, <1>2, <1>3, <1>6 DEF Alive, Buffers
<1>9. Accounts'
  BY <1>01, AccountsKept DEF Alive
<1> QED BY <1>01, <1>2, <1>4, <1>7, <1>8, <1>9 DEF Alive, Numbered, Served

\* The end of a connection keeps the invariant.
LEMMA EofKeeps == Alive /\ readQueryEof => Alive'
<1> SUFFICES ASSUME Alive, readQueryEof PROVE Alive'
  OBVIOUS
<1>1. /\ running' = Nobody
      /\ UNCHANGED <<el, at, fired, clock, backlog, peer, connVars>>
  BY DEF readQueryEof, Finish
<1>2. at = "file"
  BY CallIsServed DEF readQueryEof
<1>3. Watched'
  BY <1>1, <1>2, WatchedKept DEF Alive, SameFiles, connVars
<1>4. Accounts'
  BY <1>1, AccountsKept DEF Alive, connVars
<1> QED BY <1>1, <1>2, <1>3, <1>4 DEF Alive, Numbered, Buffers, Served, connVars

-----------------------------------------------------------------------------
\* Every step keeps the invariant, unless the process ends with it.
LEMMA ServerStep ==
  ASSUME Alive, ServerNext
  PROVE  SInv'
<1>1. ASSUME Alive' PROVE SInv'
  BY <1>1 DEF SInv
<1>2. ASSUME Finish, at' = "dead" PROVE SInv'
  BY <1>2 DEF SInv, Finish
<1>3. CASE initServer \/ Poll \/ Dispatch
  BY <1>1, <1>3, StartKeeps, PollKeeps, DispatchKeeps
<1>4. CASE acceptTcpHandler
  BY <1>1, <1>4, AcceptKeeps
<1>5. CASE acceptRejects \/ readQueryDies \/ sendLastReply \/ sendFails
  BY <1>2, <1>5 DEF acceptRejects, readQueryDies, sendLastReply, sendFails, Die
<1>6. CASE readQueryFromClient
  BY <1>1, <1>2, <1>6, ReadKeeps DEF readQueryFromClient
<1>7. CASE readQueryEof \/ sendReplyToClient
  BY <1>1, <1>7, EofKeeps, SendKeeps
<1>8. CASE PeersMove
  BY <1>1, <1>8, PeersKeep
<1> QED BY <1>3, <1>4, <1>5, <1>6, <1>7, <1>8 DEF ServerNext

\* Nothing happens in a process that has ended.
LEMMA DeadIsStill ==
  ASSUME at = "dead", running = Nobody
  PROVE  ~ServerNext
<1>1. running.proc \notin {"acceptTcpHandler", "readQueryFromClient", "sendReplyToClient"}
  BY ServerAssumption DEF Nobody
<1> QED BY <1>1 DEF ServerNext, initServer, Poll, Dispatch, CallReader, CallWriter,
             FileEventsServed, processTimeEvents, acceptTcpHandler, acceptRejects,
             readQueryFromClient, readQueryEof, readQueryDies, sendReplyToClient,
             sendLastReply, sendFails, PeersMove, Connect, Hangup, Reset, Stall, Resume, Send

\* Every step, in a process alive or not, keeps the invariant.
LEMMA ServerNextKeeps == SInv /\ [ServerNext]_allVars => SInv'
<1> SUFFICES ASSUME SInv, [ServerNext]_allVars PROVE SInv'
  OBVIOUS
<1>1. CASE ServerNext
  BY <1>1, ServerStep, DeadIsStill DEF SInv
<1>2. CASE UNCHANGED allVars
  BY <1>2 DEF SInv, Alive, Numbered, Buffers, Accounts, Account, Input, Watched, Served,
              allVars, vars, connVars
<1> QED BY <1>1, <1>2

\* What is registered follows from the clients in every reachable state, until
\* the process ends, and the commands executed and waiting are those asked for.
THEOREM ClientsHold == ServerSpec => []SInv
BY ServerInitHolds, ServerNextKeeps, PTL DEF ServerSpec

\* The loop watches what the clients need between any two handlers of
\* networking.py: input of every client, output of those that have some, whatever
\* part of it their sockets took.
THEOREM SelectFollowsClientsHolds == ServerSpec => []SelectFollowsClients
<1>1. SInv => SelectFollowsClients
  BY DEF SInv, Alive, Watched, SelectFollowsClients
<1> QED BY <1>1, ClientsHold, PTL

\* processInputBuffer runs each command a peer sends in front of its QUIT once,
\* however reads cut them, and none behind it, be it in the same read.
THEOREM CommandsRunOnceHolds == ServerSpec => []CommandsRunOnce
<1>1. ASSUME Alive PROVE CommandsRunOnce
  <2> SUFFICES ASSUME NEW fd \in Conns
               PROVE  done[fd] + (IF fd \in closing THEN 0 ELSE Cardinality(Unexecuted(fd)))
                        = peer[fd].asked
    BY DEF CommandsRunOnce
  <2>1. Unexecuted(fd) = Heeded(Input(fd))
    BY DEF Unexecuted, Heeded, Input
  <2>2. done[fd] \in Nat /\ Account(fd)
    BY <1>1 DEF Alive, Buffers, Accounts
  <2>3. CASE fd \in closing
    <3>1. done[fd] = peer[fd].asked /\ done[fd] \in Nat
      BY <2>2, <2>3 DEF Account
    <3> QED BY <2>3, <3>1
  <2>4. CASE fd \notin closing
    <3>1. done[fd] + Heard(Input(fd)) = peer[fd].asked
      BY <2>2, <2>4 DEF Account
    <3> QED BY <2>1, <2>4, <3>1 DEF Heard
  <2> QED BY <2>3, <2>4
<1>2. SInv => CommandsRunOnce
  BY <1>1 DEF SInv, CommandsRunOnce
<1> QED BY <1>2, ClientsHold, PTL

-----------------------------------------------------------------------------
\* What a start does from a state of its own, as a function: its files, settings
\* and directory.  A start is settled when it comes to an end or asks for an
\* append only file.
Mine == [stack |-> stack, conf |-> conf, cwd |-> cwd]
Begun(a) == [stack |-> <<Commanded(a)>>, conf |-> Defaults, cwd |-> Home]

Pending(s) == s.stack # <<>> /\ s.stack[1] # <<>>
AtHand(s) == s.stack[1][1]
Fails(s) ==
  LET d == AtHand(s)
  IN  \/ IsSetting(d) /\ ~Valid(d)
      \/ d.key = "dir" /\ <<s.cwd, d.val[1]>> \notin DOMAIN Into
      \/ d.key = "include" /\ ~(Place(s.cwd, d.val[1]) \in DOMAIN Files /\ Len(s.stack) < RecursionLimit)
Names(s) == AtHand(s).key = "appendfilename" /\ Valid(AtHand(s))
Listens(s) == ListenFd < s.conf["maxclients"] + REDIS_EVENTLOOP_FDSET_INCR

Settled(s) == s.stack = <<>> \/ (Pending(s) /\ (Fails(s) \/ Names(s)))
Asked(s) ==
  \/ Pending(s) /\ Names(s)
  \/ s.stack = <<>> /\ Listens(s) /\ s.conf["appendonly"] = 1
Outcome(s) ==
  IF Asked(s) THEN [how |-> "disk", conf |-> Defaults]
  ELSE IF s.stack = <<>> /\ Listens(s) THEN [how |-> "running", conf |-> s.conf]
  ELSE [how |-> "failed", conf |-> Defaults]

Moved(s) ==
  IF ~Pending(s) THEN [stack |-> Tail(s.stack), conf |-> s.conf, cwd |-> s.cwd]
  ELSE LET d == AtHand(s)
       IN  [stack |-> IF d.key = "include"
                      THEN Included(Rest(s.stack), Directives(Files[Place(s.cwd, d.val[1])]))
                      ELSE Rest(s.stack),
            conf |-> IF IsSetting(d) THEN [s.conf EXCEPT ![SettingOf(d)] = ValueOf(d, s.cwd, @)]
                     ELSE s.conf,
            cwd |-> IF d.key = "dir" THEN Into[<<s.cwd, d.val[1]>>] ELSE s.cwd]

\* A start of the command line a in its n-th state, not settled before.
Steps(f, a, n) ==
  /\ f = [i \in 0 .. n |-> IF i = 0 THEN Begun(a) ELSE Moved(f[i - 1])]
  /\ \A i \in 0 .. n - 1 : ~Settled(f[i])
ComesTo(a, s) == \E n \in Nat : \E f : Steps(f, a, n) /\ f[n] = s

\* A start that is not settled goes on.
LEMMA ComesFurther ==
  ASSUME NEW a, NEW s, ComesTo(a, s), ~Settled(s)
  PROVE  ComesTo(a, Moved(s))
<1>21. PICK n \in Nat : \E f : Steps(f, a, n) /\ f[n] = s
  BY DEF ComesTo
<1>1. PICK f : Steps(f, a, n) /\ f[n] = s
  BY <1>21
<1> DEFINE last == Moved(s)
           g == [i \in 0 .. n + 1 |-> IF i = n + 1 THEN last ELSE f[i]]
<1>2. \A i \in 0 .. n : f[i] = IF i = 0 THEN Begun(a) ELSE Moved(f[i - 1])
  BY <1>1 DEF Steps
<1>3. ASSUME NEW i \in 0 .. n + 1
      PROVE  g[i] = IF i = 0 THEN Begun(a) ELSE Moved(g[i - 1])
  <2>1. CASE i = n + 1
    <3>1. i # 0 /\ i - 1 = n /\ g[i] = last /\ g[i - 1] = f[n]
      BY <2>1
    <3> QED BY <1>1, <3>1
  <2>2. CASE i # n + 1
    <3>1. i \in 0 .. n /\ g[i] = f[i]
      BY <2>2
    <3>2. i # 0 => i - 1 \in 0 .. n + 1 /\ i - 1 # n + 1
      BY <3>1
    <3>3. i # 0 => g[i - 1] = f[i - 1]
      BY <3>2
    <3> HIDE DEF g
    <3> QED BY <1>2, <3>1, <3>3
  <2> QED BY <2>1, <2>2
<1>4. ASSUME NEW i \in 0 .. n PROVE ~Settled(g[i])
  <2>1. g[i] = f[i] /\ (i = n \/ i \in 0 .. n - 1)
    OBVIOUS
  <2> HIDE DEF g
  <2> QED BY <1>1, <2>1 DEF Steps
<1>5. g = [i \in 0 .. n + 1 |-> g[i]] /\ g[n + 1] = last /\ n + 1 \in Nat /\ (n + 1) - 1 = n
  OBVIOUS
<1> HIDE DEF g, last
<1>6. Steps(g, a, n + 1)
  <2>1. g = [i \in 0 .. n + 1 |-> IF i = 0 THEN Begun(a) ELSE Moved(g[i - 1])]
    BY <1>3, <1>5
  <2> QED BY <1>4, <1>5, <2>1 DEF Steps
<1> QED BY <1>5, <1>6 DEF ComesTo, last

\* Two starts of one command line agree as far as both go.
LEMMA StepsAgree ==
  ASSUME NEW a, NEW n \in Nat, NEW m \in Nat, n <= m, NEW f, NEW g,
         Steps(f, a, n), Steps(g, a, m)
  PROVE  f[n] = g[n]
<1> DEFINE Bad == {i \in 0 .. n : f[i] # g[i]}
<1>1. SUFFICES ASSUME Bad # {} PROVE FALSE
  OBVIOUS
<1>2. PICK i \in Bad : \A k \in Bad : i <= k
  <2>1. Bad \in SUBSET Nat
    OBVIOUS
  <2> HIDE DEF Bad
  <2> QED BY <1>1, <2>1, LeastNatural
<1>3. /\ f[i] = IF i = 0 THEN Begun(a) ELSE Moved(f[i - 1])
      /\ g[i] = IF i = 0 THEN Begun(a) ELSE Moved(g[i - 1])
  <2>1. i \in 0 .. n /\ i \in 0 .. m
    OBVIOUS
  <2> HIDE DEF Bad
  <2> QED BY <2>1 DEF Steps
<1>4. i # 0 => f[i - 1] = g[i - 1]
  <2>1. i # 0 => i - 1 \in 0 .. n /\ ~(i <= i - 1)
    OBVIOUS
  <2>2. i # 0 => i - 1 \notin Bad
    <3> HIDE DEF Bad
    <3> QED BY <1>2, <2>1
  <2> QED BY <2>1, <2>2
<1> QED BY <1>3, <1>4

\* A command line settles in one way.
LEMMA SettlesOnce ==
  ASSUME NEW a, NEW s, NEW t, ComesTo(a, s), ComesTo(a, t), Settled(s), Settled(t)
  PROVE  s = t
<1>22. PICK n \in Nat : \E f : Steps(f, a, n) /\ f[n] = s
  BY DEF ComesTo
<1>1. PICK f : Steps(f, a, n) /\ f[n] = s
  BY <1>22
<1>23. PICK m \in Nat : \E g : Steps(g, a, m) /\ g[m] = t
  BY DEF ComesTo
<1>2. PICK g : Steps(g, a, m) /\ g[m] = t
  BY <1>23
<1>3. CASE n < m
  <2>1. f[n] = g[n]
    BY <1>1, <1>2, <1>3, StepsAgree
  <2>2. n \in 0 .. m - 1
    BY <1>3
  <2> QED BY <1>1, <1>2, <2>1, <2>2 DEF Steps
<1>4. CASE m < n
  <2>1. g[m] = f[m]
    BY <1>1, <1>2, <1>4, StepsAgree
  <2>2. m \in 0 .. n - 1
    BY <1>4
  <2> QED BY <1>1, <1>2, <2>1, <2>2 DEF Steps
<1>5. CASE n = m
  BY <1>1, <1>2, <1>5, StepsAgree
<1> QED BY <1>3, <1>4, <1>5

\* A start is a run of this function until it asks for an append only file, and
\* the ends that were noted are ends of such runs.
OwnWay ==
  phase = "loading" =>
    IF touched THEN \E s : ComesTo(args, s) /\ Asked(s) ELSE ComesTo(args, Mine)
Noted ==
  \A a \in CommandLines : \A o \in outcomes[a] :
    \E s : ComesTo(a, s) /\ Settled(s) /\ o = Outcome(s)
AInv ==
  /\ args \in CommandLines /\ touched \in BOOLEAN
  /\ outcomes = [a \in CommandLines |-> outcomes[a]]
  /\ OwnWay /\ Noted

\* A start that asks for an append only file ends on what the disk says.
LEMMA AskedSettles ==
  ASSUME NEW s, Asked(s)
  PROVE  Settled(s) /\ Outcome(s) = [how |-> "disk", conf |-> Defaults]
BY DEF Asked, Settled, Outcome

\* The start of a command line is its first state.
LEMMA ComesToBegin ==
  ASSUME NEW a
  PROVE  ComesTo(a, Begun(a))
<1> DEFINE f == [i \in 0 .. 0 |-> Begun(a)]
<1>1. f = [i \in 0 .. 0 |-> IF i = 0 THEN Begun(a) ELSE Moved(f[i - 1])] /\ f[0] = Begun(a)
  OBVIOUS
<1>2. \A i \in 0 .. 0 - 1 : FALSE
  OBVIOUS
<1> HIDE DEF f
<1>3. Steps(f, a, 0)
  BY <1>1, <1>2 DEF Steps
<1> QED BY <1>1, <1>3 DEF ComesTo

\* The names of settings are not those of the other directives.
LEMMA KeysApart ==
  ASSUME NEW d
  PROVE  /\ IsSetting(d) => d.key # "dir" /\ d.key # "include"
         /\ d.key = "appendfilename" => IsSetting(d)
BY DEF IsSetting, Settings, NumberKeys, TextKeys, LimitClasses

\* A directive that is carried out, or passed over, is the step of the function.
LEMMA MovesAlike ==
  ASSUME Set \/ ChangeDir \/ Include \/ Skip \/ FileEnds
  PROVE  ~Settled(Mine) /\ Mine' = Moved(Mine)
<1>1. /\ Mine.stack = stack /\ Mine.conf = conf /\ Mine.cwd = cwd
      /\ Mine' = [stack |-> stack', conf |-> conf', cwd |-> cwd']
  BY DEF Mine
<1> DEFINE d == This
<1>2. Loading => AtHand(Mine) = d /\ Pending(Mine)
  BY <1>1 DEF AtHand, This, Loading, Pending
<1>3. CASE Set
  <2>1. /\ Loading /\ IsSetting(d) /\ Valid(d) /\ d.key # "appendfilename"
        /\ conf' = [conf EXCEPT ![SettingOf(d)] = ValueOf(d, cwd, @)] /\ stack' = Rest(stack) /\ cwd' = cwd
    BY <1>3 DEF Set, Applied
  <2>2. d.key # "dir" /\ d.key # "include"
    BY <2>1, KeysApart
  <2>3. ~Settled(Mine)
    BY <1>1, <1>2, <2>1, <2>2 DEF Settled, Fails, Names, Loading
  <2> QED BY <1>1, <1>2, <2>1, <2>2, <2>3 DEF Moved
<1>4. CASE ChangeDir
  <2>1. /\ Loading /\ d.key = "dir" /\ <<cwd, d.val[1]>> \in DOMAIN Into
        /\ cwd' = Into[<<cwd, d.val[1]>>] /\ stack' = Rest(stack) /\ conf' = conf
    BY <1>4 DEF ChangeDir, Target
  <2>2. ~IsSetting(d) /\ d.key # "include" /\ d.key # "appendfilename"
    BY <2>1, KeysApart
  <2>3. ~Settled(Mine)
    BY <1>1, <1>2, <2>1, <2>2 DEF Settled, Fails, Names, Loading
  <2> QED BY <1>1, <1>2, <2>1, <2>2, <2>3 DEF Moved
<1>5. CASE Include
  <2>1. /\ Loading /\ d.key = "include"
        /\ Place(cwd, d.val[1]) \in DOMAIN Files /\ Len(stack) < RecursionLimit
        /\ stack' = Included(Rest(stack), Directives(Files[Place(cwd, d.val[1])]))
        /\ conf' = conf /\ cwd' = cwd
    BY <1>5 DEF Include, Includable
  <2>2. ~IsSetting(d) /\ d.key # "dir" /\ d.key # "appendfilename"
    BY <2>1, KeysApart
  <2>3. ~Settled(Mine)
    BY <1>1, <1>2, <2>1, <2>2 DEF Settled, Fails, Names, Loading
  <2> QED BY <1>1, <1>2, <2>1, <2>2, <2>3 DEF Moved
<1>6. CASE Skip
  <2>1. /\ Loading /\ ~IsSetting(d) /\ d.key # "dir" /\ d.key # "include"
        /\ stack' = Rest(stack) /\ conf' = conf /\ cwd' = cwd
    BY <1>6 DEF Skip
  <2>2. d.key # "appendfilename"
    BY <2>1, KeysApart
  <2>3. ~Settled(Mine)
    BY <1>1, <1>2, <2>1, <2>2 DEF Settled, Fails, Names, Loading
  <2> QED BY <1>1, <1>2, <2>1, <2>2, <2>3 DEF Moved
<1>7. CASE FileEnds
  <2>1. stack # <<>> /\ stack[1] = <<>> /\ stack' = Tail(stack) /\ conf' = conf /\ cwd' = cwd
    BY <1>7 DEF FileEnds
  <2>2. ~Pending(Mine) /\ ~Settled(Mine)
    BY <1>1, <2>1 DEF Pending, Settled
  <2> QED BY <1>1, <2>1, <2>2 DEF Moved
<1> QED BY <1>3, <1>4, <1>5, <1>6, <1>7

\* A start that ends adds the outcome of the settled state it came to.
LEMMA EndIsNoted ==
  ASSUME AInv, NEW how, Ends(how), UNCHANGED args, how # "loading", touched' \in BOOLEAN,
         NEW s, ComesTo(args, s), Settled(s),
         Outcome(s) = [how |-> IF touched' THEN "disk" ELSE how,
                       conf |-> IF touched' \/ how = "failed" THEN Defaults ELSE conf]
  PROVE  AInv'
<1>1. /\ phase' = how
      /\ outcomes' = [outcomes EXCEPT ![args] = @ \cup {Outcome(s)}]
  BY DEF Ends
<1>2. /\ args' = args /\ args \in CommandLines
      /\ outcomes = [a \in CommandLines |-> outcomes[a]]
  BY DEF AInv
<1>3. outcomes' = [a \in CommandLines |-> outcomes'[a]]
  BY <1>1, <1>2
<1>4. ASSUME NEW a \in CommandLines, NEW o \in outcomes'[a]
      PROVE  \E t : ComesTo(a, t) /\ Settled(t) /\ o = Outcome(t)
  <2>1. o \in outcomes[a] \/ (a = args /\ o = Outcome(s))
    BY <1>1, <1>2
  <2>2. CASE o \in outcomes[a]
    BY <2>2 DEF AInv, Noted
  <2>3. CASE a = args /\ o = Outcome(s)
    BY <2>3
  <2> QED BY <2>1, <2>2, <2>3
<1>5. Noted'
  BY <1>4 DEF Noted
<1>6. OwnWay'
  BY <1>1 DEF OwnWay
<1> QED BY <1>2, <1>3, <1>5, <1>6 DEF AInv

\* Every step of a start keeps this.
LEMMA AInvStep ==
  ASSUME AInv, [StartupNext]_startVars
  PROVE  AInv'
<1>1. CASE UNCHANGED startVars
  BY <1>1 DEF startVars, AInv, OwnWay, Noted, Mine
<1>2. CASE Start
  <2>1. PICK a \in CommandLines :
          /\ args' = a /\ stack' = <<Commanded(a)>>
          /\ phase' = IF Twice(a.options) THEN "failed" ELSE "loading"
    BY <1>2 DEF Start
  <2>2. conf' = Defaults /\ cwd' = Home /\ touched' = FALSE /\ outcomes' = outcomes
    BY <1>2 DEF Start
  <2>3. Mine' = Begun(a)
    BY <2>1, <2>2 DEF Mine, Begun
  <2>4. OwnWay'
    BY <2>1, <2>2, <2>3, ComesToBegin DEF OwnWay
  <2> QED BY <2>1, <2>2, <2>4 DEF AInv, Noted
<1>3. CASE Set \/ ChangeDir \/ Include \/ Skip \/ FileEnds
  <2>1. /\ phase = "loading" /\ phase' = "loading" /\ args' = args /\ touched' = touched
        /\ outcomes' = outcomes
    BY <1>3 DEF Set, ChangeDir, Include, Skip, FileEnds, Loading
  <2>2. ~touched => ComesTo(args, Mine')
    <3>1. ~Settled(Mine) /\ Mine' = Moved(Mine)
      BY <1>3, MovesAlike
    <3>2. ~touched => ComesTo(args, Mine)
      BY <2>1 DEF AInv, OwnWay
    <3> QED BY <3>1, <3>2, ComesFurther
  <2>3. OwnWay'
    BY <2>1, <2>2 DEF AInv, OwnWay
  <2> QED BY <2>1, <2>3 DEF AInv, Noted
<1>4. CASE SetAppendFilename
  <2>1. /\ Loading /\ This.key = "appendfilename" /\ Valid(This)
        /\ touched' = TRUE /\ args' = args
    BY <1>4 DEF SetAppendFilename
  <2>2. PICK s : ComesTo(args, s) /\ Asked(s)
    <3>1. ~touched => Asked(Mine) /\ ComesTo(args, Mine)
      BY <2>1 DEF Asked, Pending, Names, AtHand, Mine, This, Loading, AInv, OwnWay
    <3> QED BY <2>1, <3>1 DEF AInv, OwnWay, Loading
  <2>3. CASE Ends("failed")
    <3>1. Settled(s) /\ Outcome(s) = [how |-> "disk", conf |-> Defaults]
      BY <2>2, AskedSettles
    <3> QED BY <2>1, <2>2, <2>3, <3>1, EndIsNoted
  <2>4. CASE UNCHANGED <<phase, outcomes>>
    <3>1. OwnWay'
      BY <2>1, <2>2, <2>4 DEF OwnWay
    <3> QED BY <2>1, <2>4, <3>1 DEF AInv, Noted
  <2> QED BY <1>4, <2>3, <2>4 DEF SetAppendFilename
<1>5. CASE Raise
  <2>1. /\ phase = "loading" /\ Loading /\ touched' = touched /\ args' = args /\ Ends("failed")
    BY <1>5 DEF Raise, Loading
  <2>2. CASE touched
    <3>1. PICK s : ComesTo(args, s) /\ Asked(s)
      BY <2>1, <2>2 DEF AInv, OwnWay
    <3>2. Settled(s) /\ Outcome(s) = [how |-> "disk", conf |-> Defaults]
      BY <3>1, AskedSettles
    <3>3. touched' = TRUE
      BY <2>1, <2>2 DEF AInv
    <3> QED BY <2>1, <3>1, <3>2, <3>3, EndIsNoted
  <2>3. CASE ~touched
    <3>1. ComesTo(args, Mine)
      BY <2>1, <2>3 DEF AInv, OwnWay
    <3>2. /\ Pending(Mine) /\ Fails(Mine) /\ ~Names(Mine) /\ stack # <<>> /\ Mine.stack = stack
      <4>1. /\ Mine.stack = stack /\ Mine.conf = conf /\ Mine.cwd = cwd
        BY DEF Mine
      <4>2. AtHand(Mine) = This /\ Pending(Mine) /\ stack # <<>>
        BY <2>1, <4>1 DEF AtHand, This, Loading, Pending
      <4>3. \/ IsSetting(This) /\ ~Valid(This)
            \/ This.key = "dir" /\ <<cwd, This.val[1]>> \notin DOMAIN Into
            \/ This.key = "include" /\ ~(Place(cwd, This.val[1]) \in DOMAIN Files /\ Len(stack) < RecursionLimit)
        BY <1>5 DEF Raise, Target, Includable
      <4>4. Fails(Mine)
        BY <4>1, <4>2, <4>3 DEF Fails
      <4>5. ~Names(Mine)
        BY <4>2, <4>3, KeysApart DEF Names
      <4> QED BY <4>1, <4>2, <4>4, <4>5
    <3>3. Settled(Mine) /\ Outcome(Mine) = [how |-> "failed", conf |-> Defaults]
      BY <3>2 DEF Settled, Outcome, Asked
    <3>4. touched' = FALSE
      BY <2>1, <2>3 DEF AInv
    <3> QED BY <2>1, <3>1, <3>3, <3>4, EndIsNoted
  <2> QED BY <2>2, <2>3
<1>6. CASE OpenServer
  <2>1. /\ phase = "loading" /\ stack = <<>> /\ args' = args
        /\ touched' = (touched \/ (Watchable /\ conf["appendonly"] = 1))
        /\ \/ Watchable /\ Ends("running")
           \/ ~Watchable /\ Ends("failed")
           \/ conf["appendonly"] = 1 /\ Ends("failed")
    BY <1>6 DEF OpenServer, Opens
  <2>2. CASE touched
    <3>1. PICK s : ComesTo(args, s) /\ Asked(s)
      BY <2>1, <2>2 DEF AInv, OwnWay
    <3>2. Settled(s) /\ Outcome(s) = [how |-> "disk", conf |-> Defaults]
      BY <3>1, AskedSettles
    <3>3. touched' = TRUE
      BY <2>1, <2>2 DEF AInv
    <3>4. CASE Ends("running")
      BY <2>1, <3>1, <3>2, <3>3, <3>4, EndIsNoted
    <3>5. CASE Ends("failed")
      BY <2>1, <3>1, <3>2, <3>3, <3>5, EndIsNoted
    <3> QED BY <2>1, <3>4, <3>5
  <2>3. CASE ~touched
    <3>1. ComesTo(args, Mine)
      BY <2>1, <2>3 DEF AInv, OwnWay
    <3>2. /\ Mine.stack = <<>> /\ Mine.conf = conf /\ (Listens(Mine) <=> Watchable) /\ ~Pending(Mine)
      BY <2>1 DEF Mine, Listens, Watchable, Pending
    <3>3. Settled(Mine)
      BY <3>2 DEF Settled
    <3>4. /\ Watchable /\ conf["appendonly"] = 1 => Outcome(Mine) = [how |-> "disk", conf |-> Defaults]
          /\ Watchable /\ conf["appendonly"] # 1 => Outcome(Mine) = [how |-> "running", conf |-> conf]
          /\ ~Watchable => Outcome(Mine) = [how |-> "failed", conf |-> Defaults]
      BY <3>2 DEF Outcome, Asked
    <3>5. touched' \in BOOLEAN /\ (touched' <=> Watchable /\ conf["appendonly"] = 1)
      BY <2>1, <2>3 DEF AInv
    <3>6. CASE Watchable /\ conf["appendonly"] = 1
      <4>1. touched' = TRUE /\ Outcome(Mine) = [how |-> "disk", conf |-> Defaults]
        BY <3>4, <3>5, <3>6
      <4>2. CASE Ends("running")
        BY <2>1, <3>1, <3>3, <4>1, <4>2, EndIsNoted
      <4>3. CASE Ends("failed")
        BY <2>1, <3>1, <3>3, <4>1, <4>3, EndIsNoted
      <4> QED BY <2>1, <4>2, <4>3
    <3>7. CASE Watchable /\ conf["appendonly"] # 1
      <4>1. touched' = FALSE /\ Outcome(Mine) = [how |-> "running", conf |-> conf] /\ Ends("running")
        BY <2>1, <3>4, <3>5, <3>7
      <4> QED BY <2>1, <3>1, <3>3, <4>1, EndIsNoted
    <3>8. CASE ~Watchable
      <4>1. touched' = FALSE /\ Outcome(Mine) = [how |-> "failed", conf |-> Defaults] /\ Ends("failed")
        BY <2>1, <3>4, <3>5, <3>8
      <4> QED BY <2>1, <3>1, <3>3, <4>1, EndIsNoted
    <3> QED BY <3>6, <3>7, <3>8
  <2> QED BY <2>2, <2>3
<1>7. CASE Stop
  <2>1. phase' = "off" /\ args' = args /\ touched' = touched /\ outcomes' = outcomes
    BY <1>7 DEF Stop
  <2>2. OwnWay'
    BY <2>1 DEF OwnWay
  <2> QED BY <2>1, <2>2 DEF AInv, Noted
<1> QED BY <1>1, <1>2, <1>3, <1>4, <1>5, <1>6, <1>7 DEF StartupNext, Load

\* It holds before the first start.
LEMMA AInvInit ==
  ASSUME StartupInit
  PROVE  AInv
BY DEF StartupInit, AInv, OwnWay, Noted

\* All ends of a command line are the one its run settles in.
LEMMA AlikeFollows ==
  ASSUME AInv
  PROVE  StartsAlike
<1> SUFFICES ASSUME NEW a \in CommandLines
             PROVE  Cardinality(outcomes[a]) <= 1
  BY DEF StartsAlike
<1>1. CASE outcomes[a] = {}
  BY <1>1, FS_EmptySet
<1>2. CASE outcomes[a] # {}
  <2>1. PICK o : o \in outcomes[a]
    BY <1>2
  <2>2. ASSUME NEW p \in outcomes[a] PROVE p = o
    <3>1. PICK s : ComesTo(a, s) /\ Settled(s) /\ o = Outcome(s)
      BY <2>1 DEF AInv, Noted
    <3>2. PICK t : ComesTo(a, t) /\ Settled(t) /\ p = Outcome(t)
      BY DEF AInv, Noted
    <3> QED BY <3>1, <3>2, SettlesOnce
  <2>3. outcomes[a] = {o}
    BY <2>1, <2>2
  <2> QED BY <2>3, FS_Singleton
<1> QED BY <1>1, <1>2

\* What a command line comes to is the same at every start, whatever earlier starts
\* did to the disk and wherever they were killed, unless it asks for an append only
\* file: loadServerConfig and initServer read nothing that a start leaves behind.
THEOREM StartsNeverDiffer == StartupSpec => []StartsAlike
<1>1. StartupInit => AInv
  BY AInvInit
<1>2. AInv /\ [StartupNext]_startVars => AInv'
  BY AInvStep
<1>3. AInv => StartsAlike
  BY AlikeFollows
<1> QED BY <1>1, <1>2, <1>3, PTL DEF StartupSpec

-----------------------------------------------------------------------------
Directed == {Directive(l) : l \in Seq(STRING)} \cup [key : STRING, val : Seq(STRING)]
Dirs == {Home} \cup {Into[p] : p \in DOMAIN Into}
Read == [d : Directed, dir : Dirs]
Readings == [lines : Seq(Read), rest : Seq(Directed), dir : Dirs]

\* The directives of a file and of a command line.
LEMMA DirectivesType ==
  ASSUME NEW lines \in Seq(Seq(STRING))
  PROVE  Directives(lines) \in Seq(Directed)
<1> DEFINE of(i) == IF Len(Uncommented(lines[i])) >= 2 THEN <<Directive(lines[i])>> ELSE <<>>
           parts == [i \in DOMAIN lines |-> of(i)]
<1>1. DOMAIN lines = 1 .. Len(lines) /\ Len(lines) \in Nat
  OBVIOUS
<1>2. ASSUME NEW i \in 1 .. Len(lines) PROVE of(i) \in Seq(Directed)
  <2>1. Directive(lines[i]) \in Directed
    BY DEF Directed
  <2>2. <<Directive(lines[i])>> \in Seq(Directed)
    BY <2>1
  <2> QED BY <2>2
<1>3. parts \in Seq(Seq(Directed))
  <2> HIDE DEF of
  <2>1. parts = [i \in 1 .. Len(lines) |-> of(i)]
    BY <1>1
  <2> QED BY <1>1, <1>2, <2>1
<1>4. FlattenSeq(parts) \in Seq(Directed)
  <2> HIDE DEF parts
  <2> QED BY <1>3, FlattenType
<1> QED BY <1>4 DEF Directives

\* The directives of a command line are a list of them.
LEMMA CommandedType ==
  ASSUME NEW a \in CommandLines
  PROVE  Commanded(a) \in Seq(Directed)
<1> DEFINE file == IF a.file = NoFile THEN <<>> ELSE Directives(Files[<<Home, a.file>>])
<1>1. file \in Seq(Directed)
  <2>1. CASE a.file = NoFile
    BY <2>1
  <2>2. CASE a.file # NoFile
    <3>1. Files[<<Home, a.file>>] \in Seq(Seq(STRING))
      BY <2>2, StartupAssumption
    <3> QED BY <2>2, <3>1, DirectivesType
  <2> QED BY <2>1, <2>2
<1>2. OptionLines(a.options) \in Seq(Directed)
  <2> DEFINE D == [key : STRING, val : Seq(STRING)]
             o == a.options
             of(i) == IF o[i].key \in Undashed THEN o[i] ELSE [o[i] EXCEPT !.val = <<>>]
  <2>1. o \in Seq(D)
    BY StartupAssumption
  <2>2. DOMAIN o = 1 .. Len(o) /\ Len(o) \in Nat /\ \A i \in 1 .. Len(o) : o[i] \in D
    <3> HIDE DEF D, o
    <3> QED BY <2>1
  <2>3. ASSUME NEW i \in 1 .. Len(o) PROVE of(i) \in D
    <3>1. ASSUME NEW r \in D
          PROVE  [r EXCEPT !.val = <<>>] \in D
      <4>1. [r EXCEPT !.val = <<>>] = [key |-> r.key, val |-> <<>>]
        OBVIOUS
      <4>2. r.key \in STRING /\ <<>> \in Seq(STRING)
        OBVIOUS
      <4> QED BY <4>1, <4>2
    <3>2. o[i] \in D
      <4> HIDE DEF D, o
      <4> QED BY <2>2
    <3> HIDE DEF D, o
    <3> QED BY <3>1, <3>2
  <2>4. D \subseteq Directed
    BY DEF Directed
  <2>5. OptionLines(o) = [i \in 1 .. Len(o) |-> of(i)]
    BY <2>2 DEF OptionLines
  <2>6. \A i \in 1 .. Len(o) : of(i) \in Directed
    BY <2>3, <2>4
  <2> HIDE DEF of, o, D
  <2>7. OptionLines(o) \in Seq(Directed)
    BY <2>2, <2>5, <2>6
  <2> QED BY <2>7 DEF o
<1> HIDE DEF file
<1>3. file \o OptionLines(a.options) \in Seq(Directed)
  BY <1>1, <1>2
<1> QED BY <1>3 DEF Commanded, file

\* A file that is there has directives.
LEMMA FileType ==
  ASSUME NEW p \in DOMAIN Files
  PROVE  Directives(Files[p]) \in Seq(Directed)
BY StartupAssumption, DirectivesType

Opened(a) == [lines |-> <<>>, rest |-> Commanded(a), dir |-> Home]

\* A reading goes on to a reading.
LEMMA OnwardType ==
  ASSUME NEW r \in Readings
  PROVE  Onward(r) \in Readings
<1>1. CASE r.rest = <<>>
  BY <1>1 DEF Onward
<1>2. CASE r.rest # <<>>
  <2> DEFINE d == r.rest[1]
             file == Place(r.dir, d.val[1])
             dir == <<r.dir, d.val[1]>>
             lines == Append(r.lines, [d |-> d, dir |-> r.dir])
             more == IF d.key = "include" /\ file \in DOMAIN Files THEN Directives(Files[file]) ELSE <<>>
             next == IF d.key = "dir" /\ dir \in DOMAIN Into THEN Into[dir] ELSE r.dir
  <2>1. r.lines \in Seq(Read) /\ r.rest \in Seq(Directed) /\ r.dir \in Dirs
    BY DEF Readings
  <2>2. d \in Directed /\ Tail(r.rest) \in Seq(Directed)
    BY <1>2, <2>1
  <2>3. lines \in Seq(Read)
    <3> HIDE DEF d
    <3>1. [d |-> d, dir |-> r.dir] \in Read
      BY <2>1, <2>2 DEF Read
    <3> QED BY <2>1, <3>1
  <2>4. more \in Seq(Directed)
    <3> HIDE DEF d
    <3>1. CASE d.key = "include" /\ file \in DOMAIN Files
      <4> HIDE DEF file
      <4> QED BY <3>1, FileType
    <3>2. CASE ~(d.key = "include" /\ file \in DOMAIN Files)
      BY <3>2
    <3> QED BY <3>1, <3>2
  <2>5. next \in Dirs
    <3> HIDE DEF d
    <3> QED BY <2>1 DEF Dirs
  <2>6. Onward(r) = [lines |-> lines, rest |-> more \o Tail(r.rest), dir |-> next]
    BY <1>2 DEF Onward
  <2> HIDE DEF lines, more, next
  <2>7. more \o Tail(r.rest) \in Seq(Directed)
    BY <2>2, <2>4
  <2> QED BY <2>3, <2>5, <2>6, <2>7 DEF Readings
<1> QED BY <1>1, <1>2

\* Where a reading begins.
LEMMA OpenedType ==
  ASSUME NEW a \in CommandLines
  PROVE  Opened(a) \in Readings
<1>1. Commanded(a) \in Seq(Directed)
  BY CommandedType
<1> QED BY <1>1 DEF Opened, Readings, Dirs

\* The first n lines of a command line, read one after the other.
Reads(f, a, n) ==
  /\ f \in [0 .. n -> Readings]
  /\ \A i \in 0 .. n : f[i] = IF i = 0 THEN Opened(a) ELSE Onward(f[i - 1])
ReadsTo(a, r) == \E n \in Nat : \E f : Reads(f, a, n) /\ f[n] = r

\* Reading is the last of so many steps.
LEMMA ReadingIs ==
  ASSUME NEW a \in CommandLines
  PROVE  \E f : Reads(f, a, MaxLines) /\ Reading(a) = f[MaxLines]
<1> DEFINE n == MaxLines
           G == [p \in (1 .. n) \X Readings |-> Onward(p[2])]
           Is(f) == f = [i \in 0 .. n |-> IF i = 0 THEN [lines |-> <<>>, rest |-> Commanded(a), dir |-> Home]
                                          ELSE Onward(f[i - 1])]
           read == CHOOSE f : Is(f)
<1>1. n \in Nat
  BY StartupAssumption
<1>2. Opened(a) \in Readings
  BY OpenedType
<1>3. G \in [(1 .. n) \X Readings -> Readings]
  BY OnwardType
<1>4. PICK f \in [0 .. n -> Readings] :
        \A i \in 0 .. n : f[i] = IF i = 0 THEN Opened(a) ELSE G[<<i, f[i - 1]>>]
  <2> HIDE DEF G, n
  <2>1. \E f : Recurs(f, Readings, Opened(a), n, G)
    BY ONLY <1>1, <1>2, <1>3, RecursionExists
  <2> QED BY <2>1 DEF Recurs
<1>5. \A i \in 0 .. n : f[i] = IF i = 0 THEN Opened(a) ELSE Onward(f[i - 1])
  <2> TAKE i \in 0 .. n
  <2>1. CASE i # 0
    <3>1. i \in 1 .. n /\ i - 1 \in 0 .. n
      BY <1>1, <2>1
    <3>2. G[<<i, f[i - 1]>>] = Onward(f[i - 1])
      BY <3>1
    <3> QED BY <1>4, <2>1, <3>2
  <2>2. CASE i = 0
    BY <1>4, <2>2
  <2> QED BY <2>1, <2>2
<1> HIDE DEF n
<1>6. Is(f)
  <2>1. f = [i \in 0 .. n |-> f[i]]
    OBVIOUS
  <2> QED BY <1>5, <2>1 DEF Opened
<1>7. Is(read)
  <2> HIDE DEF Is
  <2> QED BY <1>6
<1>8. \A i \in 0 .. n : read[i] = IF i = 0 THEN Opened(a) ELSE Onward(read[i - 1])
  BY <1>7 DEF Opened
<1>9. Reading(a) = read[n]
  BY DEF Reading, n
<1> HIDE DEF read
<1>10. read \in [0 .. n -> Readings]
  <2>1. read = f
    <3> DEFINE Bad == {i \in 0 .. n : f[i] # read[i]}
    <3>1. ASSUME Bad # {} PROVE FALSE
      <4>1. PICK i \in Bad : \A k \in Bad : i <= k
        <5>1. Bad \in SUBSET Nat
          BY <1>1
        <5> HIDE DEF Bad
        <5> QED BY <3>1, <5>1, LeastNatural
      <4>2. i \in 0 .. n /\ f[i] # read[i]
        OBVIOUS
      <4>3. i # 0 => f[i - 1] = read[i - 1]
        <5>1. i # 0 => i - 1 \in 0 .. n /\ ~(i <= i - 1)
          BY <1>1, <4>2
        <5>2. i # 0 => i - 1 \notin Bad
          <6> HIDE DEF Bad
          <6> QED BY <4>1, <5>1
        <5> QED BY <5>1, <5>2
      <4> HIDE DEF Bad
      <4> QED BY <1>5, <1>8, <4>2, <4>3
    <3>2. \A i \in 0 .. n : f[i] = read[i]
      BY <3>1
    <3>3. f = [i \in 0 .. n |-> f[i]]
      OBVIOUS
    <3>4. read = [i \in 0 .. n |-> read[i]]
      BY <1>7
    <3> QED BY <3>2, <3>3, <3>4
  <2> QED BY <2>1
<1>11. Reads(read, a, n)
  BY <1>8, <1>10 DEF Reads
<1> QED BY <1>9, <1>11 DEF n

\* A reading goes on.
LEMMA ReadsFurther ==
  ASSUME NEW a, NEW r, ReadsTo(a, r)
  PROVE  r \in Readings /\ ReadsTo(a, Onward(r))
<1>24. PICK n \in Nat : \E f : Reads(f, a, n) /\ f[n] = r
  BY DEF ReadsTo
<1>1. PICK f : Reads(f, a, n) /\ f[n] = r
  BY <1>24
<1> DEFINE last == Onward(r)
           g == [i \in 0 .. n + 1 |-> IF i = n + 1 THEN last ELSE f[i]]
<1>2. \A i \in 0 .. n : f[i] \in Readings /\ f[i] = IF i = 0 THEN Opened(a) ELSE Onward(f[i - 1])
  BY <1>1 DEF Reads
<1>3. r \in Readings /\ last \in Readings
  BY <1>1, <1>2, OnwardType
<1>4. ASSUME NEW i \in 0 .. n + 1
      PROVE  g[i] \in Readings /\ g[i] = IF i = 0 THEN Opened(a) ELSE Onward(g[i - 1])
  <2>1. CASE i = n + 1
    <3>1. i # 0 /\ i - 1 = n /\ g[i] = last /\ g[i - 1] = f[n]
      BY <2>1
    <3> HIDE DEF g
    <3> QED BY <1>1, <1>3, <3>1
  <2>2. CASE i # n + 1
    <3>1. i \in 0 .. n /\ g[i] = f[i]
      BY <2>2
    <3>2. i # 0 => i - 1 \in 0 .. n + 1 /\ i - 1 # n + 1
      BY <3>1
    <3>3. i # 0 => g[i - 1] = f[i - 1]
      BY <3>2
    <3> HIDE DEF g, last
    <3> QED BY <1>2, <3>1, <3>3
  <2> QED BY <2>1, <2>2
<1>5. g = [i \in 0 .. n + 1 |-> g[i]] /\ g[n + 1] = last /\ n + 1 \in Nat
  OBVIOUS
<1> HIDE DEF g, last
<1>6. Reads(g, a, n + 1)
  BY <1>4, <1>5 DEF Reads
<1> QED BY <1>3, <1>5, <1>6 DEF ReadsTo, last

\* Where two readings of a command line are both through, they are the same.
LEMMA ReadsOnce ==
  ASSUME NEW a, NEW n \in Nat, NEW m \in Nat, n <= m, NEW f, NEW g,
         Reads(f, a, n), Reads(g, a, m), f[n].rest = <<>>
  PROVE  g[m] = f[n]
<1> DEFINE Bad == {i \in 0 .. m : g[i] # IF i <= n THEN f[i] ELSE f[n]}
<1>1. ASSUME Bad # {} PROVE FALSE
  <2>1. PICK i \in Bad : \A k \in Bad : i <= k
    <3>1. Bad \in SUBSET Nat
      OBVIOUS
    <3> HIDE DEF Bad
    <3> QED BY <1>1, <3>1, LeastNatural
  <2>2. i \in 0 .. m /\ g[i] # IF i <= n THEN f[i] ELSE f[n]
    OBVIOUS
  <2>3. i # 0 => i - 1 \in 0 .. m /\ i - 1 \notin Bad
    <3>1. i # 0 => i - 1 \in 0 .. m /\ ~(i <= i - 1)
      BY <2>2
    <3> HIDE DEF Bad
    <3> QED BY <2>1, <3>1
  <2>4. i # 0 => g[i - 1] = IF i - 1 <= n THEN f[i - 1] ELSE f[n]
    BY <2>3
  <2> HIDE DEF Bad
  <2>5. g[i] = IF i = 0 THEN Opened(a) ELSE Onward(g[i - 1])
    BY <2>2 DEF Reads
  <2>6. CASE i <= n
    <3>1. f[i] = IF i = 0 THEN Opened(a) ELSE Onward(f[i - 1])
      BY <2>2, <2>6 DEF Reads
    <3>2. i # 0 => i - 1 <= n
      BY <2>2, <2>6
    <3> QED BY <2>2, <2>4, <2>5, <2>6, <3>1, <3>2
  <2>7. CASE ~(i <= n)
    <3>1. i # 0 /\ g[i - 1] = f[n]
      <4>1. i # 0 /\ (i - 1 = n \/ ~(i - 1 <= n))
        BY <2>2, <2>7
      <4> QED BY <2>4, <4>1
    <3>2. Onward(f[n]) = f[n]
      BY DEF Onward
    <3> QED BY <2>2, <2>5, <2>7, <3>1, <3>2
  <2> QED BY <2>6, <2>7
<1>2. m \notin Bad /\ m \in 0 .. m
  BY <1>1
<1>3. g[m] = IF m <= n THEN f[m] ELSE f[n]
  BY <1>2
<1> QED BY <1>3

\* A reading that is through, and Reading if it is through, have the same lines.
LEMMA ReadsThrough ==
  ASSUME NEW a \in CommandLines, NEW r, ReadsTo(a, r), r.rest = <<>>, Reading(a).rest = <<>>
  PROVE  Reading(a) = r
<1>25. PICK n \in Nat : \E f : Reads(f, a, n) /\ f[n] = r
  BY DEF ReadsTo
<1>1. PICK f : Reads(f, a, n) /\ f[n] = r
  BY <1>25
<1>2. PICK g : Reads(g, a, MaxLines) /\ Reading(a) = g[MaxLines]
  BY ReadingIs
<1>3. MaxLines \in Nat
  BY StartupAssumption
<1>4. CASE n <= MaxLines
  BY <1>1, <1>2, <1>3, <1>4, ReadsOnce
<1>5. CASE MaxLines <= n
  BY <1>1, <1>2, <1>3, <1>5, ReadsOnce
<1> QED BY <1>3, <1>4, <1>5

-----------------------------------------------------------------------------
\* The parts of Follows by name.
About(lines, s) == {i \in DOMAIN lines : IsSetting(lines[i].d) /\ SettingOf(lines[i].d) = s}
Cleared(lines) == {i \in About(lines, "save") : lines[i].d.val = <<>>}
Adding(lines) == {i \in About(lines, "save") : \A j \in Cleared(lines) : j < i}
FirstSave(lines) == IF Cleared(lines) = {} THEN Defaults["save"] ELSE <<>>
Given(l) == ValueOf(l.d, l.dir, <<>>)
UpTo(lines, i) == {j \in Adding(lines) : j <= i}

OthersFollow(c, lines) ==
  \A s \in Settings \ {"save"} :
    c[s] = IF About(lines, s) = {} THEN Defaults[s] ELSE Given(lines[Max(About(lines, s))])
SaveFollows(c, lines) ==
  /\ Len(c["save"]) = Len(FirstSave(lines)) + Cardinality(Adding(lines))
  /\ \A k \in DOMAIN FirstSave(lines) : c["save"][k] = FirstSave(lines)[k]
  /\ \A i \in Adding(lines) : c["save"][Len(FirstSave(lines)) + Cardinality(UpTo(lines, i))]
                                = SaveParam(lines[i].d.val)

\* Follows in its two parts.
LEMMA FollowsIs ==
  ASSUME NEW c, NEW lines
  PROVE  Follows(c, lines) <=> OthersFollow(c, lines) /\ SaveFollows(c, lines)
BY DEF Follows, OthersFollow, SaveFollows, About, Cleared, Adding, FirstSave, Given, UpTo

IsConf(c) == c = [s \in Settings |-> c[s]] /\ c["save"] \in Seq(Int \X Int)

\* The settings after a line that sets one of them.
Changed(c, l) == [c EXCEPT ![SettingOf(l.d)] = ValueOf(l.d, l.dir, @)]

\* One line more.
LEMMA AppendIs ==
  ASSUME NEW lines \in Seq(Read), NEW l \in Read
  PROVE  LET n == Len(lines)
             more == Append(lines, l)
         IN  /\ n \in Nat /\ DOMAIN lines = 1 .. n /\ DOMAIN more = 1 .. n + 1
             /\ \A i \in 1 .. n : more[i] = lines[i]
             /\ more[n + 1] = l
OBVIOUS

\* The lines about a setting when one line more is read.
LEMMA AboutMore ==
  ASSUME NEW lines \in Seq(Read), NEW l \in Read, NEW s
  PROVE  About(Append(lines, l), s) =
           About(lines, s) \cup (IF IsSetting(l.d) /\ SettingOf(l.d) = s THEN {Len(lines) + 1} ELSE {})
<1> DEFINE n == Len(lines)
           more == Append(lines, l)
           new == IF IsSetting(l.d) /\ SettingOf(l.d) = s THEN {n + 1} ELSE {}
<1>1. /\ n \in Nat /\ DOMAIN lines = 1 .. n /\ DOMAIN more = 1 .. n + 1
      /\ \A i \in 1 .. n : more[i] = lines[i]
      /\ more[n + 1] = l
  BY AppendIs
<1> HIDE DEF n, more
<1>2. ASSUME NEW i PROVE i \in About(more, s) <=> i \in About(lines, s) \cup new
  <2>1. CASE i \in 1 .. n
    <3>1. i \in 1 .. n + 1 /\ i # n + 1
      BY <1>1, <2>1
    <3> QED BY <1>1, <2>1, <3>1 DEF About
  <2>2. CASE i = n + 1
    <3>1. i \in 1 .. n + 1 /\ i \notin 1 .. n
      BY <1>1, <2>2
    <3> QED BY <1>1, <2>2, <3>1 DEF About
  <2>3. CASE i \notin 1 .. n /\ i # n + 1
    <3>1. i \notin 1 .. n + 1
      BY <1>1, <2>3
    <3> QED BY <1>1, <2>3, <3>1 DEF About
  <2> QED BY <2>1, <2>2, <2>3
<1> QED BY <1>2 DEF n, more

\* A set of lines: finite, and with a last one.
LEMMA AboutRange ==
  ASSUME NEW lines \in Seq(Read), NEW s
  PROVE  /\ Len(lines) \in Nat /\ About(lines, s) \subseteq 1 .. Len(lines)
         /\ Adding(lines) \subseteq 1 .. Len(lines) /\ Cleared(lines) \subseteq 1 .. Len(lines)
         /\ About(lines, s) # {} => Max(About(lines, s)) \in About(lines, s)
<1>1. Len(lines) \in Nat /\ DOMAIN lines = 1 .. Len(lines)
  OBVIOUS
<1>2. \A t : About(lines, t) \subseteq 1 .. Len(lines)
  BY <1>1 DEF About
<1>3. About(lines, s) # {} => Max(About(lines, s)) \in About(lines, s)
  <2>1. 1 .. Len(lines) \subseteq 0 .. Len(lines)
    BY <1>1
  <2>2. About(lines, s) \in SUBSET (0 .. Len(lines))
    BY <1>2, <2>1
  <2> QED BY <1>1, <2>2, MaxOfSet
<1> QED BY <1>1, <1>2, <1>3 DEF Adding, Cleared

\* A value does not depend on the value before, the save lines apart.
LEMMA ValueAlone ==
  ASSUME NEW d, NEW dir, NEW before, IsSetting(d), d.key # "save"
  PROVE  ValueOf(d, dir, before) = ValueOf(d, dir, <<>>)
BY DEF ValueOf, IsSetting

\* A directive that sets something is about a setting.
LEMMA SettingIs ==
  ASSUME NEW d, IsSetting(d)
  PROVE  /\ SettingOf(d) \in Settings
         /\ SettingOf(d) = "save" <=> d.key = "save"
BY DEF IsSetting, SettingOf, ClassOf, Settings, NumberKeys, TextKeys, LimitClasses

\* A line that sets nothing leaves what the settings follow.
LEMMA PassedOver ==
  ASSUME NEW lines \in Seq(Read), NEW l \in Read, ~IsSetting(l.d), NEW c, Follows(c, lines)
  PROVE  Follows(c, Append(lines, l))
<1> DEFINE more == Append(lines, l)
<1>1. ASSUME NEW s PROVE About(more, s) = About(lines, s)
  <2>1. About(more, s) = About(lines, s) \cup (IF IsSetting(l.d) /\ SettingOf(l.d) = s THEN {Len(lines) + 1} ELSE {})
    BY AboutMore
  <2> QED BY <2>1
<1>2. \A i \in 1 .. Len(lines) : more[i] = lines[i]
  BY AppendIs
<1>3. \A s : About(lines, s) \subseteq 1 .. Len(lines) /\ (About(lines, s) # {} => Max(About(lines, s)) \in 1 .. Len(lines))
  BY AboutRange
<1> HIDE DEF more
<1>4. Cleared(more) = Cleared(lines)
  BY <1>1, <1>2, <1>3 DEF Cleared
<1>5. Adding(more) = Adding(lines)
  BY <1>1, <1>4 DEF Adding
<1>6. FirstSave(more) = FirstSave(lines) /\ \A i : UpTo(more, i) = UpTo(lines, i)
  BY <1>4, <1>5 DEF FirstSave, UpTo
<1>7. OthersFollow(c, more)
  BY <1>1, <1>2, <1>3, FollowsIs DEF OthersFollow
<1>8. SaveFollows(c, more)
  <2>1. \A i \in Adding(lines) : more[i] = lines[i]
    BY <1>2, AboutRange
  <2> QED BY <1>5, <1>6, <2>1, FollowsIs DEF SaveFollows
<1> QED BY <1>7, <1>8, FollowsIs DEF more

\* A line that sets something: the setting follows it, the others as before.
LEMMA OthersSet ==
  ASSUME NEW lines \in Seq(Read), NEW l \in Read, IsSetting(l.d), NEW c, IsConf(c),
         OthersFollow(c, lines)
  PROVE  OthersFollow(Changed(c, l), Append(lines, l))
<1> DEFINE more == Append(lines, l)
           t == SettingOf(l.d)
           next == [c EXCEPT ![SettingOf(l.d)] = ValueOf(l.d, l.dir, @)]
           n == Len(lines)
<1> SUFFICES ASSUME NEW s \in Settings \ {"save"}
             PROVE  next[s] = IF About(more, s) = {} THEN Defaults[s] ELSE Given(more[Max(About(more, s))])
  BY DEF OthersFollow, Changed
<1>0. n \in Nat /\ (\A i \in 1 .. n : more[i] = lines[i]) /\ more[n + 1] = l
  BY AppendIs
<1>1. About(lines, s) \subseteq 1 .. n /\ (About(lines, s) # {} => Max(About(lines, s)) \in 1 .. n)
  BY AboutRange
<1>2. t \in Settings /\ (t = "save" <=> l.d.key = "save")
  BY SettingIs
<1>3. c[s] = IF About(lines, s) = {} THEN Defaults[s] ELSE Given(lines[Max(About(lines, s))])
  BY DEF OthersFollow
<1>4. CASE t = s
  <2>1. About(more, s) = About(lines, s) \cup {n + 1}
    BY <1>4, AboutMore
  <2>2. Max(About(more, s)) = n + 1
    <3>1. About(more, s) \in SUBSET (0 .. n + 1) /\ n + 1 \in About(more, s) /\ n + 1 \in Nat
      BY <1>0, <1>1, <2>1
    <3>2. Max(About(more, s)) \in About(more, s) /\ Max(About(more, s)) >= n + 1
      BY <3>1, MaxOfSet
    <3>3. Max(About(more, s)) \in 0 .. n + 1
      BY <3>1, <3>2
    <3> QED BY <1>0, <3>2, <3>3
  <2>3. next[s] = ValueOf(l.d, l.dir, c[s])
    BY <1>2, <1>4 DEF IsConf
  <2>4. next[s] = Given(l)
    BY <1>2, <1>4, <2>3, ValueAlone DEF Given
  <2>5. About(more, s) # {}
    BY <2>1
  <2> HIDE DEF next, more, n, t
  <2> QED BY <1>0, <2>2, <2>4, <2>5
<1>5. CASE t # s
  <2>1. About(more, s) = About(lines, s) \cup (IF IsSetting(l.d) /\ SettingOf(l.d) = s THEN {Len(lines) + 1} ELSE {})
    BY AboutMore
  <2>2. About(more, s) = About(lines, s)
    BY <1>5, <2>1
  <2>3. next[s] = c[s]
    BY <1>5 DEF IsConf
  <2> HIDE DEF next, more, n, t
  <2> QED BY <1>0, <1>1, <1>3, <2>2, <2>3
<1> QED BY <1>4, <1>5

\* The save lines when one line more, about saving or not, is read.
LEMMA SaveSet ==
  ASSUME NEW lines \in Seq(Read), NEW l \in Read, IsSetting(l.d), Valid(l.d), NEW c, IsConf(c),
         SaveFollows(c, lines)
  PROVE  SaveFollows(Changed(c, l), Append(lines, l)) /\ IsConf(Changed(c, l))
<1> DEFINE more == Append(lines, l)
           t == SettingOf(l.d)
           next == [c EXCEPT ![SettingOf(l.d)] = ValueOf(l.d, l.dir, @)]
           n == Len(lines)
<1>0. n \in Nat /\ (\A i \in 1 .. n : more[i] = lines[i]) /\ more[n + 1] = l
  BY AppendIs
<1>1. /\ About(lines, "save") \subseteq 1 .. n
      /\ Adding(lines) \subseteq 1 .. n /\ Cleared(lines) \subseteq 1 .. n
  BY AboutRange
<1>2. t \in Settings /\ (t = "save" <=> l.d.key = "save")
  BY SettingIs
<1>3. /\ next = [s \in Settings |-> next[s]]
      /\ t # "save" => next["save"] = c["save"]
      /\ t = "save" => next["save"] = ValueOf(l.d, l.dir, c["save"])
  <2>1. "save" \in Settings
    BY DEF Settings
  <2> QED BY <1>2, <2>1 DEF IsConf
<1>4. c["save"] \in Seq(Int \X Int)
  BY DEF IsConf
<1>5. /\ About(more, "save") = About(lines, "save") \cup (IF t = "save" THEN {n + 1} ELSE {})
  BY AboutMore
<1>6. n + 1 \notin 1 .. n
  BY <1>0
<1> HIDE DEF next, more, n, t
<1>7. CASE t # "save"
  <2>1. About(more, "save") = About(lines, "save")
    BY <1>5, <1>7
  <2>2. Cleared(more) = Cleared(lines)
    BY <1>0, <1>1, <2>1 DEF Cleared
  <2>3. Adding(more) = Adding(lines)
    BY <2>1, <2>2 DEF Adding
  <2>4. FirstSave(more) = FirstSave(lines) /\ \A i : UpTo(more, i) = UpTo(lines, i)
    BY <2>2, <2>3 DEF FirstSave, UpTo
  <2>5. \A i \in Adding(lines) : more[i] = lines[i]
    BY <1>0, <1>1
  <2>6. SaveFollows(next, more)
    BY <1>3, <1>7, <2>3, <2>4, <2>5 DEF SaveFollows
  <2>7. IsConf(next)
    BY <1>3, <1>4, <1>7 DEF IsConf
  <2> QED BY <2>6, <2>7 DEF next, more, Changed
<1>8. CASE t = "save" /\ l.d.val = <<>>
  <2>1. next["save"] = <<>>
    BY <1>2, <1>3, <1>8 DEF ValueOf, NumberKeys, TextKeys
  <2>2. About(more, "save") = About(lines, "save") \cup {n + 1}
    BY <1>5, <1>8
  <2>3. n + 1 \in Cleared(more)
    BY <1>0, <1>8, <2>2 DEF Cleared
  <2>4. Adding(more) = {}
    <3>1. ASSUME NEW i \in Adding(more) PROVE FALSE
      <4>1. i \in About(lines, "save") \cup {n + 1} /\ n + 1 < i
        BY <2>2, <2>3 DEF Adding
      <4> QED BY <1>0, <1>1, <4>1
    <3> QED BY <3>1
  <2>5. FirstSave(more) = <<>> /\ Cardinality(Adding(more)) = 0
    BY <2>3, <2>4, FS_EmptySet DEF FirstSave
  <2>6. Len(next["save"]) = 0 /\ DOMAIN FirstSave(more) = {} /\ Len(FirstSave(more)) = 0
    BY <2>1, <2>5
  <2>7. SaveFollows(next, more)
    BY <2>4, <2>5, <2>6 DEF SaveFollows
  <2>8. IsConf(next)
    <3>1. <<>> \in Seq(Int \X Int)
      OBVIOUS
    <3> QED BY <1>3, <2>1, <3>1 DEF IsConf
  <2> QED BY <2>7, <2>8 DEF next, more, Changed
<1>9. CASE t = "save" /\ l.d.val # <<>>
  <2> DEFINE x == SaveParam(l.d.val)
             first == FirstSave(lines)
             k == Len(first)
             C == Adding(lines)
  <2>1. next["save"] = Append(c["save"], x)
    BY <1>2, <1>3, <1>9 DEF ValueOf, NumberKeys, TextKeys
  <2>2. About(more, "save") = About(lines, "save") \cup {n + 1}
    BY <1>5, <1>9
  <2>3. Cleared(more) = Cleared(lines)
    <3>1. ASSUME NEW i PROVE i \in Cleared(more) <=> i \in Cleared(lines)
      <4>1. CASE i = n + 1
        BY <1>0, <1>1, <1>6, <1>9, <4>1 DEF Cleared
      <4>2. CASE i # n + 1
        BY <1>0, <1>1, <2>2, <4>2 DEF Cleared
      <4> QED BY <4>1, <4>2
    <3> QED BY <3>1
  <2>4. Adding(more) = C \cup {n + 1}
    <3>1. \A j \in Cleared(lines) : j < n + 1
      BY <1>0, <1>1
    <3> QED BY <2>2, <2>3, <3>1 DEF Adding
  <2>5. FirstSave(more) = first
    BY <2>3 DEF FirstSave
  <2>6. x \in Int \X Int
    <3>1. IsSaveParam(l.d.val)
      BY <1>2, <1>9 DEF Valid, NumberKeys, TextKeys
    <3>2. BaseIntOf[<<l.d.val[1], IntOf[l.d.val[2]]>>] \in Int
      BY <3>1, StartupAssumption DEF IsSaveParam
    <3> QED BY <3>2 DEF SaveParam
  <2>7. /\ IsFiniteSet(C) /\ Cardinality(C) \in Nat
        /\ \A D \in SUBSET C : IsFiniteSet(D) /\ Cardinality(D) \in Nat /\ Cardinality(D) <= Cardinality(C)
        /\ \A i \in C : Cardinality(UpTo(lines, i)) \in 1 .. Cardinality(C)
    <3>1. IsFiniteSet(1 .. n)
      BY <1>0, FS_Interval
    <3>2. IsFiniteSet(C)
      BY <1>1, <3>1, FS_Subset
    <3>3. \A D \in SUBSET C : IsFiniteSet(D) /\ Cardinality(D) \in Nat /\ Cardinality(D) <= Cardinality(C)
      BY <3>2, FS_Subset, FS_CardinalityType
    <3>4. Cardinality(C) \in Nat
      BY <3>2, FS_CardinalityType
    <3>5. ASSUME NEW i \in C PROVE Cardinality(UpTo(lines, i)) \in 1 .. Cardinality(C)
      <4>1. i \in UpTo(lines, i) /\ UpTo(lines, i) \in SUBSET C
        BY <1>1, <1>0 DEF UpTo
      <4>2. /\ IsFiniteSet(UpTo(lines, i)) /\ Cardinality(UpTo(lines, i)) \in Nat
            /\ Cardinality(UpTo(lines, i)) <= Cardinality(C)
        BY <3>3, <4>1
      <4>3. Cardinality(UpTo(lines, i)) # 0
        BY <4>1, <4>2, FS_EmptySet
      <4> QED BY <3>4, <4>2, <4>3
    <3> QED BY <3>2, <3>3, <3>4, <3>5
  <2>8. n + 1 \notin C /\ IsFiniteSet(C \cup {n + 1}) /\ Cardinality(C \cup {n + 1}) = Cardinality(C) + 1
    BY <1>1, <1>6, <2>7, FS_AddElement
  <2>9. first \in Seq(Int \X Int) /\ k \in Nat /\ DOMAIN first = 1 .. k
    <3>1. first \in Seq(Int \X Int)
      BY StartupAssumption DEF FirstSave
    <3> HIDE DEF first
    <3> QED BY <3>1
  <2>10. /\ Len(c["save"]) = k + Cardinality(C)
         /\ \A j \in 1 .. k : c["save"][j] = first[j]
         /\ \A i \in C : c["save"][k + Cardinality(UpTo(lines, i))] = SaveParam(lines[i].d.val)
    BY <2>9 DEF SaveFollows
  <2> HIDE DEF x, first, k, C
  <2>11. /\ Len(next["save"]) = k + Cardinality(C) + 1
         /\ \A j \in 1 .. k + Cardinality(C) : next["save"][j] = c["save"][j]
         /\ next["save"][k + Cardinality(C) + 1] = x
         /\ next["save"] \in Seq(Int \X Int)
    BY <1>4, <2>1, <2>6, <2>10
  <2>12. Len(next["save"]) = k + Cardinality(Adding(more))
    BY <2>4, <2>7, <2>8, <2>9, <2>11
  <2>13. ASSUME NEW j \in 1 .. k PROVE next["save"][j] = first[j]
    <3>1. j \in 1 .. k + Cardinality(C)
      BY <2>7, <2>9
    <3> QED BY <2>10, <2>11, <3>1
  <2>14. ASSUME NEW i \in Adding(more)
         PROVE  next["save"][k + Cardinality(UpTo(more, i))] = SaveParam(more[i].d.val)
    <3>1. CASE i \in C
      <4>1. i \in 1 .. n /\ more[i] = lines[i]
        BY <1>0, <1>1, <3>1 DEF C
      <4>2. UpTo(more, i) = UpTo(lines, i)
        <5>1. ~(n + 1 <= i)
          BY <1>0, <4>1
        <5> QED BY <2>4, <5>1 DEF UpTo, C
      <4>3. Cardinality(UpTo(lines, i)) \in 1 .. Cardinality(C)
        BY <2>7, <3>1
      <4>4. k + Cardinality(UpTo(lines, i)) \in 1 .. k + Cardinality(C)
        BY <2>7, <2>9, <4>3
      <4> QED BY <2>10, <2>11, <3>1, <4>1, <4>2, <4>4
    <3>2. CASE i = n + 1
      <4>1. UpTo(more, i) = C \cup {n + 1}
        <5>1. \A j \in C \cup {n + 1} : j <= i
          BY <1>0, <1>1, <3>2 DEF C
        <5> QED BY <2>4, <5>1 DEF UpTo
      <4>2. k + Cardinality(UpTo(more, i)) = k + Cardinality(C) + 1
        BY <2>7, <2>8, <2>9, <4>1
      <4>3. SaveParam(more[i].d.val) = x
        BY <1>0, <3>2 DEF x
      <4> QED BY <2>11, <4>2, <4>3
    <3> QED BY <2>4, <3>1, <3>2
  <2>15. SaveFollows(next, more)
    BY <2>5, <2>9, <2>12, <2>13, <2>14 DEF SaveFollows, k
  <2>16. IsConf(next)
    BY <1>3, <2>11 DEF IsConf
  <2> QED BY <2>15, <2>16 DEF next, more, Changed
<1> QED BY <1>7, <1>8, <1>9

\* Nothing read yet: the defaults.
LEMMA DefaultsFollow ==
  Follows(Defaults, <<>>) /\ IsConf(Defaults)
<1>1. \A s : About(<<>>, s) = {}
  BY DEF About
<1>2. Cleared(<<>>) = {} /\ Adding(<<>>) = {}
  BY <1>1 DEF Cleared, Adding
<1>3. FirstSave(<<>>) = Defaults["save"] /\ Cardinality(Adding(<<>>)) = 0
  BY <1>2, FS_EmptySet DEF FirstSave
<1>4. Len(Defaults["save"]) \in Nat
  BY StartupAssumption
<1>5. SaveFollows(Defaults, <<>>)
  BY <1>2, <1>3, <1>4 DEF SaveFollows
<1>6. OthersFollow(Defaults, <<>>)
  BY <1>1 DEF OthersFollow
<1> QED BY <1>5, <1>6, FollowsIs, StartupAssumption DEF IsConf

-----------------------------------------------------------------------------
\* What is left of the files when the first line of the innermost is through.
LEMMA RestIs ==
  ASSUME NEW s \in Seq(Seq(Directed)), s # <<>>, s[1] # <<>>
  PROVE  /\ FlattenSeq(s) # <<>> /\ FlattenSeq(s)[1] = s[1][1]
         /\ Rest(s) \in Seq(Seq(Directed)) /\ FlattenSeq(Rest(s)) = Tail(FlattenSeq(s))
         /\ FlattenSeq(s) \in Seq(Directed)
<1> DEFINE x == s[1]
           y == FlattenSeq(Tail(s))
<1>1. x \in Seq(Directed) /\ Tail(s) \in Seq(Seq(Directed)) /\ x # <<>>
  OBVIOUS
<1>2. y \in Seq(Directed)
  BY <1>1, FlattenType
<1>3. FlattenSeq(s) = x \o y
  BY FlattenFirst
<1>4. Tail(x) \in Seq(Directed)
  BY <1>1
<1>5. Rest(s) \in Seq(Seq(Directed)) /\ Rest(s) # <<>> /\ Rest(s)[1] = Tail(x) /\ Tail(Rest(s)) = Tail(s)
  <2> DEFINE r == Tail(s)
             h == Tail(x)
  <2>1. Rest(s) = <<h>> \o r
    BY DEF Rest
  <2>2. r \in Seq(Seq(Directed)) /\ h \in Seq(Directed)
    BY <1>1, <1>4
  <2> HIDE DEF r, h
  <2>3. /\ <<h>> \o r \in Seq(Seq(Directed)) /\ <<h>> \o r # <<>> /\ (<<h>> \o r)[1] = h
        /\ Tail(<<h>> \o r) = r
    BY <2>2
  <2> QED BY <2>1, <2>3 DEF r, h
<1>6. FlattenSeq(Rest(s)) = Tail(x) \o y
  BY <1>5, FlattenFirst
<1> HIDE DEF x, y
<1>7. x \o y # <<>> /\ (x \o y)[1] = x[1] /\ Tail(x \o y) = Tail(x) \o y /\ x \o y \in Seq(Directed)
  BY <1>1, <1>2
<1> QED BY <1>3, <1>5, <1>6, <1>7 DEF x

\* A file that is included stands in front of the rest.
LEMMA IncludedIs ==
  ASSUME NEW s \in Seq(Seq(Directed)), NEW lines \in Seq(Directed)
  PROVE  /\ Included(s, lines) \in Seq(Seq(Directed))
         /\ FlattenSeq(Included(s, lines)) = lines \o FlattenSeq(s)
<1>1. /\ <<lines>> \o s \in Seq(Seq(Directed)) /\ <<lines>> \o s # <<>> /\ (<<lines>> \o s)[1] = lines
      /\ Tail(<<lines>> \o s) = s
  OBVIOUS
<1>2. FlattenSeq(<<lines>> \o s) = lines \o FlattenSeq(s)
  BY <1>1, FlattenFirst
<1> QED BY <1>1, <1>2 DEF Included

\* A file that is through has nothing left.
LEMMA ThroughIs ==
  ASSUME NEW s \in Seq(Seq(Directed)), s # <<>>, s[1] = <<>>
  PROVE  Tail(s) \in Seq(Seq(Directed)) /\ FlattenSeq(Tail(s)) = FlattenSeq(s)
<1>1. Tail(s) \in Seq(Seq(Directed))
  OBVIOUS
<1>2. FlattenSeq(s) = <<>> \o FlattenSeq(Tail(s))
  BY FlattenFirst
<1>3. FlattenSeq(Tail(s)) \in Seq(Directed)
  BY <1>1, FlattenType
<1> QED BY <1>1, <1>2, <1>3

\* The start has read a part of its lines, the settings follow this part, and what
\* is left of the files is the other part.
HasRead(a, k, c, dir) ==
  \E r : ReadsTo(a, r) /\ r.rest = FlattenSeq(k) /\ r.dir = dir /\ Follows(c, r.lines)
LInv ==
  /\ args \in CommandLines
  /\ phase = "loading" =>
       /\ stack \in Seq(Seq(Directed)) /\ IsConf(conf)
       /\ HasRead(args, stack, conf, cwd)
  /\ phase = "running" => \E r : ReadsTo(args, r) /\ r.rest = <<>> /\ Follows(conf, r.lines)

\* A start has read nothing.
LEMMA HasReadNothing ==
  ASSUME NEW a \in CommandLines
  PROVE  <<Commanded(a)>> \in Seq(Seq(Directed)) /\ HasRead(a, <<Commanded(a)>>, Defaults, Home)
<1> DEFINE q == Commanded(a)
           f == [i \in 0 .. 0 |-> Opened(a)]
<1>1. q \in Seq(Directed)
  BY CommandedType
<1>2. Opened(a) \in Readings /\ Opened(a).rest = q /\ Opened(a).lines = <<>> /\ Opened(a).dir = Home
  BY OpenedType DEF Opened
<1>3. Reads(f, a, 0) /\ f[0] = Opened(a)
  <2>1. /\ f \in [0 .. 0 -> Readings]
        /\ \A i \in 0 .. 0 : i = 0 /\ f[i] = Opened(a)
    BY <1>2
  <2> HIDE DEF f
  <2> QED BY <2>1 DEF Reads
<1> HIDE DEF q
<1>4. <<q>> \in Seq(Seq(Directed)) /\ FlattenSeq(<<q>>) = q
  <2>1. /\ <<q>> \in Seq(Seq(Directed)) /\ <<q>> # <<>> /\ <<q>>[1] = q /\ Tail(<<q>>) = <<>>
    BY <1>1
  <2>2. FlattenSeq(<<q>>) = q \o FlattenSeq(<<>>)
    BY <2>1, FlattenFirst
  <2>3. FlattenSeq(<<>>) = <<>>
    BY DEF FlattenSeq
  <2> QED BY <1>1, <2>1, <2>2, <2>3
<1>5. Follows(Defaults, <<>>)
  BY DefaultsFollow
<1>6. ReadsTo(a, Opened(a))
  BY <1>3 DEF ReadsTo
<1> QED BY <1>2, <1>4, <1>5, <1>6 DEF HasRead, q

\* One line further: what Onward does to a reading that is where the start is, and
\* the settings follow the lines before this one.
LineAt(a, k, c, dir, lines, l) ==
  LET d == k[1][1]
      file == Place(dir, d.val[1])
      goal == <<dir, d.val[1]>>
  IN  /\ lines \in Seq(Read) /\ l \in Read /\ l.d = d /\ l.dir = dir /\ Follows(c, lines)
      /\ ReadsTo(a, [lines |-> Append(lines, l),
                     rest |-> (IF d.key = "include" /\ file \in DOMAIN Files
                               THEN Directives(Files[file]) ELSE <<>>) \o FlattenSeq(Rest(k)),
                     dir |-> IF d.key = "dir" /\ goal \in DOMAIN Into THEN Into[goal] ELSE dir])

\* There are such lines.
LEMMA ReadsALine ==
  ASSUME NEW a \in CommandLines, NEW k \in Seq(Seq(Directed)), NEW c, NEW dir, HasRead(a, k, c, dir),
         k # <<>>, k[1] # <<>>
  PROVE  \E lines, l : LineAt(a, k, c, dir, lines, l)
<1> DEFINE d == k[1][1]
           l == [d |-> d, dir |-> dir]
<1>1. PICK r : ReadsTo(a, r) /\ r.rest = FlattenSeq(k) /\ r.dir = dir /\ Follows(c, r.lines)
  BY DEF HasRead
<1>2. r \in Readings /\ ReadsTo(a, Onward(r))
  BY <1>1, ReadsFurther
<1>3. r.rest # <<>> /\ r.rest[1] = d /\ Tail(r.rest) = FlattenSeq(Rest(k))
  BY <1>1, RestIs
<1>4. r.lines \in Seq(Read) /\ r.rest \in Seq(Directed) /\ r.dir \in Dirs
  BY <1>2 DEF Readings
<1>5. l \in Read /\ l.d = d /\ l.dir = dir
  <2>1. r.rest[1] \in Directed
    BY <1>3, <1>4
  <2> HIDE DEF d
  <2> QED BY <1>1, <1>3, <1>4, <2>1 DEF Read
<1> HIDE DEF d
<1>6. Onward(r) = [lines |-> Append(r.lines, l),
                   rest |-> (IF d.key = "include" /\ Place(dir, d.val[1]) \in DOMAIN Files
                             THEN Directives(Files[Place(dir, d.val[1])]) ELSE <<>>) \o FlattenSeq(Rest(k)),
                   dir |-> IF d.key = "dir" /\ <<dir, d.val[1]>> \in DOMAIN Into
                           THEN Into[<<dir, d.val[1]>>] ELSE dir]
  BY <1>1, <1>3 DEF Onward
<1> HIDE DEF l
<1>7. LineAt(a, k, c, dir, r.lines, l)
  BY <1>1, <1>2, <1>4, <1>5, <1>6 DEF d, LineAt
<1> QED BY <1>7

\* A directive that sets something.
LEMMA SetsOn ==
  ASSUME LInv, phase = "loading", Loading, IsSetting(This), Valid(This),
         conf' = Applied(This), stack' = Rest(stack), cwd' = cwd, args' = args
  PROVE  stack' \in Seq(Seq(Directed)) /\ IsConf(conf') /\ HasRead(args', stack', conf', cwd')
<1> DEFINE d == This
<1>1. /\ stack \in Seq(Seq(Directed)) /\ IsConf(conf) /\ HasRead(args, stack, conf, cwd)
      /\ stack # <<>> /\ stack[1] # <<>> /\ args \in CommandLines /\ d = stack[1][1]
  BY DEF LInv, Loading, This
<1>13. PICK lines, l : LineAt(args, stack, conf, cwd, lines, l)
  BY <1>1, ReadsALine
<1>2. /\ lines \in Seq(Read) /\ l \in Read /\ l.d = d /\ l.dir = cwd /\ Follows(conf, lines)
      /\ ReadsTo(args, [lines |-> Append(lines, l),
                        rest |-> (IF d.key = "include" /\ Place(cwd, d.val[1]) \in DOMAIN Files
                                  THEN Directives(Files[Place(cwd, d.val[1])]) ELSE <<>>) \o FlattenSeq(Rest(stack)),
                        dir |-> IF d.key = "dir" /\ <<cwd, d.val[1]>> \in DOMAIN Into
                                THEN Into[<<cwd, d.val[1]>>] ELSE cwd])
  BY <1>1, <1>13 DEF LineAt
<1>3. d.key # "dir" /\ d.key # "include"
  BY KeysApart
<1>4. Rest(stack) \in Seq(Seq(Directed)) /\ FlattenSeq(Rest(stack)) \in Seq(Directed)
  BY <1>1, RestIs, FlattenType
<1>5. <<>> \o FlattenSeq(Rest(stack)) = FlattenSeq(Rest(stack))
  BY <1>4
<1> HIDE DEF d
<1> DEFINE next == [lines |-> Append(lines, l), rest |-> FlattenSeq(Rest(stack)), dir |-> cwd]
<1>6. ReadsTo(args, next)
  BY <1>2, <1>3, <1>5
<1>7. conf' = Changed(conf, l)
  BY <1>2 DEF Applied, Changed, d
<1>8. IsSetting(l.d) /\ Valid(l.d)
  BY <1>2 DEF d
<1>9. OthersFollow(conf, lines) /\ SaveFollows(conf, lines)
  BY <1>2, FollowsIs
<1>10. OthersFollow(conf', Append(lines, l))
  BY <1>1, <1>2, <1>7, <1>8, <1>9, OthersSet
<1>11. SaveFollows(conf', Append(lines, l)) /\ IsConf(conf')
  BY <1>1, <1>2, <1>7, <1>8, <1>9, SaveSet
<1>12. Follows(conf', next.lines) /\ next.rest = FlattenSeq(stack') /\ next.dir = cwd'
  BY <1>10, <1>11, FollowsIs
<1> HIDE DEF next
<1> QED BY <1>4, <1>6, <1>11, <1>12 DEF HasRead

\* A directive that sets nothing.
LEMMA GoesOn ==
  ASSUME LInv, ChangeDir \/ Include \/ Skip
  PROVE  stack' \in Seq(Seq(Directed)) /\ IsConf(conf') /\ HasRead(args', stack', conf', cwd')
<1> DEFINE d == This
<1>0. /\ phase = "loading" /\ Loading /\ ~IsSetting(d) /\ conf' = conf /\ args' = args
  BY KeysApart DEF ChangeDir, Include, Skip, Loading
<1>1. /\ stack \in Seq(Seq(Directed)) /\ IsConf(conf) /\ HasRead(args, stack, conf, cwd)
      /\ stack # <<>> /\ stack[1] # <<>> /\ args \in CommandLines /\ d = stack[1][1]
  BY <1>0 DEF LInv, Loading, This
<1>9. PICK lines, l : LineAt(args, stack, conf, cwd, lines, l)
  BY <1>1, ReadsALine
<1>2. /\ lines \in Seq(Read) /\ l \in Read /\ l.d = d /\ l.dir = cwd /\ Follows(conf, lines)
      /\ ReadsTo(args, [lines |-> Append(lines, l),
                        rest |-> (IF d.key = "include" /\ Place(cwd, d.val[1]) \in DOMAIN Files
                                  THEN Directives(Files[Place(cwd, d.val[1])]) ELSE <<>>) \o FlattenSeq(Rest(stack)),
                        dir |-> IF d.key = "dir" /\ <<cwd, d.val[1]>> \in DOMAIN Into
                                THEN Into[<<cwd, d.val[1]>>] ELSE cwd])
  BY <1>1, <1>9 DEF LineAt
<1>3. Rest(stack) \in Seq(Seq(Directed)) /\ FlattenSeq(Rest(stack)) \in Seq(Directed)
  BY <1>1, RestIs, FlattenType
<1>4. <<>> \o FlattenSeq(Rest(stack)) = FlattenSeq(Rest(stack))
  BY <1>3
<1> HIDE DEF d
<1>5. Follows(conf, Append(lines, l))
  BY <1>0, <1>2, PassedOver
<1>6. CASE ChangeDir
  <2> DEFINE next == [lines |-> Append(lines, l), rest |-> FlattenSeq(Rest(stack)),
                      dir |-> Into[<<cwd, d.val[1]>>]]
  <2>1. /\ d.key = "dir" /\ <<cwd, d.val[1]>> \in DOMAIN Into
        /\ cwd' = Into[<<cwd, d.val[1]>>] /\ stack' = Rest(stack)
    BY <1>6 DEF ChangeDir, Target, d
  <2>2. ReadsTo(args, next)
    BY <1>2, <1>4, <2>1
  <2>3. next.rest = FlattenSeq(stack') /\ next.dir = cwd' /\ next.lines = Append(lines, l)
    BY <2>1
  <2> HIDE DEF next
  <2> QED BY <1>0, <1>1, <1>3, <1>5, <2>1, <2>2, <2>3 DEF HasRead
<1>7. CASE Include
  <2> DEFINE file == Place(cwd, d.val[1])
             next == [lines |-> Append(lines, l), rest |-> Directives(Files[file]) \o FlattenSeq(Rest(stack)),
                      dir |-> cwd]
  <2>1. /\ d.key = "include" /\ file \in DOMAIN Files
        /\ cwd' = cwd /\ stack' = Included(Rest(stack), Directives(Files[file]))
    BY <1>7 DEF Include, Includable, d
  <2>2. ReadsTo(args, next)
    BY <1>2, <2>1
  <2>3. Directives(Files[file]) \in Seq(Directed)
    <3> HIDE DEF file
    <3> QED BY <2>1, FileType
  <2>4. stack' \in Seq(Seq(Directed)) /\ FlattenSeq(stack') = next.rest
    BY <1>3, <2>1, <2>3, IncludedIs
  <2>5. next.dir = cwd' /\ next.lines = Append(lines, l)
    BY <2>1
  <2> HIDE DEF next
  <2> QED BY <1>0, <1>1, <1>5, <2>2, <2>4, <2>5 DEF HasRead
<1>8. CASE Skip
  <2> DEFINE next == [lines |-> Append(lines, l), rest |-> FlattenSeq(Rest(stack)), dir |-> cwd]
  <2>1. d.key # "dir" /\ d.key # "include" /\ cwd' = cwd /\ stack' = Rest(stack)
    BY <1>8 DEF Skip, d
  <2>2. ReadsTo(args, next)
    BY <1>2, <1>4, <2>1
  <2>3. next.rest = FlattenSeq(stack') /\ next.dir = cwd' /\ next.lines = Append(lines, l)
    BY <2>1
  <2> HIDE DEF next
  <2> QED BY <1>0, <1>1, <1>3, <1>5, <2>1, <2>2, <2>3 DEF HasRead
<1> QED BY <1>6, <1>7, <1>8

\* Every step of a start keeps this.
LEMMA LInvStep ==
  ASSUME LInv, [StartupNext]_startVars
  PROVE  LInv'
<1>1. CASE UNCHANGED startVars
  BY <1>1 DEF startVars, LInv, HasRead
<1>2. CASE Start
  <2>1. PICK a \in CommandLines :
          /\ args' = a /\ stack' = <<Commanded(a)>>
          /\ phase' = IF Twice(a.options) THEN "failed" ELSE "loading"
    BY <1>2 DEF Start
  <2>2. conf' = Defaults /\ cwd' = Home
    BY <1>2 DEF Start
  <2>3. stack' \in Seq(Seq(Directed)) /\ HasRead(args', stack', conf', cwd')
    BY <2>1, <2>2, HasReadNothing
  <2>4. IsConf(conf')
    BY <2>2, DefaultsFollow
  <2> QED BY <2>1, <2>3, <2>4 DEF LInv
<1>3. CASE Set
  <2>1. /\ Loading /\ IsSetting(This) /\ Valid(This) /\ phase = "loading" /\ phase' = phase
        /\ conf' = Applied(This) /\ stack' = Rest(stack) /\ cwd' = cwd /\ args' = args
    BY <1>3 DEF Set, Loading
  <2> QED BY <2>1, SetsOn DEF LInv
<1>4. CASE SetAppendFilename
  <2>1. /\ Loading /\ This.key = "appendfilename" /\ Valid(This) /\ phase = "loading"
        /\ cwd' = cwd /\ args' = args
    BY <1>4 DEF SetAppendFilename, Loading
  <2>2. CASE Ends("failed")
    BY <2>1, <2>2 DEF Ends, LInv
  <2>3. CASE conf' = Applied(This) /\ stack' = Rest(stack) /\ phase' = phase
    <3>1. IsSetting(This)
      BY <2>1, KeysApart
    <3> QED BY <2>1, <2>3, <3>1, SetsOn DEF LInv
  <2> QED BY <1>4, <2>2, <2>3 DEF SetAppendFilename
<1>5. CASE ChangeDir \/ Include \/ Skip
  <2>1. phase' = "loading" /\ phase = "loading" /\ args' = args
    BY <1>5 DEF ChangeDir, Include, Skip, Loading
  <2> QED BY <1>5, <2>1, GoesOn DEF LInv
<1>6. CASE FileEnds
  <2>1. /\ phase = "loading" /\ phase' = "loading" /\ stack # <<>> /\ stack[1] = <<>> /\ stack' = Tail(stack)
        /\ args' = args /\ conf' = conf /\ cwd' = cwd
    BY <1>6 DEF FileEnds
  <2>2. stack \in Seq(Seq(Directed)) /\ IsConf(conf) /\ HasRead(args, stack, conf, cwd)
    BY <2>1 DEF LInv
  <2>3. stack' \in Seq(Seq(Directed)) /\ FlattenSeq(stack') = FlattenSeq(stack)
    BY <2>1, <2>2, ThroughIs
  <2> QED BY <2>1, <2>2, <2>3 DEF LInv, HasRead
<1>7. CASE Raise
  BY <1>7 DEF Raise, Ends, LInv
<1>8. CASE OpenServer
  <2>1. /\ phase = "loading" /\ stack = <<>> /\ args' = args /\ conf' = conf
        /\ phase' \in {"running", "failed"}
    BY <1>8 DEF OpenServer, Ends
  <2>2. PICK r : ReadsTo(args, r) /\ r.rest = FlattenSeq(stack) /\ Follows(conf, r.lines)
    BY <2>1 DEF LInv, HasRead
  <2>3. r.rest = <<>>
    BY <2>1, <2>2 DEF FlattenSeq
  <2> QED BY <2>1, <2>2, <2>3 DEF LInv
<1>9. CASE Stop
  BY <1>9 DEF Stop, LInv
<1> QED BY <1>1, <1>2, <1>3, <1>4, <1>5, <1>6, <1>7, <1>8, <1>9 DEF StartupNext, Load

\* It holds before the first start.
LEMMA LInvInit ==
  ASSUME StartupInit
  PROVE  LInv
BY DEF StartupInit, LInv

\* A running server has read all of its lines.
LEMMA LastLineFollows ==
  ASSUME LInv
  PROVE  LastLineWins
<1> SUFFICES ASSUME phase = "running", Reading(args).rest = <<>>
             PROVE  Follows(conf, Reading(args).lines)
  BY DEF LastLineWins
<1>1. PICK r : ReadsTo(args, r) /\ r.rest = <<>> /\ Follows(conf, r.lines)
  BY DEF LInv
<1>2. args \in CommandLines
  BY DEF LInv
<1>3. Reading(args) = r
  BY <1>1, <1>2, ReadsThrough
<1> QED BY <1>1, <1>3

\* In a running server every setting has the value of the last line about it, in the
\* order of the files with each include in its place and the directory in force
\* there, as loadServerConfig promises; save lines add up since the last empty one.
THEOREM SettingsFollowLines == StartupSpec => []LastLineWins
<1>1. StartupInit => LInv
  BY LInvInit
<1>2. LInv /\ [StartupNext]_startVars => LInv'
  BY LInvStep
<1>3. LInv => LastLineWins
  BY LastLineFollows
<1> QED BY <1>1, <1>2, <1>3, PTL DEF StartupSpec
===============================================================================
