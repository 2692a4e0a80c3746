--------------------------------- MODULE MCAe ---------------------------------
(* Ae on small instances; the .cfg files give the constants their values.    *)
EXTENDS Ae

CONSTANT p   \* one of the procedures

\* Bounds of the run over the whole loop.  It looks at registrations with three
\* descriptors at one instant, and at time events with one descriptor.  The
\* third descriptor is only ever read, and by one procedure: it is there for
\* maxfd, the others for the procedures.
Registrations ==
  /\ clock = 0 /\ el.lastTime = 0 /\ \A te \in ToSet(el.timers) : When(te) = 1
  /\ Len(el.timers) <= 1
  /\ el.wproc[2] = NoProc /\ el.rproc[2] \in {NoProc, p}

TimeEvents == \A fd \in Fds : el.rproc[fd] = NoProc /\ el.wproc[fd] = NoProc

RegistrationsOrTimeEvents == Registrations \/ TimeEvents
=============================================================================
