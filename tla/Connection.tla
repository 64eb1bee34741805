----------------------------- MODULE Connection -----------------------------
(***************************************************************************)
(* The life of the editor's WebSocket (cmd/server/static/connection.js, as *)
(* app.js uses it): sockets that open, fail and close when they like, the  *)
(* probe before each reconnection (probeSession), the delay after it, the  *)
(* app that asks for a connection meanwhile (the bootstrap, the browser    *)
(* back online) or stops for good (handleExpired).                         *)
(*                                                                         *)
(* Beside the variables of createConnection there is what they are to      *)
(* account for: the sockets the browser still has, the timers it has to    *)
(* run and the probes that have not come back.  Frames, which change none  *)
(* of it, and the length of the delay are left out.                        *)
(***************************************************************************)
EXTENDS Naturals

CONSTANT Socket   \* the browser's sockets; one is used again once it has closed

None == CHOOSE n : n \notin Socket   \* null

VARIABLES
  socket,     \* the current one
  timer,      \* is there a reconnection timer in the variable?
  deciding,
  kicked,
  stopped,
  alive,      \* those whose close event has not been handled
  scheduled,  \* timers that were scheduled, and neither ran nor were cancelled
  probes,     \* calls of shouldReconnect that are awaited
  begun       \* has the app asked for a connection?

vars == <<socket, timer, deciding, kicked, stopped, alive, scheduled, probes, begun>>

TypeOK ==
  /\ socket \in Socket \cup {None}
  /\ timer \in BOOLEAN /\ deciding \in BOOLEAN /\ kicked \in BOOLEAN
  /\ stopped \in BOOLEAN /\ begun \in BOOLEAN
  /\ alive \in SUBSET Socket
  /\ scheduled \in Nat /\ probes \in Nat

Init ==
  /\ socket = None
  /\ timer = FALSE /\ deciding = FALSE /\ kicked = FALSE
  /\ stopped = FALSE /\ begun = FALSE
  /\ alive = {}
  /\ scheduled = 0 /\ probes = 0

-----------------------------------------------------------------------------
\* clearTimer.
ClearTimer ==
  /\ timer' = FALSE
  /\ scheduled' = IF timer THEN scheduled - 1 ELSE scheduled

\* retry, up to its await, with `n` probes awaited already.
Retry(n) ==
  IF stopped THEN UNCHANGED <<deciding, kicked>> /\ probes' = n
  ELSE deciding' = TRUE /\ kicked' = FALSE /\ probes' = n + 1

\* open() succeeds, or throws and is retried; `n` probes are awaited already.
Open(n) ==
  \/ /\ \E s \in Socket \ alive : socket' = s /\ alive' = alive \cup {s}
     /\ deciding' = FALSE
     /\ probes' = n
     /\ UNCHANGED kicked
  \/ /\ Retry(n)
     /\ UNCHANGED <<socket, alive>>

\* connect, called by the app: a decision under way is told, a socket is
\* enough, a delay is cut short.
Connect ==
  /\ ~stopped
  /\ begun' = TRUE
  /\ \/ /\ deciding
        /\ kicked' = TRUE
        /\ UNCHANGED <<socket, timer, deciding, alive, scheduled, probes>>
     \/ /\ ~deciding /\ socket = None
        /\ ClearTimer
        /\ Open(probes)
  /\ UNCHANGED stopped

\* The timer runs: connect again.
TimerRuns ==
  /\ scheduled > 0
  /\ timer' = FALSE
  /\ scheduled' = scheduled - 1
  /\ \/ /\ ~stopped /\ ~deciding /\ socket = None
        /\ Open(probes)
     \/ /\ ~stopped /\ deciding
        /\ kicked' = TRUE
        /\ UNCHANGED <<socket, deciding, alive, probes>>
     \/ /\ stopped \/ (~deciding /\ socket # None)
        /\ UNCHANGED <<socket, deciding, kicked, alive, probes>>
  /\ UNCHANGED <<stopped, begun>>

\* retry, once shouldReconnect has answered: the session is gone, or the
\* connection was stopped meanwhile.
GiveUp ==
  /\ probes > 0
  /\ deciding' = FALSE /\ probes' = probes - 1
  /\ stopped' = TRUE
  /\ UNCHANGED <<socket, timer, kicked, alive, scheduled, begun>>

\* Or somebody asked for a connection meanwhile: connect.
GoOn ==
  /\ probes > 0 /\ ~stopped /\ kicked
  /\ \/ /\ socket = None
        /\ ClearTimer
        /\ Open(probes - 1)
     \/ /\ socket # None
        /\ deciding' = FALSE /\ probes' = probes - 1
        /\ UNCHANGED <<socket, timer, kicked, alive, scheduled>>
  /\ UNCHANGED <<stopped, begun>>

\* Or there is a delay.
BackOff ==
  /\ probes > 0 /\ ~stopped /\ ~kicked
  /\ deciding' = FALSE /\ probes' = probes - 1
  /\ timer' = TRUE
  /\ scheduled' = scheduled + 1
  /\ UNCHANGED <<socket, kicked, stopped, alive, begun>>

\* A socket's close event, for whatever reason; late, if the socket is not the
\* current one any more.
Close(s) ==
  /\ s \in alive
  /\ alive' = alive \ {s}
  /\ IF socket = s
     THEN socket' = None /\ Retry(probes)
     ELSE UNCHANGED <<socket, deciding, kicked, probes>>
  /\ UNCHANGED <<timer, stopped, scheduled, begun>>

\* stop, by handleExpired.
Stop ==
  /\ stopped' = TRUE
  /\ ClearTimer
  /\ socket' = None
  /\ UNCHANGED <<deciding, kicked, alive, probes, begun>>

Next ==
  \/ Connect \/ TimerRuns \/ GiveUp \/ GoOn \/ BackOff \/ Stop
  \/ \E s \in alive : Close(s)

Spec == Init /\ [][Next]_vars

-----------------------------------------------------------------------------
(***************************************************************************)
(* Properties                                                              *)
(***************************************************************************)

\* "At most one socket is alive at a time": two would apply two streams of
\* updates to one editor.
OneSocket == \A s, t \in alive : s = t

\* A client that has not stopped has a socket, or waits for one in exactly one
\* way, the delay or the probe: it is neither left without, nor about to open
\* two.  What is scheduled or awaited is accounted for by the variables.
OneWayOn ==
  /\ probes = (IF deciding THEN 1 ELSE 0)
  /\ scheduled = (IF timer THEN 1 ELSE 0)
  /\ ~(deciding /\ timer) /\ (deciding \/ timer => socket = None)
  /\ begun /\ ~stopped => socket # None \/ deciding \/ timer

\* "Close for good: no more sockets, no more reconnects": not even by a probe
\* that was awaited at the time.
StopIsFinal == [][stopped => stopped' /\ alive' \subseteq alive /\ ~timer']_vars
=============================================================================
