----------------------------- MODULE LockKeeper -----------------------------
(***************************************************************************)
(* How an editor keeps its lock while somebody works in it, and gives it   *)
(* up when nobody does: the heartbeats and the idle release of app.js and  *)
(* lock.js, the lock they are about (internal/handlers/lock.go, ws.go) and *)
(* the connection between them, which takes its time.                      *)
(*                                                                         *)
(* Times are how long ago something was or how far off it is, in ticks of  *)
(* the clock.  The connection is one that stays; messages and timers are   *)
(* late by bounded times.  The server answers one message after another,   *)
(* but queues an answer after it has given up the lock's mutex, so that    *)
(* announcements may overtake it.  A page may be suspended at any time and *)
(* for any time, its timers and what arrives waiting.  An edit is stored   *)
(* within the step that takes the lock for it, and the lock of somebody    *)
(* else ends when it likes.                                                *)
(***************************************************************************)
EXTENDS Integers, Sequences

CONSTANTS
  TTL,          \* LOCK_TTL
  MinBeat,      \* minMs and maxMs of nextHeartbeatDelayMs
  MaxBeat,
  IdleRelease,  \* IDLE_RELEASE_MS
  Delay,        \* a message is handled within this time
  Late,         \* and a timer fires
  Skew,         \* by how much the clocks differ, at most
  MaxUnder      \* bound: messages under way, above which nobody starts anything

LargestOf(a, b) == IF a > b THEN a ELSE b
SmallestOf(a, b) == IF a < b THEN a ELSE b

\* The longest pause between two heartbeats.
LongestBeat == LargestOf(MinBeat, SmallestOf(MaxBeat, (TTL + Skew) \div 2))

ASSUME KeeperConstants ==
  /\ {TTL, MinBeat, MaxBeat, IdleRelease, MaxUnder} \subseteq Nat \ {0}
  /\ {Delay, Late, Skew} \subseteq Nat

\* What LOCK_TTL has to leave room for.
ASSUME BeatsInTime == LongestBeat + Late + 2 * Delay < TTL

VARIABLES
  left,       \* until the lock, held by this client, lapses; 0: it is not held
  other,      \* somebody else holds it
  told,       \* the holder the room was last told
  reply,      \* an answer computed and not queued yet
  skew,       \* the client's clock is behind by this
  awake,      \* the page is not suspended
  slept,      \* it was, since the lock was last taken or refreshed
  state,      \* lockState
  shown,      \* until lockExpiresAt, by the client's clock; 0: or past
  beat,       \* heartbeatTimer
  idle,       \* idleTimer
  uploading,  \* uploadsInFlight > 0
  dirty,      \* an edit waits to be sent
  up, down    \* messages under way, to the server and to the client

server == <<left, other, told, reply>>
timers == <<beat, idle>>
user == <<uploading, dirty>>
client == <<state, shown, timers, user>>
page == <<awake, slept>>
vars == <<server, skew, page, client, up, down>>

Holder == {"free", "mine", "theirs"}
Stopped == [on |-> FALSE, due |-> 0]
In(n) == [on |-> TRUE, due |-> n]
Timer(longest) == {Stopped} \cup {In(n) : n \in (-Late)..longest}
LockMessage == [holder : Holder, age : 0..(TTL + Skew)]

TypeOK ==
  /\ left \in 0..TTL
  /\ other \in BOOLEAN
  /\ left > 0 => ~other
  /\ told \in Holder
  /\ reply \in {<<>>} \cup {<<m>> : m \in LockMessage}
  /\ skew \in (-Skew)..Skew
  /\ awake \in BOOLEAN
  /\ slept \in BOOLEAN
  /\ awake \/ slept
  /\ state \in Holder
  /\ shown \in 0..(TTL + Skew)
  /\ beat \in Timer(LongestBeat)
  /\ idle \in Timer(IdleRelease)
  /\ uploading \in BOOLEAN
  /\ dirty \in BOOLEAN
  /\ up \in Seq([kind : {"acquire", "edit", "heartbeat", "release"}, age : 0..Delay])
  /\ down \in Seq(LockMessage)

Init ==
  /\ left = 0
  /\ other = FALSE
  /\ told = "free"
  /\ reply = <<>>
  /\ skew \in (-Skew)..Skew
  /\ awake = TRUE
  /\ slept = FALSE
  /\ state = "free"
  /\ shown = 0
  /\ beat = Stopped
  /\ idle = Stopped
  /\ uploading = FALSE
  /\ dirty = FALSE
  /\ up = <<>>
  /\ down = <<>>

-----------------------------------------------------------------------------
(* The server *)

Message(holder) == [holder |-> holder, age |-> 0]
Current == IF left > 0 THEN "mine" ELSE IF other THEN "theirs" ELSE "free"

\* liveLocked: whoever finds a lock that has lapsed ends and announces it first.
NoneLapsed == ~(left = 0 /\ told = "mine")

\* Mutant of Announce: as a text, sent to all but who caused it.
AnnounceToOthers(holder) == told' = holder /\ down' = down

\* announceLocked: whoever watches hears of a holder that is another.
Announce(holder) ==
  /\ told' = holder
  /\ down' = IF told = holder THEN down ELSE Append(down, Message(holder))

Take ==
  /\ up # <<>>
  /\ NoneLapsed
  /\ reply = <<>>
  /\ up' = Tail(up)

\* lock_acquire, and the lock of an edit: taken or refreshed, unless another
\* has it.  Only the former is answered with the lock, when nothing is announced.
Acquire ==
  /\ Take
  /\ Head(up).kind \in {"acquire", "edit"}
  /\ IF other
     THEN /\ reply' = <<Message("theirs")>>
          /\ UNCHANGED <<left, told, slept, down>>
     ELSE /\ left' = TTL
          /\ slept' = ~awake
          /\ Announce("mine")
          /\ reply' = IF told = "mine" /\ Head(up).kind = "acquire" THEN <<Message("mine")>> ELSE <<>>
  /\ UNCHANGED <<other, skew, awake, client>>

\* lock_heartbeat: refreshed and answered with the new expiry, or refused.
Heartbeat ==
  /\ Take
  /\ Head(up).kind = "heartbeat"
  /\ left' = IF left > 0 THEN TTL ELSE 0
  /\ slept' = IF left > 0 THEN ~awake ELSE slept
  /\ reply' = <<Message(Current)>>
  /\ UNCHANGED <<other, told, skew, awake, client, down>>

\* lock_release, which only a holder's does anything.
Release ==
  /\ Take
  /\ Head(up).kind = "release"
  /\ left' = 0
  /\ Announce(IF other THEN "theirs" ELSE "free")
  /\ UNCHANGED <<other, reply, skew, page, client>>

\* The answer is queued, behind what was announced meanwhile.
Answer ==
  /\ reply # <<>>
  /\ down' = down \o reply
  /\ reply' = <<>>
  /\ UNCHANGED <<left, other, told, skew, page, client, up>>

\* The timer of a lock that has lapsed, or whoever finds it before that.
Expire ==
  /\ ~NoneLapsed
  /\ Announce("free")
  /\ UNCHANGED <<left, other, reply, skew, page, client, up>>

\* Somebody else takes the lock or gives it up.
PeerTakes ==
  /\ left = 0 /\ ~other /\ NoneLapsed
  /\ Len(up \o reply \o down) < MaxUnder
  /\ other' = TRUE
  /\ Announce("theirs")
  /\ UNCHANGED <<left, reply, skew, page, client, up>>

PeerGoes ==
  /\ other
  /\ Len(up \o reply \o down) < MaxUnder
  /\ other' = FALSE
  /\ Announce("free")
  /\ UNCHANGED <<left, reply, skew, page, client, up>>

-----------------------------------------------------------------------------
(* The client *)

Send(kind) == Append(up, [kind |-> kind, age |-> 0])

\* nextHeartbeatDelayMs: half of what is left by the own clock, within limits.
NextBeat(remaining) == LargestOf(MinBeat, SmallestOf(MaxBeat, remaining \div 2))

\* scheduleIdleRelease.
Countdown == idle' = IF state = "mine" THEN In(IdleRelease) ELSE Stopped

\* Mutant of Hear: only a lock that is new sets the heartbeat going.
HearOnce ==
  /\ awake
  /\ down # <<>>
  /\ down' = Tail(down)
  /\ state' = Head(down).holder
  /\ shown' = IF state' = "mine" THEN LargestOf(0, TTL - Head(down).age + skew) ELSE 0
  /\ IF state' = "mine"
     THEN /\ beat' = IF state = "mine" THEN Stopped ELSE In(NextBeat(shown'))
          /\ idle' = IF state = "mine" THEN idle ELSE In(IdleRelease)
     ELSE beat' = Stopped /\ idle' = Stopped
  /\ dirty' = (dirty /\ state' # "theirs")
  /\ UNCHANGED <<server, skew, page, uploading, up>>

\* Mutant of Hear: every answer starts the countdown anew.
HearAnew ==
  /\ awake
  /\ down # <<>>
  /\ down' = Tail(down)
  /\ state' = Head(down).holder
  /\ shown' = IF state' = "mine" THEN LargestOf(0, TTL - Head(down).age + skew) ELSE 0
  /\ IF state' = "mine"
     THEN /\ beat' = In(NextBeat(shown'))
          /\ idle' = In(IdleRelease)
     ELSE beat' = Stopped /\ idle' = Stopped
  /\ dirty' = (dirty /\ state' # "theirs")
  /\ UNCHANGED <<server, skew, page, uploading, up>>

\* applyLockSnapshot, for an event or for an answer: the heartbeat is paced on
\* the expiry it brings, and only a lock that is new starts the countdown.  What
\* was typed is dropped when another has the lock.
Hear ==
  /\ awake
  /\ down # <<>>
  /\ down' = Tail(down)
  /\ state' = Head(down).holder
  /\ shown' = IF state' = "mine" THEN LargestOf(0, TTL - Head(down).age + skew) ELSE 0
  /\ IF state' = "mine"
     THEN /\ beat' = In(NextBeat(shown'))
          /\ idle' = IF state = "mine" THEN idle ELSE In(IdleRelease)
     ELSE beat' = Stopped /\ idle' = Stopped
  /\ dirty' = (dirty /\ state' # "theirs")
  /\ UNCHANGED <<server, skew, page, uploading, up>>

MayWrite == awake /\ state # "theirs" /\ Len(up \o reply \o down) < MaxUnder

\* A lock that is free is asked for.
Request == up' = IF state = "free" THEN Send("acquire") ELSE up

Input ==
  /\ MayWrite
  /\ dirty' = TRUE
  /\ Request
  /\ Countdown
  /\ UNCHANGED <<server, skew, page, state, shown, beat, uploading, down>>

\* flushEdits, some time later.
Flush ==
  /\ MayWrite
  /\ dirty
  /\ dirty' = FALSE
  /\ up' = Send("edit")
  /\ UNCHANGED <<server, skew, page, state, shown, timers, uploading, down>>

\* handleUploads, and its finally: the marker is an edit of its own.
StartUpload ==
  /\ MayWrite
  /\ ~uploading
  /\ uploading' = TRUE
  /\ Request
  /\ Countdown
  /\ UNCHANGED <<server, skew, page, state, shown, beat, dirty, down>>

EndUpload ==
  /\ awake
  /\ uploading
  /\ uploading' = FALSE
  /\ dirty' = (state # "theirs")
  /\ Countdown
  /\ UNCHANGED <<server, skew, page, state, shown, beat, up, down>>

Due(timer) == awake /\ timer.on /\ timer.due <= 0

\* scheduleHeartbeat's timer, which goes on by the old expiry.
BeatFires ==
  /\ Due(beat)
  /\ up' = Send("heartbeat")
  /\ beat' = In(NextBeat(shown))
  /\ UNCHANGED <<server, skew, page, state, shown, idle, user, down>>

\* scheduleIdleRelease's timer: an upload counts as activity.  Every input starts
\* it anew, so that when it fires the last input (lastUserInputAt) is old enough.
IdleFires ==
  /\ Due(idle)
  /\ IF ~uploading
     THEN up' = Send("release") /\ idle' = Stopped
     ELSE up' = up /\ idle' = In(IdleRelease)
  /\ UNCHANGED <<server, skew, page, state, shown, beat, user, down>>

-----------------------------------------------------------------------------
(* Time *)

InTime(messages) == \A i \in DOMAIN messages : messages[i].age < Delay
OnTime(timer) == timer.on => timer.due > -Late
\* Ages stop where they make no difference any more.
Oldest(m) == IF m.holder = "mine" THEN TTL + Skew ELSE Delay
Older(messages) == [i \in DOMAIN messages |-> [messages[i] EXCEPT !.age = SmallestOf(@ + 1, Oldest(messages[i]))]]
Sooner(timer) == IF timer.on THEN In(LargestOf(timer.due - 1, -Late)) ELSE timer

\* A page that runs is not behind with anything.
UpToDate == InTime(down) /\ OnTime(beat) /\ OnTime(idle)

\* The page is suspended, and goes on.
Sleep ==
  /\ awake
  /\ UpToDate
  /\ awake' = FALSE
  /\ slept' = TRUE
  /\ UNCHANGED <<server, skew, client, up, down>>

Wake ==
  /\ ~awake
  /\ awake' = TRUE
  /\ UNCHANGED <<server, skew, slept, client, up, down>>

\* A tick passes once everything that is due has happened, except on a page that sleeps.
Tick ==
  /\ InTime(up) /\ InTime(reply)
  /\ awake => UpToDate
  /\ left' = LargestOf(0, left - 1)
  /\ shown' = LargestOf(0, shown - 1)
  /\ beat' = Sooner(beat)
  /\ idle' = Sooner(idle)
  /\ up' = [i \in DOMAIN up |-> [up[i] EXCEPT !.age = @ + 1]]
  /\ down' = Older(down)
  /\ reply' = Older(reply)
  /\ UNCHANGED <<other, told, skew, page, state, user>>

Serve == Acquire \/ Heartbeat \/ Release \/ Answer

Next ==
  \/ Serve \/ Expire \/ PeerTakes \/ PeerGoes
  \/ Hear \/ Input \/ Flush \/ StartUpload \/ EndUpload \/ BeatFires \/ IdleFires
  \/ Sleep \/ Wake \/ Tick

Spec == Init /\ [][Next]_vars

\* Time passes, messages arrive and timers fire on a page that runs; nobody has to do
\* anything, and a page that was suspended need not go on.
FairSpec ==
  /\ Spec
  /\ WF_vars(Serve) /\ WF_vars(Expire) /\ WF_vars(Tick)
  /\ WF_vars(Hear) /\ WF_vars(BeatFires) /\ WF_vars(IdleFires)

-----------------------------------------------------------------------------
(***************************************************************************)
(* Properties                                                              *)
(***************************************************************************)

\* Only a page that was suspended loses its lock to the clock: whatever the clocks
\* of both sides differ by, the heartbeats, paced on expiries that are out of date
\* when they arrive, come in time, during uploads and after the page woke up, too
\* (nextHeartbeatDelayMs, scheduleHeartbeat and the answer to lock_heartbeat).
NeverLapses == slept \/ NoneLapsed

\* Once nothing is under way the page takes the lock for its own exactly when the
\* room takes it for the holder, whatever overtook what, lapsed or was asked for at
\* the wrong time meanwhile (applyLockSnapshot, and who is told of what in ws.go).
HolderInStep == up = <<>> /\ reply = <<>> /\ down = <<>> => (state = "mine" <=> told = "mine")

\* Nobody keeps the lock without doing anything: it lapses or is given up, unless
\* somebody types or uploads again and again (scheduleIdleRelease).
IdleLetsGo == []<>(left = 0 \/ dirty \/ uploading)
=============================================================================
