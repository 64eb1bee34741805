----------------------------- MODULE EditorLock -----------------------------
(***************************************************************************)
(* The editor lock of one session: LockManager in                          *)
(* internal/handlers/lock.go.  Every method runs under lm.mu, so each      *)
(* method is one action.  Entries of different slugs share nothing but the *)
(* mutex; the module follows the entry of one slug.                        *)
(*                                                                         *)
(* The clock is relative: `left` is expiresAt - now of the live entry and  *)
(* `due[e]` what remains on e's timer, both cut off at 0 (a deadline in    *)
(* the past).  Time.AfterFunc is modelled with its race: once a timer has  *)
(* fired, its goroutine waits for lm.mu and Stop no longer reaches it.     *)
(*                                                                         *)
(* AttachLockEvents (api.go) registers the onChange callback before the    *)
(* server serves anything; the model always has it, and with it a timer    *)
(* for every entry.                                                        *)
(***************************************************************************)
EXTENDS Integers, Sequences

CONSTANTS
  Client,    \* client ids the server minted
  Handler,   \* requests that are let in now and announce later
  Entry,     \* *lockEntry pointers; one is reused once nothing refers to it
  Nobody,    \* the empty holder
  NoEntry,   \* lm.locks has no entry for the slug
  TTL        \* lock lifetime in clock ticks

ASSUME LockConstants ==
  /\ TTL \in Nat \ {0}
  /\ Nobody \notin Client
  /\ NoEntry \notin Entry

VARIABLES
  entry,      \* lm.locks[slug], or NoEntry
  holder,     \* its holder, Nobody when there is no entry
  left,       \* its expiresAt - now, not below 0
  armed,      \* entries whose timer is running
  due,        \* time left on each running timer
  firing,     \* entries whose timer has fired and whose expire waits for lm.mu
  announced,  \* lm.announced[slug], Nobody when absent
  owing,      \* requests let in with announce=false that owe an announce
  events      \* holders handed to onChange by the last step, in order

lockVars == <<entry, holder, left, armed, due, firing, announced, owing, events>>

Holders == Client \cup {Nobody}

TypeOK ==
  /\ entry \in Entry \cup {NoEntry}
  /\ holder \in Holders
  /\ left \in 0..TTL
  /\ armed \in SUBSET Entry
  /\ due \in [Entry -> 0..TTL]
  /\ firing \in SUBSET Entry
  /\ announced \in Holders
  /\ owing \in SUBSET Handler
  /\ events \in Seq(Holders)

Init ==
  /\ entry = NoEntry
  /\ holder = Nobody
  /\ left = 0
  /\ armed = {}
  /\ due = [e \in Entry |-> 0]
  /\ firing = {}
  /\ announced = Nobody
  /\ owing = {}
  /\ events = <<>>

-----------------------------------------------------------------------------
Live   == entry # NoEntry /\ left > 0
Lapsed == entry # NoEntry /\ left = 0

\* A pointer that neither the map nor a timer nor a waiting goroutine holds.
Fresh == Entry \ ({entry} \cup armed \cup firing)

\* announceLocked: the callback hears `now` unless it was told so last time.
Report(before, now) == IF before = now THEN <<>> ELSE <<now>>

\* Mutant of Evict: the entry goes, the room is not told.
SilentEvict ==
  /\ entry' = NoEntry
  /\ holder' = Nobody
  /\ left' = 0
  /\ armed' = armed \ {entry}
  /\ events' = <<>>
  /\ UNCHANGED <<due, announced>>

\* evictLocked: stop the timer, drop the entry, announce the free lock.
Evict ==
  /\ entry' = NoEntry
  /\ holder' = Nobody
  /\ left' = 0
  /\ armed' = armed \ {entry}
  /\ due' = due
  /\ announced' = Nobody
  /\ events' = Report(announced, Nobody)

\* The holder's deadline moves; the timer is left as it is.
Refresh ==
  /\ left' = TTL
  /\ events' = <<>>
  /\ UNCHANGED <<entry, holder, armed, due, announced>>

\* Mutant of Grant: only the caller's own live entry is looked at.
GrantOverLive(c, tell) ==
  /\ Live => holder # c
  /\ \E e \in Fresh :
       /\ entry' = e
       /\ armed' = (armed \ {entry}) \cup {e}
       /\ due' = [due EXCEPT ![e] = TTL]
  /\ holder' = c
  /\ left' = TTL
  /\ announced' = IF tell THEN c ELSE Nobody
  /\ events' = <<c>>

\* A new entry with its timer, in the place of a lapsed one (which liveLocked
\* evicts and announces first) or of none.
Grant(c, tell) ==
  LET told == IF Lapsed THEN Nobody ELSE announced IN
  /\ ~Live
  /\ \E e \in Fresh :
       /\ entry' = e
       /\ armed' = (armed \ {entry}) \cup {e}
       /\ due' = [due EXCEPT ![e] = TTL]
  /\ holder' = c
  /\ left' = TTL
  /\ announced' = IF tell THEN c ELSE told
  /\ events' = Report(announced, told) \o IF tell THEN Report(told, c) ELSE <<>>

-----------------------------------------------------------------------------
\* State, CanWrite, and any call with an empty client id: a lapsed entry goes.
Query ==
  /\ Lapsed
  /\ Evict
  /\ UNCHANGED <<firing, owing>>

\* Acquire(slug, c) is granted.  A denied call changes nothing: the lock is
\* live and another client's.
Acquire(c) ==
  /\ \/ Live /\ holder = c /\ Refresh
     \/ Grant(c, TRUE)
  /\ UNCHANGED <<firing, owing>>

\* acquire(slug, c, announce=false) is granted to a request h that will call
\* announce once its content broadcast is out.
AcquireQuietly(h, c) ==
  /\ h \notin owing
  /\ \/ Live /\ holder = c /\ Refresh
     \/ Grant(c, FALSE)
  /\ owing' = owing \cup {h}
  /\ UNCHANGED firing

\* CanWrite(slug, "") lets the anonymous request h through: nobody holds the
\* lock at this moment.  h too announces when it is done.
PermitAnonymous(h) ==
  /\ h \notin owing
  /\ ~Live
  /\ \/ Lapsed /\ Evict
     \/ /\ ~Lapsed
        /\ events' = <<>>
        /\ UNCHANGED <<entry, holder, left, armed, due, announced>>
  /\ owing' = owing \cup {h}
  /\ UNCHANGED firing

\* announce(slug), called by h.
Announce(h) ==
  /\ h \in owing
  /\ \/ Lapsed /\ Evict
     \/ /\ ~Lapsed
        /\ announced' = holder
        /\ events' = Report(announced, holder)
        /\ UNCHANGED <<entry, holder, left, armed, due>>
  /\ owing' = owing \ {h}
  /\ UNCHANGED firing

\* Heartbeat(slug, c) by the holder; by another client it is a Query.
Heartbeat(c) ==
  /\ Live
  /\ holder = c
  /\ Refresh
  /\ UNCHANGED <<firing, owing>>

\* Release(slug, c): the holder's call, or anyone's once the lock has lapsed.
MayRelease(c) == entry # NoEntry /\ (left = 0 \/ holder = c)

Release(c) ==
  /\ MayRelease(c)
  /\ Evict
  /\ UNCHANGED <<firing, owing>>

\* Forget(slug): the session is deleted, and its room with it.
Forget ==
  /\ entry' = NoEntry
  /\ holder' = Nobody
  /\ left' = 0
  /\ armed' = armed \ {entry}
  /\ announced' = Nobody
  /\ events' = <<>>
  /\ UNCHANGED <<due, firing, owing>>

-----------------------------------------------------------------------------
\* e's timer runs out: its goroutine starts and queues for lm.mu.
Fire(e) ==
  /\ e \in armed
  /\ due[e] = 0
  /\ armed' = armed \ {e}
  /\ firing' = firing \cup {e}
  /\ events' = <<>>
  /\ UNCHANGED <<entry, holder, left, due, announced, owing>>

\* Mutant of Expire: a lock extended meanwhile gets no new timer.
ExpireOnce(e) ==
  /\ e \in firing
  /\ firing' = firing \ {e}
  /\ \/ /\ entry # e \/ left > 0
        /\ events' = <<>>
        /\ UNCHANGED <<entry, holder, left, armed, due, announced>>
     \/ entry = e /\ left = 0 /\ Evict
  /\ UNCHANGED owing

\* Mutant of Expire: whatever entry is there is taken for e.
ExpireAny(e) ==
  /\ e \in firing
  /\ firing' = firing \ {e}
  /\ \/ /\ entry = NoEntry
        /\ events' = <<>>
        /\ UNCHANGED <<entry, holder, left, armed, due, announced>>
     \/ entry # NoEntry /\ Evict
  /\ UNCHANGED owing

\* expire(slug, e): not the current entry any more, extended meanwhile, or over.
Expire(e) ==
  /\ e \in firing
  /\ firing' = firing \ {e}
  /\ \/ /\ entry # e
        /\ events' = <<>>
        /\ UNCHANGED <<entry, holder, left, armed, due, announced>>
     \/ /\ entry = e
        /\ left > 0
        /\ armed' = armed \cup {e}
        /\ due' = [due EXCEPT ![e] = left]
        /\ events' = <<>>
        /\ UNCHANGED <<entry, holder, left, announced>>
     \/ /\ entry = e
        /\ left = 0
        /\ Evict
  /\ UNCHANGED owing

Decrement(n) == IF n > 0 THEN n - 1 ELSE 0

\* The clock advances; a timer may fire late, never early.
Tick ==
  /\ left' = Decrement(left)
  /\ due' = [e \in Entry |-> IF e \in armed THEN Decrement(due[e]) ELSE due[e]]
  /\ events' = <<>>
  /\ UNCHANGED <<entry, holder, armed, firing, announced, owing>>

Next ==
  \/ Query
  \/ Forget
  \/ Tick
  \/ \E c \in Client : Acquire(c) \/ Heartbeat(c) \/ Release(c)
  \/ \E h \in Handler : Announce(h) \/ PermitAnonymous(h)
  \/ \E h \in Handler, c \in Client : AcquireQuietly(h, c)
  \/ \E e \in Entry : Fire(e) \/ Expire(e)

Spec == Init /\ [][Next]_lockVars

\* What the runtime owes: time passes, timers fire, a goroutine waiting for
\* the mutex gets it, and a request runs to its announce.  Nothing is owed by
\* clients: they may fall silent at any point.
Fairness ==
  /\ WF_lockVars(Tick)
  /\ \A e \in Entry : WF_lockVars(Fire(e)) /\ WF_lockVars(Expire(e))
  /\ \A h \in Handler : WF_lockVars(Announce(h))

FairSpec == Spec /\ Fairness

-----------------------------------------------------------------------------
(***************************************************************************)
(* Properties                                                              *)
(***************************************************************************)

\* Every lock in the map has someone coming to end it: a timer that runs out no
\* later than the lock, or a fired timer whose expire still waits for the
\* mutex (which re-arms it or evicts).  No other timer is left running.  Were
\* this to fail, a client that vanished would keep the room read-only.
TimerCoversLock ==
  /\ entry # NoEntry => \/ entry \in armed /\ due[entry] <= left
                        \/ entry \in firing
  /\ armed \subseteq {entry}
  /\ armed \cap firing = {}

\* The room was last told of the holder the map has, or of nobody; and it is
\* behind the map only while a request that acquired quietly still has its
\* announce to make.  The stream of lock events so never ends on a stale value.
RoomToldTruth ==
  /\ announced \in {Nobody, holder}
  /\ announced # holder => owing # {}

\* A lock that has not lapsed leaves its holder's hands only by its own
\* release or by the deletion of the session: no late timer of an earlier
\* entry, no other client's call and no status query takes it away.
LiveLockKept ==
  [][ Live /\ (entry' # entry \/ holder' # holder)
        => Forget \/ \E c \in Client : holder = c /\ Release(c) ]_lockVars

\* A step in which c has its lease renewed or granted.
Renews(c) ==
  \/ Acquire(c) \/ Heartbeat(c)
  \/ \E h \in Handler : AcquireQuietly(h, c)

\* A client that stops renewing loses the lock, and the room is told, with no
\* other client's help: the server's timers alone see to it.
VanishedHolderFreed ==
  \A c \in Client :
    \/ []<><<Renews(c)>>_lockVars
    \/ <>[](holder # c /\ announced # c)

-----------------------------------------------------------------------------
\* Entries, timers and goroutines are hidden; what is left is a lease.
Lease == INSTANCE LeaseLock WITH owner <- holder, lease <- left, told <- announced

\* Whatever the timers and the requests do, the lock behaves as the abstract
\* lease: granted to one client at a time and only when free or run out,
\* renewed only in time, and never reported as held once it was taken back.
ImplementsLeaseSafety == Lease!Spec

\* With the fairness of its runtime it keeps the rest of the lease's promises:
\* time runs, the room is told in the end, and a lease that has run out is
\* taken back without anybody asking.
ImplementsLease == Lease!FairSpec

=============================================================================
