-------------------------- MODULE EditorLockProofs --------------------------
(***************************************************************************)
(* Proofs about EditorLock, for any sets of clients, requests and entries  *)
(* and any TTL.                                                            *)
(***************************************************************************)
EXTENDS EditorLock, TLAPS

-----------------------------------------------------------------------------
(* What the callback hears in one step is a sequence of holders.           *)

\* A report is a sequence of holders.
LEMMA ReportType ==
  ASSUME NEW a \in Holders, NEW b \in Holders
  PROVE  Report(a, b) \in Seq(Holders)
BY DEF Report

\* So are two reports in a row.
LEMMA ReportsType ==
  ASSUME NEW r \in Seq(Holders), NEW s \in Seq(Holders)
  PROVE  r \o s \in Seq(Holders)
OBVIOUS

\* Evicting keeps the type of what it writes.
LEMMA EvictType ==
  ASSUME TypeOK, Evict
  PROVE  /\ entry' \in Entry \cup {NoEntry}
         /\ holder' \in Holders
         /\ left' \in 0..TTL
         /\ armed' \in SUBSET Entry
         /\ due' \in [Entry -> 0..TTL]
         /\ announced' \in Holders
         /\ events' \in Seq(Holders)
<1>1. Nobody \in Holders
  BY DEF Holders
<1>2. events' \in Seq(Holders)
  BY <1>1, ReportType DEF TypeOK, Evict
<1>3. QED
  BY <1>1, <1>2, LockConstants DEF TypeOK, Evict

\* So does granting, at once or quietly.
LEMMA GrantType ==
  ASSUME TypeOK, NEW c \in Client, NEW tell \in BOOLEAN, Grant(c, tell)
  PROVE  /\ entry' \in Entry \cup {NoEntry}
         /\ holder' \in Holders
         /\ left' \in 0..TTL
         /\ armed' \in SUBSET Entry
         /\ due' \in [Entry -> 0..TTL]
         /\ announced' \in Holders
         /\ events' \in Seq(Holders)
<1> DEFINE told == IF Lapsed THEN Nobody ELSE announced
<1>1. told \in Holders /\ c \in Holders
  BY DEF Holders, TypeOK
<1>2. announced' \in Holders
  <2>1. announced' = IF tell THEN c ELSE told
    BY DEF Grant
  <2>2. QED
    BY <1>1, <2>1
<1>3. events' \in Seq(Holders)
  <2>1. Report(announced, told) \in Seq(Holders)
    BY <1>1, ReportType DEF TypeOK
  <2>2. (IF tell THEN Report(told, c) ELSE <<>>) \in Seq(Holders)
    BY <1>1, ReportType
  <2>3. QED
    BY <2>1, <2>2, ReportsType DEF Grant
<1>4. entry' \in Entry /\ armed' \in SUBSET Entry /\ due' \in [Entry -> 0..TTL]
  BY LockConstants DEF Grant, Fresh, TypeOK
<1>5. QED
  BY <1>1, <1>2, <1>3, <1>4, LockConstants DEF Grant, TypeOK

\* And a refresh.
LEMMA RefreshType ==
  ASSUME TypeOK, Refresh
  PROVE  /\ entry' \in Entry \cup {NoEntry}
         /\ holder' \in Holders
         /\ left' \in 0..TTL
         /\ armed' \in SUBSET Entry
         /\ due' \in [Entry -> 0..TTL]
         /\ announced' \in Holders
         /\ events' \in Seq(Holders)
BY LockConstants DEF TypeOK, Refresh, Holders

-----------------------------------------------------------------------------
\* Every variable keeps its type.
THEOREM TypeCorrect == Spec => []TypeOK
<1>1. Init => TypeOK
  BY LockConstants DEF Init, TypeOK, Holders
<1>2. TypeOK /\ [Next]_lockVars => TypeOK'
  <2> SUFFICES ASSUME TypeOK, [Next]_lockVars
               PROVE  TypeOK'
    OBVIOUS
  <2>1. CASE Query
    BY <2>1, EvictType DEF Query, TypeOK
  <2>2. CASE Forget
    BY <2>2, LockConstants DEF Forget, TypeOK, Holders
  <2>3. CASE Tick
    BY <2>3, LockConstants DEF Tick, Decrement, TypeOK
  <2>4. ASSUME NEW c \in Client, Acquire(c)
        PROVE  TypeOK'
    BY <2>4, GrantType, RefreshType DEF Acquire, TypeOK
  <2>5. ASSUME NEW c \in Client, Heartbeat(c)
        PROVE  TypeOK'
    BY <2>5, RefreshType DEF Heartbeat, TypeOK
  <2>6. ASSUME NEW c \in Client, Release(c)
        PROVE  TypeOK'
    BY <2>6, EvictType DEF Release, MayRelease, TypeOK
  <2>7. ASSUME NEW h \in Handler, Announce(h)
        PROVE  TypeOK'
    <3>1. owing' \in SUBSET Handler /\ firing' \in SUBSET Entry
      BY <2>7 DEF Announce, TypeOK
    <3>2. CASE Lapsed /\ Evict
      BY <3>1, <3>2, EvictType DEF TypeOK
    <3>3. CASE ~Lapsed
      BY <2>7, <3>1, <3>3, ReportType DEF Announce, TypeOK
    <3>4. QED
      BY <2>7, <3>2, <3>3 DEF Announce
  <2>8. ASSUME NEW h \in Handler, NEW c \in Client, AcquireQuietly(h, c)
        PROVE  TypeOK'
    BY <2>8, GrantType, RefreshType DEF AcquireQuietly, TypeOK
  <2>9. ASSUME NEW h \in Handler, PermitAnonymous(h)
         PROVE  TypeOK'
    <3>1. owing' \in SUBSET Handler /\ firing' \in SUBSET Entry
      BY <2>9 DEF PermitAnonymous, TypeOK
    <3>2. CASE Lapsed /\ Evict
      BY <3>1, <3>2, EvictType DEF TypeOK
    <3>3. CASE ~Lapsed
      <4>1. events' = <<>> /\ UNCHANGED <<entry, holder, left, armed, due, announced>>
        BY <2>9, <3>3 DEF PermitAnonymous
      <4>2. QED
        BY <3>1, <4>1 DEF TypeOK
    <3>4. QED
      BY <2>9, <3>2, <3>3 DEF PermitAnonymous
  <2>10. ASSUME NEW e \in Entry, Fire(e)
        PROVE  TypeOK'
    BY <2>10 DEF Fire, TypeOK
  <2>11. ASSUME NEW e \in Entry, Expire(e)
         PROVE  TypeOK'
    <3>1. firing' \in SUBSET Entry /\ owing' \in SUBSET Handler
      BY <2>11 DEF Expire, TypeOK
    <3>2. CASE entry = e /\ left = 0 /\ Evict
      BY <3>1, <3>2, EvictType DEF TypeOK
    <3>3. CASE entry # e
      <4>1. events' = <<>> /\ UNCHANGED <<entry, holder, left, armed, due, announced>>
        BY <2>11, <3>3 DEF Expire
      <4>2. QED
        BY <3>1, <4>1 DEF TypeOK
    <3>4. CASE entry = e /\ left > 0
      <4>1. /\ armed' = armed \cup {e}
            /\ due' = [due EXCEPT ![e] = left]
            /\ events' = <<>>
            /\ UNCHANGED <<entry, holder, left, announced, owing>>
        BY <2>11, <3>4 DEF Expire
      <4>2. QED
        BY <2>11, <3>1, <4>1 DEF TypeOK
    <3>5. QED
      BY <2>11, <3>2, <3>3, <3>4 DEF Expire
  <2>12. CASE UNCHANGED lockVars
    BY <2>12 DEF lockVars, TypeOK
  <2>13. QED
    BY <2>1, <2>2, <2>3, <2>4, <2>5, <2>6, <2>7, <2>8, <2>10, <2>11, <2>12, <2>9 DEF Next
<1>3. QED
  BY <1>1, <1>2, PTL DEF Spec

-----------------------------------------------------------------------------
(***************************************************************************)
(* The inductive invariant.  RoomToldTruth and TimerCoversLock each need   *)
(* that an entry and its holder come and go together; RoomToldTruth is     *)
(* then inductive, and TimerCoversLock rests on the timer of the entry     *)
(* being the only one that runs.                                           *)
(***************************************************************************)
HolderHasEntry ==
  /\ entry = NoEntry => holder = Nobody /\ left = 0
  /\ entry # NoEntry => holder \in Client

IInv == TypeOK /\ HolderHasEntry /\ TimerCoversLock /\ RoomToldTruth

\* After an eviction the entry, its timer and its holder are gone together,
\* and the room has been told.
LEMMA EvictInv ==
  ASSUME IInv, Evict, firing' \subseteq firing
  PROVE  HolderHasEntry' /\ TimerCoversLock' /\ RoomToldTruth'
<1>1. HolderHasEntry'
  BY DEF Evict, HolderHasEntry
<1>2. TimerCoversLock'
  BY DEF IInv, Evict, TimerCoversLock
<1>3. RoomToldTruth'
  BY DEF Evict, RoomToldTruth
<1>4. QED
  BY <1>1, <1>2, <1>3

\* After a grant the new entry's timer is the only one running and ends with
\* the lease; the room knows, or the request that acquired still owes it.
LEMMA GrantInv ==
  ASSUME IInv, NEW c \in Client, NEW tell \in BOOLEAN, Grant(c, tell),
         firing' = firing, ~tell => owing' # {}
  PROVE  HolderHasEntry' /\ TimerCoversLock' /\ RoomToldTruth'
<1>1. PICK e \in Fresh :
        /\ entry' = e
        /\ armed' = (armed \ {entry}) \cup {e}
        /\ due' = [due EXCEPT ![e] = TTL]
  BY DEF Grant
<1>2. e \in Entry /\ e # NoEntry /\ e \notin firing
  BY LockConstants DEF Fresh
<1>3. holder' = c /\ left' = TTL
  BY DEF Grant
<1>4. HolderHasEntry'
  BY <1>1, <1>2, <1>3 DEF HolderHasEntry
<1>5. TimerCoversLock'
  <2>1. armed' = {e}
    BY <1>1 DEF IInv, TimerCoversLock
  <2>2. due'[e] = TTL
    BY <1>1, <1>2 DEF IInv, TypeOK
  <2>3. QED
    BY <1>1, <1>2, <1>3, <2>1, <2>2, LockConstants DEF TimerCoversLock
<1>6. RoomToldTruth'
  <2>1. Lapsed \/ announced = Nobody
    <3>1. Lapsed \/ entry = NoEntry
      BY DEF Grant, Live, Lapsed, IInv, TypeOK
    <3>2. QED
      BY <3>1 DEF IInv, HolderHasEntry, RoomToldTruth
  <2>2. announced' \in {Nobody, c} /\ (tell => announced' = c)
    BY <2>1 DEF Grant
  <2>3. QED
    BY <1>3, <2>2 DEF RoomToldTruth
<1>7. QED
  BY <1>4, <1>5, <1>6

\* A refresh can only put the deadline further behind the timer.
LEMMA RefreshInv ==
  ASSUME IInv, Live, Refresh, firing' = firing, owing \subseteq owing'
  PROVE  HolderHasEntry' /\ TimerCoversLock' /\ RoomToldTruth'
<1>1. HolderHasEntry'
  BY DEF IInv, Refresh, Live, HolderHasEntry
<1>2. TimerCoversLock'
  BY LockConstants DEF IInv, Refresh, TimerCoversLock, TypeOK
<1>3. RoomToldTruth'
  BY DEF IInv, Refresh, RoomToldTruth
<1>4. QED
  BY <1>1, <1>2, <1>3

\* The invariant holds in every reachable state.
THEOREM Invariance == Spec => []IInv
<1>1. Init => HolderHasEntry /\ TimerCoversLock /\ RoomToldTruth
  BY DEF Init, HolderHasEntry, TimerCoversLock, RoomToldTruth
<1>2. /\ IInv
      /\ [Next]_lockVars
      => HolderHasEntry' /\ TimerCoversLock' /\ RoomToldTruth'
  <2> DEFINE Kept == HolderHasEntry' /\ TimerCoversLock' /\ RoomToldTruth'
  <2> SUFFICES ASSUME IInv, [Next]_lockVars
               PROVE  Kept
    OBVIOUS
  <2>1. CASE Query
    BY <2>1, EvictInv DEF Query
  <2>2. CASE Forget
    BY <2>2 DEF Forget, IInv, HolderHasEntry, TimerCoversLock, RoomToldTruth
  <2>3. CASE Tick
    <3>1. HolderHasEntry' /\ RoomToldTruth'
      BY <2>3 DEF Tick, Decrement, IInv, HolderHasEntry, RoomToldTruth
    <3>2. TimerCoversLock'
      <4>1. \A e \in armed : due[e] <= left => due'[e] <= left'
        BY <2>3 DEF Tick, Decrement, IInv, TypeOK
      <4>2. QED
        BY <2>3, <4>1 DEF Tick, IInv, TimerCoversLock
    <3>3. QED
      BY <3>1, <3>2
  <2>4. ASSUME NEW c \in Client, Acquire(c)
        PROVE  Kept
    BY <2>4, GrantInv, RefreshInv DEF Acquire
  <2>5. ASSUME NEW c \in Client, Heartbeat(c)
        PROVE  Kept
    BY <2>5, RefreshInv DEF Heartbeat
  <2>6. ASSUME NEW c \in Client, Release(c)
        PROVE  Kept
    BY <2>6, EvictInv DEF Release, MayRelease
  <2>7. ASSUME NEW h \in Handler, Announce(h)
        PROVE  Kept
    <3>1. CASE Lapsed /\ Evict
      BY <2>7, <3>1, EvictInv DEF Announce
    <3>2. CASE ~Lapsed
      BY <2>7, <3>2
         DEF Announce, IInv, HolderHasEntry, TimerCoversLock, RoomToldTruth
    <3>3. QED
      BY <2>7, <3>1, <3>2 DEF Announce
  <2>8. ASSUME NEW h \in Handler, NEW c \in Client, AcquireQuietly(h, c)
        PROVE  Kept
    <3>1. h \in owing' /\ owing \subseteq owing' /\ firing' = firing
      BY <2>8 DEF AcquireQuietly
    <3>2. CASE Live /\ Refresh
      BY <3>1, <3>2, RefreshInv
    <3>3. CASE Grant(c, FALSE)
      BY <3>1, <3>3, GrantInv
    <3>4. QED
      BY <2>8, <3>2, <3>3 DEF AcquireQuietly
  <2>9. ASSUME NEW h \in Handler, PermitAnonymous(h)
         PROVE  Kept
    <3>1. CASE Lapsed /\ Evict
      BY <2>9, <3>1, EvictInv DEF PermitAnonymous
    <3>2. CASE ~Lapsed
      BY <2>9, <3>2
         DEF PermitAnonymous, IInv, HolderHasEntry, TimerCoversLock, RoomToldTruth
    <3>3. QED
      BY <2>9, <3>1, <3>2 DEF PermitAnonymous
  <2>10. ASSUME NEW e \in Entry, Fire(e)
        PROVE  Kept
    BY <2>10 DEF Fire, IInv, HolderHasEntry, TimerCoversLock, RoomToldTruth
  <2>11. ASSUME NEW e \in Entry, Expire(e)
         PROVE  Kept
    <3>1. firing' = firing \ {e} /\ owing' = owing
      BY <2>11 DEF Expire
    <3>2. CASE entry # e
      BY <2>11, <3>1, <3>2
         DEF Expire, IInv, HolderHasEntry, TimerCoversLock, RoomToldTruth
    <3>3. CASE entry = e /\ left > 0
      <4>1. /\ armed' = armed \cup {e}
            /\ due' = [due EXCEPT ![e] = left]
            /\ UNCHANGED <<entry, holder, left, announced>>
        BY <2>11, <3>3 DEF Expire
      <4>2. due'[e] = left
        BY <4>1 DEF IInv, TypeOK
      <4>3. left \in Int
        BY LockConstants DEF IInv, TypeOK
      <4>4. QED
        BY <3>1, <3>3, <4>1, <4>2, <4>3
           DEF IInv, HolderHasEntry, TimerCoversLock, RoomToldTruth
    <3>4. CASE entry = e /\ left = 0 /\ Evict
      BY <3>1, <3>4, EvictInv
    <3>5. QED
      BY <2>11, <3>2, <3>3, <3>4 DEF Expire
  <2>12. CASE UNCHANGED lockVars
    BY <2>12 DEF lockVars, IInv, HolderHasEntry, TimerCoversLock, RoomToldTruth
  <2>13. QED
    BY <2>1, <2>2, <2>3, <2>4, <2>5, <2>6, <2>7, <2>8, <2>10, <2>11, <2>12, <2>9 DEF Next
<1>3. QED
  BY <1>1, <1>2, TypeCorrect, PTL DEF Spec, IInv

\* The timer that will end a lock is always there (LockManager.expire).
THEOREM TimerCovers == Spec => []TimerCoversLock
BY Invariance, PTL DEF IInv

\* The room is never told of a holder the map does not have, and lags only
\* behind a request that still owes its announce (announceLocked).
THEOREM ToldTruth == Spec => []RoomToldTruth
BY Invariance, PTL DEF IInv

-----------------------------------------------------------------------------
\* Only its holder's release or the session's deletion ends a live lock.
THEOREM LiveKept == Spec => LiveLockKept
<1>1. IInv /\ [Next]_lockVars
        => [ Live /\ (entry' # entry \/ holder' # holder)
               => Forget \/ \E c \in Client : holder = c /\ Release(c) ]_lockVars
  <2> SUFFICES ASSUME IInv, [Next]_lockVars, Live,
                      entry' # entry \/ holder' # holder
               PROVE  Forget \/ \E c \in Client : holder = c /\ Release(c)
    OBVIOUS
  <2>1. left # 0 /\ ~Lapsed
    BY DEF Live, Lapsed
  <2>2. ASSUME NEW c \in Client, Release(c)
        PROVE  holder = c
    BY <2>1, <2>2 DEF Release, MayRelease
  <2>3. ASSUME NEW e \in Entry, Expire(e)
        PROVE  FALSE
    BY <2>1, <2>3 DEF Expire
  <2>4. ASSUME NEW h \in Handler, Announce(h)
        PROVE  FALSE
    BY <2>1, <2>4 DEF Announce
  <2>5. ASSUME NEW h \in Handler, NEW c \in Client, AcquireQuietly(h, c)
        PROVE  FALSE
    BY <2>5 DEF AcquireQuietly, Refresh, Grant
  <2>6. ASSUME NEW c \in Client, Acquire(c) \/ Heartbeat(c)
        PROVE  FALSE
    BY <2>6 DEF Acquire, Heartbeat, Refresh, Grant
  <2>7. ASSUME NEW h \in Handler, PermitAnonymous(h)
        PROVE  FALSE
    BY <2>7 DEF PermitAnonymous
  <2>8. ~Query /\ ~Tick /\ (\A e \in Entry : ~Fire(e)) /\ ~(UNCHANGED lockVars)
    BY <2>1 DEF Query, Tick, Fire, lockVars
  <2>9. QED
    BY <2>2, <2>3, <2>4, <2>5, <2>6, <2>8, <2>7 DEF Next
<1>2. QED
  BY <1>1, Invariance, PTL DEF Spec, LiveLockKept

-----------------------------------------------------------------------------
\* Every step of the lock manager is a step of the abstract lease or hidden
\* from it: timers, goroutines and entries are an implementation of a lease.
THEOREM LeaseRefined == Spec => ImplementsLeaseSafety
<1>1. Init => Lease!Init
  BY DEF Init, Lease!Init
<1>2. IInv /\ [Next]_lockVars => [Lease!Next]_(Lease!leaseVars)
  <2> DEFINE Hidden == UNCHANGED <<holder, left, announced>>
  <2> SUFFICES ASSUME IInv, [Next]_lockVars
               PROVE  Lease!Next \/ Hidden
    BY DEF Lease!leaseVars
  <2>1. ASSUME Evict, entry # NoEntry
        PROVE  Lease!Next
    <3>1. holder # Nobody
      BY <2>1, LockConstants DEF IInv, HolderHasEntry
    <3>2. Lease!Free
      BY <2>1, <3>1 DEF Evict, Lease!Free
    <3>3. QED
      BY <3>2 DEF Lease!Next
  <2>2. ASSUME Live, Refresh
        PROVE  Lease!Next
    <3>1. holder # Nobody /\ left > 0
      BY <2>2, LockConstants DEF IInv, HolderHasEntry, Live
    <3>2. Lease!Renew
      BY <2>2, <3>1 DEF Refresh, Lease!Renew
    <3>3. QED
      BY <3>2 DEF Lease!Next
  <2>3. ASSUME NEW c \in Client, NEW tell \in BOOLEAN, Grant(c, tell)
        PROVE  Lease!Next
    <3>1. Lapsed \/ entry = NoEntry
      BY <2>3 DEF Grant, Live, Lapsed, IInv, TypeOK
    <3>2. (holder = Nobody \/ left = 0) /\ (Lapsed \/ announced = Nobody)
      BY <3>1 DEF Lapsed, IInv, HolderHasEntry, RoomToldTruth
    <3>3. Lease!Grant(c)
      BY <2>3, <3>2 DEF Grant, Lease!Grant
    <3>4. QED
      BY <3>3 DEF Lease!Next
  <2>4. CASE Query
    BY <2>1, <2>4 DEF Query, Lapsed
  <2>5. CASE Forget
    <3>1. CASE holder = Nobody
      <4>1. entry = NoEntry /\ left = 0 /\ announced = Nobody
        BY <3>1, LockConstants DEF IInv, HolderHasEntry, RoomToldTruth
      <4>2. QED
        BY <2>5, <3>1, <4>1 DEF Forget
    <3>2. CASE holder # Nobody
      BY <2>5, <3>2 DEF Forget, Lease!Free, Lease!Next
    <3>3. QED
      BY <3>1, <3>2
  <2>6. CASE Tick
    BY <2>6 DEF Tick, Decrement, Lease!Pass, Lease!Next
  <2>7. ASSUME NEW c \in Client, Acquire(c) \/ Heartbeat(c)
        PROVE  Lease!Next
    BY <2>2, <2>3, <2>7 DEF Acquire, Heartbeat
  <2>8. ASSUME NEW c \in Client, Release(c)
        PROVE  Lease!Next
    BY <2>1, <2>8 DEF Release, MayRelease
  <2>9. ASSUME NEW h \in Handler, Announce(h)
        PROVE  Lease!Next
    <3>1. CASE Lapsed /\ Evict
      BY <2>1, <3>1 DEF Lapsed
    <3>2. CASE ~Lapsed
      BY <2>9, <3>2 DEF Announce, Lease!Tell, Lease!Next
    <3>3. QED
      BY <2>9, <3>1, <3>2 DEF Announce
  <2>10. ASSUME NEW h \in Handler, NEW c \in Client, AcquireQuietly(h, c)
         PROVE  Lease!Next
    BY <2>2, <2>3, <2>10 DEF AcquireQuietly
  <2>11. ASSUME NEW h \in Handler, PermitAnonymous(h)
         PROVE  Lease!Next \/ Hidden
    BY <2>1, <2>11 DEF PermitAnonymous, Lapsed
  <2>12. ASSUME NEW e \in Entry, Fire(e)
         PROVE  Hidden
    BY <2>12 DEF Fire
  <2>13. ASSUME NEW e \in Entry, Expire(e)
         PROVE  Lease!Next \/ Hidden
    <3>1. CASE entry = e /\ left = 0 /\ Evict
      BY <2>1, <3>1, LockConstants
    <3>2. CASE ~(entry = e /\ left = 0 /\ Evict)
      BY <2>13, <3>2 DEF Expire
    <3>3. QED
      BY <3>1, <3>2
  <2>14. CASE UNCHANGED lockVars
    BY <2>14 DEF lockVars
  <2>15. QED
    BY <2>4, <2>5, <2>6, <2>7, <2>8, <2>9, <2>10, <2>12, <2>13, <2>14, <2>11 DEF Next
<1>3. QED
  BY <1>1, <1>2, Invariance, PTL DEF Spec, ImplementsLeaseSafety, Lease!Spec
=============================================================================
