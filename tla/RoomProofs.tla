----------------------------- MODULE RoomProofs -----------------------------
(***************************************************************************)
(* Theorems about Room, for any connections, requests, lock entries and    *)
(* lock lifetime.                                                          *)
(***************************************************************************)
EXTENDS Room, SequenceTheorems, TLAPS

\* What is proved of the lock by itself, for the connections of the room.
LockProofs == INSTANCE EditorLockProofs WITH Client <- Conn

-----------------------------------------------------------------------------
(* The room uses the lock as its module says. *)

\* The room's instance of the lock is the one the lock's theorems are about.
LEMMA SameLock ==
  /\ Lock!Spec <=> LockProofs!Spec
  /\ Lock!TypeOK <=> LockProofs!TypeOK
  /\ Lock!TimerCoversLock <=> LockProofs!TimerCoversLock
  /\ Lock!RoomToldTruth <=> LockProofs!RoomToldTruth
  /\ Lock!LiveLockKept <=> LockProofs!LiveLockKept
<1>1. Lock!Init <=> LockProofs!Init
  BY DEF Lock!Init, LockProofs!Init
<1>2. [Lock!Next]_(Lock!lockVars) <=> [LockProofs!Next]_(LockProofs!lockVars)
  BY DEF Lock!Next, LockProofs!Next, Lock!lockVars, LockProofs!lockVars, Lock!Query, LockProofs!Query,
         Lock!Forget, LockProofs!Forget, Lock!Tick, LockProofs!Tick, Lock!Acquire, LockProofs!Acquire,
         Lock!Heartbeat, LockProofs!Heartbeat, Lock!Release, LockProofs!Release, Lock!MayRelease,
         LockProofs!MayRelease, Lock!Refresh, LockProofs!Refresh, Lock!Grant, LockProofs!Grant, Lock!Evict,
         LockProofs!Evict, Lock!Report, LockProofs!Report, Lock!Fresh, LockProofs!Fresh, Lock!AcquireQuietly,
         LockProofs!AcquireQuietly, Lock!PermitAnonymous, LockProofs!PermitAnonymous, Lock!Announce,
         LockProofs!Announce, Lock!Fire, LockProofs!Fire, Lock!Expire, LockProofs!Expire, Lock!Live,
         LockProofs!Live, Lock!Lapsed, LockProofs!Lapsed, Lock!Decrement, LockProofs!Decrement
<1>3. Lock!TypeOK <=> LockProofs!TypeOK
  BY DEF Lock!TypeOK, LockProofs!TypeOK, Lock!Holders, LockProofs!Holders
<1>4. Lock!TimerCoversLock <=> LockProofs!TimerCoversLock
  BY DEF Lock!TimerCoversLock, LockProofs!TimerCoversLock
<1>5. Lock!RoomToldTruth <=> LockProofs!RoomToldTruth
  BY DEF Lock!RoomToldTruth, LockProofs!RoomToldTruth
<1>6. Lock!Spec <=> LockProofs!Spec
  BY <1>1, <1>2, PTL DEF Lock!Spec, LockProofs!Spec
<1>7. Lock!LiveLockKept <=> LockProofs!LiveLockKept
  BY DEF Lock!LiveLockKept, LockProofs!LiveLockKept, Lock!Live, LockProofs!Live, Lock!Forget, LockProofs!Forget,
     Lock!Release, LockProofs!Release, Lock!MayRelease, LockProofs!MayRelease, Lock!Evict, LockProofs!Evict,
     Lock!Report, LockProofs!Report, Lock!lockVars, LockProofs!lockVars
<1> QED BY <1>3, <1>4, <1>5, <1>6, <1>7

\* Every step of the room is a step of the lock manager or leaves it alone.
LEMMA LockStep ==
  ASSUME [Next]_vars
  PROVE  [Lock!Next]_(Lock!lockVars)
<1> USE DEF Lock!lockVars, Handler
<1>1. CASE UNCHANGED lockVars
  BY <1>1 DEF lockVars
<1>2. ASSUME NEW c \in Conn,
             \/ Accept(c) \/ Join(c) \/ ReadSnapshot(c) \/ Leave(c) \/ Reply(c)
             \/ Deliver(c) \/ Drop(c) \/ Break(c)
      PROVE  UNCHANGED lockVars
  BY <1>2 DEF Accept, Join, ReadSnapshot, Leave, Reply, Deliver, Drop, Break
<1>3. ASSUME NEW c \in Conn, SendSnapshot(c) \/ Exit(c)
      PROVE  Lock!Next \/ UNCHANGED lockVars
  BY <1>3 DEF SendSnapshot, Exit, Lock!Next
<1>4. ASSUME NEW c \in Conn,
             \/ EditMessage(c) \/ AcquireMessage(c) \/ HeartbeatMessage(c)
             \/ ReleaseMessage(c)
      PROVE  Lock!Next \/ UNCHANGED lockVars
  BY <1>4 DEF EditMessage, AcquireMessage, HeartbeatMessage, ReleaseMessage, Lock!Next
<1>5. ASSUME NEW p \in Put, NEW as \in Users, StartPut(p, as)
      PROVE  Lock!Next
  BY <1>5 DEF StartPut, Lock!Next
<1>6. ASSUME NEW h \in Handler, Finish(h)
      PROVE  Lock!Next \/ UNCHANGED lockVars
  BY <1>6 DEF Finish, Commit, Peek, Cast, Announce, Lock!Next
<1>7. ASSUME NEW e \in Entry, Timer(e)
      PROVE  Lock!Next
  BY <1>7 DEF Timer, Lock!Next
<1>8. CASE Tick
  BY <1>8 DEF Tick, Lock!Next
<1>9. CASE SessionExpires \/ AdminDelete \/ Shutdown
  BY <1>1, <1>9 DEF SessionExpires, AdminDelete, Shutdown, Lock!Next
<1>10. CASE UNCHANGED vars
  BY <1>1, <1>10 DEF vars
<1> QED
  BY <1>1, <1>2, <1>3, <1>4, <1>5, <1>6, <1>7, <1>8, <1>9, <1>10 DEF Next, Serve

\* Whatever connections, requests, timers and the administrator do, the lock
\* manager sees only calls that its own module allows: the room implements it.
THEOREM RoomUsesLock == Spec => Lock!Spec
<1>1. Init => Lock!Init
  BY DEF Init
<1>2. [Next]_vars => [Lock!Next]_(Lock!lockVars)
  BY LockStep
<1> QED BY <1>1, <1>2, PTL DEF Spec, Lock!Spec

\* What an entry and its holder say of one another.
HolderHasEntry == LockProofs!HolderHasEntry

\* What is known of the lock in every state of the room.
LockInv == Lock!TypeOK /\ HolderHasEntry /\ Lock!TimerCoversLock /\ Lock!RoomToldTruth

LEMMA HolderHasEntryDef ==
  HolderHasEntry <=> /\ entry = NoEntry => holder = Nobody /\ left = 0
                     /\ entry # NoEntry => holder \in Conn
BY DEF HolderHasEntry, LockProofs!HolderHasEntry

LEMMA LockInvariance == Spec => []LockInv
<1>1. LockProofs!Spec => []LockProofs!IInv
  BY LockProofs!Invariance, RoomConstants
<1>2. LockProofs!IInv => LockInv
  BY SameLock DEF LockProofs!IInv, LockInv, HolderHasEntry
<1> QED BY <1>1, <1>2, SameLock, RoomUsesLock, PTL

\* In the room, too, the lock that is held has a timer coming to end it, ...
THEOREM RoomCoversLock == Spec => []Lock!TimerCoversLock
BY LockInvariance, PTL DEF LockInv

\* ... and a live lock is taken from its holder by nothing but its own release
\* and the deletion of the session: no peer, PUT or timer of the room does.
THEOREM RoomKeepsLiveLock == Spec => Lock!LiveLockKept
<1>1. LockProofs!Spec => LockProofs!LiveLockKept
  BY LockProofs!LiveKept, RoomConstants
<1> QED BY <1>1, SameLock, RoomUsesLock, PTL

-----------------------------------------------------------------------------
(* Types *)

\* A prefix is a sequence of the same elements, no longer than it may be; one
\* that is short enough is whole.
LEMMA PrefixType ==
  ASSUME NEW S, NEW s \in Seq(S), NEW n \in Nat
  PROVE  /\ Prefix(s, n) \in Seq(S)
         /\ Len(Prefix(s, n)) <= n
         /\ Len(s) <= n => Prefix(s, n) = s
<1> DEFINE k == IF Len(s) < n THEN Len(s) ELSE n
<1>1. k \in Nat /\ k <= Len(s) /\ k <= n
  OBVIOUS
<1>2. /\ SubSeq(s, 1, k) \in Seq(S)
      /\ Len(SubSeq(s, 1, k)) = k
      /\ \A i \in 1..k : SubSeq(s, 1, k)[i] = s[i]
  BY <1>1
<1>3. ASSUME Len(s) <= n
      PROVE  SubSeq(s, 1, k) = s
  <2>1. k = Len(s)
    BY <1>3
  <2> QED BY <1>2, <2>1, SeqEqual
<1> QED BY <1>1, <1>2, <1>3 DEF Prefix

\* What tasks are made of, and what they are moved to.
LEMMA TaskType ==
  /\ \A t \in Task : t.step \in Steps /\ t.edit \in Edits /\ t.as \in Users /\ t.age \in 0..TTL
  /\ \A s \in Steps, e \in Edits, as \in Users :
       [step |-> s, edit |-> e, as |-> as, age |-> 0] \in Task
  /\ \A t \in Task, s \in Steps : [t EXCEPT !.step = s] \in Task
  /\ Idle \in Task
<1>1. 0 \in Edits /\ Nobody \in Users /\ 0 \in 0..TTL
  BY RoomConstants DEF Edits, Users
<1> QED BY <1>1 DEF Task, Idle, Steps

\* What the clock makes of a task.
LEMMA OlderTask ==
  ASSUME NEW t \in Task
  PROVE  /\ Older(t) \in Task
         /\ Older(t).step = t.step /\ Older(t).edit = t.edit /\ Older(t).as = t.as
         /\ t.step \in Editing /\ Older(t).age < TTL => Older(t).age = t.age + 1
         /\ t.step \notin Editing => Older(t) = t
<1>1. t.age \in 0..TTL /\ TTL \in Nat
  BY TaskType, RoomConstants
<1>2. CASE t.step \in Editing /\ t.age < TTL
  <2>1. t.age + 1 \in 0..TTL
    BY <1>1, <1>2
  <2>2. Older(t) = [t EXCEPT !.age = t.age + 1]
    BY <1>2 DEF Older
  <2> QED BY <1>1, <1>2, <2>1, <2>2 DEF Task
<1>3. CASE ~(t.step \in Editing /\ t.age < TTL)
  <2>1. Older(t) = t
    BY <1>3 DEF Older
  <2> QED BY <1>1, <1>3, <2>1
<1> QED BY <1>2, <1>3

\* The clock does so to a read loop's task, and changes nothing else of any.
LEMMA TickTask ==
  ASSUME task \in [Handler -> Task], Tick, NEW h \in Handler
  PROVE  /\ h \in Conn => task'[h] = Older(task[h])
         /\ task'[h].step = task[h].step
         /\ task'[h].edit = task[h].edit
         /\ task'[h].as = task[h].as
         /\ task[h].step \notin Editing => task'[h] = task[h]
<1>1. task'[h] = IF h \in Conn THEN Older(task[h]) ELSE task[h]
  BY DEF Tick
<1> QED BY <1>1, OlderTask

LEMMA TickTyped ==
  ASSUME task \in [Handler -> Task], Tick
  PROVE  task' \in [Handler -> Task]
<1>1. task' = [h \in Handler |-> IF h \in Conn THEN Older(task[h]) ELSE task[h]]
  BY DEF Tick
<1> QED BY <1>1, OlderTask

\* What messages are made of.
LEMMA MessageType ==
  /\ \A e \in Edits : /\ <<"content", e>> \in Message
                      /\ <<"ack", e>> \in Message
                      /\ <<"rejected", e>> \in Message
  /\ \A u \in Users : <<"lock", u>> \in Message
  /\ <<"mine", Nobody>> \in Message /\ <<"denied", Nobody>> \in Message
  /\ \A m \in Message : /\ m[1] \in {"content", "ack"} => m[2] \in Edits
                        /\ m[1] = "lock" => m[2] \in Users
BY DEF Message

LEMMA Capacity == Cap \in Nat /\ Cap > 0
BY RoomConstants

LEMMA EmptyBuffer == <<>> \in Seq(Message) /\ Len(<<>>) <= Cap
BY Capacity

\* What is left of a buffer fits, too.
LEMMA TailFits ==
  ASSUME NEW s \in Seq(Message), s # <<>>, Len(s) <= Cap
  PROVE  Head(s) \in Message /\ Tail(s) \in Seq(Message) /\ Len(Tail(s)) <= Cap
<1>1. Len(Tail(s)) = Len(s) - 1 /\ Len(s) \in Nat
  BY HeadTailProperties
<1> QED BY <1>1, Capacity, HeadTailProperties

LEMMA OneMessage == ASSUME NEW m \in Message PROVE <<m>> \in Seq(Message)
OBVIOUS

LEMMA NextEdit == ASSUME issued \in Edits, issued < MaxEdits PROVE issued + 1 \in Edits
BY RoomConstants DEF Edits

\* What concerns the hub in the type invariant.
HubTyped ==
  /\ members \in SUBSET Conn
  /\ kicked \in SUBSET Conn
  /\ inbox \in [Conn -> Seq(Message)]
  /\ \A c \in Conn : Len(inbox[c]) <= Cap

\* A broadcast keeps every buffer within its capacity.
LEMMA BroadcastType ==
  ASSUME HubTyped, NEW msgs \in Seq(Message), NEW to \in SUBSET Conn, Broadcast(msgs, to)
  PROVE  HubTyped'
<1>1. \A c \in Conn : inbox[c] \o msgs \in Seq(Message)
  <2> TAKE c \in Conn
  <2>1. inbox[c] \in Seq(Message)
    BY DEF HubTyped
  <2> QED BY <2>1, ConcatProperties
<1>2. \A c \in Conn : Prefix(inbox[c] \o msgs, Cap) \in Seq(Message)
                    /\ Len(Prefix(inbox[c] \o msgs, Cap)) <= Cap
  BY <1>1, PrefixType, RoomConstants
<1>3. inbox' \in [Conn -> Seq(Message)] /\ \A c \in Conn : Len(inbox'[c]) <= Cap
  BY <1>2 DEF Broadcast, HubTyped
<1> QED BY <1>3 DEF Broadcast, HubTyped

\* What is heard of the lock is a sequence of messages.
LEMMA NewsType ==
  ASSUME Lock!TypeOK'
  PROVE  [i \in 1..Len(events') |-> <<"lock", events'[i]>>] \in Seq(Message)
<1>1. events' \in Seq(Users)
  BY DEF Lock!TypeOK, Lock!Holders, Users
<1>2. \A i \in 1..Len(events') : <<"lock", events'[i]>> \in Message
  BY <1>1, MessageType
<1> QED BY <1>1, <1>2

LEMMA HearType ==
  ASSUME HubTyped, Lock!TypeOK', Hear
  PROVE  HubTyped'
BY NewsType, BroadcastType DEF Hear, HubTyped

LEMMA PlaceType ==
  ASSUME HubTyped, NEW c \in Conn, Join(c) \/ Leave(c)
  PROVE  HubTyped'
<1>1. CASE Join(c)
  BY <1>1 DEF Join, HubTyped
<1>2. CASE Leave(c)
  BY <1>2, EmptyBuffer DEF Leave, HubTyped
<1> QED BY <1>1, <1>2

LEMMA DeliverType ==
  ASSUME HubTyped, NEW c \in Conn, Deliver(c)
  PROVE  HubTyped'
<1>1. inbox[c] \in Seq(Message) /\ inbox[c] # <<>> /\ Len(inbox[c]) <= Cap
  BY DEF Deliver, HubTyped
<1>2. Tail(inbox[c]) \in Seq(Message) /\ Len(Tail(inbox[c])) <= Cap
  BY <1>1, TailFits
<1>3. inbox' = [inbox EXCEPT ![c] = Tail(inbox[c])]
  BY DEF Deliver
<1>4. inbox' \in [Conn -> Seq(Message)] /\ \A d \in Conn : Len(inbox'[d]) <= Cap
  BY <1>2, <1>3 DEF HubTyped
<1> QED BY <1>4 DEF Deliver, HubTyped

\* What clients are shown is a text and a lock.
LEMMA ReadShows ==
  ASSUME view \in [Conn -> View], stored \in Edits, NEW c \in Conn, ReadSnapshot(c)
  PROVE  view' \in [Conn -> View]
BY DEF ReadSnapshot, View

LEMMA DeliverShows ==
  ASSUME view \in [Conn -> View], HubTyped, NEW c \in Conn, Deliver(c)
  PROVE  view' \in [Conn -> View]
<1> DEFINE kind == Head(inbox[c])[1]
           what == Head(inbox[c])[2]
           text == IF kind \in {"content", "ack"} THEN what ELSE view[c].content
           who == IF kind = "lock" THEN what ELSE view[c].lock
<1>1. inbox[c] \in Seq(Message) /\ inbox[c] # <<>> /\ Len(inbox[c]) <= Cap
  BY DEF Deliver, HubTyped
<1>2. Head(inbox[c]) \in Message
  BY <1>1, TailFits
<1>3. view[c] \in View
  OBVIOUS
<1>4. text \in Edits /\ who \in Users
  BY <1>2, <1>3, MessageType DEF View
<1>5. view' = [view EXCEPT ![c].content = text, ![c].lock = who]
  BY DEF Deliver
<1> HIDE DEF text, who
<1> QED BY <1>4, <1>5 DEF View

\* Every variable of the room keeps to its range, for any number of connections,
\* PUTs and edits and any buffer; no buffer outgrows subscriberBuffer.
THEOREM TypeCorrect == Spec => []TypeOK
<1> DEFINE Rest ==
      /\ HubTyped
      /\ stored \in Edits
      /\ session \in {"live", "expired", "deleted", "forgotten", "kicked"}
      /\ hub \in {"open", "closing", "stopped", "gave up"}
      /\ pc \in [Conn -> Places]
      /\ task \in [Handler -> Task]
      /\ issued \in Edits
      /\ view \in [Conn -> View]
<1>1. Init => Rest
  BY RoomConstants DEF Init, HubTyped, Edits, Places, Handler, Idle, Task, Steps, Users, View
<1>2. LockInv /\ LockInv' /\ Rest /\ [Next]_vars => Rest'
  <2> SUFFICES ASSUME LockInv, LockInv', Rest, [Next]_vars
               PROVE  Rest'
    OBVIOUS
  <2> USE DEF Handler
  <2>1. ASSUME Hear PROVE HubTyped'
    BY <2>1, HearType DEF LockInv
  <2>2. ASSUME UNCHANGED hubVars PROVE HubTyped'
    BY <2>2 DEF hubVars, HubTyped
  <2>3. ASSUME NEW c \in Conn, Accept(c) \/ Drop(c) \/ Break(c)
        PROVE  Rest'
    BY <2>2, <2>3 DEF Accept, Drop, Break, Places
  <2>4. ASSUME NEW c \in Conn, Join(c) \/ Leave(c)
        PROVE  Rest'
    <3>1. HubTyped'
      BY <2>4, PlaceType
    <3> QED BY <2>4, <3>1 DEF Join, Leave, Places
  <2>5. ASSUME NEW c \in Conn, ReadSnapshot(c)
        PROVE  Rest'
    <3>1. view' \in [Conn -> View]
      BY <2>5, ReadShows
    <3> QED BY <2>2, <2>5, <3>1 DEF ReadSnapshot, Places
  <2>6. ASSUME NEW c \in Conn, SendSnapshot(c)
        PROVE  Rest'
    <3>1. holder' \in Users
      BY DEF LockInv, Lock!TypeOK, Lock!Holders, Users
    <3> QED BY <2>1, <2>2, <2>6, <3>1 DEF SendSnapshot, Places, View
  <2>7. ASSUME NEW c \in Conn, Deliver(c)
        PROVE  Rest'
    <3>1. HubTyped'
      BY <2>7, DeliverType
    <3>2. view' \in [Conn -> View]
      BY <2>7, DeliverShows
    <3> QED BY <2>7, <3>1, <3>2 DEF Deliver
  <2>8. ASSUME NEW c \in Conn, Exit(c)
        PROVE  Rest'
    BY <2>1, <2>2, <2>8 DEF Exit, Places
  <2>9. ASSUME NEW c \in Conn, NEW s \in {"denied", "renewed"}
        PROVE  [task EXCEPT ![c] = [Idle EXCEPT !.step = s]] \in [Handler -> Task]
    BY TaskType DEF Steps
  <2>10. ASSUME NEW h \in Handler, NEW as \in Users, Begin(h, as)
         PROVE  task' \in [Handler -> Task] /\ issued' \in Edits
    <3>1. issued + 1 \in Edits
      BY <2>10, NextEdit DEF Begin
    <3>2. [step |-> "granted", edit |-> issued + 1, as |-> as, age |-> 0] \in Task
      BY <3>1, TaskType DEF Steps
    <3> QED BY <2>10, <3>1, <3>2 DEF Begin
  <2>11. ASSUME NEW c \in Conn, EditMessage(c)
         PROVE  Rest'
    <3>1. c \in Users
      BY DEF Users
    <3> QED BY <2>1, <2>2, <2>9, <2>10, <2>11, <3>1 DEF EditMessage, Deny
  <2>12. ASSUME NEW c \in Conn, AcquireMessage(c) \/ HeartbeatMessage(c) \/ ReleaseMessage(c)
         PROVE  Rest'
    BY <2>1, <2>2, <2>9, <2>12
       DEF AcquireMessage, HeartbeatMessage, ReleaseMessage, Deny, Confirm
  <2>13. ASSUME NEW p \in Put, NEW as \in Users, StartPut(p, as)
         PROVE  Rest'
    BY <2>1, <2>10, <2>13 DEF StartPut
  <2>14. ASSUME NEW h \in Handler, NEW from \in Steps, NEW to \in Steps, Move(h, from, to)
         PROVE  task' \in [Handler -> Task]
    BY <2>14, TaskType DEF Move
  <2>15. ASSUME NEW h \in Handler, Commit(h)
         PROVE  Rest'
    <3>1. task[h].edit \in Edits
      BY TaskType
    <3> QED BY <2>2, <2>14, <2>15, <3>1 DEF Commit, Steps
  <2>16. ASSUME NEW h \in Handler, Peek(h)
         PROVE  Rest'
    BY <2>1, <2>2, <2>14, <2>16 DEF Peek, Steps
  <2>17. ASSUME NEW h \in Handler, Cast(h)
         PROVE  Rest'
    <3>1. << <<"content", task[h].edit>> >> \in Seq(Message)
      BY TaskType, MessageType, OneMessage
    <3>2. HubTyped'
      <4>1. members \ {h} \in SUBSET Conn
        BY DEF HubTyped
      <4>2. Broadcast(<< <<"content", task[h].edit>> >>, members \ {h})
        BY <2>17 DEF Cast
      <4> QED BY <3>1, <4>1, <4>2, BroadcastType
    <3> QED BY <2>14, <2>17, <3>2 DEF Cast, Steps
  <2>18. ASSUME NEW h \in Handler, Announce(h)
         PROVE  Rest'
    <3>1. task' \in [Handler -> Task]
      <4>1. \A s \in {"saved", "unsaved", "idle"} : [task[h] EXCEPT !.step = s] \in Task
        BY TaskType DEF Steps
      <4> QED BY <2>18, <4>1, TaskType DEF Announce
    <3>2. pc' \in [Conn -> Places]
      BY <2>18 DEF Announce, Places
    <3> QED BY <2>1, <2>18, <3>1, <3>2 DEF Announce
  <2>19. ASSUME NEW c \in Conn, Reply(c)
         PROVE  Rest'
    <3>1. <<Answer(task[c])>> \in Seq(Message)
      <4>1. task[c].edit \in Edits
        BY TaskType
      <4>2. Answer(task[c]) \in Message
        BY <4>1, MessageType DEF Answer
      <4> QED BY <4>2, OneMessage
    <3>2. HubTyped'
      <4>1. {c} \in SUBSET Conn
        OBVIOUS
      <4>2. Broadcast(<<Answer(task[c])>>, {c})
        BY <2>19 DEF Reply
      <4> QED BY <3>1, <4>1, <4>2, BroadcastType
    <3>3. task' \in [Handler -> Task]
      BY <2>19, TaskType DEF Reply
    <3> QED BY <2>19, <3>2, <3>3 DEF Reply
  <2>20. CASE Tick \/ SessionExpires \/ UNCHANGED vars
    BY <2>2, <2>20, TickTyped DEF Tick, SessionExpires, vars
  <2>21. ASSUME NEW e \in Entry, Timer(e)
         PROVE  Rest'
    BY <2>1, <2>21 DEF Timer
  <2>22. ASSUME KickAll PROVE HubTyped'
    BY <2>22 DEF KickAll, HubTyped
  <2>23. CASE AdminDelete \/ Shutdown
    BY <2>2, <2>22, <2>23 DEF AdminDelete, Shutdown
  <2> QED
    BY <2>3, <2>4, <2>5, <2>6, <2>7, <2>8, <2>11, <2>12, <2>13, <2>15, <2>16, <2>17, <2>18,
       <2>19, <2>20, <2>21, <2>23 DEF Next, Serve, Finish
<1>3. LockInv /\ Rest => TypeOK
  BY DEF LockInv, TypeOK, HubTyped
<1> QED BY <1>1, <1>2, <1>3, LockInvariance, PTL DEF Spec

-----------------------------------------------------------------------------
(* Who is where, and what it is doing *)

\* Places of a connection that is in the room.
Here == {"joined", "read", "up", "broken", "leaving"}

\* The room's members are those who have joined and not left; only they are
\* dropped, and only for them anything is queued.
Seated ==
  /\ members = {c \in Conn : pc[c] \in Here}
  /\ kicked \subseteq members
  /\ \A c \in Conn \ members : inbox[c] = <<>>

\* A read loop that is at work has started and not ended.
Busy == \A c \in Conn : task[c] # Idle => pc[c] \in {"up", "broken"}

\* The lock manager waits for the announce of exactly those edits.
Owes == owing = {h \in Handler : task[h].step \in Unannounced}

\* A connection edits in its own name.
OwnName == \A c \in Conn : task[c].step \in Editing => task[c].as = c

Placed == Seated /\ Busy /\ Owes /\ OwnName

\* A broadcast to members neither adds nor removes any, and reaches nobody else.
LEMMA BroadcastSeated ==
  ASSUME HubTyped, Seated, NEW msgs, NEW to \in SUBSET members, Broadcast(msgs, to)
  PROVE  /\ members' = members
         /\ kicked' \subseteq members
         /\ \A c \in Conn \ members : inbox'[c] = <<>>
BY DEF Broadcast, Seated, HubTyped

LEMMA HearSeated ==
  ASSUME HubTyped, Seated, Hear
  PROVE  /\ members' = members
         /\ kicked' \subseteq members
         /\ \A c \in Conn \ members : inbox'[c] = <<>>
BY BroadcastSeated DEF Hear

LEMMA SeatedKept ==
  ASSUME TypeOK, Seated, Busy, [Next]_vars
  PROVE  Seated'
<1> DEFINE Same == /\ members' = members
                   /\ kicked' \subseteq members
                   /\ \A c \in Conn \ members : inbox'[c] = <<>>
<1>1. HubTyped /\ pc \in [Conn -> Places]
  BY DEF TypeOK, HubTyped
<1>2. ASSUME Hear PROVE Same
  BY <1>1, <1>2, HearSeated
<1>3. ASSUME UNCHANGED hubVars PROVE Same
  BY <1>3 DEF hubVars, Seated
<1>4. ASSUME Same, UNCHANGED pc PROVE Seated'
  BY <1>4 DEF Seated
<1>5. ASSUME Same, NEW c \in Conn, NEW p \in Here, pc[c] \in Here, pc' = [pc EXCEPT ![c] = p]
      PROVE  Seated'
  BY <1>1, <1>5 DEF Seated
<1>6. ASSUME NEW c \in Conn, Accept(c) PROVE Seated'
  BY <1>1, <1>3, <1>6 DEF Accept, Seated, Here
<1>7. ASSUME NEW c \in Conn, Join(c) PROVE Seated'
  BY <1>1, <1>7 DEF Join, Seated, Here
<1>8. ASSUME NEW c \in Conn, ReadSnapshot(c) \/ SendSnapshot(c) \/ Drop(c) \/ Break(c) \/ Exit(c)
      PROVE  Seated'
  BY <1>2, <1>3, <1>5, <1>8 DEF ReadSnapshot, SendSnapshot, Drop, Break, Exit, Here
<1>9. ASSUME NEW c \in Conn, Leave(c) PROVE Seated'
  BY <1>1, <1>9 DEF Leave, Seated, Here, HubTyped
<1>10. ASSUME NEW c \in Conn, Deliver(c) PROVE Seated'
  <2>1. c \in members
    BY <1>10 DEF Deliver, Seated
  <2>2. Same
    BY <1>1, <1>10, <2>1 DEF Deliver, Seated, HubTyped
  <2> QED BY <1>4, <1>10, <2>2 DEF Deliver
<1>11. ASSUME NEW c \in Conn,
              \/ EditMessage(c) \/ AcquireMessage(c) \/ HeartbeatMessage(c)
              \/ ReleaseMessage(c)
       PROVE  Seated'
  BY <1>2, <1>3, <1>4, <1>11
     DEF EditMessage, AcquireMessage, HeartbeatMessage, ReleaseMessage
<1>12. ASSUME NEW p \in Put, NEW as \in Users, StartPut(p, as) PROVE Seated'
  BY <1>2, <1>4, <1>12 DEF StartPut
<1>13. ASSUME NEW h \in Handler, Commit(h) \/ Peek(h) PROVE Seated'
  BY <1>2, <1>3, <1>4, <1>13 DEF Commit, Peek
<1>14. ASSUME NEW h \in Handler, Cast(h) PROVE Seated'
  <2>1. Same
    BY <1>1, <1>14, BroadcastSeated DEF Cast
  <2> QED BY <1>4, <1>14, <2>1 DEF Cast
<1>15. ASSUME NEW h \in Handler, Announce(h) PROVE Seated'
  <2>1. Same
    BY <1>2, <1>15 DEF Announce
  <2>2. CASE UNCHANGED pc
    BY <1>4, <2>1, <2>2
  <2>3. CASE h \in Conn /\ pc' = [pc EXCEPT ![h] = "broken"]
    <3>1. task[h] # Idle
      BY <1>15 DEF Announce, Idle
    <3>2. pc[h] \in Here
      BY <2>3, <3>1 DEF Busy, Here
    <3> QED BY <1>5, <2>1, <2>3, <3>2 DEF Here
  <2> QED BY <1>15, <2>2, <2>3 DEF Announce
<1>16. ASSUME NEW c \in Conn, Reply(c) PROVE Seated'
  <2>1. task[c] # Idle
    BY <1>16 DEF Reply, Idle
  <2>2. {c} \in SUBSET members
    BY <2>1 DEF Busy, Seated, Here
  <2>3. Same
    BY <1>1, <1>16, <2>2, BroadcastSeated DEF Reply
  <2> QED BY <1>4, <1>16, <2>3 DEF Reply
<1>17. ASSUME NEW e \in Entry, Timer(e) PROVE Seated'
  BY <1>2, <1>4, <1>17 DEF Timer
<1>18. CASE Tick \/ SessionExpires \/ UNCHANGED vars
  BY <1>3, <1>4, <1>18 DEF Tick, SessionExpires, vars
<1>19. CASE AdminDelete \/ Shutdown
  <2>1. ASSUME KickAll PROVE Same
    BY <2>1 DEF KickAll, Seated
  <2> QED BY <1>3, <1>4, <1>19, <2>1 DEF AdminDelete, Shutdown
<1> QED
  BY <1>6, <1>7, <1>8, <1>9, <1>10, <1>11, <1>12, <1>13, <1>14, <1>15, <1>16, <1>17, <1>18,
     <1>19 DEF Next, Serve, Finish

\* Only quiet acquisitions and announces change what the lock manager is owed.
LEMMA OwingStays ==
  ASSUME \/ Lock!Query \/ Lock!Forget \/ Lock!Tick
         \/ \E c \in Conn : Lock!Acquire(c) \/ Lock!Heartbeat(c) \/ Lock!Release(c)
         \/ \E e \in Entry : Lock!Fire(e) \/ Lock!Expire(e)
  PROVE  owing' = owing
BY DEF Lock!Query, Lock!Forget, Lock!Tick, Lock!Acquire, Lock!Heartbeat, Lock!Release,
       Lock!Fire, Lock!Expire

\* An edit that begins is owed its announce, and belongs to a connection that
\* listens or to a request.
LEMMA BeginTasks ==
  ASSUME TypeOK, Busy, Owes, OwnName, UNCHANGED pc,
         NEW h \in Handler, NEW as \in Users, Begin(h, as), owing' = owing \cup {h},
         h \in Conn => as = h /\ pc[h] = "up"
  PROVE  (Busy /\ Owes /\ OwnName)'
<1>1. task \in [Handler -> Task]
  BY DEF TypeOK
<1>2. task'[h] = [step |-> "granted", edit |-> issued + 1, as |-> as, age |-> 0]
      /\ \A g \in Handler \ {h} : task'[g] = task[g]
  BY <1>1 DEF Begin
<1>3. Owes'
  BY <1>2 DEF Owes, Unannounced
<1>4. task'[h].as = as
  BY <1>2
<1>5. Busy'
  BY <1>2 DEF Busy, Handler
<1>6. OwnName'
  BY <1>2, <1>4 DEF OwnName, Handler
<1> QED BY <1>3, <1>5, <1>6

\* Steps that leave the edits as they are: a task may end, or become a reply.
LEMMA SmallTasks ==
  ASSUME TypeOK, Busy, Owes, OwnName, UNCHANGED owing,
         NEW c \in Conn, pc[c] \in {"up", "broken"}, UNCHANGED pc, NEW t \in Task,
         t.step \notin Editing, task[c].step \notin Unannounced,
         task' = [task EXCEPT ![c] = t]
  PROVE  (Busy /\ Owes /\ OwnName)'
<1>1. task \in [Handler -> Task] /\ c \in Handler
  BY DEF TypeOK, Handler
<1>2. task'[c] = t /\ \A g \in Handler \ {c} : task'[g] = task[g]
  BY <1>1
<1>3. Owes'
  BY <1>2 DEF Owes, Editing
<1>4. Busy' /\ OwnName'
  BY <1>2 DEF Busy, OwnName, Handler
<1> QED BY <1>3, <1>4

LEMMA TasksKept ==
  ASSUME TypeOK, Busy, Owes, OwnName, [Next]_vars
  PROVE  (Busy /\ Owes /\ OwnName)'
<1> DEFINE Kept == (Busy /\ Owes /\ OwnName)'
<1>1. task \in [Handler -> Task] /\ pc \in [Conn -> Places] /\ Conn \subseteq Handler
  BY DEF TypeOK, Handler
<1>2. ASSUME UNCHANGED <<owing, pc, task>> PROVE Kept
  BY <1>2 DEF Busy, Owes, OwnName
<1>3. ASSUME UNCHANGED <<owing, task>>, NEW c \in Conn, NEW p, pc' = [pc EXCEPT ![c] = p],
             task[c] = Idle \/ p \in {"up", "broken"}
      PROVE  Kept
  BY <1>1, <1>3 DEF Busy, Owes, OwnName
<1>4. ASSUME NEW c \in Conn, Accept(c) \/ Join(c) \/ ReadSnapshot(c) \/ Leave(c) \/ Drop(c) \/ Break(c)
      PROVE  Kept
  <2>1. UNCHANGED <<owing, task>>
    BY <1>4 DEF Accept, Join, ReadSnapshot, Leave, Drop, Break, lockVars
  <2>2. CASE pc[c] \notin {"up", "broken"}
    <3>1. task[c] = Idle
      BY <2>2 DEF Busy
    <3> QED BY <1>3, <1>4, <2>1, <3>1
            DEF Accept, Join, ReadSnapshot, Leave, Drop, Break
  <2>3. CASE pc[c] \in {"up", "broken"}
    BY <1>3, <1>4, <2>1, <2>3 DEF Accept, Join, ReadSnapshot, Leave, Drop, Break
  <2> QED BY <2>2, <2>3
<1>5. ASSUME NEW c \in Conn, SendSnapshot(c) \/ Exit(c)
      PROVE  Kept
  <2>1. UNCHANGED owing
    BY <1>5, OwingStays DEF SendSnapshot, Exit, lockVars
  <2> QED BY <1>3, <1>5, <2>1 DEF SendSnapshot, Exit
<1>6. ASSUME NEW c \in Conn, Deliver(c) PROVE Kept
  BY <1>2, <1>6 DEF Deliver, lockVars
<1>7. ASSUME NEW s \in {"denied", "renewed"}
      PROVE  [Idle EXCEPT !.step = s] \in Task /\ [Idle EXCEPT !.step = s].step \notin Editing
  <2>1. [Idle EXCEPT !.step = s] \in Task
    BY TaskType DEF Steps
  <2>2. [Idle EXCEPT !.step = s].step = s
    BY DEF Idle
  <2> QED BY <2>1, <2>2 DEF Editing, Unannounced
<1>8. Idle.step \notin Editing
  BY DEF Idle, Editing, Unannounced
<1>9. ASSUME NEW c \in Conn, NEW s \in {"denied", "renewed"}, Listening(c), UNCHANGED <<owing, pc>>,
             task' = [task EXCEPT ![c] = [Idle EXCEPT !.step = s]]
      PROVE  Kept
  BY <1>7, <1>8, <1>9, SmallTasks DEF Listening, Editing
<1>10. ASSUME NEW c \in Conn, EditMessage(c) PROVE Kept
  <2>1. CASE Lock!AcquireQuietly(c, c) /\ Begin(c, c)
    <3>1. owing' = owing \cup {c} /\ c \in Handler /\ c \in Users
      BY <1>1, <2>1 DEF Lock!AcquireQuietly, Users
    <3> QED BY <1>10, <2>1, <3>1, BeginTasks DEF EditMessage, Listening
  <2>2. CASE Deny(c) /\ UNCHANGED lockVars
    BY <1>9, <1>10, <2>2 DEF EditMessage, Deny, lockVars
  <2> QED BY <1>10, <2>1, <2>2 DEF EditMessage
<1>11. ASSUME NEW c \in Conn, AcquireMessage(c) \/ HeartbeatMessage(c) \/ ReleaseMessage(c)
       PROVE  Kept
  <2>1. UNCHANGED <<owing, pc>> /\ Listening(c)
    BY <1>11, OwingStays DEF AcquireMessage, HeartbeatMessage, ReleaseMessage, lockVars
  <2>2. UNCHANGED task \/ Deny(c) \/ Confirm(c)
    BY <1>11 DEF AcquireMessage, HeartbeatMessage, ReleaseMessage
  <2> QED BY <1>2, <1>9, <2>1, <2>2 DEF Deny, Confirm
<1>12. ASSUME NEW p \in Put, NEW as \in Users, StartPut(p, as) PROVE Kept
  <2>1. owing' = owing \cup {p}
    BY <1>12 DEF StartPut, Lock!AcquireQuietly, Lock!PermitAnonymous
  <2>2. p \in Handler /\ p \notin Conn
    BY RoomConstants DEF Handler
  <2> QED BY <1>12, <2>1, <2>2, BeginTasks DEF StartPut
<1>13. ASSUME NEW h \in Handler, NEW from \in Unannounced, NEW to \in Unannounced, Move(h, from, to),
              UNCHANGED <<owing, pc>>
       PROVE  Kept
  <2>1. /\ task'[h].step = to /\ task'[h].as = task[h].as /\ task[h].step = from
        /\ \A g \in Handler \ {h} : task'[g] = task[g]
    BY <1>1, <1>13 DEF Move, Task
  <2>2. task[h] # Idle
    BY <2>1 DEF Idle, Unannounced
  <2>3. Busy' /\ OwnName'
    BY <1>13, <2>1, <2>2 DEF Busy, OwnName, Editing, Handler
  <2>4. Owes'
    BY <1>13, <2>1 DEF Owes
  <2> QED BY <2>3, <2>4
<1>14. ASSUME NEW h \in Handler, Commit(h) \/ Peek(h) \/ Cast(h) PROVE Kept
  <2>1. UNCHANGED <<owing, pc>>
    BY <1>14, OwingStays DEF Commit, Peek, Cast, lockVars
  <2> QED BY <1>13, <1>14, <2>1 DEF Commit, Peek, Cast, Unannounced
<1>15. ASSUME NEW h \in Handler, Announce(h) PROVE Kept
  <2>1. owing' = owing \ {h} /\ task[h].step \in {"cast", "failed", "void"}
    BY <1>15 DEF Announce, Lock!Announce
  <2>2. /\ task'[h].step \in {"saved", "unsaved", "idle"}
        /\ task'[h].as = task[h].as \/ task'[h] = Idle
        /\ \A g \in Handler \ {h} : task'[g] = task[g]
    BY <1>1, <1>15 DEF Announce, Task, Idle
  <2>3. Owes'
    BY <2>1, <2>2 DEF Owes, Unannounced
  <2>4. OwnName'
    BY <2>1, <2>2 DEF OwnName, Editing, Unannounced, Handler, Idle
  <2>5. h \in Conn => pc[h] \in {"up", "broken"}
    BY <2>1 DEF Busy, Idle
  <2>6. Busy'
    BY <1>1, <1>15, <2>2, <2>5 DEF Announce, Busy, Handler
  <2> QED BY <2>3, <2>4, <2>6
<1>16. ASSUME NEW c \in Conn, Reply(c) PROVE Kept
  <2>1. task[c] # Idle /\ task[c].step \notin Unannounced
    BY <1>16 DEF Reply, Idle, Unannounced
  <2>2. UNCHANGED <<owing, pc>>
    BY <1>16 DEF Reply, lockVars
  <2>3. pc[c] \in {"up", "broken"}
    BY <2>1 DEF Busy
  <2> QED BY <1>8, <1>16, <2>1, <2>2, <2>3, SmallTasks, TaskType DEF Reply
<1>17. ASSUME NEW e \in Entry, Timer(e) PROVE Kept
  BY <1>2, <1>17, OwingStays DEF Timer
<1>18. CASE SessionExpires \/ AdminDelete \/ Shutdown \/ UNCHANGED vars
  BY <1>2, <1>18, OwingStays DEF SessionExpires, AdminDelete, Shutdown, vars, lockVars
<1>19. CASE Tick
  <2>1. UNCHANGED <<owing, pc>>
    BY <1>19, OwingStays DEF Tick
  <2>2. \A h \in Handler : task'[h].step = task[h].step /\ task'[h].as = task[h].as
    BY <1>1, <1>19, TickTask
  <2>3. \A h \in Handler : task[h] = Idle => task'[h] = Idle
    BY <1>1, <1>19, TickTask DEF Idle, Editing, Unannounced
  <2>4. Busy'
    BY <1>1, <2>1, <2>3 DEF Busy
  <2>5. Owes'
    BY <2>1, <2>2 DEF Owes
  <2>6. OwnName'
    BY <1>1, <2>2 DEF OwnName
  <2> QED BY <2>4, <2>5, <2>6
<1> QED
  BY <1>4, <1>5, <1>6, <1>10, <1>11, <1>12, <1>14, <1>15, <1>16, <1>17, <1>18, <1>19
     DEF Next, Serve, Finish

-----------------------------------------------------------------------------
(* Who edits holds the lock *)

\* The administrator has told the lock manager to forget the session.
Deleted == session \in {"forgotten", "kicked"}

LEMMA DeletedForGood ==
  ASSUME Deleted, [Next]_vars
  PROVE  Deleted'
<1>1. CASE UNCHANGED session
  BY <1>1 DEF Deleted
<1>2. CASE SessionExpires \/ AdminDelete \/ UNCHANGED vars
  BY <1>2 DEF Deleted, SessionExpires, AdminDelete, vars
<1> QED
  BY <1>1, <1>2
     DEF Next, Serve, Finish, Accept, Join, ReadSnapshot, SendSnapshot, Exit, Leave, Reply, Deliver, Drop,
         Break, EditMessage, AcquireMessage, HeartbeatMessage, ReleaseMessage, StartPut, Commit, Peek, Cast,
         Announce, Timer, Tick, Shutdown

\* A live lock, by the time of the lock manager.
Holds(c) == Lock!Live /\ holder = c

\* No call of the lock manager takes a live lock from its holder, but its own
\* release, the deletion of the session, and the clock.
LEMMA LiveStays ==
  ASSUME LockInv, NEW c \in Conn, Holds(c),
         \/ Lock!Query
         \/ \E d \in Conn : Lock!Acquire(d) \/ Lock!Heartbeat(d)
         \/ \E d \in Conn : d # c /\ Lock!Release(d)
         \/ \E h \in Handler, d \in Conn : Lock!AcquireQuietly(h, d)
         \/ \E h \in Handler : Lock!Announce(h) \/ Lock!PermitAnonymous(h)
         \/ \E e \in Entry : Lock!Fire(e) \/ Lock!Expire(e)
         \/ UNCHANGED lockVars
  PROVE  Holds(c)' /\ left' >= left
<1> DEFINE Kept == Holds(c)' /\ left' >= left
<1>1. entry # NoEntry /\ left > 0 /\ holder = c /\ Lock!Live /\ ~Lock!Lapsed /\ left \in 0..TTL
  BY DEF Holds, Lock!Live, Lock!Lapsed, LockInv, Lock!TypeOK
<1>2. ASSUME entry' # NoEntry, left' > 0, holder' = c
      PROVE  Holds(c)'
  BY <1>2 DEF Holds, Lock!Live
<1>3. ASSUME UNCHANGED <<entry, holder, left>> PROVE Kept
  BY <1>1, <1>2, <1>3
<1>4. ASSUME Lock!Refresh PROVE Kept
  BY <1>1, <1>2, <1>4, RoomConstants DEF Lock!Refresh
<1>5. ASSUME NEW d \in Conn, NEW tell, Lock!Grant(d, tell) PROVE FALSE
  BY <1>1, <1>5 DEF Lock!Grant
<1>6. CASE Lock!Query \/ UNCHANGED lockVars
  BY <1>1, <1>3, <1>6 DEF Lock!Query, lockVars
<1>7. CASE \E d \in Conn : Lock!Acquire(d) \/ Lock!Heartbeat(d)
  BY <1>4, <1>5, <1>7 DEF Lock!Acquire, Lock!Heartbeat
<1>8. CASE \E d \in Conn : d # c /\ Lock!Release(d)
  BY <1>1, <1>8 DEF Lock!Release, Lock!MayRelease
<1>9. CASE \E h \in Handler, d \in Conn : Lock!AcquireQuietly(h, d)
  BY <1>4, <1>5, <1>9 DEF Lock!AcquireQuietly
<1>10. CASE \E h \in Handler : Lock!Announce(h) \/ Lock!PermitAnonymous(h)
  BY <1>1, <1>3, <1>10 DEF Lock!Announce, Lock!PermitAnonymous
<1>11. CASE \E e \in Entry : Lock!Fire(e) \/ Lock!Expire(e)
  BY <1>1, <1>3, <1>11 DEF Lock!Fire, Lock!Expire
<1> QED BY <1>6, <1>7, <1>8, <1>9, <1>10, <1>11

\* Whoever acquires the lock holds it, for its whole lifetime.
LEMMA QuietlyHeld ==
  ASSUME LockInv, NEW h \in Handler, NEW c \in Conn, Lock!AcquireQuietly(h, c)
  PROVE  Holds(c)' /\ left' = TTL
<1>1. CASE Lock!Live /\ holder = c /\ Lock!Refresh
  BY <1>1, RoomConstants DEF Lock!Refresh, Lock!Live, Holds
<1>2. CASE Lock!Grant(c, FALSE)
  <2>1. entry' # NoEntry /\ holder' = c /\ left' = TTL
    BY <1>2, RoomConstants DEF Lock!Grant, Lock!Fresh
  <2> QED BY <2>1, RoomConstants DEF Lock!Live, Holds
<1> QED BY <1>1, <1>2 DEF Lock!AcquireQuietly

\* An edit under way keeps the lock, and as much of its lifetime, through every
\* step but the clock's.
LEMMA EditorKeeps ==
  ASSUME TypeOK, LockInv, [Next]_vars, ~Tick, ~Deleted',
         NEW c \in Conn, task[c].step \in Editing, Holds(c)
  PROVE  Holds(c)' /\ left' >= left
<1> DEFINE Kept == Holds(c)' /\ left' >= left
<1>1. Holds(c) /\ task[c] # Idle
  BY DEF Idle, Editing, Unannounced
<1>2. CASE UNCHANGED lockVars
  BY <1>1, <1>2, LiveStays
<1>3. ASSUME NEW d \in Conn, Accept(d) \/ Serve(d) \/ Deliver(d) \/ Drop(d) \/ Break(d)
      PROVE  Kept
  <2>1. Exit(d) => d # c
    BY <1>1 DEF Exit
  <2> QED
    BY <1>1, <1>2, <1>3, <2>1, LiveStays
       DEF Accept, Serve, Join, ReadSnapshot, SendSnapshot, Exit, Leave, Reply, Deliver, Drop, Break
<1>4. ASSUME NEW d \in Conn,
             \/ EditMessage(d) \/ AcquireMessage(d) \/ HeartbeatMessage(d)
             \/ ReleaseMessage(d)
      PROVE  Kept
  <2>1. ReleaseMessage(d) => d # c
    BY <1>1 DEF ReleaseMessage, Listening
  <2> QED
    BY <1>1, <1>2, <1>4, <2>1, LiveStays
       DEF EditMessage, AcquireMessage, HeartbeatMessage, ReleaseMessage, Handler
<1>5. ASSUME NEW p \in Put, NEW as \in Users, StartPut(p, as) PROVE Kept
  BY <1>1, <1>5, LiveStays DEF StartPut, Handler
<1>6. ASSUME NEW h \in Handler, Finish(h) PROVE Kept
  BY <1>1, <1>2, <1>6, LiveStays DEF Finish, Commit, Peek, Cast, Announce
<1>7. ASSUME NEW e \in Entry, Timer(e) PROVE Kept
  BY <1>1, <1>7, LiveStays DEF Timer
<1>8. CASE SessionExpires \/ AdminDelete \/ Shutdown \/ UNCHANGED vars
  <2>1. session' # "forgotten"
    BY DEF Deleted
  <2> QED BY <1>2, <1>8, <2>1 DEF SessionExpires, AdminDelete, Shutdown, vars
<1> QED BY <1>3, <1>4, <1>5, <1>6, <1>7, <1>8 DEF Next

\* A connection begins to edit with a grant of the lock.
LEMMA EditingBegins ==
  ASSUME TypeOK, [Next]_vars, NEW c \in Conn, task[c].step \notin Editing, task'[c].step \in Editing
  PROVE  Lock!AcquireQuietly(c, c) /\ task'[c].age = 0
<1>1. task \in [Handler -> Task] /\ c \in Handler
  BY DEF TypeOK, Handler
<1>2. ASSUME NEW d \in Conn, EditMessage(d)
      PROVE  Lock!AcquireQuietly(c, c) /\ task'[c].age = 0
  BY <1>1, <1>2 DEF EditMessage, Begin, Deny, Idle, Editing, Unannounced
<1>3. ASSUME NEW d \in Conn,
             \/ AcquireMessage(d) \/ HeartbeatMessage(d) \/ ReleaseMessage(d) \/ Reply(d)
      PROVE  FALSE
  BY <1>1, <1>3
     DEF AcquireMessage, HeartbeatMessage, ReleaseMessage, Reply, Deny, Confirm, Idle, Editing, Unannounced
<1>4. ASSUME NEW p \in Put, NEW as \in Users, StartPut(p, as) PROVE FALSE
  BY <1>1, <1>4, RoomConstants DEF StartPut, Begin
<1>5. ASSUME NEW h \in Handler, Finish(h) PROVE FALSE
  BY <1>1, <1>5 DEF Finish, Commit, Peek, Cast, Announce, Move, Task, Idle, Editing, Unannounced
<1>6. task' # task
  OBVIOUS
<1>7. ~Tick
  BY <1>1, TickTask
<1> QED
  BY <1>2, <1>3, <1>4, <1>5, <1>6, <1>7
     DEF Next, Serve, Accept, Join, ReadSnapshot, SendSnapshot, Exit, Leave, Deliver, Drop, Break, Timer,
         SessionExpires, AdminDelete, Shutdown, vars

\* ... and ages only by the clock.
LEMMA AgeStays ==
  ASSUME TypeOK, [Next]_vars, ~Tick, NEW c \in Conn, task[c].step \in Editing, task'[c].step \in Editing
  PROVE  task'[c].age = task[c].age
<1>1. task \in [Handler -> Task] /\ c \in Handler
  BY DEF TypeOK, Handler
<1>2. ASSUME NEW d \in Conn,
             EditMessage(d) \/ AcquireMessage(d) \/ HeartbeatMessage(d) \/ ReleaseMessage(d) \/ Reply(d)
      PROVE  task'[c] = task[c]
  <2>1. CASE task' = task
    BY <2>1
  <2>2. CASE \E d1 \in Conn : Listening(d1) /\ (Begin(d1, d1) \/ Deny(d1) \/ Confirm(d1))
    BY <1>1, <2>2 DEF Listening, Begin, Deny, Confirm, Idle, Editing, Unannounced
  <2>3. CASE Reply(d)
    BY <1>1, <2>3 DEF Reply, Idle, Editing, Unannounced
  <2> QED BY <1>2, <2>1, <2>2, <2>3 DEF EditMessage, AcquireMessage, HeartbeatMessage, ReleaseMessage
<1>3. ASSUME NEW p \in Put, NEW as \in Users, StartPut(p, as) PROVE task'[c] = task[c]
  BY <1>1, <1>3, RoomConstants DEF StartPut, Begin
<1>4. ASSUME NEW h \in Handler, Finish(h) PROVE task'[c].age = task[c].age
  BY <1>1, <1>4 DEF Finish, Commit, Peek, Cast, Announce, Move, Task, Idle, Editing, Unannounced
<1>5. CASE UNCHANGED task
  BY <1>5
<1> QED
  BY <1>2, <1>3, <1>4, <1>5
     DEF Next, Serve, Accept, Join, ReadSnapshot, SendSnapshot, Exit, Leave, Deliver, Drop, Break, Timer,
         SessionExpires, AdminDelete, Shutdown, vars

\* What holds in every state: types, the lock, and who is where.
Standing == TypeOK /\ LockInv /\ Placed

LEMMA StandingInvariance == Spec => []Standing
<1>1. Init => Placed
  BY DEF Init, Lock!Init, Placed, Seated, Busy, Owes, OwnName, Here, Editing, Unannounced, Idle, Handler
<1>2. TypeOK /\ Placed /\ [Next]_vars => Placed'
  BY SeatedKept, TasksKept DEF Placed
<1> QED BY <1>1, <1>2, TypeCorrect, LockInvariance, PTL DEF Spec, Standing

\* However long an edit takes, its lock runs out no earlier than its lifetime
\* after the grant: what is left of it and the edit's age make up the lifetime.
Leased ==
  ~Deleted =>
    \A c \in Conn :
      task[c].step \in Editing /\ task[c].age < TTL => Holds(c) /\ left + task[c].age >= TTL

LEMMA LeasedInvariance == Spec => []Leased
<1>1. Init => Leased
  BY DEF Init, Leased, Idle, Editing, Unannounced, Handler
<1>2. ASSUME Standing, Standing', Leased, [Next]_vars
      PROVE  Leased'
  <2> SUFFICES ASSUME ~Deleted', NEW c \in Conn, task'[c].step \in Editing, task'[c].age < TTL
               PROVE  Holds(c)' /\ left' + task'[c].age >= TTL
    BY RoomConstants DEF Leased
  <2>1. /\ task \in [Handler -> Task] /\ c \in Handler /\ ~Deleted
        /\ task[c].age \in 0..TTL /\ task'[c].age \in 0..TTL
        /\ left \in 0..TTL /\ left' \in 0..TTL /\ TTL \in Nat
    BY <1>2, TaskType, DeletedForGood, RoomConstants DEF Standing, TypeOK, LockInv, Lock!TypeOK, Handler
  <2>2. CASE task[c].step \notin Editing
    <3>1. Holds(c)' /\ left' = TTL
      BY <1>2, <2>1, <2>2, EditingBegins, QuietlyHeld DEF Standing
    <3> QED BY <2>1, <3>1
  <2>3. CASE task[c].step \in Editing /\ ~Tick
    <3>1. task'[c].age = task[c].age
      BY <1>2, <2>3, AgeStays DEF Standing
    <3>2. Holds(c) /\ left + task[c].age >= TTL
      BY <1>2, <2>1, <2>3, <3>1 DEF Leased
    <3>3. Holds(c)' /\ left' >= left
      BY <1>2, <2>3, <3>2, EditorKeeps DEF Standing
    <3> QED BY <2>1, <3>1, <3>2, <3>3
  <2>4. CASE task[c].step \in Editing /\ Tick
    <3>0. task[c] \in Task /\ task'[c] = Older(task[c])
      BY <2>1, <2>4, TickTask
    <3>1. task'[c].age = task[c].age + 1
      BY <2>4, <3>0, OlderTask
    <3>2. Holds(c) /\ left + task[c].age >= TTL
      BY <1>2, <2>1, <2>4, <3>1 DEF Leased
    <3>3. left > 0 /\ left' = left - 1 /\ entry' = entry /\ holder' = holder /\ entry # NoEntry
      BY <2>1, <2>4, <3>2 DEF Tick, Lock!Tick, Lock!Decrement, Holds, Lock!Live
    <3>4. left' > 0
      BY <2>1, <3>1, <3>2, <3>3
    <3> QED BY <2>1, <3>1, <3>2, <3>3, <3>4 DEF Holds, Lock!Live
  <2> QED BY <2>2, <2>3, <2>4
<1> QED BY <1>1, <1>2, StandingInvariance, PTL DEF Spec

\* Where edits are done in time, none is as old as the lock lives.
Young == \A c \in Conn : task[c].step \in Editing => task[c].age < TTL

LEMMA YoungInvariance == ASSUME Timely PROVE Spec => []Young
<1>1. Init => Young
  BY DEF Init, Young, Idle, Editing, Unannounced, Handler
<1>2. ASSUME Standing, Young, [Next]_vars
      PROVE  Young'
  <2> SUFFICES ASSUME NEW c \in Conn, task'[c].step \in Editing
               PROVE  task'[c].age < TTL
    BY RoomConstants DEF Young
  <2>1. task \in [Handler -> Task] /\ c \in Handler
    BY <1>2 DEF Standing, TypeOK, Handler
  <2>2. CASE task[c].step \notin Editing
    BY <1>2, <2>2, EditingBegins, RoomConstants DEF Standing
  <2>3. CASE task[c].step \in Editing /\ ~Tick
    BY <1>2, <2>3, AgeStays DEF Standing, Young
  <2>4. CASE Tick
    BY <2>1, <2>4, TickTask DEF Tick
  <2> QED BY <2>2, <2>3, <2>4
<1> QED BY <1>1, <1>2, StandingInvariance, PTL DEF Spec

\* There, a connection that edits holds the lock, from the grant to the reply,
\* whatever other connections, PUTs and timers do.
EditorHolds == ~Deleted => \A c \in Conn : task[c].step \in Editing => Holds(c)

LEMMA EditorHoldsInvariance == ASSUME Timely PROVE Spec => []EditorHolds
<1>1. Leased /\ Young => EditorHolds
  BY DEF Leased, Young, EditorHolds
<1> QED BY <1>1, LeasedInvariance, YoungInvariance, PTL

\* A connection writes under the lock, beside any connections, PUTs, deletions
\* and store calls of any length, until its edit is as old as the lock lives.
THEOREM WritersHold == Spec => []WriterHolds
<1>1. Leased => WriterHolds
  BY DEF Leased, WriterHolds, Deleted, Holds
<1> QED BY <1>1, LeasedInvariance, PTL

\* Of two connections that are at an edit at the same time, one has been at it for
\* as long as the lock lives: only a store call that outlasts its lock lets the
\* texts of two clients overtake one another.
OneWriter ==
  session = "live" =>
    \A c, d \in Conn :
      task[c].step \in Editing /\ task[d].step \in Editing /\ c # d
        => task[c].age = TTL \/ task[d].age = TTL

THEOREM SocketsExclude == Spec => []OneWriter
<1>1. Standing /\ WriterHolds => OneWriter
  <2> SUFFICES ASSUME Standing, WriterHolds, session = "live", NEW c \in Conn, NEW d \in Conn,
                      task[c].step \in Editing, task[d].step \in Editing, c # d
               PROVE  task[c].age = TTL \/ task[d].age = TTL
    BY DEF OneWriter
  <2>1. task[c].age \in 0..TTL /\ task[d].age \in 0..TTL /\ TTL \in Nat
    BY TaskType, RoomConstants DEF Standing, TypeOK, Handler
  <2>2. ~(task[c].age < TTL) \/ ~(task[d].age < TTL)
    BY DEF WriterHolds
  <2> QED BY <2>1, <2>2
<1> QED BY <1>1, StandingInvariance, WritersHold, PTL

-----------------------------------------------------------------------------
(* Who has left holds nothing *)

\* A connection that is leaving gives the lock up, and gets it again only by a
\* PUT request in its name.
LeavesLock ==
  [][ \A c \in Conn :
        pc'[c] \in {"leaving", "done"} /\ holder' = c
          => \/ pc[c] \in {"leaving", "done"} /\ holder = c
             \/ \E p \in Put : StartPut(p, c) ]_vars

\* Acquisitions give the lock to the caller, other calls to nobody new.
LEMMA HolderAfter ==
  ASSUME holder' # holder
  PROVE  /\ \/ Lock!Query \/ Lock!Forget \/ Lock!Tick
            \/ \E d \in Conn : Lock!Heartbeat(d) \/ Lock!Release(d)
            \/ \E h \in Handler : Lock!Announce(h) \/ Lock!PermitAnonymous(h)
            \/ \E e \in Entry : Lock!Fire(e) \/ Lock!Expire(e)
            \/ UNCHANGED lockVars
            => holder' = Nobody
         /\ \A d \in Conn : Lock!Acquire(d) => holder' = d
         /\ \A d \in Conn, h \in Handler : Lock!AcquireQuietly(h, d) => holder' = d
<1>1. /\ Lock!Evict => holder' = Nobody
      /\ ~Lock!Refresh
      /\ \A d, tell : Lock!Grant(d, tell) => holder' = d
  BY DEF Lock!Evict, Lock!Refresh, Lock!Grant
<1>2. \A d \in Conn : Lock!Acquire(d) => holder' = d
  BY <1>1 DEF Lock!Acquire
<1>3. \A d \in Conn, h \in Handler : Lock!AcquireQuietly(h, d) => holder' = d
  BY <1>1 DEF Lock!AcquireQuietly
<1>4. Lock!Query \/ Lock!Forget \/ Lock!Tick \/ UNCHANGED lockVars => holder' = Nobody
  BY <1>1 DEF Lock!Query, Lock!Forget, Lock!Tick, lockVars
<1>5. \A d \in Conn : Lock!Heartbeat(d) \/ Lock!Release(d) => holder' = Nobody
  BY <1>1 DEF Lock!Heartbeat, Lock!Release
<1>6. \A h \in Handler : Lock!Announce(h) \/ Lock!PermitAnonymous(h) => holder' = Nobody
  BY <1>1 DEF Lock!Announce, Lock!PermitAnonymous
<1>7. \A e \in Entry : Lock!Fire(e) \/ Lock!Expire(e) => holder' = Nobody
  BY <1>1 DEF Lock!Fire, Lock!Expire
<1> QED BY <1>2, <1>3, <1>4, <1>5, <1>6, <1>7

\* The lock gets a new holder by its own message, or by a PUT in its name.
LEMMA GainedByItself ==
  ASSUME NEW c \in Conn, holder # c, holder' = c, [Next]_vars
  PROVE  \/ Listening(c) /\ UNCHANGED pc
         \/ \E p \in Put : StartPut(p, c)
<1> USE DEF Handler
<1>1. c # Nobody
  BY RoomConstants
<1>2. ASSUME UNCHANGED lockVars PROVE FALSE
  BY <1>2 DEF lockVars
<1>3. ASSUME NEW d \in Conn,
             \/ Accept(d) \/ Serve(d) \/ Deliver(d) \/ Drop(d) \/ Break(d)
             \/ HeartbeatMessage(d) \/ ReleaseMessage(d)
      PROVE  FALSE
  BY <1>1, <1>2, <1>3, HolderAfter
     DEF Accept, Serve, Join, ReadSnapshot, SendSnapshot, Exit, Leave, Reply, Deliver, Drop, Break,
         HeartbeatMessage, ReleaseMessage
<1>4. ASSUME NEW d \in Conn, EditMessage(d) \/ AcquireMessage(d)
      PROVE  Listening(c) /\ UNCHANGED pc
  BY <1>1, <1>2, <1>4, HolderAfter DEF EditMessage, AcquireMessage
<1>5. ASSUME NEW p \in Put, NEW as \in Users, StartPut(p, as)
      PROVE  StartPut(p, c)
  BY <1>1, <1>5, HolderAfter DEF StartPut
<1>6. ASSUME NEW h \in Handler, Finish(h) PROVE FALSE
  BY <1>1, <1>2, <1>6, HolderAfter DEF Finish, Commit, Peek, Cast, Announce
<1>7. ASSUME NEW e \in Entry, Timer(e) PROVE FALSE
  BY <1>1, <1>7, HolderAfter DEF Timer
<1>8. CASE Tick \/ SessionExpires \/ AdminDelete \/ Shutdown \/ UNCHANGED vars
  BY <1>1, <1>2, <1>8, HolderAfter
     DEF Tick, SessionExpires, AdminDelete, Shutdown, vars, lockVars
<1> QED BY <1>3, <1>4, <1>5, <1>6, <1>7, <1>8 DEF Next

\* The deferred calls of WS: whoever leaves has released the lock before, and
\* nothing but a PUT gives it back to a client that has left.
THEOREM LeaversLetGo == Spec => LeavesLock
<1> DEFINE Leaves(c) == pc'[c] \in {"leaving", "done"} /\ holder' = c
                          => \/ pc[c] \in {"leaving", "done"} /\ holder = c
                             \/ \E p \in Put : StartPut(p, c)
<1>1. Standing /\ [Next]_vars => [\A c \in Conn : Leaves(c)]_vars
  <2> SUFFICES ASSUME Standing, [Next]_vars, NEW c \in Conn,
                      pc'[c] \in {"leaving", "done"}, holder' = c,
                      \A p \in Put : ~StartPut(p, c)
               PROVE  pc[c] \in {"leaving", "done"} /\ holder = c
    OBVIOUS
  <2>1. pc \in [Conn -> Places]
    BY DEF Standing, TypeOK
  <2>2. holder = c
    BY <2>1, GainedByItself DEF Listening
  <2>3. ~Exit(c)
    <3>1. ASSUME Lock!Release(c) PROVE FALSE
      BY <3>1, RoomConstants DEF Lock!Release, Lock!Evict
    <3>2. Lock!MayRelease(c)
      BY <2>2, RoomConstants, HolderHasEntryDef
         DEF Standing, LockInv, Lock!MayRelease
    <3> QED BY <3>1, <3>2 DEF Exit
  <2>4. pc[c] \in {"leaving", "done"}
    <3> SUFFICES ASSUME pc'[c] # pc[c]
                 PROVE  pc[c] = "leaving"
      OBVIOUS
    <3>1. ASSUME NEW d \in Conn, Accept(d) \/ Join(d) \/ ReadSnapshot(d) \/ SendSnapshot(d)
          PROVE  FALSE
      BY <2>1, <3>1 DEF Accept, Join, ReadSnapshot, SendSnapshot
    <3>2. ASSUME NEW d \in Conn, Exit(d) \/ Leave(d) \/ Drop(d) \/ Break(d)
          PROVE  pc[c] = "leaving"
      BY <2>1, <2>3, <3>2 DEF Exit, Leave, Drop, Break
    <3>3. ASSUME NEW h \in Handler, Announce(h)
          PROVE  FALSE
      BY <2>1, <3>3 DEF Announce
    <3> QED
      BY <3>1, <3>2, <3>3
         DEF Next, Serve, Finish, Reply, Deliver, EditMessage, AcquireMessage, HeartbeatMessage, ReleaseMessage,
             StartPut, Commit, Peek, Cast, Timer, Tick, SessionExpires, AdminDelete, Shutdown, vars
  <2> QED BY <2>2, <2>4
<1> QED BY <1>1, StandingInvariance, PTL DEF Spec, LeavesLock

\* Without PUT requests, a connection that has left holds no lock.
THEOREM GoneLetGo == ASSUME Put = {} PROVE Spec => []GoneHoldsNothing
<1>1. Init => GoneHoldsNothing
  BY DEF Init, GoneHoldsNothing
<1> DEFINE Leaves(c) == pc'[c] \in {"leaving", "done"} /\ holder' = c
                          => \/ pc[c] \in {"leaving", "done"} /\ holder = c
                             \/ \E p \in Put : StartPut(p, c)
<1>2. GoneHoldsNothing /\ [\A c \in Conn : Leaves(c)]_vars => GoneHoldsNothing'
  BY DEF GoneHoldsNothing, vars, lockVars
<1> QED BY <1>1, <1>2, LeaversLetGo, PTL DEF LeavesLock, Spec

-----------------------------------------------------------------------------
(* What a queue tells *)

\* There is a message of one of the kinds in q.
Has(q, kinds) == \E i \in 1..Len(q) : q[i][1] \in kinds

\* The last message of one of the kinds in q, if there is one, tells v.
Tells(q, kinds, v) ==
  \A i \in 1..Len(q) :
    /\ q[i][1] \in kinds
    /\ \A j \in 1..Len(q) : j > i => q[j][1] \notin kinds
    => q[i][2] = v

\* Nothing is told by an empty queue.
LEMMA TellsNothing ==
  ASSUME NEW kinds, NEW v
  PROVE  Tells(<<>>, kinds, v) /\ ~Has(<<>>, kinds)
BY DEF Tells, Has

\* Messages of other kinds at its end change nothing.
LEMMA TellsAsBefore ==
  ASSUME NEW q \in Seq(Message), NEW msgs \in Seq(Message), NEW kinds, NEW v,
         ~Has(msgs, kinds)
  PROVE  /\ Tells(q, kinds, v) => Tells(q \o msgs, kinds, v)
         /\ Has(q \o msgs, kinds) <=> Has(q, kinds)
<1> DEFINE n == Len(q)
           m == Len(msgs)
<1>1. /\ Len(q \o msgs) = n + m /\ n \in Nat /\ m \in Nat
      /\ \A i \in 1..n + m : (q \o msgs)[i] = IF i <= n THEN q[i] ELSE msgs[i - n]
  BY ConcatProperties
<1>2. \A i \in 1..n + m : (q \o msgs)[i][1] \in kinds => i \in 1..n
  <2> SUFFICES ASSUME NEW i \in 1..n + m, (q \o msgs)[i][1] \in kinds, i > n
               PROVE  FALSE
    BY <1>1
  <2>1. i - n \in 1..m /\ (q \o msgs)[i] = msgs[i - n]
    BY <1>1
  <2> QED BY <2>1 DEF Has
<1>3. \A i \in 1..n : i \in 1..n + m /\ (q \o msgs)[i] = q[i]
  BY <1>1
<1>4. Has(q \o msgs, kinds) <=> Has(q, kinds)
  BY <1>1, <1>2, <1>3 DEF Has
<1>5. ASSUME Tells(q, kinds, v) PROVE Tells(q \o msgs, kinds, v)
  <2> SUFFICES ASSUME NEW i \in 1..n + m, (q \o msgs)[i][1] \in kinds,
                      \A j \in 1..n + m : j > i => (q \o msgs)[j][1] \notin kinds
               PROVE  (q \o msgs)[i][2] = v
    BY <1>1 DEF Tells
  <2>1. i \in 1..n /\ q[i][1] \in kinds /\ (q \o msgs)[i] = q[i]
    BY <1>2, <1>3
  <2>2. \A j \in 1..n : j > i => q[j][1] \notin kinds
    BY <1>3
  <2> QED BY <1>5, <2>1, <2>2 DEF Tells
<1> QED BY <1>4, <1>5

\* A message of one of the kinds at its end is what it tells.
LEMMA TellsNews ==
  ASSUME NEW q \in Seq(Message), NEW msgs \in Seq(Message), NEW kinds,
         msgs # <<>>, msgs[Len(msgs)][1] \in kinds
  PROVE  /\ Tells(q \o msgs, kinds, msgs[Len(msgs)][2])
         /\ Has(q \o msgs, kinds)
<1> DEFINE n == Len(q)
           m == Len(msgs)
<1>1. /\ Len(q \o msgs) = n + m /\ n \in Nat /\ m \in Nat /\ m > 0
      /\ \A i \in 1..n + m : (q \o msgs)[i] = IF i <= n THEN q[i] ELSE msgs[i - n]
  BY ConcatProperties, EmptySeq
<1>2. n + m \in 1..n + m /\ (q \o msgs)[n + m] = msgs[m]
  BY <1>1
<1>3. Has(q \o msgs, kinds)
  BY <1>1, <1>2 DEF Has
<1>4. ASSUME NEW i \in 1..n + m, \A j \in 1..n + m : j > i => (q \o msgs)[j][1] \notin kinds
      PROVE  i = n + m
  BY <1>1, <1>2, <1>4
<1>5. Tells(q \o msgs, kinds, msgs[m][2])
  BY <1>1, <1>2, <1>4 DEF Tells
<1> QED BY <1>3, <1>5

\* What was delivered from its head was told, if nothing of its kinds follows.
LEMMA TellsRest ==
  ASSUME NEW q \in Seq(Message), q # <<>>, NEW kinds, NEW v, Tells(q, kinds, v)
  PROVE  /\ Tells(Tail(q), kinds, v)
         /\ Head(q)[1] \in kinds /\ ~Has(Tail(q), kinds) => Head(q)[2] = v
         /\ Has(q, kinds) <=> Head(q)[1] \in kinds \/ Has(Tail(q), kinds)
<1> DEFINE n == Len(q)
           r == Tail(q)
<1>1. /\ n \in Nat /\ n > 0 /\ Len(r) = n - 1 /\ Head(q) = q[1]
      /\ \A i \in 1..n - 1 : r[i] = q[i + 1]
  BY HeadTailProperties, EmptySeq
<1>2. \A i \in 1..n : i > 1 => i - 1 \in 1..n - 1 /\ r[i - 1] = q[i]
  BY <1>1
<1>3. Has(q, kinds) <=> Head(q)[1] \in kinds \/ Has(r, kinds)
  <2>1. ASSUME Has(q, kinds), q[1][1] \notin kinds PROVE Has(r, kinds)
    <3>1. PICK i \in 1..n : q[i][1] \in kinds
      BY <2>1 DEF Has
    <3>2. i > 1
      BY <1>1, <2>1, <3>1
    <3> QED BY <1>1, <1>2, <3>1, <3>2 DEF Has
  <2>2. ASSUME Has(r, kinds) PROVE Has(q, kinds)
    <3>1. PICK i \in 1..n - 1 : r[i][1] \in kinds
      BY <1>1, <2>2 DEF Has
    <3> QED BY <1>1, <3>1 DEF Has
  <2>3. ASSUME q[1][1] \in kinds PROVE Has(q, kinds)
    BY <1>1, <2>3 DEF Has
  <2> QED BY <1>1, <2>1, <2>2, <2>3
<1>4. Tells(r, kinds, v)
  <2> SUFFICES ASSUME NEW i \in 1..n - 1, r[i][1] \in kinds,
                      \A j \in 1..n - 1 : j > i => r[j][1] \notin kinds
               PROVE  r[i][2] = v
    BY <1>1 DEF Tells
  <2>1. i + 1 \in 1..n /\ q[i + 1] = r[i]
    BY <1>1
  <2>2. ASSUME NEW j \in 1..n, j > i + 1 PROVE q[j][1] \notin kinds
    <3>1. j - 1 \in 1..n - 1 /\ j - 1 > i /\ r[j - 1] = q[j]
      BY <1>1, <1>2, <2>2
    <3> QED BY <3>1
  <2> QED BY <2>1, <2>2 DEF Tells
<1>5. ASSUME q[1][1] \in kinds, ~Has(r, kinds) PROVE q[1][2] = v
  <2>1. ASSUME NEW j \in 1..n, j > 1 PROVE q[j][1] \notin kinds
    BY <1>1, <1>2, <1>5, <2>1 DEF Has
  <2>2. 1 \in 1..n
    BY <1>1
  <2> QED BY <1>5, <2>1, <2>2 DEF Tells
<1> QED BY <1>1, <1>3, <1>4, <1>5

-----------------------------------------------------------------------------
(* What the clients are told of the lock *)

\* The hub takes c's messages, and its handler has not given up.
Streaming(c) == pc[c] \in {"joined", "read", "up"} /\ c \notin kicked

\* A broadcast that does not drop a subscriber is queued for it whole.
LEMMA Reached ==
  ASSUME HubTyped, NEW msgs \in Seq(Message), NEW to \in SUBSET Conn, Broadcast(msgs, to),
         NEW c \in Conn, c \notin kicked'
  PROVE  /\ c \notin kicked
         /\ inbox'[c] = IF c \in to THEN inbox[c] \o msgs ELSE inbox[c]
<1>1. c \notin kicked
  BY DEF Broadcast
<1>2. CASE c \notin to
  BY <1>1, <1>2 DEF Broadcast
<1>3. CASE c \in to
  <2>1. inbox[c] \in Seq(Message) /\ inbox[c] \o msgs \in Seq(Message)
        /\ Len(inbox[c] \o msgs) = Len(inbox[c]) + Len(msgs)
    BY ConcatProperties DEF HubTyped
  <2>2. ~(Len(inbox[c]) + Len(msgs) > Cap)
    BY <1>3 DEF Broadcast
  <2>3. Len(inbox[c] \o msgs) <= Cap
    <3>1. Len(inbox[c]) \in Nat /\ Len(msgs) \in Nat
      BY <2>1
    <3> QED BY <2>1, <2>2, <3>1, Capacity
  <2>4. Prefix(inbox[c] \o msgs, Cap) = inbox[c] \o msgs
    BY <2>1, <2>3, PrefixType, Capacity
  <2> QED BY <1>1, <1>3, <2>4 DEF Broadcast
<1> QED BY <1>2, <1>3

\* The news of a step: none, and the room was last told what it was, or the
\* last of them is what the room was last told.
Tidings ==
  \/ events' = <<>> /\ announced' = announced
  \/ events' # <<>> /\ events'[Len(events')] = announced'

LEMMA ReportTells ==
  ASSUME NEW before, NEW now
  PROVE  \/ Lock!Report(before, now) = <<>> /\ now = before
         \/ Lock!Report(before, now) = <<now>> /\ now # before
BY DEF Lock!Report

LEMMA OneEvent ==
  ASSUME NEW u
  PROVE  <<u>> # <<>> /\ <<u>>[Len(<<u>>)] = u
OBVIOUS

LEMMA TwoEvents ==
  ASSUME NEW t, NEW u
  PROVE  /\ <<t>> \o <<u>> # <<>> /\ (<<t>> \o <<u>>)[Len(<<t>> \o <<u>>)] = u
         /\ <<>> \o <<u>> = <<u>> /\ <<t>> \o <<>> = <<t>>
OBVIOUS

LEMMA GrantTells ==
  ASSUME NEW c, NEW tell \in BOOLEAN, Lock!Grant(c, tell)
  PROVE  Tidings
<1> DEFINE told == IF Lock!Lapsed THEN Nobody ELSE announced
           then == IF tell THEN Lock!Report(told, c) ELSE <<>>
<1>1. /\ announced' = IF tell THEN c ELSE told
      /\ events' = Lock!Report(announced, told) \o then
  BY DEF Lock!Grant
<1>2. \/ Lock!Report(announced, told) = <<>> /\ told = announced
      \/ Lock!Report(announced, told) = <<told>>
  BY ReportTells
<1>3. \/ then = <<>> /\ announced' = told
      \/ then = <<announced'>>
  BY <1>1, ReportTells
<1> HIDE DEF told, then
<1>4. CASE then = <<announced'>>
  <2>1. events' = <<announced'>> \/ events' = <<told>> \o <<announced'>>
    BY <1>1, <1>2, <1>4, TwoEvents
  <2> QED BY <2>1, OneEvent, TwoEvents DEF Tidings
<1>5. CASE then = <<>> /\ announced' = told
  <2>1. CASE Lock!Report(announced, told) = <<>> /\ told = announced
    BY <1>1, <1>5, <2>1 DEF Tidings
  <2>2. CASE Lock!Report(announced, told) = <<told>>
    <3>1. events' = <<announced'>>
      BY <1>1, <1>5, <2>2, TwoEvents
    <3> QED BY <3>1, OneEvent DEF Tidings
  <2> QED BY <1>2, <2>1, <2>2
<1> QED BY <1>3, <1>4, <1>5

\* Every call of the lock manager but Forget tells the room what it changes.
LEMMA LockTells ==
  ASSUME \/ Lock!Query \/ Lock!Tick
         \/ \E d \in Conn : Lock!Acquire(d) \/ Lock!Heartbeat(d) \/ Lock!Release(d)
         \/ \E h \in Handler, d \in Conn : Lock!AcquireQuietly(h, d)
         \/ \E h \in Handler : Lock!Announce(h) \/ Lock!PermitAnonymous(h)
         \/ \E e \in Entry : Lock!Fire(e) \/ Lock!Expire(e)
  PROVE  Tidings
<1>1. ASSUME Lock!Evict PROVE Tidings
  BY <1>1, ReportTells, OneEvent DEF Lock!Evict, Tidings
<1>2. ASSUME Lock!Refresh PROVE Tidings
  BY <1>2 DEF Lock!Refresh, Tidings
<1>3. ASSUME events' = <<>>, announced' = announced PROVE Tidings
  BY <1>3 DEF Tidings
<1>4. CASE Lock!Query \/ Lock!Tick
  BY <1>1, <1>3, <1>4 DEF Lock!Query, Lock!Tick
<1>5. CASE \E d \in Conn : Lock!Acquire(d) \/ Lock!Heartbeat(d) \/ Lock!Release(d)
  BY <1>1, <1>2, <1>5, GrantTells DEF Lock!Acquire, Lock!Heartbeat, Lock!Release
<1>6. CASE \E h \in Handler, d \in Conn : Lock!AcquireQuietly(h, d)
  BY <1>2, <1>6, GrantTells DEF Lock!AcquireQuietly
<1>7. CASE \E h \in Handler : Lock!Announce(h) \/ Lock!PermitAnonymous(h)
  <2>1. ASSUME announced' = holder, events' = Lock!Report(announced, holder)
        PROVE  Tidings
    BY <2>1, ReportTells, OneEvent DEF Tidings
  <2> QED BY <1>1, <1>3, <1>7, <2>1 DEF Lock!Announce, Lock!PermitAnonymous
<1>8. CASE \E e \in Entry : Lock!Fire(e) \/ Lock!Expire(e)
  BY <1>1, <1>3, <1>8 DEF Lock!Fire, Lock!Expire
<1> QED BY <1>4, <1>5, <1>6, <1>7, <1>8

\* Only the hello greets a client, and it comes last of the handshake.
Greeted == \A c \in Conn : pc[c] \in {"off", "accepted", "joined", "read"} => ~view[c].hello

LEMMA GreetedKept ==
  ASSUME TypeOK, Busy, Greeted, [Next]_vars
  PROVE  Greeted'
<1>1. pc \in [Conn -> Places] /\ view \in [Conn -> View]
  BY DEF TypeOK
<1>2. ASSUME NEW c \in Conn, NEW p, pc' = [pc EXCEPT ![c] = p],
             p \notin {"off", "accepted", "joined", "read"} \/ ~view[c].hello, UNCHANGED view
      PROVE  Greeted'
  BY <1>1, <1>2 DEF Greeted
<1>3. ASSUME NEW c \in Conn, Accept(c) \/ Join(c) \/ Exit(c) \/ Leave(c) \/ Drop(c) \/ Break(c)
      PROVE  Greeted'
  BY <1>2, <1>3 DEF Accept, Join, Exit, Leave, Drop, Break, Greeted
<1>4. ASSUME NEW c \in Conn, ReadSnapshot(c) \/ SendSnapshot(c)
      PROVE  Greeted'
  BY <1>1, <1>4 DEF ReadSnapshot, SendSnapshot, Greeted, View
<1>5. ASSUME NEW c \in Conn, Deliver(c)
      PROVE  Greeted'
  BY <1>1, <1>5 DEF Deliver, Greeted, View
<1>6. ASSUME NEW h \in Handler, Announce(h)
      PROVE  Greeted'
  BY <1>1, <1>2, <1>6 DEF Announce, Greeted
<1>7. CASE UNCHANGED <<pc, view>>
  BY <1>7 DEF Greeted
<1> QED
  BY <1>3, <1>4, <1>5, <1>6, <1>7
     DEF Next, Serve, Finish, Reply, EditMessage, AcquireMessage, HeartbeatMessage, ReleaseMessage, StartPut,
         Commit, Peek, Cast, Timer, Tick, SessionExpires, AdminDelete, Shutdown, vars

\* A stream starts when the hub takes a new subscriber.
LEMMA StreamStarts ==
  ASSUME TypeOK, [Next]_vars, NEW c \in Conn, Streaming(c)'
  PROVE  Streaming(c) \/ (Join(c) /\ c \notin kicked')
<1>1. pc \in [Conn -> Places]
  BY DEF TypeOK
<1>2. pc[c] \in {"joined", "read", "up"} \/ Join(c)
  <2> SUFFICES ASSUME pc'[c] # pc[c], pc[c] \notin {"joined", "read"}
               PROVE  pc[c] = "up" \/ Join(c)
    BY DEF Streaming
  <2>1. ASSUME NEW d \in Conn,
               Accept(d) \/ Join(d) \/ ReadSnapshot(d) \/ SendSnapshot(d)
        PROVE  Join(c)
    BY <1>1, <2>1 DEF Streaming, Accept, Join, ReadSnapshot, SendSnapshot
  <2>2. ASSUME NEW d \in Conn, Exit(d) \/ Leave(d) \/ Drop(d) \/ Break(d)
        PROVE  FALSE
    BY <1>1, <2>2 DEF Streaming, Exit, Leave, Drop, Break
  <2>3. ASSUME NEW h \in Handler, Announce(h) PROVE FALSE
    BY <1>1, <2>3 DEF Streaming, Announce
  <2> QED
    BY <2>1, <2>2, <2>3
       DEF Next, Serve, Finish, Reply, Deliver, EditMessage, AcquireMessage, HeartbeatMessage, ReleaseMessage,
           StartPut, Commit, Peek, Cast, Timer, Tick, SessionExpires, AdminDelete, Shutdown, vars
<1>3. ASSUME NEW msgs, NEW to, Broadcast(msgs, to) PROVE kicked \subseteq kicked'
  BY <1>3 DEF Broadcast
<1>4. Hear \/ UNCHANGED hubVars \/ KickAll => kicked \subseteq kicked'
  BY <1>3 DEF Hear, hubVars, KickAll
<1>5. ASSUME NEW d \in Conn, Join(d) PROVE kicked \subseteq kicked'
  BY <1>5 DEF Join
<1>6. ASSUME Leave(c) PROVE FALSE
  BY <1>1, <1>6 DEF Leave, Streaming
<1>7. c \in kicked => c \in kicked'
  BY <1>3, <1>4, <1>5, <1>6
     DEF Next, Serve, Finish, Accept, ReadSnapshot, SendSnapshot, Exit, Leave, Reply, Deliver,
         Drop, Break, EditMessage, AcquireMessage, HeartbeatMessage, ReleaseMessage, StartPut,
         Commit, Peek, Cast, Announce, Timer, Tick, SessionExpires, AdminDelete, Shutdown, vars, hubVars
<1> QED BY <1>2, <1>7 DEF Streaming

\* What a step of the lock manager queues for the room.
News == [i \in 1..Len(events) |-> <<"lock", events[i]>>]

LEMMA NewsTell ==
  ASSUME Lock!TypeOK', Tidings
  PROVE  /\ News' \in Seq(Message)
         /\ \A kinds : "lock" \notin kinds => ~Has(News', kinds)
         /\ events' = <<>> => ~Has(News', {"lock"}) /\ announced' = announced
         /\ events' # <<>> => News' # <<>> /\ News'[Len(News')] = <<"lock", announced'>>
<1>1. events' \in Seq(Users)
  BY DEF Lock!TypeOK, Lock!Holders, Users
<1>2. News' \in Seq(Message)
  BY NewsType DEF News
<1>3. Len(News') = Len(events') /\ \A i \in 1..Len(events') : News'[i] = <<"lock", events'[i]>>
  BY <1>1 DEF News
<1>4. \A kinds : "lock" \notin kinds => ~Has(News', kinds)
  BY <1>3 DEF Has
<1>5. ASSUME events' = <<>> PROVE ~Has(News', {"lock"}) /\ announced' = announced
  <2>1. Len(News') = 0
    BY <1>3, <1>5
  <2> QED BY <1>5, <2>1 DEF Has, Tidings
<1>6. ASSUME events' # <<>> PROVE News' # <<>> /\ News'[Len(News')] = <<"lock", announced'>>
  <2>1. Len(events') \in 1..Len(events')
    BY <1>1, <1>6, EmptySeq
  <2>2. Len(News') # 0
    BY <1>3, <2>1
  <2>3. events'[Len(events')] = announced'
    BY <1>6 DEF Tidings
  <2>4. News'[Len(News')] = <<"lock", announced'>>
    BY <1>3, <2>1, <2>3
  <2> QED BY <2>2, <2>4
<1> QED BY <1>2, <1>4, <1>5, <1>6

\* What a member that is not dropped finds in its queue after the news.
LEMMA HearTells ==
  ASSUME HubTyped, Seated, Lock!TypeOK', Tidings, Hear,
         NEW c \in Conn, Streaming(c), c \notin kicked'
  PROVE  /\ \A kinds, v : "lock" \notin kinds
              => /\ Tells(inbox[c], kinds, v) => Tells(inbox'[c], kinds, v)
                 /\ Has(inbox'[c], kinds) <=> Has(inbox[c], kinds)
         /\ Tells(inbox[c], {"lock"}, announced) => Tells(inbox'[c], {"lock"}, announced')
         /\ ~Has(inbox'[c], {"lock"}) => ~Has(inbox[c], {"lock"}) /\ announced' = announced
<1>1. News' \in Seq(Message) /\ inbox[c] \in Seq(Message)
  BY NewsTell DEF HubTyped
<1>2. inbox'[c] = inbox[c] \o News'
  <2>1. c \in members /\ members \in SUBSET Conn
    BY DEF Streaming, Seated, Here
  <2>2. Broadcast(News', members)
    BY DEF Hear, News
  <2> QED BY <1>1, <2>1, <2>2, Reached
<1>3. \A kinds, v : "lock" \notin kinds
        => /\ Tells(inbox[c], kinds, v) => Tells(inbox'[c], kinds, v)
           /\ Has(inbox'[c], kinds) <=> Has(inbox[c], kinds)
  <2> SUFFICES ASSUME NEW kinds, NEW v, "lock" \notin kinds
               PROVE  /\ Tells(inbox[c], kinds, v) => Tells(inbox'[c], kinds, v)
                      /\ Has(inbox'[c], kinds) <=> Has(inbox[c], kinds)
    OBVIOUS
  <2>1. ~Has(News', kinds)
    BY NewsTell
  <2>2. /\ Tells(inbox[c], kinds, v) => Tells(inbox[c] \o News', kinds, v)
        /\ Has(inbox[c] \o News', kinds) <=> Has(inbox[c], kinds)
    BY <1>1, <2>1, TellsAsBefore
  <2> QED BY <1>2, <2>2
<1> DEFINE Told == /\ Tells(inbox[c], {"lock"}, announced) => Tells(inbox'[c], {"lock"}, announced')
                   /\ ~Has(inbox'[c], {"lock"}) => ~Has(inbox[c], {"lock"}) /\ announced' = announced
<1>4. ASSUME events' = <<>> PROVE Told
  <2>1. ~Has(News', {"lock"}) /\ announced' = announced
    BY <1>4, NewsTell
  <2>2. /\ Tells(inbox[c], {"lock"}, announced) => Tells(inbox'[c], {"lock"}, announced)
        /\ Has(inbox'[c], {"lock"}) <=> Has(inbox[c], {"lock"})
    BY <1>1, <1>2, <2>1, TellsAsBefore
  <2> QED BY <2>1, <2>2
<1>5. ASSUME events' # <<>> PROVE Told
  <2>1. News' # <<>> /\ News'[Len(News')] = <<"lock", announced'>>
    BY <1>5, NewsTell
  <2>2. News'[Len(News')][1] \in {"lock"} /\ News'[Len(News')][2] = announced'
    BY <2>1
  <2>3. Tells(inbox'[c], {"lock"}, announced') /\ Has(inbox'[c], {"lock"})
    BY <1>1, <1>2, <2>1, <2>2, TellsNews
  <2> QED BY <2>3
<1>6. Told
  BY <1>4, <1>5
<1> QED BY <1>3, <1>6

\* While the lock changes quietly, the room has been told of the last change: a
\* lock whose announce is still to come stays where it is.
LEMMA Steady ==
  ASSUME Timely, Put = {}, Standing, EditorHolds, [Next]_vars, ~Deleted', announced # holder
  PROVE  holder' = holder
<1>1. PICK h \in Conn : task[h].step \in Editing
  BY DEF Standing, Placed, LockInv, Lock!RoomToldTruth, Owes, Editing, Handler
<1>2. Holds(h)
  BY <1>1, DeletedForGood DEF EditorHolds
<1>3. CASE Tick
  BY <1>3 DEF Tick, Lock!Tick
<1>4. CASE ~Tick
  BY <1>1, <1>2, <1>4, EditorKeeps DEF Standing, Holds
<1> QED BY <1>3, <1>4

\* c will have heard who holds the lock, but for what is still to be announced,
\* when it has received what is queued for it.
LockTold(c) ==
  Streaming(c) =>
    /\ Tells(inbox[c], {"lock"}, announced)
    /\ view[c].hello /\ ~Has(inbox[c], {"lock"}) => view[c].lock \in {announced, holder}

LocksTold == ~Deleted => \A c \in Conn : LockTold(c)

\* Steps that tell c nothing of the lock.
LEMMA LockUntold ==
  ASSUME announced # holder => holder' = holder, announced' = announced,
         NEW c \in Conn, Streaming(c), LockTold(c), NEW msgs \in Seq(Message), ~Has(msgs, {"lock"}),
         inbox[c] \in Seq(Message), inbox'[c] = inbox[c] \o msgs \/ inbox'[c] = inbox[c],
         view'[c].hello => view'[c].lock = holder' \/ view'[c] = view[c]
                           \/ (view[c].hello /\ view'[c].lock = view[c].lock)
  PROVE  LockTold(c)'
<1>1. /\ Tells(inbox[c], {"lock"}, announced)
      /\ view[c].hello /\ ~Has(inbox[c], {"lock"}) => view[c].lock \in {announced, holder}
  BY DEF LockTold
<1>2. /\ Tells(inbox[c] \o msgs, {"lock"}, announced)
      /\ Has(inbox[c] \o msgs, {"lock"}) <=> Has(inbox[c], {"lock"})
  BY <1>1, TellsAsBefore
<1>3. /\ Tells(inbox'[c], {"lock"}, announced')
      /\ ~Has(inbox'[c], {"lock"}) => ~Has(inbox[c], {"lock"})
  BY <1>1, <1>2
<1>4. ASSUME view'[c].hello, ~Has(inbox'[c], {"lock"})
      PROVE  view'[c].lock \in {announced', holder'}
  BY <1>1, <1>3, <1>4
<1> QED BY <1>3, <1>4 DEF LockTold

\* Steps that tell the room what they change.
LEMMA LockHeard ==
  ASSUME announced # holder => holder' = holder, HubTyped, Seated, Lock!TypeOK', Tidings, Hear,
         NEW c \in Conn, Streaming(c), c \notin kicked', LockTold(c),
         view'[c].hello => view'[c].lock = holder' \/ view'[c] = view[c]
  PROVE  LockTold(c)'
<1>1. /\ Tells(inbox[c], {"lock"}, announced)
      /\ view[c].hello /\ ~Has(inbox[c], {"lock"}) => view[c].lock \in {announced, holder}
  BY DEF LockTold
<1>2. /\ Tells(inbox'[c], {"lock"}, announced')
      /\ ~Has(inbox'[c], {"lock"}) => ~Has(inbox[c], {"lock"}) /\ announced' = announced
  BY <1>1, HearTells
<1>3. ASSUME view'[c].hello, ~Has(inbox'[c], {"lock"})
      PROVE  view'[c].lock \in {announced', holder'}
  BY <1>1, <1>2, <1>3
<1> QED BY <1>2, <1>3 DEF LockTold

\* The writer goroutine hands over what was told.
LEMMA LockDelivered ==
  ASSUME TypeOK, NEW c \in Conn, Streaming(c), LockTold(c), Deliver(c)
  PROVE  LockTold(c)'
<1>1. UNCHANGED <<announced, holder>>
  BY DEF Deliver, lockVars
<1>2. inbox[c] \in Seq(Message) /\ inbox[c] # <<>> /\ inbox'[c] = Tail(inbox[c])
  BY DEF Deliver, TypeOK
<1>3. /\ Tells(inbox[c], {"lock"}, announced)
      /\ view[c].hello /\ ~Has(inbox[c], {"lock"}) => view[c].lock \in {announced, holder}
  BY DEF LockTold
<1>4. /\ Tells(Tail(inbox[c]), {"lock"}, announced)
      /\ Head(inbox[c])[1] = "lock" /\ ~Has(Tail(inbox[c]), {"lock"}) => Head(inbox[c])[2] = announced
      /\ Has(inbox[c], {"lock"}) <=> Head(inbox[c])[1] = "lock" \/ Has(Tail(inbox[c]), {"lock"})
  BY <1>2, <1>3, TellsRest
<1>5. /\ view'[c].hello = view[c].hello
      /\ view'[c].lock = IF Head(inbox[c])[1] = "lock" THEN Head(inbox[c])[2] ELSE view[c].lock
  BY DEF Deliver, TypeOK, View
<1>6. ASSUME view'[c].hello, ~Has(inbox'[c], {"lock"})
      PROVE  view'[c].lock \in {announced', holder'}
  BY <1>1, <1>2, <1>3, <1>4, <1>5, <1>6
<1> QED BY <1>1, <1>2, <1>4, <1>6 DEF LockTold

\* A broadcast of messages of other kinds tells nothing of the lock.
LEMMA CastTells ==
  ASSUME HubTyped, NEW msg \in Message, NEW to \in SUBSET Conn, Broadcast(<<msg>>, to),
         NEW c \in Conn, c \notin kicked', NEW kinds, msg[1] \notin kinds
  PROVE  \E msgs \in Seq(Message) : /\ ~Has(msgs, kinds)
                                    /\ inbox'[c] = inbox[c] \o msgs \/ inbox'[c] = inbox[c]
<1>1. <<msg>> \in Seq(Message) /\ ~Has(<<msg>>, kinds)
  BY OneMessage DEF Has
<1>2. inbox'[c] = inbox[c] \o <<msg>> \/ inbox'[c] = inbox[c]
  BY <1>1, Reached
<1> QED BY <1>1, <1>2

\* The snapshot's text changes nothing else of what is shown.
LEMMA ContentShown ==
  ASSUME view \in [Conn -> View], NEW c \in Conn, NEW d \in Conn, NEW e,
         UNCHANGED view \/ view' = [view EXCEPT ![d].content = e]
  PROVE  view'[c].hello = view[c].hello /\ view'[c].lock = view[c].lock
BY DEF View

LEMMA LocksToldKept ==
  ASSUME Timely, Put = {}, Standing, Standing', Greeted, EditorHolds, LocksTold, [Next]_vars
  PROVE  LocksTold'
<1> SUFFICES ASSUME ~Deleted', NEW c \in Conn, Streaming(c)'
             PROVE  LockTold(c)'
  BY DEF LocksTold, LockTold
<1>1. LockTold(c) /\ ~Deleted
  BY DeletedForGood DEF LocksTold
<1>2. announced # holder => holder' = holder
  BY Steady
<1>3. /\ TypeOK /\ HubTyped /\ Seated /\ Lock!TypeOK' /\ Handler = Conn
      /\ inbox[c] \in Seq(Message) /\ c \notin kicked'
  BY DEF Standing, Placed, LockInv, TypeOK, HubTyped, Streaming, Handler
<1>4. inbox \in [Conn -> Seq(Message)] /\ view \in [Conn -> View]
  BY <1>3 DEF TypeOK
<1>5. CASE ~Streaming(c)
  <2>1. Join(c)
    BY <1>3, <1>5, StreamStarts
  <2>2. inbox'[c] = <<>> /\ ~view'[c].hello
    BY <1>3, <2>1 DEF Join, Seated, Here, Greeted
  <2> QED BY <2>2, TellsNothing DEF LockTold
<1>6. CASE Streaming(c)
  <2>1. ASSUME UNCHANGED <<announced, inbox>>,
               view'[c].hello => view'[c].lock = holder' \/ view'[c] = view[c]
                                 \/ (view[c].hello /\ view'[c].lock = view[c].lock)
        PROVE  LockTold(c)'
    <3>1. <<>> \in Seq(Message) /\ ~Has(<<>>, {"lock"})
      BY EmptyBuffer, TellsNothing
    <3> QED BY <1>1, <1>2, <1>3, <1>6, <2>1, <3>1, LockUntold
  <2>2. ASSUME Hear, Tidings, view'[c].hello => view'[c].lock = holder' \/ view'[c] = view[c]
        PROVE  LockTold(c)'
    BY <1>1, <1>2, <1>3, <1>6, <2>2, LockHeard
  <2>3. ASSUME NEW msg \in Message, msg[1] # "lock", NEW to \in SUBSET Conn, Broadcast(<<msg>>, to),
               UNCHANGED <<announced, view>>
        PROVE  LockTold(c)'
    <3>1. PICK msgs \in Seq(Message) : /\ ~Has(msgs, {"lock"})
                                       /\ inbox'[c] = inbox[c] \o msgs \/ inbox'[c] = inbox[c]
      BY <1>3, <2>3, CastTells
    <3> QED BY <1>1, <1>2, <1>3, <1>6, <2>3, <3>1, LockUntold
  <2>4. ASSUME UNCHANGED <<lockVars, hubVars, view>> PROVE LockTold(c)'
    BY <2>1, <2>4 DEF lockVars, hubVars
  <2>5. ASSUME NEW d \in Conn, Accept(d) \/ Join(d) \/ Drop(d) \/ Break(d)
        PROVE  LockTold(c)'
    BY <2>1, <2>5 DEF Accept, Join, Drop, Break, lockVars, hubVars
  <2>6. ASSUME NEW d \in Conn, ReadSnapshot(d)
        PROVE  LockTold(c)'
    <3>1. UNCHANGED <<announced, inbox>>
      BY <2>6 DEF ReadSnapshot, lockVars, hubVars
    <3>2. view'[c].hello = view[c].hello /\ view'[c].lock = view[c].lock
      BY <1>4, <2>6, ContentShown DEF ReadSnapshot
    <3> QED BY <2>1, <3>1, <3>2
  <2>7. ASSUME NEW d \in Conn, SendSnapshot(d)
        PROVE  LockTold(c)'
    <3>1. view'[c].lock = holder' \/ view'[c] = view[c]
      BY <1>3, <2>7 DEF SendSnapshot, TypeOK, View
    <3>2. CASE Lock!Query /\ Hear
      BY <2>2, <3>1, <3>2, LockTells
    <3>3. CASE UNCHANGED <<lockVars, hubVars>>
      BY <2>1, <3>1, <3>3 DEF lockVars, hubVars
    <3> QED BY <2>7, <3>2, <3>3 DEF SendSnapshot
  <2>8. ASSUME NEW d \in Conn, Exit(d)
        PROVE  LockTold(c)'
    <3>1. CASE Lock!Release(d) /\ Hear
      BY <2>2, <2>8, <3>1, LockTells DEF Exit
    <3>2. CASE UNCHANGED <<lockVars, hubVars>>
      BY <2>4, <2>8, <3>2 DEF Exit
    <3> QED BY <2>8, <3>1, <3>2 DEF Exit
  <2>9. ASSUME NEW d \in Conn, Leave(d)
        PROVE  LockTold(c)'
    <3>1. d # c
      BY <1>3, <1>6, <2>9 DEF Leave, Streaming
    <3>2. UNCHANGED <<announced, view>> /\ inbox'[c] = inbox[c]
      BY <1>4, <2>9, <3>1 DEF Leave, lockVars
    <3>3. <<>> \in Seq(Message) /\ ~Has(<<>>, {"lock"})
      BY EmptyBuffer, TellsNothing
    <3> QED BY <1>1, <1>2, <1>3, <1>6, <3>2, <3>3, LockUntold
  <2>10. ASSUME NEW d \in Conn, Reply(d)
         PROVE  LockTold(c)'
    <3>1. Answer(task[d]) \in Message /\ Answer(task[d])[1] # "lock"
      <4>1. task[d].edit \in Edits
        BY <1>3, TaskType DEF TypeOK
      <4> QED BY <4>1, MessageType DEF Answer
    <3> QED BY <2>3, <2>10, <3>1 DEF Reply, lockVars
  <2>11. ASSUME NEW d \in Conn, Deliver(d)
         PROVE  LockTold(c)'
    <3>1. CASE d = c
      BY <1>1, <1>3, <1>6, <2>11, <3>1, LockDelivered
    <3>2. CASE d # c
      <4>1. UNCHANGED announced /\ inbox'[c] = inbox[c] /\ view'[c] = view[c]
        BY <1>4, <2>11, <3>2 DEF Deliver, lockVars
      <4>2. <<>> \in Seq(Message) /\ ~Has(<<>>, {"lock"})
        BY EmptyBuffer, TellsNothing
      <4> QED BY <1>1, <1>2, <1>3, <1>6, <4>1, <4>2, LockUntold
    <3> QED BY <3>1, <3>2
  <2>12. ASSUME NEW d \in Conn,
                \/ EditMessage(d) \/ AcquireMessage(d) \/ HeartbeatMessage(d)
                \/ ReleaseMessage(d)
         PROVE  LockTold(c)'
    <3>1. \/ UNCHANGED <<lockVars, hubVars, view>>
          \/ /\ Hear /\ UNCHANGED view
             /\ \/ Lock!Query \/ Lock!Acquire(d) \/ Lock!Heartbeat(d) \/ Lock!Release(d)
                \/ Lock!AcquireQuietly(d, d)
      BY <2>12 DEF EditMessage, AcquireMessage, HeartbeatMessage, ReleaseMessage
    <3> QED BY <1>3, <2>2, <2>4, <3>1, LockTells
  <2>13. ASSUME NEW h \in Handler, Finish(h)
         PROVE  LockTold(c)'
    <3>1. CASE Cast(h)
      <4>1. <<"content", task[h].edit>> \in Message
        BY <1>3, TaskType, MessageType DEF TypeOK
      <4>2. Broadcast(<< <<"content", task[h].edit>> >>, members \ {h}) /\ UNCHANGED <<announced, view>>
        BY <3>1 DEF Cast, lockVars
      <4>3. <<"content", task[h].edit>>[1] # "lock" /\ members \ {h} \in SUBSET Conn
        BY <1>3 DEF HubTyped
      <4> QED BY <2>3, <4>1, <4>2, <4>3
    <3>2. CASE Commit(h) \/ Peek(h) \/ Announce(h)
      <4>1. \/ UNCHANGED <<lockVars, hubVars, view>>
            \/ /\ Hear /\ UNCHANGED view
               /\ Lock!Query \/ Lock!Announce(h)
        BY <3>2 DEF Commit, Peek, Announce
      <4> QED BY <2>2, <2>4, <4>1, LockTells
    <3> QED BY <2>13, <3>1, <3>2 DEF Finish
  <2>14. ASSUME NEW e \in Entry, Timer(e)
         PROVE  LockTold(c)'
    BY <2>2, <2>14, LockTells DEF Timer
  <2>15. CASE Tick
    BY <2>1, <2>15 DEF Tick, Lock!Tick, hubVars
  <2>16. CASE SessionExpires \/ Shutdown \/ AdminDelete \/ UNCHANGED vars
    <3>1. ~(Lock!Forget /\ session' = "forgotten")
      BY DEF Deleted
    <3>2. UNCHANGED <<announced, inbox, view>>
      BY <2>16, <3>1
         DEF SessionExpires, Shutdown, AdminDelete, KickAll, lockVars, hubVars, vars
    <3> QED BY <2>1, <3>2
  <2> QED
    BY <1>3, <2>5, <2>6, <2>7, <2>8, <2>9, <2>10, <2>11, <2>12, <2>13, <2>14, <2>15, <2>16
       DEF Next, Serve, StartPut
<1> QED BY <1>5, <1>6

LEMMA LocksToldInvariance ==
  ASSUME Timely, Put = {}
  PROVE  Spec => [](Standing /\ Greeted /\ LocksTold)
<1>1. Init => Greeted /\ LocksTold
  BY DEF Init, Greeted, LocksTold, LockTold, Streaming
<1>2. Standing /\ Standing' /\ Greeted /\ EditorHolds /\ LocksTold /\ [Next]_vars
        => (Greeted /\ LocksTold)'
  BY LocksToldKept, GreetedKept DEF Standing, Placed
<1> QED BY <1>1, <1>2, StandingInvariance, EditorHoldsInvariance, PTL DEF Spec

\* As long as requests are done before a lock can lapse under them, and nobody
\* edits by PUT, a client that has received what was queued for it knows who
\* holds the lock, once no announce is owed: the snapshot's lock, read after the
\* subscription, and the events of onChange never leave it with a stale holder.
THEOREM LocksConverge == ASSUME Timely, Put = {} PROVE Spec => []LockConverges
<1>1. Standing /\ LocksTold => LockConverges
  <2> SUFFICES ASSUME Standing, LocksTold, NEW c \in Conn,
                      session \notin {"forgotten", "kicked"}, Following(c), ~Queued(c, {"lock"}),
                      owing = {}
               PROVE  view[c].lock = holder
    BY DEF LockConverges
  <2>1. announced = holder
    BY DEF Standing, LockInv, Lock!RoomToldTruth
  <2>2. LockTold(c) /\ Streaming(c) /\ view[c].hello /\ ~Has(inbox[c], {"lock"})
    BY DEF LocksTold, Deleted, Following, Streaming, Queued, Has
  <2> QED BY <2>1, <2>2 DEF LockTold
<1> QED BY <1>1, LocksToldInvariance, PTL

-----------------------------------------------------------------------------
(* What the clients are told of the text *)

\* Steps of an edit whose text is stored and whose writer waits for the ack.
Stored == {"committed", "peeked", "cast", "saved"}

Texts == {"content", "ack"}

\* The text of an edit that is stored is still the stored text.
OwnText == session = "live" => \A c \in Conn : task[c].step \in Stored => task[c].edit = stored

\* Only a commit makes an edit one that is stored.
LEMMA StoredTasks ==
  ASSUME TypeOK, [Next]_vars, NEW c \in Conn, task'[c].step \in Stored, ~Commit(c)
  PROVE  task[c].step \in Stored /\ task'[c].edit = task[c].edit
<1>1. task \in [Handler -> Task] /\ c \in Handler
  BY DEF TypeOK, Handler
<1>2. CASE task' = task
  BY <1>2
<1>7. CASE Tick
  BY <1>1, <1>7, TickTask
<1>3. ASSUME NEW d \in Conn,
             EditMessage(d) \/ AcquireMessage(d) \/ HeartbeatMessage(d) \/ ReleaseMessage(d) \/ Reply(d)
      PROVE  task'[c] = task[c]
  BY <1>1, <1>3
     DEF EditMessage, AcquireMessage, HeartbeatMessage, ReleaseMessage, Reply, Begin, Deny, Confirm, Idle, Stored
<1>4. ASSUME NEW p \in Put, NEW as \in Users, StartPut(p, as) PROVE task'[c] = task[c]
  BY <1>1, <1>4, RoomConstants DEF StartPut, Begin
<1>5. ASSUME NEW h \in Handler, Commit(h) PROVE task'[c] = task[c]
  BY <1>1, <1>5 DEF Commit, Move
<1>6. ASSUME NEW h \in Handler, Peek(h) \/ Cast(h) \/ Announce(h)
      PROVE  task[c].step \in Stored /\ task'[c].edit = task[c].edit
  BY <1>1, <1>6 DEF Peek, Cast, Announce, Move, Task, Idle, Stored
<1> QED
  BY <1>2, <1>3, <1>4, <1>5, <1>6, <1>7
     DEF Next, Serve, Finish, Accept, Join, ReadSnapshot, SendSnapshot, Exit, Leave, Deliver, Drop, Break,
         Timer, Tick, SessionExpires, AdminDelete, Shutdown, vars

\* The stored text changes with the commit of an edit, which goes on.
LEMMA StoredCommitted ==
  ASSUME TypeOK, [Next]_vars, stored' # stored
  PROVE  \E h \in Handler : /\ Commit(h)
                            /\ task[h].step = "granted" /\ task'[h].step = "committed"
                            /\ stored' = task[h].edit /\ task'[h].edit = task[h].edit
<1>1. task \in [Handler -> Task]
  BY DEF TypeOK
<1>2. PICK h \in Handler : Commit(h)
  BY DEF Next, Serve, Finish, Accept, Join, ReadSnapshot, SendSnapshot, Exit, Leave, Reply, Deliver, Drop,
         Break, EditMessage, AcquireMessage, HeartbeatMessage, ReleaseMessage, StartPut, Peek, Cast,
         Announce, Timer, Tick, SessionExpires, AdminDelete, Shutdown, vars
<1> QED BY <1>1, <1>2 DEF Commit, Move, Task

LEMMA LiveBefore ==
  ASSUME [Next]_vars, session' = "live"
  PROVE  session = "live"
<1>1. CASE UNCHANGED session
  BY <1>1
<1>2. CASE SessionExpires \/ AdminDelete
  BY <1>2 DEF SessionExpires, AdminDelete
<1> QED
  BY <1>1, <1>2
     DEF Next, Serve, Finish, Accept, Join, ReadSnapshot, SendSnapshot, Exit, Leave, Reply, Deliver, Drop,
         Break, EditMessage, AcquireMessage, HeartbeatMessage, ReleaseMessage, StartPut, Commit, Peek, Cast,
         Announce, Timer, Tick, Shutdown, vars

LEMMA OwnTextKept ==
  ASSUME Put = {}, TypeOK, EditorHolds, OwnText, [Next]_vars
  PROVE  OwnText'
<1> SUFFICES ASSUME session' = "live", NEW c \in Conn, task'[c].step \in Stored
             PROVE  task'[c].edit = stored'
  BY DEF OwnText
<1>1. session = "live" /\ ~Deleted /\ Handler = Conn
  BY LiveBefore DEF Deleted, Handler
<1>2. CASE stored' = stored /\ ~Commit(c)
  BY <1>1, <1>2, StoredTasks DEF OwnText
<1>3. CASE Commit(c)
  <2>1. task \in [Handler -> Task]
    BY DEF TypeOK
  <2> QED BY <1>1, <1>3, <2>1 DEF Commit, Move, Task, Stored
<1>4. CASE stored' # stored /\ ~Commit(c)
  <2>1. PICK h \in Conn : Commit(h) /\ task[h].step = "granted"
    BY <1>1, <1>4, StoredCommitted
  <2>2. task[c].step \in Editing /\ task[h].step \in Editing
    BY <1>4, <2>1, StoredTasks DEF Stored, Editing, Unannounced
  <2>3. holder = c /\ holder = h
    BY <1>1, <2>2 DEF EditorHolds, Holds
  <2> QED BY <1>4, <2>1, <2>3
<1> QED BY <1>2, <1>3, <1>4

\* The stored text is still to be queued for c: as the ack of its own edit, or
\* with the broadcast of another's.
Coming(c) ==
  \/ task[c].step \in Stored
  \/ \E h \in Conn : task[h].step \in {"committed", "peeked"}

\* It is queued by the reply or by the broadcast.
LEMMA Came ==
  ASSUME TypeOK, [Next]_vars, NEW c \in Conn, Coming(c), ~Coming(c)'
  PROVE  \/ Reply(c) /\ task[c].step = "saved"
         \/ \E h \in Conn \ {c} : Cast(h)
<1>1. task \in [Handler -> Task] /\ Conn \subseteq Handler
  BY DEF TypeOK, Handler
<1>2. CASE task' = task
  BY <1>2 DEF Coming
<1>10. CASE Tick
  <2>1. \A h \in Handler : task'[h].step = task[h].step
    BY <1>1, <1>10, TickTask
  <2> QED BY <1>1, <1>10, <2>1 DEF Coming
<1>3. ASSUME NEW d \in Conn, task[d] = Idle, \A g \in Handler \ {d} : task'[g] = task[g]
      PROVE  FALSE
  BY <1>1, <1>3 DEF Coming, Stored, Idle
<1>4. ASSUME NEW d \in Conn, EditMessage(d) \/ AcquireMessage(d) \/ HeartbeatMessage(d) \/ ReleaseMessage(d)
      PROVE  FALSE
  <2>1. task[d] = Idle
    BY <1>4 DEF EditMessage, AcquireMessage, HeartbeatMessage, ReleaseMessage, Listening
  <2>2. UNCHANGED task \/ Begin(d, d) \/ Deny(d) \/ Confirm(d)
    BY <1>4 DEF EditMessage, AcquireMessage, HeartbeatMessage, ReleaseMessage
  <2>3. Begin(d, d) \/ Deny(d) \/ Confirm(d) => \A g \in Handler \ {d} : task'[g] = task[g]
    BY <1>1 DEF Begin, Deny, Confirm
  <2> QED BY <1>2, <1>3, <2>1, <2>2, <2>3
<1>5. ASSUME NEW d \in Conn, Reply(d)
      PROVE  Reply(c) /\ task[c].step = "saved"
  BY <1>1, <1>5 DEF Reply, Coming, Stored
<1>6. ASSUME NEW p \in Put, NEW as \in Users, StartPut(p, as) PROVE FALSE
  BY <1>1, <1>6, RoomConstants DEF StartPut, Begin, Coming
<1>7. ASSUME NEW h \in Handler, Commit(h) \/ Peek(h) PROVE FALSE
  BY <1>1, <1>7 DEF Commit, Peek, Move, Task, Coming, Stored
<1>8. ASSUME NEW h \in Handler, Announce(h) PROVE FALSE
  BY <1>1, <1>8, RoomConstants DEF Announce, Handler, Task, Idle, Coming, Stored
<1>9. ASSUME NEW h \in Handler, Cast(h) PROVE h \in Conn \ {c}
  BY <1>1, <1>9, RoomConstants DEF Cast, Move, Handler, Task, Coming, Stored
<1> QED
  BY <1>2, <1>4, <1>5, <1>6, <1>7, <1>8, <1>9, <1>10
     DEF Next, Serve, Finish, Accept, Join, ReadSnapshot, SendSnapshot, Exit, Leave, Deliver, Drop, Break,
         Timer, Tick, SessionExpires, AdminDelete, Shutdown, vars

\* What a step may do to the queue of a connection that does not leave.
LEMMA QueueSteps ==
  ASSUME TypeOK, [Next]_vars, NEW c \in Conn, ~Leave(c), ~Deliver(c)
  PROVE  \/ inbox'[c] = inbox[c]
         \/ Hear /\ Tidings
         \/ \E h \in Handler : Cast(h)
         \/ \E d \in Conn : Reply(d)
<1>1. inbox \in [Conn -> Seq(Message)]
  BY DEF TypeOK
<1>2. CASE UNCHANGED inbox
  BY <1>2
<1>3. ASSUME NEW d \in Conn, Leave(d) \/ Deliver(d)
      PROVE  inbox'[c] = inbox[c]
  BY <1>1, <1>3 DEF Leave, Deliver
<1>4. ASSUME NEW d \in Conn, SendSnapshot(d) \/ Exit(d)
      PROVE  UNCHANGED inbox \/ (Hear /\ Tidings)
  BY <1>4, LockTells DEF SendSnapshot, Exit, hubVars
<1>5. ASSUME NEW d \in Conn,
             EditMessage(d) \/ AcquireMessage(d) \/ HeartbeatMessage(d) \/ ReleaseMessage(d)
      PROVE  UNCHANGED inbox \/ (Hear /\ Tidings)
  <2>1. \/ UNCHANGED hubVars
        \/ /\ Hear
           /\ \/ Lock!Query \/ Lock!Acquire(d) \/ Lock!Heartbeat(d) \/ Lock!Release(d)
              \/ Lock!AcquireQuietly(d, d)
    BY <1>5 DEF EditMessage, AcquireMessage, HeartbeatMessage, ReleaseMessage
  <2> QED BY <2>1, LockTells DEF hubVars, Handler
<1>6. ASSUME NEW p \in Put, NEW as \in Users, StartPut(p, as) PROVE Hear /\ Tidings
  BY <1>6, LockTells DEF StartPut, Handler
<1>7. ASSUME NEW h \in Handler, Commit(h) \/ Peek(h) \/ Announce(h)
      PROVE  UNCHANGED inbox \/ (Hear /\ Tidings)
  BY <1>7, LockTells DEF Commit, Peek, Announce, hubVars
<1>8. ASSUME NEW e \in Entry, Timer(e) PROVE Hear /\ Tidings
  BY <1>8, LockTells DEF Timer
<1>9. ASSUME NEW d \in Conn, Accept(d) \/ Join(d) \/ ReadSnapshot(d) \/ Drop(d) \/ Break(d)
      PROVE  UNCHANGED inbox
  BY <1>9 DEF Accept, Join, ReadSnapshot, Drop, Break, hubVars
<1>10. CASE Tick \/ SessionExpires \/ AdminDelete \/ Shutdown \/ UNCHANGED vars
  BY <1>10 DEF Tick, SessionExpires, AdminDelete, Shutdown, KickAll, vars, hubVars
<1> QED
  BY <1>2, <1>3, <1>4, <1>5, <1>6, <1>7, <1>8, <1>9, <1>10 DEF Next, Serve, Finish

\* What a client shows changes with the snapshot and with what it is sent; its
\* snapshot's text is the stored one.
LEMMA ShownSteps ==
  ASSUME TypeOK, [Next]_vars, session = "live", NEW c \in Conn, ~Deliver(c),
         pc'[c] \in {"read", "up"}
  PROVE  \/ pc[c] \in {"read", "up"} /\ view'[c].content = view[c].content
         \/ view'[c].content = stored
<1>1. pc \in [Conn -> Places] /\ view \in [Conn -> View]
  BY DEF TypeOK
<1>2. ASSUME NEW d \in Conn, ReadSnapshot(d)
      PROVE  \/ pc[c] \in {"read", "up"} /\ view'[c].content = view[c].content
             \/ view'[c].content = stored
  BY <1>1, <1>2 DEF ReadSnapshot, View
<1>3. ASSUME NEW d \in Conn, SendSnapshot(d)
      PROVE  pc[c] \in {"read", "up"} /\ view'[c].content = view[c].content
  BY <1>1, <1>3 DEF SendSnapshot, View
<1>4. ASSUME NEW d \in Conn, Deliver(d)
      PROVE  pc[c] \in {"read", "up"} /\ view'[c].content = view[c].content
  BY <1>1, <1>4 DEF Deliver
<1>5. ASSUME NEW d \in Conn, Accept(d) \/ Join(d) \/ Exit(d) \/ Leave(d) \/ Drop(d) \/ Break(d)
      PROVE  pc[c] \in {"read", "up"} /\ view'[c].content = view[c].content
  BY <1>1, <1>5 DEF Accept, Join, Exit, Leave, Drop, Break
<1>6. ASSUME NEW h \in Handler, Announce(h)
      PROVE  pc[c] \in {"read", "up"} /\ view'[c].content = view[c].content
  BY <1>1, <1>6 DEF Announce
<1>7. CASE UNCHANGED <<pc, view>>
  BY <1>7
<1> QED
  BY <1>2, <1>3, <1>4, <1>5, <1>6, <1>7
     DEF Next, Serve, Finish, Reply, EditMessage, AcquireMessage, HeartbeatMessage, ReleaseMessage, StartPut,
         Commit, Peek, Cast, Timer, Tick, SessionExpires, AdminDelete, Shutdown, vars

\* c will show the stored text when it has received what is queued for it.
TextTold(c) ==
  Streaming(c) /\ ~Coming(c) =>
    /\ Tells(inbox[c], Texts, stored)
    /\ pc[c] \in {"read", "up"} /\ ~Has(inbox[c], Texts) => view[c].content = stored

TextsTold == OwnText /\ (session = "live" => \A c \in Conn : TextTold(c))

\* While no text is on its way the stored one stays, too.
LEMMA TextStays ==
  ASSUME Put = {}, TypeOK, [Next]_vars, NEW c \in Conn, ~Coming(c)'
  PROVE  stored' = stored
<1> SUFFICES ASSUME stored' # stored
             PROVE  FALSE
  OBVIOUS
<1>1. PICK h \in Conn : task'[h].step = "committed"
  BY StoredCommitted DEF Handler
<1> QED BY <1>1 DEF Coming

\* The last text queued for c is v.
LEMMA TextArrives ==
  ASSUME HubTyped, NEW v \in Edits, NEW msg \in Message, NEW to \in SUBSET Conn,
         msg[1] \in Texts, msg[2] = v, Broadcast(<<msg>>, to),
         NEW c \in to, c \notin kicked'
  PROVE  Tells(inbox'[c], Texts, v) /\ Has(inbox'[c], Texts)
<1>1. <<msg>> \in Seq(Message) /\ <<msg>> # <<>> /\ <<msg>>[Len(<<msg>>)] = msg
  BY OneMessage
<1>2. inbox[c] \in Seq(Message) /\ inbox'[c] = inbox[c] \o <<msg>>
  BY <1>1, Reached DEF HubTyped
<1>3. Tells(inbox[c] \o <<msg>>, Texts, v) /\ Has(inbox[c] \o <<msg>>, Texts)
  BY <1>1, <1>2, TellsNews
<1> QED BY <1>2, <1>3

LEMMA TextDelivered ==
  ASSUME TypeOK, NEW c \in Conn, Streaming(c), TextTold(c), Deliver(c)
  PROVE  TextTold(c)'
<1>1. UNCHANGED <<stored, pc, task>> /\ pc[c] = "up"
  BY DEF Deliver
<1>2. inbox[c] \in Seq(Message) /\ inbox[c] # <<>> /\ inbox'[c] = Tail(inbox[c])
  BY DEF Deliver, TypeOK
<1>3. view'[c].content = IF Head(inbox[c])[1] \in Texts THEN Head(inbox[c])[2] ELSE view[c].content
  BY DEF Deliver, TypeOK, View, Texts
<1> SUFFICES ASSUME ~Coming(c)
             PROVE  /\ Tells(inbox'[c], Texts, stored)
                    /\ ~Has(inbox'[c], Texts) => view'[c].content = stored
  BY <1>1 DEF TextTold, Coming
<1>4. /\ Tells(inbox[c], Texts, stored)
      /\ ~Has(inbox[c], Texts) => view[c].content = stored
  BY <1>1 DEF TextTold
<1>5. /\ Tells(Tail(inbox[c]), Texts, stored)
      /\ Head(inbox[c])[1] \in Texts /\ ~Has(Tail(inbox[c]), Texts) => Head(inbox[c])[2] = stored
      /\ Has(inbox[c], Texts) <=> Head(inbox[c])[1] \in Texts \/ Has(Tail(inbox[c]), Texts)
  BY <1>2, <1>4, TellsRest
<1> QED BY <1>2, <1>3, <1>4, <1>5

\* What was told c of the text stays told by steps that are about other texts.
LEMMA TextsAsTold ==
  ASSUME Put = {}, Standing, Standing', [Next]_vars, NEW c \in Conn, Streaming(c), Streaming(c)',
         ~Deliver(c), ~Coming(c), Tells(inbox[c], Texts, stored)
  PROVE  Tells(inbox'[c], Texts, stored) /\ (Has(inbox'[c], Texts) <=> Has(inbox[c], Texts))
<1>1. /\ TypeOK /\ HubTyped /\ Seated /\ Lock!TypeOK' /\ Handler = Conn
      /\ inbox[c] \in Seq(Message) /\ c \notin kicked' /\ pc \in [Conn -> Places]
  BY DEF Standing, Placed, LockInv, TypeOK, HubTyped, Streaming, Handler
<1>2. CASE inbox'[c] = inbox[c]
  BY <1>2
<1>3. CASE Hear /\ Tidings
  <2>1. "lock" \notin Texts
    BY DEF Texts
  <2> QED BY <1>1, <1>3, <2>1, HearTells
<1>4. ASSUME NEW h \in Conn, Cast(h) PROVE FALSE
  BY <1>4 DEF Cast, Move, Coming
<1>5. ASSUME NEW d \in Conn, Reply(d)
      PROVE  Tells(inbox'[c], Texts, stored) /\ (Has(inbox'[c], Texts) <=> Has(inbox[c], Texts))
  <2>1. CASE d # c
    <3>1. inbox'[c] = inbox[c]
      BY <1>5, <2>1 DEF Reply, Broadcast
    <3> QED BY <3>1
  <2>2. CASE d = c
    <3>1. task[c].step \in {"unsaved", "renewed", "denied"} /\ task[c].edit \in Edits
      BY <1>1, <1>5, <2>2, TaskType DEF Reply, Coming, Stored, TypeOK
    <3>2. Answer(task[c]) \in Message /\ Answer(task[c])[1] \notin Texts
      BY <3>1, MessageType DEF Answer, Texts
    <3>3. PICK msgs \in Seq(Message) : /\ ~Has(msgs, Texts)
                                       /\ inbox'[c] = inbox[c] \o msgs \/ inbox'[c] = inbox[c]
      <4>1. Broadcast(<<Answer(task[c])>>, {c}) /\ {c} \in SUBSET Conn
        BY <1>5, <2>2 DEF Reply
      <4> QED BY <1>1, <3>2, <4>1, CastTells
    <3>4. /\ Tells(inbox[c] \o msgs, Texts, stored)
          /\ Has(inbox[c] \o msgs, Texts) <=> Has(inbox[c], Texts)
      BY <1>1, <3>3, TellsAsBefore
    <3> QED BY <3>3, <3>4
  <2> QED BY <2>1, <2>2
<1>6. ~Leave(c)
  BY <1>1 DEF Leave, Streaming
<1> QED BY <1>1, <1>2, <1>3, <1>4, <1>5, <1>6, QueueSteps

LEMMA TextsToldKept ==
  ASSUME Put = {}, Standing, Standing', EditorHolds, TextsTold, [Next]_vars
  PROVE  TextsTold'
<1> SUFFICES ASSUME session' = "live", NEW c \in Conn, Streaming(c)', ~Coming(c)'
             PROVE  TextTold(c)'
  BY OwnTextKept DEF TextsTold, TextTold, Standing
<1>1. /\ TypeOK /\ HubTyped /\ Seated /\ Handler = Conn
      /\ c \notin kicked' /\ pc \in [Conn -> Places]
  BY DEF Standing, Placed, TypeOK, HubTyped, Streaming, Handler
<1>2. session = "live" /\ stored' = stored /\ TextTold(c) /\ OwnText
  BY <1>1, LiveBefore, TextStays DEF TextsTold
<1>3. CASE ~Streaming(c)
  <2>1. Join(c)
    BY <1>1, <1>3, StreamStarts
  <2>2. inbox'[c] = <<>> /\ pc'[c] = "joined"
    BY <1>1, <2>1 DEF Join, Seated, Here
  <2> QED BY <2>2, TellsNothing DEF TextTold
<1>4. CASE Streaming(c) /\ Deliver(c)
  BY <1>1, <1>2, <1>4, TextDelivered
<1>5. CASE Streaming(c) /\ Coming(c)
  <2>1. ASSUME NEW msg \in Message, NEW to \in SUBSET Conn, Broadcast(<<msg>>, to),
               msg[1] \in Texts, msg[2] = stored, c \in to
        PROVE  TextTold(c)'
    <3>1. stored \in Edits
      BY <1>1 DEF TypeOK
    <3>2. Tells(inbox'[c], Texts, stored) /\ Has(inbox'[c], Texts)
      BY <1>1, <2>1, <3>1, TextArrives
    <3> QED BY <1>2, <3>2 DEF TextTold
  <2>2. CASE Reply(c) /\ task[c].step = "saved"
    <3>1. task[c].edit = stored /\ stored \in Edits
      BY <1>1, <1>2, <2>2 DEF OwnText, Stored, TypeOK
    <3>2. Broadcast(<< <<"ack", stored>> >>, {c}) /\ {c} \in SUBSET Conn
      BY <2>2, <3>1 DEF Reply, Answer
    <3>3. <<"ack", stored>> \in Message
      BY <3>1, MessageType
    <3> QED BY <2>1, <3>2, <3>3 DEF Texts
  <2>3. ASSUME NEW h \in Conn \ {c}, Cast(h) PROVE TextTold(c)'
    <3>1. task[h].edit = stored /\ stored \in Edits
      BY <1>1, <1>2, <2>3 DEF OwnText, Stored, Cast, Move, TypeOK
    <3>2. Broadcast(<< <<"content", stored>> >>, members \ {h}) /\ members \ {h} \in SUBSET Conn
      BY <1>1, <2>3, <3>1 DEF Cast, HubTyped
    <3>3. c \in members \ {h}
      BY <1>5 DEF Streaming, Standing, Placed, Seated, Here
    <3>4. <<"content", stored>> \in Message
      BY <3>1, MessageType
    <3> QED BY <2>1, <3>2, <3>3, <3>4 DEF Texts
  <2> QED BY <1>1, <1>5, <2>2, <2>3, Came
<1>6. CASE Streaming(c) /\ ~Coming(c) /\ ~Deliver(c)
  <2>1. /\ Tells(inbox[c], Texts, stored)
        /\ pc[c] \in {"read", "up"} /\ ~Has(inbox[c], Texts) => view[c].content = stored
    BY <1>2, <1>6 DEF TextTold
  <2>2. /\ Tells(inbox'[c], Texts, stored)
        /\ Has(inbox'[c], Texts) <=> Has(inbox[c], Texts)
    BY <1>6, <2>1, TextsAsTold
  <2>3. pc'[c] \in {"read", "up"} /\ ~Has(inbox'[c], Texts) => view'[c].content = stored
    BY <1>1, <1>2, <1>6, <2>1, <2>2, ShownSteps
  <2> QED BY <1>2, <2>2, <2>3 DEF TextTold
<1> QED BY <1>3, <1>4, <1>5, <1>6

\* As long as requests are done before a lock can lapse under them, and nobody
\* edits by PUT, a client that has received what was queued for it shows the
\* stored text once no edit is between its commit and its reply: the snapshot,
\* read after the subscription, the broadcasts and the acks leave none out and
\* never bring an older text after a newer one.
THEOREM TextsConverge == ASSUME Timely, Put = {} PROVE Spec => []TextConverges
<1>1. Init => TextsTold
  BY DEF Init, TextsTold, OwnText, TextTold, Streaming, Idle, Stored, Handler
<1>2. Standing /\ Standing' /\ EditorHolds /\ TextsTold /\ [Next]_vars => TextsTold'
  BY TextsToldKept
<1>3. Standing /\ TextsTold => TextConverges
  <2> SUFFICES ASSUME Standing, TextsTold, NEW c \in Conn, session = "live", Following(c),
                      ~Queued(c, {"content", "ack"}),
                      \A h \in Handler : task[h].step \notin {"committed", "peeked", "cast", "saved"}
               PROVE  view[c].content = stored
    BY DEF TextConverges
  <2>1. Streaming(c) /\ ~Coming(c) /\ pc[c] = "up"
    BY DEF Following, Streaming, Coming, Stored, Handler
  <2>2. ~Has(inbox[c], Texts) /\ TextTold(c)
    BY DEF Queued, Has, Texts, TextsTold
  <2> QED BY <2>1, <2>2 DEF TextTold
<1> QED BY <1>1, <1>2, <1>3, StandingInvariance, EditorHoldsInvariance, PTL DEF Spec

=============================================================================
