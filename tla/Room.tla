-------------------------------- MODULE Room --------------------------------
(***************************************************************************)
(* One session's room: the WebSocket handler (internal/handlers/ws.go),    *)
(* PUT /api/sessions/{slug} (UpdateSession in api.go), the hub (hub.go),   *)
(* the administrator's delete (admin.go) and the stored text, around the   *)
(* editor lock of module EditorLock.                                       *)
(*                                                                         *)
(* A text is the number of the edit that wrote it; 0 is the initial text.  *)
(* Every call into the lock manager, the store or the hub is one step, as  *)
(* each takes its own mutex or transaction; between two of them anything   *)
(* may happen.  A connection serves one WebSocket, from handshake to end;  *)
(* a client that reconnects is another connection with another client id,  *)
(* so a connection stands for its client id too.                           *)
(***************************************************************************)
EXTENDS Naturals, Sequences

CONSTANTS
  Conn,      \* WebSocket connections, each with the client id minted for it
  Put,       \* HTTP edit requests that may be in progress at a time
  Entry, Nobody, NoEntry, TTL,   \* of the editor lock
  Cap,       \* subscriberBuffer
  MaxEdits,  \* bound: edits let in during a behaviour
  Asks,      \* lock messages clients send: "acquire", "heartbeat", "release"
  Timely,    \* TRUE: an edit message is done with before its lock can lapse
  Env        \* what else may happen: "break", "delete", "expire", "shutdown"

ASSUME RoomConstants ==
  /\ Conn \cap Put = {}
  /\ Nobody \notin Conn
  /\ NoEntry \notin Entry
  /\ TTL \in Nat \ {0}
  /\ Cap \in Nat \ {0}
  /\ MaxEdits \in Nat
  /\ Asks \subseteq {"acquire", "heartbeat", "release"}
  /\ Timely \in BOOLEAN
  /\ Env \subseteq {"break", "delete", "expire", "shutdown"}

VARIABLES
  entry, holder, left, armed, due, firing, announced, owing, events,
  stored,    \* content of the session's row
  session,   \* "live", "expired", "deleted", "forgotten", "kicked": how far
             \* AdminDelete got; only a live session can be read or written
  members,   \* hub.rooms[slug]
  kicked,    \* subscribers whose done channel is closed
  inbox,     \* sub.C
  hub,       \* "open", "closing" (Shutdown waits), "stopped", "gave up"
  pc,        \* where each connection's handler is
  task,      \* what each connection's read loop or PUT request is doing
  issued,    \* edits let in so far
  view       \* what each connection's client was sent

Handler == Conn \cup Put

Lock == INSTANCE EditorLock WITH Client <- Conn

lockVars == <<entry, holder, left, armed, due, firing, announced, owing, events>>
hubVars == <<members, kicked, inbox>>
vars == <<lockVars, hubVars, stored, session, hub, pc, task, issued, view>>

Users == Conn \cup {Nobody}
Edits == 0..MaxEdits

Places == {"off", "accepted", "joined", "read", "up", "broken", "leaving", "done"}

Steps ==
  {"idle",
   "granted", "committed", "peeked", "cast", "saved",  \* an edit that succeeds
   "failed", "unsaved", "void",                        \* one the store refuses
   "denied", "renewed"}                                \* replies about the lock

\* `as` is the client id the work is done for.  `age` is a history: the ticks,
\* up to TTL, since a read loop's edit was let in.
Task == [step : Steps, edit : Edits, as : Users, age : 0..TTL]

Idle == [step |-> "idle", edit |-> 0, as |-> Nobody, age |-> 0]

Message ==
       ({"content", "ack", "rejected"} \X Edits)
  \cup ({"lock"} \X Users)
  \cup ({"mine", "denied"} \X {Nobody})

\* What snapshots, broadcasts and acks tell of the text and the lock; what the
\* replies "mine" and "denied" tell of the lock is the subject of LockKeeper.
View == [content : Edits, lock : Users, hello : BOOLEAN]

TypeOK ==
  /\ Lock!TypeOK
  /\ stored \in Edits
  /\ session \in {"live", "expired", "deleted", "forgotten", "kicked"}
  /\ members \in SUBSET Conn
  /\ kicked \in SUBSET Conn
  /\ inbox \in [Conn -> Seq(Message)]
  /\ \A c \in Conn : Len(inbox[c]) <= Cap
  /\ hub \in {"open", "closing", "stopped", "gave up"}
  /\ pc \in [Conn -> Places]
  /\ task \in [Handler -> Task]
  /\ issued \in Edits
  /\ view \in [Conn -> View]

Init ==
  /\ Lock!Init
  /\ stored = 0
  /\ session = "live"
  /\ members = {}
  /\ kicked = {}
  /\ inbox = [c \in Conn |-> <<>>]
  /\ hub = "open"
  /\ pc = [c \in Conn |-> "off"]
  /\ task = [h \in Handler |-> Idle]
  /\ issued = 0
  /\ view = [c \in Conn |-> [content |-> 0, lock |-> Nobody, hello |-> FALSE]]

-----------------------------------------------------------------------------
(* The hub *)

Prefix(s, n) == SubSeq(s, 1, IF Len(s) < n THEN Len(s) ELSE n)

\* Mutant of Broadcast: the buffer grows without a limit.
Unbounded(msgs, to) ==
  /\ inbox' = [c \in Conn |-> IF c \in to THEN inbox[c] \o msgs ELSE inbox[c]]
  /\ UNCHANGED <<members, kicked>>

\* Mutant of Broadcast: what does not fit is dropped, the subscriber stays.
Lossy(msgs, to) ==
  /\ inbox' = [c \in Conn |-> IF c \in to THEN Prefix(inbox[c] \o msgs, Cap)
                                          ELSE inbox[c]]
  /\ UNCHANGED <<members, kicked>>

\* Hub.Broadcast of msgs to the subscribers in `to`: a full buffer drops the
\* subscriber, not the message.
Broadcast(msgs, to) ==
  /\ inbox' = [c \in Conn |-> IF c \in to THEN Prefix(inbox[c] \o msgs, Cap)
                                          ELSE inbox[c]]
  /\ kicked' = kicked \cup {c \in to : Len(inbox[c]) + Len(msgs) > Cap}
  /\ UNCHANGED members

\* broadcastLock, the lock manager's onChange: it runs under lm.mu, in the
\* very step that changed the lock.
Hear == Broadcast([i \in 1..Len(events') |-> <<"lock", events'[i]>>], members)

\* Hub.Kick and the start of Hub.Shutdown.
KickAll == kicked' = kicked \cup members /\ UNCHANGED <<members, inbox>>

-----------------------------------------------------------------------------
(* A connection, from handshake to the writer goroutine's start *)

\* Store.Exists, then the upgrade.
Accept(c) ==
  /\ pc[c] = "off"
  /\ session = "live"
  /\ pc' = [pc EXCEPT ![c] = "accepted"]
  /\ UNCHANGED <<lockVars, hubVars, stored, session, hub, task, issued, view>>


\* Hub.Join: whoever comes after Shutdown is dropped at once.
Join(c) ==
  /\ pc[c] = "accepted"
  /\ pc' = [pc EXCEPT ![c] = "joined"]
  /\ members' = members \cup {c}
  /\ kicked' = IF hub = "open" THEN kicked ELSE kicked \cup {c}
  /\ UNCHANGED <<lockVars, inbox, stored, session, hub, task, issued, view>>

\* Store.Get: without a session there is no snapshot, and the loop starts.
ReadSnapshot(c) ==
  /\ pc[c] = "joined"
  /\ IF session = "live"
     THEN /\ pc' = [pc EXCEPT ![c] = "read"]
          /\ view' = [view EXCEPT ![c].content = stored]
     ELSE /\ pc' = [pc EXCEPT ![c] = "up"]
          /\ UNCHANGED view
  /\ UNCHANGED <<lockVars, hubVars, stored, session, hub, task, issued>>

\* Locks.State, and the hello written straight to the socket: the broadcasts
\* since Join are still in the buffer, behind it.
SendSnapshot(c) ==
  /\ pc[c] = "read"
  /\ \/ Lock!Query /\ Hear
     \/ ~Lock!Lapsed /\ UNCHANGED <<lockVars, hubVars>>
  /\ pc' = [pc EXCEPT ![c] = "up"]
  /\ view' = [view EXCEPT ![c].lock = holder', ![c].hello = TRUE]
  /\ UNCHANGED <<stored, session, hub, task, issued>>

\* The writer goroutine hands the client the next message.
Deliver(c) ==
  /\ pc[c] = "up"
  /\ inbox[c] # <<>>
  /\ LET kind == Head(inbox[c])[1]
         what == Head(inbox[c])[2]
     IN view' = [view EXCEPT
          ![c].content = IF kind \in {"content", "ack"} THEN what ELSE @,
          ![c].lock = IF kind = "lock" THEN what ELSE @]
  /\ inbox' = [inbox EXCEPT ![c] = Tail(@)]
  /\ UNCHANGED <<lockVars, members, kicked, stored, session, hub, pc, task, issued>>

-----------------------------------------------------------------------------
(* Its end *)


\* The writer goroutine sees that the hub dropped the subscriber, closes the
\* socket and cancels the connection's context.
Drop(c) ==
  /\ pc[c] = "up"
  /\ c \in kicked
  /\ pc' = [pc EXCEPT ![c] = "broken"]
  /\ UNCHANGED <<lockVars, hubVars, stored, session, hub, task, issued, view>>

\* The client leaves, the network fails, a ping or a write times out, or a
\* message is too large.
Break(c) ==
  /\ "break" \in Env
  /\ pc[c] = "up"
  /\ pc' = [pc EXCEPT ![c] = "broken"]
  /\ UNCHANGED <<lockVars, hubVars, stored, session, hub, task, issued, view>>

\* Mutant of Exit: the handler leaves the lock to its TTL.
ExitHolding(c) ==
  /\ pc[c] = "broken"
  /\ task[c] = Idle
  /\ pc' = [pc EXCEPT ![c] = "leaving"]
  /\ UNCHANGED <<lockVars, hubVars, stored, session, hub, task, issued, view>>

\* The read loop returns once it is between messages; its deferred call
\* releases the lock while the peers' events still reach this buffer too.
Exit(c) ==
  /\ pc[c] = "broken"
  /\ task[c] = Idle
  /\ \/ Lock!Release(c) /\ Hear
     \/ ~Lock!MayRelease(c) /\ UNCHANGED <<lockVars, hubVars>>
  /\ pc' = [pc EXCEPT ![c] = "leaving"]
  /\ UNCHANGED <<stored, session, hub, task, issued, view>>

\* Hub.Leave.
Leave(c) ==
  /\ pc[c] = "leaving"
  /\ pc' = [pc EXCEPT ![c] = "done"]
  /\ members' = members \ {c}
  /\ kicked' = kicked \ {c}
  /\ inbox' = [inbox EXCEPT ![c] = <<>>]
  /\ UNCHANGED <<lockVars, stored, session, hub, task, issued, view>>

-----------------------------------------------------------------------------
(* Edits: over the WebSocket by c's read loop, or by PUT.  Both acquire     *)
(* quietly, store, read the lock for the payload, broadcast, and announce.  *)

\* The read loop takes up the next message when it has answered the last.
Listening(c) == pc[c] = "up" /\ task[c] = Idle

\* A refused request: the reply is built now and queued later.
Deny(c) == task' = [task EXCEPT ![c] = [Idle EXCEPT !.step = "denied"]]

Begin(h, as) ==
  /\ issued < MaxEdits
  /\ issued' = issued + 1
  /\ task' = [task EXCEPT ![h] =
       [step |-> "granted", edit |-> issued + 1, as |-> as, age |-> 0]]

\* Mutant of EditMessage: the lock is tried for, and its refusal ignored.
EditAnyway(c) ==
  /\ Listening(c)
  /\ Lock!AcquireQuietly(c, c) \/ (Lock!Live /\ holder # c /\ UNCHANGED lockVars)
  /\ Hear
  /\ Begin(c, c)
  /\ UNCHANGED <<stored, session, hub, pc, view>>

\* wsTypeEdit: acquire(slug, clientID, announce=false).
EditMessage(c) ==
  /\ Listening(c)
  /\ \/ /\ Lock!AcquireQuietly(c, c)
        /\ Hear
        /\ Begin(c, c)
     \/ /\ Lock!Live
        /\ holder # c
        /\ Deny(c)
        /\ UNCHANGED <<lockVars, hubVars, issued>>
  /\ UNCHANGED <<stored, session, hub, pc, view>>

\* UpdateSession's tryWriteLock, with a client id (of a connection that may be
\* gone) or without.  A denied request is answered 409 and leaves no trace.
StartPut(p, as) ==
  /\ task[p] = Idle
  /\ \/ /\ as \in Conn
        /\ pc[as] \notin {"off", "accepted"}
        /\ Lock!AcquireQuietly(p, as)
     \/ /\ as = Nobody
        /\ Lock!PermitAnonymous(p)
  /\ Hear
  /\ Begin(p, as)
  /\ UNCHANGED <<stored, session, hub, pc, view>>

Move(h, from, to) ==
  /\ task[h].step = from
  /\ task' = [task EXCEPT ![h].step = to]

\* updateContent: the transaction commits; or quota or the database refuses;
\* or the session is gone, or the connection and with it the context.
Commit(h) ==
  /\ \/ /\ session = "live"
        /\ Move(h, "granted", "committed")
        /\ stored' = task[h].edit
     \/ /\ session = "live"
        /\ Move(h, "granted", "failed")
        /\ UNCHANGED stored
     \/ /\ session # "live" \/ (h \in Conn /\ pc[h] = "broken")
        /\ Move(h, "granted", "void")
        /\ UNCHANGED stored
  /\ UNCHANGED <<lockVars, hubVars, session, hub, pc, issued, view>>

\* Locks.State for the payload.
Peek(h) ==
  /\ Move(h, "committed", "peeked")
  /\ \/ Lock!Query /\ Hear
     \/ ~Lock!Lapsed /\ UNCHANGED <<lockVars, hubVars>>
  /\ UNCHANGED <<stored, session, hub, pc, issued, view>>

\* Hub.Broadcast of the text, to everyone but the connection that wrote it.
Cast(h) ==
  /\ Move(h, "peeked", "cast")
  /\ Broadcast(<< <<"content", task[h].edit>> >>, members \ {h})
  /\ UNCHANGED <<lockVars, stored, session, hub, pc, issued, view>>

\* Mutant of Announce: a refused or void edit ends without its announce.
AnnounceSuccess(h) ==
  /\ task[h].step \in {"cast", "failed", "void"}
  /\ IF task[h].step = "cast"
     THEN Lock!Announce(h) /\ Hear
     ELSE owing' = owing \ {h} /\ events' = <<>> /\ UNCHANGED hubVars
          /\ UNCHANGED <<entry, holder, left, armed, due, firing, announced>>
  /\ task' = [task EXCEPT ![h] = Idle]
  /\ UNCHANGED <<stored, session, hub, pc, issued, view>>

\* announce(slug), after the broadcast or after the failure.  A PUT is then
\* done; a read loop whose session or connection is gone returns.
Announce(h) ==
  /\ Lock!Announce(h)
  /\ Hear
  /\ LET after == CASE task[h].step = "cast"   -> "saved"
                     [] task[h].step = "failed" -> "unsaved"
                     [] OTHER                   -> "idle"
     IN /\ task[h].step \in {"cast", "failed", "void"}
        /\ task' = [task EXCEPT ![h] =
             IF h \in Put \/ after = "idle" THEN Idle ELSE [@ EXCEPT !.step = after]]
        /\ pc' = IF h \in Conn /\ after = "idle"
                 THEN [pc EXCEPT ![h] = "broken"] ELSE pc
  /\ UNCHANGED <<stored, session, hub, issued, view>>

\* What writeBack queues for the reply that is due.
Answer(t) ==
  CASE t.step = "saved"   -> <<"ack", t.edit>>
    [] t.step = "unsaved" -> <<"rejected", t.edit>>
    [] t.step = "renewed" -> <<"mine", Nobody>>
    [] OTHER              -> <<"denied", Nobody>>

Reply(c) ==
  /\ task[c].step \in {"saved", "unsaved", "renewed", "denied"}
  /\ Broadcast(<<Answer(task[c])>>, {c})
  /\ task' = [task EXCEPT ![c] = Idle]
  /\ UNCHANGED <<lockVars, stored, session, hub, pc, issued, view>>

-----------------------------------------------------------------------------
(* Lock messages *)

Confirm(c) == task' = [task EXCEPT ![c] = [Idle EXCEPT !.step = "renewed"]]

\* wsTypeAcquire: the room hears of a new holder, the caller of a refreshed
\* or a refused one.
AcquireMessage(c) ==
  /\ "acquire" \in Asks
  /\ Listening(c)
  /\ \/ /\ Lock!Live /\ holder # c
        /\ Deny(c)
        /\ UNCHANGED <<lockVars, hubVars>>
     \/ /\ Lock!Acquire(c)
        /\ Hear
        /\ IF Lock!Live THEN Confirm(c) ELSE UNCHANGED task
  /\ UNCHANGED <<stored, session, hub, pc, issued, view>>

\* wsTypeHeartbeat.
HeartbeatMessage(c) ==
  /\ "heartbeat" \in Asks
  /\ Listening(c)
  /\ \/ /\ Lock!Heartbeat(c)
        /\ Hear
        /\ Confirm(c)
     \/ /\ Lock!Query
        /\ Hear
        /\ Deny(c)
     \/ /\ ~Lock!Lapsed /\ holder # c
        /\ Deny(c)
        /\ UNCHANGED <<lockVars, hubVars>>
  /\ UNCHANGED <<stored, session, hub, pc, issued, view>>

\* Mutant of ReleaseMessage: the release is not broadcast.
ReleaseUnheard(c) ==
  /\ "release" \in Asks
  /\ Listening(c)
  /\ Lock!Release(c)
  /\ UNCHANGED <<hubVars, stored, session, hub, pc, task, issued, view>>

\* wsTypeRelease.
ReleaseMessage(c) ==
  /\ "release" \in Asks
  /\ Listening(c)
  /\ Lock!Release(c)
  /\ Hear
  /\ UNCHANGED <<stored, session, hub, pc, task, issued, view>>

-----------------------------------------------------------------------------
(* The rest of the server *)

\* Steps of an edit whose announce is still to come, and of one to its reply.
Unannounced == {"granted", "committed", "peeked", "cast", "failed", "void"}
Editing == Unannounced \cup {"saved", "unsaved"}

\* An edit message that is under way ages.
Older(t) == IF t.step \in Editing /\ t.age < TTL THEN [t EXCEPT !.age = @ + 1] ELSE t

\* Time passes.
Tick ==
  /\ Timely => \A c \in Conn : Older(task[c]).age < TTL
  /\ Lock!Tick
  /\ task' = [h \in Handler |-> IF h \in Conn THEN Older(task[h]) ELSE task[h]]
  /\ UNCHANGED <<hubVars, stored, session, hub, pc, issued, view>>

Timer(e) ==
  /\ Lock!Fire(e) \/ Lock!Expire(e)
  /\ Hear
  /\ UNCHANGED <<stored, session, hub, pc, task, issued, view>>

\* A temporary session reaches its expiry; nothing else is told.
SessionExpires ==
  /\ "expire" \in Env
  /\ session = "live"
  /\ session' = "expired"
  /\ UNCHANGED <<lockVars, hubVars, stored, hub, pc, task, issued, view>>

\* AdminDelete: Store.Delete, then Locks.Forget, then Hub.Kick.
AdminDelete ==
  /\ "delete" \in Env
  /\ \/ /\ session \in {"live", "expired"}
        /\ session' = "deleted"
        /\ UNCHANGED <<lockVars, hubVars>>
     \/ /\ session = "deleted"
        /\ session' = "forgotten"
        /\ Lock!Forget
        /\ UNCHANGED hubVars
     \/ /\ session = "forgotten"
        /\ session' = "kicked"
        /\ KickAll
        /\ UNCHANGED lockVars
  /\ UNCHANGED <<stored, hub, pc, task, issued, view>>

\* Hub.Shutdown: drop everyone, then poll until the room is empty or the
\* context ends.
Shutdown ==
  /\ "shutdown" \in Env
  /\ \/ hub = "open" /\ hub' = "closing" /\ KickAll
     \/ hub = "closing" /\ members = {} /\ hub' = "stopped" /\ UNCHANGED hubVars
     \/ hub = "closing" /\ members # {} /\ hub' = "gave up" /\ UNCHANGED hubVars
  /\ UNCHANGED <<lockVars, stored, session, pc, task, issued, view>>

-----------------------------------------------------------------------------
\* The steps a connection's handler takes by itself.
Serve(c) ==
  \/ Join(c) \/ ReadSnapshot(c) \/ SendSnapshot(c)
  \/ Exit(c) \/ Leave(c) \/ Reply(c)

\* The steps of an edit once it is let in.
Finish(h) == Commit(h) \/ Peek(h) \/ Cast(h) \/ Announce(h)

Next ==
  \/ \E c \in Conn :
       \/ Accept(c) \/ Serve(c) \/ Deliver(c) \/ Drop(c) \/ Break(c)
       \/ EditMessage(c) \/ AcquireMessage(c) \/ HeartbeatMessage(c)
       \/ ReleaseMessage(c)
  \/ \E p \in Put, as \in Users : StartPut(p, as)
  \/ \E h \in Handler : Finish(h)
  \/ \E e \in Entry : Timer(e)
  \/ Tick \/ SessionExpires \/ AdminDelete \/ Shutdown

Spec == Init /\ [][Next]_vars

\* Goroutines that can run do run, time passes and timers fire.  Clients, the
\* network and the administrator owe nothing.
FairSpec ==
  /\ Spec
  /\ \A c \in Conn : WF_vars(Serve(c)) /\ WF_vars(Deliver(c)) /\ WF_vars(Drop(c))
  /\ \A h \in Handler : WF_vars(Finish(h))
  /\ \A e \in Entry : WF_vars(Timer(e))
  /\ WF_vars(Tick)

-----------------------------------------------------------------------------
(***************************************************************************)
(* Properties                                                              *)
(***************************************************************************)

\* c's stream runs: it has its snapshot and the hub has not dropped it.
Following(c) == pc[c] = "up" /\ view[c].hello /\ c \in members \ kicked

Queued(c, kinds) == \E i \in 1..Len(inbox[c]) : inbox[c][i][1] \in kinds

\* Once no edit is between its commit and its broadcast, a client that has
\* received what was queued for it shows the stored text: no update is lost
\* between the snapshot and the first broadcast, none is dropped at a full
\* buffer without dropping the subscriber, none arrives out of order.
TextConverges ==
  \A c \in Conn :
    /\ session = "live"
    /\ Following(c)
    /\ ~Queued(c, {"content", "ack"})
    /\ \A h \in Handler : task[h].step \notin {"committed", "peeked", "cast", "saved"}
    => view[c].content = stored

\* The same for the lock: with the snapshot and the lock events applied, and
\* no announcement owed, a client knows who holds the lock.
LockConverges ==
  \A c \in Conn :
    /\ session \notin {"forgotten", "kicked"}
    /\ Following(c)
    /\ ~Queued(c, {"lock"})
    /\ owing = {}
    => view[c].lock = holder

\* A connection's edit is stored, broadcast, announced and answered with the lock
\* in its hands, however long the store takes, unless that is as long as the
\* lock lives: until then no peer, PUT, timer of an earlier lock or broken socket
\* takes the lock, and so no peer is let in (WS, acquire).
WriterHolds ==
  session = "live" =>
    \A c \in Conn : task[c].step \in Editing /\ task[c].age < TTL => holder = c

\* A connection that has left holds no lock: peers need not wait for the TTL
\* (the deferred call in WS).
GoneHoldsNothing ==
  \A c \in Conn : pc[c] \in {"leaving", "done"} => holder # c


\* However an edit ends, stored, refused, void or overtaken by the deletion of
\* its session, the room hears in the end who holds the lock: no path of the
\* WS and PUT handlers forgets its announce.
HolderHeard == (announced # holder) ~> (announced = holder)


\* After the administrator's delete the room empties: clients are disconnected
\* "instead of editing into the void" (AdminDelete).
DeletedRoomEmpties == (session = "kicked") ~> (members = {})
=============================================================================
