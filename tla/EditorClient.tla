---------------------------- MODULE EditorClient ----------------------------
(***************************************************************************)
(* One browser's editor (cmd/server/static: outbox.js, connection.js,      *)
(* lock.js, sync.js and their use in app.js) against the server it talks   *)
(* to, over connections that break.                                        *)
(*                                                                         *)
(* The client is single-threaded: a handler is one step, and so is what    *)
(* runs between two awaits of transmit.  Its state is a record, and the    *)
(* outbox's methods (module Outbox) are functions on it, so that a handler *)
(* that calls several is their composition.  The server's side of an edit  *)
(* is one step here; module Room has its interleavings.                    *)
(*                                                                         *)
(* A client id is the number of the connection it was minted for; 0 *)
(* is no client.  Sessions that expire, encrypted sessions without their   *)
(* key and the offline banner are left out: they make the editor           *)
(* read-only.                                                              *)
(***************************************************************************)
EXTENDS Outbox

CONSTANTS
  Peer,         \* the other users of the session
  MaxConn,      \* bound: connections opened
  MaxRefusals,  \* bound: edits the server refuses for quota or an error
  Uploads       \* may the user insert attachments?

ASSUME ClientConstants ==
  /\ MaxText \in Nat
  /\ MaxConn \in Nat \ {0}
  /\ MaxRefusals \in Nat
  /\ Peer \notin Nat
  /\ Uploads \in BOOLEAN

VARIABLES
  ui,        \* the client: editor, outbox, lock as it sees it
  job,       \* the transmission under way
  conn,      \* "down", "open" (no snapshot yet) or "up"
  conns,     \* connections opened so far: the id of the last
  toServer,  \* frames on their way to the server
  late,      \* frames of earlier connections the server has still to read
  toClient,  \* frames received or on their way, in the order of applyQueue
  stored,    \* the session's text
  holder,    \* who holds the editor lock
  texts,     \* texts typed so far, by anybody
  refusals,
  paced      \* (never changes) TRUE: a transmission takes its text once the
             \* one before is answered and the snapshot (without a connection,
             \* all that was received) applied, nothing arrives while it
             \* encodes, no connection opens while it runs, and a lock lasts
             \* until what was sent has arrived, as when network and cipher
             \* are faster than debounce, retries and lock

vars == <<ui, job, conn, conns, toServer, late, toClient, stored, holder, texts, refusals, paced>>

Id == 0..MaxConn
Who == Id \cup {Peer}

Frame(kind, from, n, text) == [kind |-> kind, from |-> from, n |-> n, text |-> text]
Event(kind, n, text, who) == [kind |-> kind, n |-> n, text |-> text, who |-> who]
NoJob == [step |-> "none", text |-> 0, rest |-> FALSE, as |-> 0]

TypeOK ==
  /\ ui.editor \in Text /\ ui.confirmed \in Text /\ ui.lastSent \in Text \cup {NoText}
  /\ ui.pending \in BOOLEAN /\ ui.debounce \in BOOLEAN
  /\ ui.jobs \in Seq(BOOLEAN)
  /\ ui.seq \in Nat
  /\ ui.outstanding \in SUBSET (Nat \X Text)
  /\ ui.me \in Id
  /\ ui.lock \in {"free", "mine", "theirs", "former"}
  /\ job.step \in {"none", "encoding", "put", "stored", "refused"}
  /\ conn \in {"down", "open", "up"}
  /\ conns \in Id /\ ui.me <= conns
  /\ conn # "up" => \A i \in 1..Len(toServer) : toServer[i].from = conns
  /\ stored \in Text
  /\ holder \in Who
  /\ texts \in Text
  /\ refusals \in 0..MaxRefusals
  /\ paced \in BOOLEAN

Init ==
  /\ ui = [editor |-> 0, confirmed |-> 0, lastSent |-> 0, pending |-> FALSE,
           debounce |-> FALSE, jobs |-> <<>>, seq |-> 0, outstanding |-> {},
           me |-> 0, lock |-> "free"]
  /\ job = NoJob
  /\ conn = "down"
  /\ conns = 0
  /\ toServer = <<>>
  /\ late = <<>>
  /\ toClient = <<>>
  /\ stored = 0
  /\ holder = 0
  /\ texts = 0
  /\ refusals = 0
  /\ paced \in BOOLEAN

-----------------------------------------------------------------------------
(* Handlers of the client *)

Locked(c) == ~CanEditNow(c.lock)

\* flushEdits: the debounce is over; a transmission is queued if there is
\* something to send and nobody else holds the lock.
Flush(c, rest) ==
  LET d == [c EXCEPT !.debounce = FALSE]
  IN IF c.pending /\ ~Locked(c) THEN Queued(d, rest) ELSE d

\* revertLocalEdits.
Revert(c) == [Reverted(c) EXCEPT !.debounce = FALSE]

\* applyRemote: pending text stays where it is, anything else makes way.
ApplyRemote(c, t) == IF ShouldApply(c, t) THEN RemoteApplied(c, t) ELSE RemoteSeen(c, t)

\* The lock as the client shows it.
Shown(c, who) == [c EXCEPT !.lock = Classify(c.me, who, {Peer})]

\* Mutant of ApplyLock: the lock's release does not wake what waited for it.
ApplyLockAsleep(c, who) ==
  LET d == Shown(c, who) IN
  IF d.lock = "theirs" /\ c.pending THEN Revert(d) ELSE d

\* applyLockSnapshot: a peer's lock undoes what was not stored; the lock of
\* one's own earlier connection only delays it.
ApplyLock(c, who) ==
  LET d == Shown(c, who) IN
  IF d.lock = "theirs" /\ c.pending THEN Revert(d)
  ELSE IF Locked(c) /\ ~Locked(d) /\ c.pending THEN Flush(d, FALSE)
  ELSE d

\* A snapshot: client id, text, lock; then the pending text goes out.
ApplySnapshot(c, e) ==
  LET d == ApplyLock(ApplyRemote([c EXCEPT !.me = e.n], e.text), e.who)
  IN IF ShouldFlush(d) THEN Flush(d, FALSE) ELSE d

-----------------------------------------------------------------------------
(* The user *)

\* input: the text changes, the lock is asked for if it is free, and the
\* debounce starts again.
TypeText ==
  /\ texts < MaxText
  /\ ~Locked(ui)
  /\ texts' = texts + 1
  /\ ui' = [Typed(ui, texts + 1) EXCEPT !.debounce = TRUE]
  /\ toServer' = IF ShouldRequestLock(ui.lock) /\ conn # "down"
                 THEN Append(toServer, Frame("acquire", conns, 0, 0)) ELSE toServer
  /\ UNCHANGED <<job, conn, conns, late, toClient, stored, holder, refusals, paced>>

\* uploadAndInsert, once the files are stored: the markers go out at once, by
\* REST if there is no socket.
InsertMarkers ==
  /\ Uploads
  /\ texts < MaxText
  /\ ui.lock # "theirs"
  /\ texts' = texts + 1
  /\ ui' = Flush(Typed(ui, texts + 1), TRUE)
  /\ UNCHANGED <<job, conn, conns, toServer, late, toClient, stored, holder, refusals, paced>>

\* scheduleFlush's timer.
Debounce ==
  /\ ui.debounce
  /\ ui' = Flush(ui, FALSE)
  /\ UNCHANGED <<job, conn, conns, toServer, late, toClient, stored, holder, texts, refusals, paced>>

-----------------------------------------------------------------------------
(* transmit *)

\* All was answered, and the connection's snapshot is in; without one, what
\* was received is applied.
Calm == ui.outstanding = {} /\ IF conn = "down" THEN toClient = <<>> ELSE ui.me = conns

\* The job takes the text as it is now, and encodes it, unless it was sent.
Start ==
  /\ job = NoJob
  /\ ui.jobs # <<>>
  /\ paced => Calm
  /\ IF ui.editor = ui.lastSent
     THEN /\ ui' = [ui EXCEPT !.jobs = Tail(@), !.pending = FALSE]
          /\ UNCHANGED job
     ELSE /\ ui' = [ui EXCEPT !.jobs = Tail(@)]
          /\ job' = [step |-> "encoding", text |-> ui.editor, rest |-> Head(ui.jobs),
                     as |-> 0]
  /\ UNCHANGED <<conn, conns, toServer, late, toClient, stored, holder, texts, refusals, paced>>

\* deliver: to the open socket, or by PUT, or not at all.  The number an edit
\* uses up when it is not sent as a frame is never seen, and left out.
Send ==
  /\ job.step = "encoding"
  /\ \/ /\ conn # "down"
        /\ toServer' = Append(toServer, Frame("edit", conns, ui.seq + 1, job.text))
        /\ ui' = SentAsFrame(ui, job.text)
        /\ job' = NoJob
     \/ /\ conn = "down"
        /\ job' = IF job.rest THEN [job EXCEPT !.step = "put", !.as = ui.me] ELSE NoJob
        /\ UNCHANGED <<ui, toServer>>
  /\ UNCHANGED <<conn, conns, late, toClient, stored, holder, texts, refusals, paced>>

\* The PUT's answer, or its absence.
PutEnds ==
  /\ job.step \in {"put", "stored", "refused"}
  /\ job' = NoJob
  /\ \/ /\ job.step = "stored"
        /\ ui' = StoredByPut(ui, job.text)
     \/ UNCHANGED ui
  /\ UNCHANGED <<conn, conns, toServer, late, toClient, stored, holder, texts, refusals, paced>>

-----------------------------------------------------------------------------
(* The server, as this client sees it *)

Tell(events) == toClient' = IF conn = "up" THEN toClient \o events ELSE toClient

\* lock events go out when the lock changes hands.
Announced(who) == IF holder = who THEN <<>> ELSE <<Event("lock", 0, 0, who)>>

\* A frame of this connection (`own`) or of an earlier one, whose answers
\* nobody hears and whose broadcasts reach the current one.
Answer(f, own) ==
  LET reply(e) == IF own THEN <<e>> ELSE <<>> IN
  \/ /\ holder \notin {0, f.from}
     /\ Tell(reply(Event("denied", f.n, 0, holder)))
     /\ UNCHANGED <<stored, holder, refusals>>
  \/ /\ holder \in {0, f.from}
     /\ holder' = f.from
     /\ \/ /\ f.kind = "acquire"
           /\ Tell(IF holder = 0 THEN Announced(f.from)
                                 ELSE reply(Event("lock", 0, 0, f.from)))
           /\ UNCHANGED <<stored, refusals>>
        \/ /\ f.kind = "edit"
           /\ stored' = f.text
           /\ Tell((IF own THEN <<>> ELSE <<Event("content", 0, f.text, 0)>>)
                   \o Announced(f.from) \o reply(Event("ack", f.n, 0, 0)))
           /\ UNCHANGED refusals
        \/ /\ f.kind = "edit"
           /\ refusals < MaxRefusals
           /\ refusals' = refusals + 1
           /\ Tell(Announced(f.from) \o reply(Event("rejected", f.n, 0, 0)))
           /\ UNCHANGED stored

Serve ==
  /\ \/ /\ conn = "up" /\ toServer # <<>>
        /\ toServer' = Tail(toServer)
        /\ Answer(Head(toServer), TRUE)
        /\ UNCHANGED late
     \/ /\ late # <<>>
        /\ late' = Tail(late)
        /\ Answer(Head(late), FALSE)
        /\ UNCHANGED toServer
  /\ UNCHANGED <<ui, job, conn, conns, texts, paced>>

\* UpdateSession: PUT with the last client id, or with none before the first
\* snapshot.  Its broadcast reaches this client too.
ServePut ==
  /\ job.step = "put"
  /\ \/ /\ holder \in {0, job.as}
        /\ job' = [job EXCEPT !.step = "stored"]
        /\ stored' = job.text
        /\ holder' = job.as
        /\ Tell(<<Event("content", 0, job.text, 0)>> \o Announced(job.as))
     \/ /\ holder \notin {0, job.as}
        /\ job' = [job EXCEPT !.step = "refused"]
        /\ UNCHANGED <<stored, holder, toClient>>
  /\ UNCHANGED <<ui, conn, conns, toServer, late, texts, refusals, paced>>

\* A peer's edit.
PeerEdits ==
  /\ texts < MaxText
  /\ holder \in {0, Peer}
  /\ texts' = texts + 1
  /\ stored' = texts + 1
  /\ holder' = Peer
  /\ Tell(<<Event("content", 0, texts + 1, 0)>> \o Announced(Peer))
  /\ UNCHANGED <<ui, job, conn, conns, toServer, late, refusals, paced>>

\* The lock is released by its holder, by the end of its connection, or lapses.
LockFreed ==
  /\ holder # 0
  /\ paced => toServer = <<>> /\ late = <<>> /\ toClient = <<>>
  /\ holder' = 0
  /\ Tell(Announced(0))
  /\ UNCHANGED <<ui, job, conn, conns, toServer, late, stored, texts, refusals, paced>>

-----------------------------------------------------------------------------
(* The connection *)

\* connect, and the socket's open event.
Connect ==
  /\ conn = "down"
  /\ conns < MaxConn
  /\ paced => job = NoJob
  /\ conn' = "open"
  /\ conns' = conns + 1
  /\ UNCHANGED <<ui, job, toServer, late, toClient, stored, holder, texts, refusals, paced>>

\* The server joins the room and sends the snapshot.
Hello ==
  /\ conn = "open"
  /\ conn' = "up"
  /\ toClient' = Append(toClient, Event("snapshot", conns, stored, holder))
  /\ UNCHANGED <<ui, job, conns, toServer, late, stored, holder, texts, refusals, paced>>

\* The socket closes.  The server has received some of the frames, and goes
\* on with them; the client has received some, and queues connectionLost.
Break ==
  /\ conn # "down"
  /\ conns < MaxConn
  /\ conn' = "down"
  /\ \E k \in 0..Len(toServer) : late' = late \o SubSeq(toServer, 1, k)
  /\ toServer' = <<>>
  /\ \E k \in 0..Len(toClient) :
       /\ \A i \in k+1..Len(toClient) : toClient[i].kind # "lost"
       /\ toClient' = Append(SubSeq(toClient, 1, k), Event("lost", 0, 0, 0))
  /\ UNCHANGED <<ui, job, conns, stored, holder, texts, refusals, paced>>

\* handleServerMessage, and the close event's connectionLost, in turn.
Receive ==
  /\ toClient # <<>>
  /\ paced => job.step # "encoding"
  /\ toClient' = Tail(toClient)
  /\ LET e == Head(toClient) IN
     ui' = CASE e.kind = "snapshot" -> ApplySnapshot(ui, e)
             [] e.kind = "content"  -> ApplyRemote(ui, e.text)
             [] e.kind = "lock"     -> ApplyLock(ui, e.who)
             [] e.kind = "denied"   -> ApplyLock(Refused(ui, e.n), e.who)
             [] e.kind = "ack"      -> Acked(ui, e.n)
             [] e.kind = "rejected" -> Refused(ui, e.n)
             [] e.kind = "lost"     -> Lost(ui)
  /\ UNCHANGED <<job, conn, conns, toServer, late, stored, holder, texts, refusals, paced>>

-----------------------------------------------------------------------------
Next ==
  \/ TypeText \/ InsertMarkers \/ Debounce
  \/ Start \/ Send \/ PutEnds
  \/ Serve \/ ServePut \/ PeerEdits \/ LockFreed
  \/ Connect \/ Hello \/ Break \/ Receive

Spec == Init /\ [][Next]_vars

\* The client's queues and timers run, the server answers, locks end, and a
\* client without a connection gets another (up to the bound, below which
\* alone connections break).
FairSpec ==
  /\ Spec
  /\ WF_vars(Debounce) /\ WF_vars(Start) /\ WF_vars(Send) /\ WF_vars(PutEnds)
  /\ WF_vars(Receive)
  /\ WF_vars(Serve) /\ WF_vars(LockFreed)
  /\ WF_vars(Connect) /\ WF_vars(Hello)

-----------------------------------------------------------------------------
(***************************************************************************)
(* Properties                                                              *)
(***************************************************************************)

\* Nothing is under way and nothing waits to be sent.
Quiet ==
  /\ conn = "up"
  /\ toServer = <<>> /\ late = <<>> /\ toClient = <<>>
  /\ job = NoJob /\ ui.jobs = <<>> /\ ~ui.debounce
  /\ ~ui.pending

InStep == Quiet => ui.editor = stored /\ ui.confirmed = stored

\* At an even pace, when all is quiet the editor shows the text the server
\* has, and rolling back would show it too, whatever was denied, refused,
\* re-sent or delivered twice (transmit, applyRemote, connectionLost).  The
\* user would otherwise type on a text nobody else sees, and the next edit
\* would store it.
Converged == paced => InStep

\* The same at any pace: "il client sa cosa ha il server" (README, on the
\* answers to edits).  The code does not keep it: text is exchanged with
\* answers still on their way.
KnowsServer == InStep

\* At an even pace, text that waits to be sent gives way to another only if a peer holds the
\* lock (the rollback says so), and text that was sent only if moreover it is
\* not confirmed and owed no answer: a text is never dropped because its
\* connection was lost before the answer, and never at the snapshot of the
\* next one (connectionLost, sync.js).
NothingDropped ==
  [][ paced /\ ui'.editor # ui.editor /\ texts' = texts /\ ui'.lock # "theirs"
        => /\ ~ui.pending
           /\ \/ ui.editor # ui.lastSent
              \/ ui.editor = ui.confirmed
              \/ ui.outstanding # {} ]_vars

\* What the user typed is stored, or undone because a peer holds the lock, or
\* refused by the server with a message; it does not wait for ever, whatever
\* connections break and whichever of them had the lock.
EditSettles == ui.pending ~> (~ui.pending \/ refusals > 0)

\* Every edit sent is answered, or given up when its connection is lost.
AllAnswered == (ui.outstanding # {}) ~> (ui.outstanding = {})
=============================================================================
