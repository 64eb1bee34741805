------------------------------ MODULE Storage ------------------------------
(***************************************************************************)
(* How much is stored: the limits of the server (internal/handlers/        *)
(* limits.go) and of a session (internal/store), kept by uploads, edits    *)
(* and the creation of sessions that run beside one another.               *)
(*                                                                         *)
(* The server's total is cached: queried at most once in storageCacheTTL,  *)
(* under l.mu, and counted on in `added` by every request that has stored  *)
(* something, which takes no lock.  An upload asks before its transaction, *)
(* an edit within it, while it has the database's write lock.  Texts and   *)
(* attachments are their sizes; every attachment has the same.             *)
(***************************************************************************)
EXTENDS Integers, FiniteSets, FiniteSetsExt

CONSTANTS
  Request,       \* bound: requests under way at a time
  Session,       \* slugs; one is drawn again once no trace of it is left
  Nobody,        \* no request
  Limit,         \* MaxTotalStorageBytes
  SessionLimit,  \* MaxSessionStorageBytes
  MaxText,       \* MaxContentSize
  FileSize,      \* size of an attachment
  Slots,         \* UploadConcurrency
  MaxTries       \* attempts of retryOnBusy

ASSUME StorageConstants ==
  /\ Nobody \notin Request
  /\ IsFiniteSet(Request) /\ Request # {}
  /\ IsFiniteSet(Session)
  /\ {Limit, SessionLimit, MaxText, FileSize, Slots, MaxTries} \subseteq Nat \ {0}

VARIABLES
  live,    \* sessions that exist
  text,    \* size of a session's text
  files,   \* size of its attachments together
  txn,     \* the request that has the database's write lock, or Nobody
  mu,      \* the request that has l.mu, or Nobody
  fresh,   \* is l.checked recent?
  total,   \* l.total
  added,   \* l.added
  seen,    \* what TotalBytes has found so far, for the request that has l.mu
  req      \* each request: what it wants and where it is

contents == <<live, text, files>>
cache == <<fresh, total, added>>
storageVars == <<contents, txn, mu, cache, seen, req>>

Kind == {"upload", "edit", "create"}
Step == {"idle",
         "asking",     \* calls storageFull
         "text", "files", "reset", "deciding",  \* in it, with l.mu
         "cleared",    \* before its transaction, or its INSERT
         "open",       \* in its transaction, all checks passed
         "stored"}     \* committed, not yet counted

At(kind, step, session, size) ==
  [kind |-> kind, step |-> step, session |-> session, size |-> size, grew |-> 0, tries |-> 0]

Idle == At("edit", "idle", Nobody, 0)

\* Of the total and what is added to it OverrunBounded speaks.
StorageTypeOK ==
  /\ live \in SUBSET Session
  /\ text \in [Session -> 0..MaxText]
  /\ files \in [Session -> 0..SessionLimit]
  /\ txn \in Request \cup {Nobody}
  /\ mu \in Request \cup {Nobody}
  /\ fresh \in BOOLEAN
  /\ req \in [Request ->
       [kind : Kind, step : Step, session : Session \cup {Nobody},
        size : Nat, grew : Nat, tries : 0..(MaxTries - 1)]]

StorageInit ==
  /\ live = {}
  /\ text = [s \in Session |-> 0]
  /\ files = [s \in Session |-> 0]
  /\ txn = Nobody
  /\ mu = Nobody
  /\ fresh = FALSE
  /\ total = 0
  /\ added = 0
  /\ seen = 0
  /\ req = [r \in Request |-> Idle]

TextBytes == MapThenSumSet(LAMBDA s : text[s], Session)
FileBytes == MapThenSumSet(LAMBDA s : files[s], Session)
Stored == TextBytes + FileBytes

-----------------------------------------------------------------------------
To(r, step) == req' = [req EXCEPT ![r].step = step]
Done(r) == req' = [req EXCEPT ![r] = Idle]
EndTx(r) == txn' = IF txn = r THEN Nobody ELSE txn

\* The bytes a request wants to add, as it tells storageFull.
Extra(r) ==
  CASE req[r].kind = "upload" -> FileSize
    [] req[r].kind = "edit" -> req[r].size - text[req[r].session]
    [] OTHER -> 0

-----------------------------------------------------------------------------
(* Requests come *)

\* UploadFile: the session exists and one of the slots is free.
StartUpload(r) ==
  /\ req[r].step = "idle"
  /\ Cardinality({q \in Request : req[q].step # "idle" /\ req[q].kind = "upload"}) < Slots
  /\ \E s \in live :
       req' = [req EXCEPT ![r] = At("upload", "asking", s, FileSize)]
  /\ UNCHANGED <<contents, txn, mu, cache, seen>>

\* updateContent, for a PUT or an edit of a socket.
StartEdit(r) ==
  /\ req[r].step = "idle"
  /\ \E s \in live, n \in 0..MaxText :
       req' = [req EXCEPT ![r] = At("edit", "cleared", s, n)]
  /\ UNCHANGED <<contents, txn, mu, cache, seen>>

\* CreateSession: an empty one, unless the server is over its limit.
StartCreate(r) ==
  /\ req[r].step = "idle"
  /\ req' = [req EXCEPT ![r] = At("create", "asking", Nobody, 0)]
  /\ UNCHANGED <<contents, txn, mu, cache, seen>>

-----------------------------------------------------------------------------
(* storageFull *)

\* l.mu is taken, and the age of the total looked at.
Lock(r) ==
  /\ req[r].step = "asking"
  /\ mu = Nobody
  /\ mu' = r
  /\ To(r, IF fresh THEN "deciding" ELSE "text")
  /\ UNCHANGED <<contents, txn, cache, seen>>

\* Mutant of Query: the pool has a single connection, which a transaction keeps.
QueryLocking(r) ==
  /\ txn = Nobody
  /\ \/ /\ req[r].step = "text"
        /\ seen' = TextBytes
        /\ To(r, "files")
     \/ /\ req[r].step = "files"
        /\ seen' = seen + FileBytes
        /\ To(r, "reset")
  /\ UNCHANGED <<contents, txn, mu, cache>>

\* TotalBytes: two queries, beside whatever commits meanwhile.
Query(r) ==
  /\ \/ /\ req[r].step = "text"
        /\ seen' = TextBytes
        /\ To(r, "files")
     \/ /\ req[r].step = "files"
        /\ seen' = seen + FileBytes
        /\ To(r, "reset")
  /\ UNCHANGED <<contents, txn, mu, cache>>

\* The total is kept, and stays old.
QueryFails(r) ==
  /\ req[r].step \in {"text", "files"}
  /\ To(r, "deciding")
  /\ seen' = 0
  /\ UNCHANGED <<contents, txn, mu, cache>>

Reset(r) ==
  /\ req[r].step = "reset"
  /\ total' = seen
  /\ fresh' = TRUE
  /\ added' = 0
  /\ seen' = 0
  /\ To(r, "deciding")
  /\ UNCHANGED <<contents, txn, mu>>

Full(r) == total + added + Extra(r) > Limit

\* The answer.  An edit has it within its transaction, which goes on or is
\* rolled back.
Approve(r) ==
  /\ req[r].step = "deciding"
  /\ ~Full(r)
  /\ mu' = Nobody
  /\ IF req[r].kind = "edit"
     THEN req' = [req EXCEPT ![r].step = "open", ![r].grew = Extra(r)]
     ELSE To(r, "cleared")
  /\ UNCHANGED <<contents, txn, cache, seen>>

Refuse(r) ==
  /\ req[r].step = "deciding"
  /\ Full(r)
  /\ mu' = Nobody
  /\ Done(r)
  /\ EndTx(r)
  /\ UNCHANGED <<contents, cache, seen>>

\* l.checked gets too old.
Age ==
  /\ fresh
  /\ fresh' = FALSE
  /\ UNCHANGED <<contents, txn, mu, total, added, seen, req>>

-----------------------------------------------------------------------------
(* The store *)

\* What AddFile and UpdateWithin check before anything is written.
Fits(r) ==
  LET s == req[r].session IN
  IF req[r].kind = "upload"
  THEN text[s] + files[s] + FileSize <= SessionLimit
  ELSE req[r].size + files[s] <= SessionLimit

\* Mutant of BeginTx: the sizes are read and checked before the transaction that
\* writes, and so without the write lock.
BeginUnlocked(r) ==
  /\ req[r].step = "cleared"
  /\ req[r].kind # "create"
  /\ req[r].session \in live /\ Fits(r)
  /\ UNCHANGED txn
  /\ To(r, IF req[r].kind = "edit" /\ Extra(r) > 0 THEN "asking" ELSE "open")
  /\ UNCHANGED <<contents, mu, cache, seen>>

\* BEGIN IMMEDIATE, sessionStatsTx and the checks: a text that grows asks for
\* its bytes.
BeginTx(r) ==
  /\ req[r].step = "cleared"
  /\ req[r].kind # "create"
  /\ txn = Nobody
  /\ req[r].session \in live /\ Fits(r)
  /\ txn' = r
  /\ To(r, IF req[r].kind = "edit" /\ Extra(r) > 0 THEN "asking" ELSE "open")
  /\ UNCHANGED <<contents, mu, cache, seen>>

\* The session is gone or has no room.
Reject(r) ==
  /\ req[r].step = "cleared"
  /\ req[r].kind # "create"
  /\ txn = Nobody
  /\ ~(req[r].session \in live /\ Fits(r))
  /\ Done(r)
  /\ UNCHANGED <<contents, txn, mu, cache, seen>>

\* Create.
Insert(r) ==
  /\ req[r].step = "cleared"
  /\ req[r].kind = "create"
  /\ txn = Nobody
  /\ \E s \in Session \ live :
       /\ \A q \in Request : req[q].session # s
       /\ live' = live \cup {s}
  /\ Done(r)
  /\ UNCHANGED <<text, files, txn, mu, cache, seen>>

\* The write lock is not got in time, or a statement finds the database busy:
\* rolled back and tried again, grew as it was.
Busy(r) ==
  /\ \/ req[r].step = "cleared" /\ req[r].kind # "create" /\ txn # Nobody
     \/ req[r].step = "open"
  /\ req[r].tries + 1 < MaxTries
  /\ req' = [req EXCEPT ![r].step = "cleared", ![r].tries = @ + 1]
  /\ EndTx(r)
  /\ UNCHANGED <<contents, mu, cache, seen>>

\* Any other error, the last attempt's included.
Fail(r) ==
  /\ req[r].step \in {"cleared", "open"}
  /\ Done(r)
  /\ EndTx(r)
  /\ UNCHANGED <<contents, mu, cache, seen>>

\* What is left of the request is the number it has to count.
CommitTx(r) ==
  LET s == req[r].session IN
  /\ req[r].step = "open"
  /\ IF req[r].kind = "upload"
     THEN files' = [files EXCEPT ![s] = @ + FileSize] /\ UNCHANGED text
     ELSE text' = [text EXCEPT ![s] = req[r].size] /\ UNCHANGED files
  /\ EndTx(r)
  /\ req' = [req EXCEPT ![r] =
       [kind |-> req[r].kind, step |-> "stored", session |-> Nobody, size |-> 0, tries |-> 0,
        grew |-> IF req[r].kind = "upload" THEN FileSize ELSE req[r].grew]]
  /\ UNCHANGED <<live, mu, cache, seen>>

\* Mutant of Note: the counter is set, not increased.
NoteLast(r) ==
  /\ req[r].step = "stored"
  /\ added' = req[r].grew
  /\ Done(r)
  /\ UNCHANGED <<contents, txn, mu, fresh, total, seen>>

\* noteStored.
Note(r) ==
  /\ req[r].step = "stored"
  /\ added' = added + req[r].grew
  /\ Done(r)
  /\ UNCHANGED <<contents, txn, mu, fresh, total, seen>>

\* A session ends, by the administrator or by clean-up: what goes is not counted.
DeleteSession(s) ==
  /\ txn = Nobody
  /\ s \in live
  /\ live' = live \ {s}
  /\ text' = [text EXCEPT ![s] = 0]
  /\ files' = [files EXCEPT ![s] = 0]
  /\ UNCHANGED <<txn, mu, cache, seen, req>>

-----------------------------------------------------------------------------
WithMutex(r) == Query(r) \/ Reset(r) \/ Approve(r) \/ Refuse(r)

InStore(r) ==
  BeginTx(r) \/ Reject(r) \/ Insert(r) \/ Busy(r) \/ Fail(r) \/ CommitTx(r) \/ Note(r)

StorageNext ==
  \/ \E r \in Request :
       \/ StartUpload(r) \/ StartEdit(r) \/ StartCreate(r)
       \/ Lock(r) \/ WithMutex(r) \/ QueryFails(r) \/ InStore(r)
  \/ \E s \in Session : DeleteSession(s)
  \/ Age

StorageSpec == StorageInit /\ [][StorageNext]_storageVars

\* Handlers run on, sync.Mutex hands l.mu to whoever waits for long, and the
\* wait for the write lock has a timeout.  No query has to fail.
StorageFairSpec ==
  /\ StorageSpec
  /\ \A r \in Request :
       SF_storageVars(Lock(r)) /\ WF_storageVars(WithMutex(r)) /\ WF_storageVars(InStore(r))

-----------------------------------------------------------------------------
(***************************************************************************)
(* Properties                                                              *)
(***************************************************************************)

\* A session never holds more than its limit, however many uploads and edits
\* of it are let in at a time (AddFile, UpdateWithin).
SessionWithinLimit == \A s \in Session : text[s] + files[s] <= SessionLimit

Largest == IF MaxText > FileSize THEN MaxText ELSE FileSize

\* The server's total goes over its limit by what requests beside one another
\* can add that is counted in no total yet, once while it is queried and once
\* before it is asked, and by no more: nothing accumulates from one refresh to
\* the next (storageFull, noteStored).
OverrunBounded == Stored <= Limit + 2 * (Cardinality(Request) - 1) * Largest

\* Every request is answered: the write lock is held while waiting for l.mu,
\* and l.mu while querying, but never in a circle (updateContent, storageFull).
RequestsEnd == \A r \in Request : (req[r].step # "idle") ~> (req[r].step = "idle")
=============================================================================
