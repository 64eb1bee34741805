---------------------------- MODULE Attachments ----------------------------
(***************************************************************************)
(* The attachments of one session under the "fs" backend: their rows in    *)
(* the database and their files in FILE_STORAGE_DIR/<slug>, kept together  *)
(* by AddFile, DeleteFile (internal/store/files.go), Delete, DeleteExpired *)
(* (store.go), DeleteIdlePersistent (quota.go) and SweepFSOrphans          *)
(* (fssweep.go), across crashes.                                           *)
(*                                                                         *)
(* Transactions are immediate: `writer` is the upload that has the         *)
(* database's write lock; every other statement that writes waits for it.  *)
(* File system calls take no lock.  A slug is random and used once, so a   *)
(* session that is gone stays gone.  The database cascades: with the       *)
(* session its file rows go in one statement, which leaves nothing to      *)
(* DeleteOrphanFiles.                                                      *)
(***************************************************************************)
EXTENDS Naturals, FiniteSets

CONSTANTS
  File,        \* file ids; one is drawn again once no trace of it is left
  Temp,        \* names of temporary files, likewise
  Upload,      \* uploads that may be in AddFile at a time
  Dir,         \* the session's directory itself
  None,        \* nobody; nothing
  Grace,       \* DefaultFSSweepGrace, in clock ticks
  MaxFiles,    \* MaxFilesPerSession
  MaxCrashes   \* bound: crashes during a behaviour

Name == File \cup Temp

ASSUME AttachmentConstants ==
  /\ File \cap Temp = {}
  /\ Dir \notin Name
  /\ None \notin Name \cup Upload
  /\ IsFiniteSet(File)
  /\ Grace \in Nat \ {0, 1}
  /\ MaxFiles \in Nat \ {0}
  /\ MaxCrashes \in Nat

VARIABLES
  session,   \* "live", "expired" or "gone": the row in the sessions table
  rows,      \* ids in the files table
  writer,    \* the upload whose transaction is open, or None
  dir,       \* does the directory exist?
  disk,      \* the names in it
  age,       \* time since a name, or Dir, was last modified; Grace and more
             \* are the same
  up,        \* where each upload is, with its file id and temporary name
  drop,      \* removeFSFile under way: the file's unlink, the rmdir, neither
  cleanup,   \* DeleteExpired: "idle", or what it saw of the session's rows
  reaping,   \* removeSessionDir under way: "entries", "rmdir", "no"
  sweep,     \* where SweepFSOrphans is
  old,       \* names last modified before the sweep's cutoff
  known,     \* the session was in the sweep's snapshot
  refs,      \* the file rows in it
  todo,      \* directory entries the sweep has still to look at
  crashes

db == <<session, rows, writer>>
fs == <<dir, disk, age, old>>
sweeping == <<sweep, known, refs, todo>>
vars == <<db, fs, sweeping, up, drop, cleanup, reaping, crashes>>

Resting == [step |-> "idle", id |-> None, temp |-> None]

TypeOK ==
  /\ session \in {"live", "expired", "gone"}
  /\ rows \in SUBSET File
  /\ writer \in Upload \cup {None}
  /\ dir \in BOOLEAN
  /\ disk \in SUBSET Name
  /\ disk # {} => dir
  /\ age \in [Name \cup {Dir} -> 0..Grace]
  /\ up \in [Upload -> [step : {"idle", "begun", "made", "temp", "filed"},
                        id : File \cup {None}, temp : Temp \cup {None}]]
  /\ drop \in [File -> {"no", "unlink", "rmdir"}]
  /\ cleanup \in {"idle", "empty", "files"}
  /\ reaping \in {"no", "entries", "rmdir"}
  /\ sweep \in {"idle", "started", "sessions", "listing", "files", "vetting", "purging"}
  /\ old \in SUBSET (Name \cup {Dir})
  /\ known \in BOOLEAN
  /\ refs \in SUBSET File
  /\ todo \in SUBSET Name
  /\ crashes \in 0..MaxCrashes

Init ==
  /\ session = "live"
  /\ rows = {}
  /\ writer = None
  /\ dir = FALSE
  /\ disk = {}
  /\ age = [n \in Name \cup {Dir} |-> 0]
  /\ up = [u \in Upload |-> Resting]
  /\ drop = [f \in File |-> "no"]
  /\ cleanup = "idle"
  /\ reaping = "no"
  /\ sweep = "idle"
  /\ old = {}
  /\ known = FALSE
  /\ refs = {}
  /\ todo = {}
  /\ crashes = 0

-----------------------------------------------------------------------------
(* The file system *)

\* What is modified now is newer than any cutoff taken before.
Touch(S) ==
  /\ age' = [n \in DOMAIN age |-> IF n \in S THEN 0 ELSE age[n]]
  /\ old' = old \ S

\* Removing an entry modifies the directory; a name that is gone has no age.
Remove(n) ==
  /\ disk' = disk \ {n}
  /\ dir' = dir
  /\ IF n \in disk THEN Touch({n, Dir}) ELSE UNCHANGED <<age, old>>

\* os.Remove on the directory works when it is empty.
RemoveDir ==
  /\ dir' = (dir /\ disk # {})
  /\ IF disk = {} THEN Touch({Dir}) ELSE UNCHANGED <<age, old>>
  /\ UNCHANGED disk

-----------------------------------------------------------------------------
(* AddFile *)

Go(u, step) == up' = [up EXCEPT ![u].step = step]
End(u) == up' = [up EXCEPT ![u] = Resting]
Unlock(u) == writer' = IF writer = u THEN None ELSE writer

Unused(f) ==
  f \notin rows \cup disk /\ drop[f] = "no" /\ \A u \in Upload : up[u].id # f

UnusedTemp(t) == t \notin disk /\ \A u \in Upload : up[u].temp # t

\* BeginTx and sessionStatsTx: the session is there and has room.
Begin(u) ==
  /\ up[u] = Resting
  /\ writer = None
  /\ session = "live"
  /\ Cardinality(rows) < MaxFiles
  /\ writer' = u
  /\ \E f \in File, t \in Temp :
       /\ Unused(f) /\ UnusedTemp(t)
       /\ up' = [up EXCEPT ![u] = [step |-> "begun", id |-> f, temp |-> t]]
  /\ UNCHANGED <<session, rows, fs, sweeping, drop, cleanup, reaping, crashes>>

\* writeFSFile: MkdirAll.
MakeDir(u) ==
  /\ up[u].step = "begun"
  /\ Go(u, "made")
  /\ dir' = TRUE
  /\ IF dir THEN UNCHANGED <<age, old>> ELSE Touch({Dir})
  /\ UNCHANGED <<disk, db, sweeping, drop, cleanup, reaping, crashes>>

\* CreateTemp and the data.
WriteTemp(u) ==
  /\ up[u].step = "made"
  /\ dir
  /\ Go(u, "temp")
  /\ disk' = disk \cup {up[u].temp}
  /\ Touch({up[u].temp, Dir})
  /\ UNCHANGED <<dir, db, sweeping, drop, cleanup, reaping, crashes>>

\* The directory was removed under the upload: it fails, the transaction ends.
MissDir(u) ==
  /\ up[u].step = "made"
  /\ ~dir
  /\ End(u)
  /\ Unlock(u)
  /\ UNCHANGED <<session, rows, fs, sweeping, drop, cleanup, reaping, crashes>>

\* Rename: the file keeps the time at which its data was written.
Rename(u) ==
  LET f == up[u].id  t == up[u].temp IN
  /\ up[u].step = "temp"
  /\ t \in disk
  /\ up' = [up EXCEPT ![u].step = "filed", ![u].temp = None]
  /\ disk' = (disk \ {t}) \cup {f}
  /\ age' = [age EXCEPT ![f] = age[t], ![t] = 0, ![Dir] = 0]
  /\ old' = (old \ {f, t, Dir}) \cup (IF t \in old THEN {f} ELSE {})
  /\ UNCHANGED <<dir, db, sweeping, drop, cleanup, reaping, crashes>>

\* The disk is full, or the temporary file is gone: the deferred Remove.
WriteFails(u) ==
  /\ up[u].step = "temp"
  /\ Remove(up[u].temp)
  /\ End(u)
  /\ Unlock(u)
  /\ UNCHANGED <<session, rows, sweeping, drop, cleanup, reaping, crashes>>

\* INSERT, UPDATE and Commit: nobody sees any of them before the last.
Commit(u) ==
  /\ up[u].step = "filed"
  /\ writer = u
  /\ rows' = rows \cup {up[u].id}
  /\ writer' = None
  /\ End(u)
  /\ UNCHANGED <<session, fs, sweeping, drop, cleanup, reaping, crashes>>

\* One of the three fails: removeFSFile follows.
CommitFails(u) ==
  /\ up[u].step = "filed"
  /\ drop' = [drop EXCEPT ![up[u].id] = "unlink"]
  /\ End(u)
  /\ Unlock(u)
  /\ UNCHANGED <<session, rows, fs, sweeping, cleanup, reaping, crashes>>

\* The client hangs up: database/sql rolls the transaction back at once, the
\* upload notices at its INSERT.
Cancel(u) ==
  /\ writer = u
  /\ writer' = None
  /\ UNCHANGED <<session, rows, fs, sweeping, up, drop, cleanup, reaping, crashes>>

-----------------------------------------------------------------------------
(* Deletions *)

\* DeleteFile, which the store offers and no handler calls yet: the row goes; a
\* second call for it finds none.
DeleteFile(f) ==
  /\ f \in rows
  /\ writer = None
  /\ rows' = rows \ {f}
  /\ drop' = [drop EXCEPT ![f] = "unlink"]
  /\ UNCHANGED <<session, writer, fs, sweeping, up, cleanup, reaping, crashes>>

\* removeFSFile: the file, then the directory if that was the last one.
DropFile(f) ==
  /\ \/ drop[f] = "unlink" /\ Remove(f) /\ drop' = [drop EXCEPT ![f] = "rmdir"]
     \/ drop[f] = "rmdir" /\ RemoveDir /\ drop' = [drop EXCEPT ![f] = "no"]
  /\ UNCHANGED <<db, sweeping, up, cleanup, reaping, crashes>>

Expires ==
  /\ session = "live"
  /\ session' = "expired"
  /\ UNCHANGED <<rows, writer, fs, sweeping, up, drop, cleanup, reaping, crashes>>

\* The session's row and, by the cascade, its file rows.
DropRows == writer = None /\ session' = "gone" /\ rows' = {} /\ writer' = None

\* Delete, by the administrator: rows, then the directory.
Delete ==
  /\ session # "gone"
  /\ DropRows
  /\ reaping' = "entries"
  /\ UNCHANGED <<fs, sweeping, up, drop, cleanup, crashes>>

\* DeleteIdlePersistent: the directory is left to the sweep.
DeleteIdle ==
  /\ session = "live"
  /\ DropRows
  /\ UNCHANGED <<fs, sweeping, up, drop, cleanup, reaping, crashes>>

\* DeleteExpired: the slugs with files are read before the DELETE, whose wait
\* for the write lock lets a last upload in.
DeleteExpired ==
  /\ session = "expired"
  /\ \/ /\ cleanup = "idle"
        /\ cleanup' = IF rows = {} THEN "empty" ELSE "files"
        /\ UNCHANGED <<db, reaping>>
     \/ /\ cleanup # "idle"
        /\ DropRows
        /\ cleanup' = "idle"
        /\ reaping' = IF cleanup = "files" THEN "entries" ELSE reaping
  /\ UNCHANGED <<fs, sweeping, up, drop, crashes>>

\* removeSessionDir: RemoveAll.
RemoveAll ==
  /\ \/ /\ reaping = "entries"
        /\ disk' = {}
        /\ Touch(Name \cup {Dir})
        /\ reaping' = "rmdir"
        /\ UNCHANGED dir
     \/ reaping = "rmdir" /\ RemoveDir /\ reaping' = "no"
  /\ UNCHANGED <<db, sweeping, up, drop, cleanup, crashes>>

-----------------------------------------------------------------------------
(* SweepFSOrphans *)

\* Mutant of SweepStart: no grace.
SweepAtOnce ==
  /\ sweep = "idle"
  /\ dir
  /\ sweep' = "started"
  /\ old' = disk \cup {Dir}
  /\ UNCHANGED <<dir, disk, age, db, known, refs, todo, up, drop, cleanup, reaping, crashes>>

\* The cutoff is taken, the root is listed and has the directory.
SweepStart ==
  /\ sweep = "idle"
  /\ dir
  /\ sweep' = "started"
  /\ old' = {n \in disk \cup {Dir} : age[n] = Grace}
  /\ UNCHANGED <<dir, disk, age, db, known, refs, todo, up, drop, cleanup, reaping, crashes>>

\* fsSweepSnapshot: two queries.
SweepSnapshot ==
  /\ \/ /\ sweep = "started"
        /\ sweep' = "sessions"
        /\ known' = (session # "gone")
        /\ UNCHANGED refs
     \/ /\ sweep = "sessions"
        /\ sweep' = "listing"
        /\ refs' = rows
        /\ UNCHANGED known
  /\ UNCHANGED <<fs, db, todo, up, drop, cleanup, reaping, crashes>>

\* ReadDir on the session's directory, by either half of the sweep.
SweepList ==
  /\ sweep = "listing"
  /\ todo' = disk
  /\ sweep' = IF known THEN "files" ELSE "vetting"
  /\ UNCHANGED <<fs, db, known, refs, up, drop, cleanup, reaping, crashes>>

\* Mutant of SweepLive: temporary files are not looked at.
SweepFilesOnly(n) ==
  /\ sweep = "files"
  /\ n \in todo
  /\ todo' = todo \ {n}
  /\ IF n \in (old \cap File) \ refs THEN Remove(n) ELSE UNCHANGED fs
  /\ UNCHANGED <<db, sweep, known, refs, up, drop, cleanup, reaping, crashes>>

\* sweepLiveFSDir: an old file without a row goes, and an old temporary one.
SweepLive(n) ==
  /\ sweep = "files"
  /\ n \in todo
  /\ todo' = todo \ {n}
  /\ IF n \in old /\ n \notin refs THEN Remove(n) ELSE UNCHANGED fs
  /\ UNCHANGED <<db, sweep, known, refs, up, drop, cleanup, reaping, crashes>>

\* What the sweep knew is of no use any more.
SweepOver == sweep' = "idle" /\ todo' = {} /\ old' = {} /\ known' = FALSE /\ refs' = {}

\* Mutant of SweepVet: an orphan directory with anything in it is left alone.
VetEmptyOnly ==
  /\ sweep = "vetting"
  /\ IF dir /\ session = "gone" /\ Dir \in old /\ todo = {}
     THEN sweep' = "purging" /\ UNCHANGED todo
     ELSE sweep' = "idle" /\ todo' = {}
  /\ UNCHANGED <<fs, db, known, refs, up, drop, cleanup, reaping, crashes>>

\* sweepOrphanFSDir, the checks: everything there is old.  The session's row,
\* looked up again, is still missing.
SweepVet ==
  /\ sweep = "vetting"
  /\ IF dir /\ session = "gone" /\ Dir \in old /\ todo \subseteq disk \cap old
     THEN sweep' = "purging" /\ UNCHANGED <<old, known, refs, todo>>
     ELSE SweepOver
  /\ UNCHANGED <<dir, disk, age, db, up, drop, cleanup, reaping, crashes>>

\* sweepOrphanFSDir, the removal of what was listed.
SweepOrphan(n) ==
  /\ sweep = "purging"
  /\ n \in todo
  /\ todo' = todo \ {n}
  /\ Remove(n)
  /\ UNCHANGED <<db, sweep, known, refs, up, drop, cleanup, reaping, crashes>>

SweepEnd ==
  /\ todo = {}
  /\ \/ sweep = "files" /\ UNCHANGED <<dir, age>>
     \/ sweep = "purging" /\ disk # {} /\ UNCHANGED <<dir, age>>
     \/ sweep = "purging" /\ disk = {} /\ dir' = FALSE /\ age' = [age EXCEPT ![Dir] = 0]
  /\ SweepOver
  /\ UNCHANGED <<disk, db, up, drop, cleanup, reaping, crashes>>

-----------------------------------------------------------------------------
\* An upload whose file is on disk is done with it, one way or the other,
\* before the file is as old as the grace period: AddFile has the data already
\* and the write lock, and the rest of it is far from taking 15 minutes.
InTime(u) ==
  /\ up[u].step = "temp" => age[up[u].temp] + 1 < Grace
  /\ up[u].step = "filed" => age[up[u].id] + 1 < Grace

Tick ==
  /\ \A u \in Upload : InTime(u)
  /\ age' = [n \in DOMAIN age |->
       IF (n \in disk \/ (n = Dir /\ dir)) /\ age[n] < Grace THEN age[n] + 1 ELSE age[n]]
  /\ UNCHANGED <<dir, disk, old, db, sweeping, up, drop, cleanup, reaping, crashes>>

\* The process ends at any point and starts again.  What was committed, and
\* what was written to the disk, stays.
Crash ==
  /\ crashes < MaxCrashes
  /\ crashes' = crashes + 1
  /\ writer' = None
  /\ up' = [u \in Upload |-> Resting]
  /\ drop' = [f \in File |-> "no"]
  /\ cleanup' = "idle"
  /\ reaping' = "no"
  /\ sweep' = "idle"
  /\ old' = {}
  /\ known' = FALSE
  /\ refs' = {}
  /\ todo' = {}
  /\ UNCHANGED <<session, rows, dir, disk, age>>

\* The steps of an upload that is under way.
Proceed(u) ==
  \/ MakeDir(u) \/ WriteTemp(u) \/ MissDir(u) \/ Rename(u) \/ WriteFails(u)
  \/ Commit(u) \/ CommitFails(u)

\* The steps of a sweep that is under way.
SweepOn ==
  \/ SweepSnapshot \/ SweepList \/ SweepVet \/ SweepEnd
  \/ \E n \in Name : SweepLive(n) \/ SweepOrphan(n)

Next ==
  \/ \E u \in Upload : Begin(u) \/ Proceed(u) \/ Cancel(u)
  \/ \E f \in File : DeleteFile(f) \/ DropFile(f)
  \/ Expires \/ Delete \/ DeleteIdle \/ DeleteExpired \/ RemoveAll
  \/ SweepStart \/ SweepOn
  \/ Tick \/ Crash

Spec == Init /\ [][Next]_vars

\* Calls that are under way end, time passes, and runCleanup comes round.
\* Nobody has to upload or delete anything, and the process need not crash.
FairSpec ==
  /\ Spec
  /\ \A u \in Upload : WF_vars(Proceed(u))
  /\ \A f \in File : WF_vars(DropFile(f))
  /\ WF_vars(RemoveAll) /\ WF_vars(DeleteExpired)
  /\ WF_vars(SweepStart \/ SweepOn)
  /\ WF_vars(Tick)

-----------------------------------------------------------------------------
(***************************************************************************)
(* Properties                                                              *)
(***************************************************************************)

\* Every attachment a session lists can be downloaded: no crash, no sweep that
\* runs beside an upload, no clean-up of another upload's failure and no
\* deletion leaves a committed row without its file.
RowsOnDisk == rows \subseteq disk

\* MaxFilesPerSession holds however many uploads are let in at a time.
RowsWithinLimit == Cardinality(rows) <= MaxFiles

\* What is on disk without a row, and nobody is working on.
Abandoned ==
  {n \in disk \ rows :
     /\ n \in File => drop[n] = "no"
     /\ \A u \in Upload : n \notin {up[u].id, up[u].temp}}

\* A file nobody has a row for, left by a crash, by a deletion that did not
\* get to its files or by a session that was only reaped for being idle, does
\* not stay on disk.
OrphansReclaimed == []<>(Abandoned = {})

\* A session that is gone leaves no directory behind, whenever it went: one that
\* a late upload makes again is removed again.
NothingLeft == []<>(session = "gone" => ~dir)
=============================================================================
