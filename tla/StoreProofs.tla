---------------------------- MODULE StoreProofs ----------------------------
(***************************************************************************)
(* Theorems about the store: Attachments, for any files, uploads, limit    *)
(* and grace period; Storage, for any requests, sessions, sizes and limits.*)
(***************************************************************************)
EXTENDS Attachments, Storage, FiniteSetTheorems, WellFoundedInduction, TLAPS

-----------------------------------------------------------------------------
(* The number of attachments *)

\* Where the uploads are, as far as the rows depend on it.
Uploading ==
  /\ up \in [Upload -> [step : {"idle", "begun", "made", "temp", "filed"},
                        id : File \cup {None}, temp : Temp \cup {None}]]
  /\ \A u \in Upload : up[u].step # "idle" => up[u].id \in File

\* Whoever has the write lock was let in when there was room, and nobody else
\* has added a row since.
Space == Cardinality(rows) \in 0..MaxFiles /\ (writer # None => Cardinality(rows) < MaxFiles)

IInv == rows \subseteq File /\ Uploading /\ Space

\* A set of rows is finite, has a size, and grows by one at most.
LEMMA RowsGrow ==
  ASSUME NEW R \in SUBSET File, NEW f \in File
  PROVE  Cardinality(R) \in Nat /\ Cardinality(R \cup {f}) <= Cardinality(R) + 1
<1>1. IsFiniteSet(R)
  BY AttachmentConstants, FS_Subset
<1> QED
  BY <1>1, FS_AddElement, FS_CardinalityType

\* And does not grow by losing rows.
LEMMA RowsShrink ==
  ASSUME NEW R \in SUBSET File, NEW Q \in SUBSET R
  PROVE  Cardinality(Q) \in Nat /\ Cardinality(R) \in Nat /\ Cardinality(Q) <= Cardinality(R)
<1>1. IsFiniteSet(R)
  BY AttachmentConstants, FS_Subset
<1> QED
  BY <1>1, FS_Subset, FS_CardinalityType

LEMMA Starts == Init => IInv
<1> SUFFICES ASSUME Init PROVE IInv
  OBVIOUS
<1>1. rows = {} /\ writer = None /\ up = [u \in Upload |-> Resting]
  BY DEF Init
<1>2. Uploading
  BY <1>1 DEF Uploading, Resting
<1>3. Space
  BY <1>1, FS_EmptySet, AttachmentConstants DEF Space
<1> QED BY <1>1, <1>2, <1>3 DEF IInv

\* What an upload does to its own record.
LEMMA UploadingKept ==
  ASSUME IInv, NEW u \in Upload, Begin(u) \/ Proceed(u) \/ Cancel(u)
  PROVE  Uploading'
<1>1. CASE Begin(u)
  <2>1. PICK f \in File, t \in Temp :
          up' = [up EXCEPT ![u] = [step |-> "begun", id |-> f, temp |-> t]]
    BY <1>1 DEF Begin
  <2> QED BY <2>1 DEF IInv, Uploading
<1>2. CASE End(u)
  BY <1>2 DEF IInv, Uploading, End, Resting
<1>3. CASE \E step \in {"made", "temp"} : Go(u, step) /\ up[u].step # "idle"
  BY <1>3 DEF IInv, Uploading, Go
<1>4. CASE Rename(u)
  BY <1>4 DEF IInv, Uploading, Rename
<1>5. CASE UNCHANGED up
  BY <1>5 DEF IInv, Uploading
<1> QED
  BY <1>1, <1>2, <1>3, <1>4, <1>5
  DEF Proceed, MakeDir, WriteTemp, MissDir, WriteFails, Commit, CommitFails, Cancel

\* Only Begin takes the write lock, and only Commit adds a row.
LEMMA RoomKept ==
  ASSUME IInv, NEW u \in Upload, Begin(u) \/ Proceed(u) \/ Cancel(u)
  PROVE  (rows \subseteq File /\ Space)'
<1>1. CASE Begin(u)
  BY <1>1 DEF IInv, Space, Begin
<1>2. CASE Commit(u)
  <2>1. up[u].id \in File /\ Cardinality(rows) < MaxFiles
    BY <1>2, AttachmentConstants DEF IInv, Uploading, Space, Commit
  <2>2. rows' = rows \cup {up[u].id} /\ writer' = None
    BY <1>2 DEF Commit
  <2>3. Cardinality(rows') \in Nat /\ Cardinality(rows') <= Cardinality(rows) + 1
    BY <2>1, <2>2, RowsGrow, RowsShrink DEF IInv
  <2>4. Cardinality(rows') \in 0..MaxFiles
    BY <2>1, <2>3, AttachmentConstants DEF IInv, Space
  <2> QED BY <2>1, <2>2, <2>4 DEF IInv, Space
<1>3. CASE rows' = rows /\ writer' \in {writer, None}
  BY <1>3 DEF IInv, Space
<1> QED
  BY <1>1, <1>2, <1>3
  DEF Proceed, MakeDir, WriteTemp, MissDir, Rename, WriteFails, CommitFails, Cancel, Unlock, db

\* A deletion or a crash takes rows away at most, and the write lock.
LEMMA FewerRows ==
  ASSUME IInv, rows' \in SUBSET rows, writer' \in {writer, None}
  PROVE  (rows \subseteq File /\ Space)'
<1>1. Cardinality(rows') \in Nat /\ Cardinality(rows') <= Cardinality(rows)
  BY RowsShrink DEF IInv
<1> QED BY <1>1, AttachmentConstants DEF IInv, Space

LEMMA Inductive == IInv /\ [Next]_vars => IInv'
<1> SUFFICES ASSUME IInv, [Next]_vars PROVE IInv'
  OBVIOUS
<1>1. CASE \E u \in Upload : Begin(u) \/ Proceed(u) \/ Cancel(u)
  BY <1>1, UploadingKept, RoomKept DEF IInv
<1>2. CASE Crash
  <2>1. Uploading'
    BY <1>2 DEF Crash, Uploading, Resting
  <2> QED BY <1>2, <2>1, FewerRows DEF Crash, IInv
<1>3. CASE UNCHANGED up /\ rows' \in SUBSET rows /\ writer' \in {writer, None}
  <2>1. Uploading'
    BY <1>3 DEF IInv, Uploading
  <2> QED BY <1>3, <2>1, FewerRows DEF IInv
<1>4. CASE \E f \in File : DeleteFile(f) \/ DropFile(f)
  BY <1>3, <1>4 DEF DeleteFile, DropFile, db
<1>5. CASE Expires \/ Delete \/ DeleteIdle \/ DeleteExpired \/ RemoveAll
  BY <1>3, <1>5 DEF Expires, Delete, DeleteIdle, DeleteExpired, RemoveAll, DropRows, db
<1>6. CASE SweepStart \/ SweepOn
  BY <1>3, <1>6
  DEF SweepStart, SweepOn, SweepSnapshot, SweepList, SweepVet, SweepEnd, SweepLive, SweepOrphan, db
<1>7. CASE Tick \/ UNCHANGED vars
  BY <1>3, <1>7 DEF Tick, vars, db
<1> QED
  BY <1>1, <1>2, <1>4, <1>5, <1>6, <1>7 DEF Next

\* AddFile keeps MaxFilesPerSession: its check and its insert are in one
\* immediate transaction, however many uploads are let in at a time, are
\* cancelled by their clients or fail, and whatever is deleted beside them.
THEOREM LimitHolds == Spec => []RowsWithinLimit
<1>1. IInv => RowsWithinLimit
  BY AttachmentConstants DEF IInv, Space, RowsWithinLimit
<1> QED BY <1>1, Starts, Inductive, PTL DEF Spec
-----------------------------------------------------------------------------
(* Rows and files *)

\* An upload's file is nobody else's, has no row yet, is not on its way to be
\* removed, and is too young for the sweep; while the upload has the write lock the
\* file stays.
Placed ==
  \A u \in Upload :
    /\ up[u].step # "idle" => up[u].id \in File /\ up[u].id \notin rows /\ drop[up[u].id] = "no"
    /\ up[u].step \in {"begun", "made", "temp"} => up[u].temp \in Temp
    /\ up[u].step = "temp" => up[u].temp \notin old /\ age[up[u].temp] < Grace
    /\ up[u].step = "filed" => up[u].id \notin old /\ age[up[u].id] < Grace
    /\ up[u].step = "filed" /\ writer = u => up[u].id \in disk

Apart ==
  \A u, v \in Upload :
    up[u].step # "idle" /\ up[v].step # "idle" /\ up[u].id = up[v].id => u = v

\* A file that is being removed has no row.
Dropped == \A f \in File : drop[f] # "no" => f \notin rows

\* The directory is only removed for a session that is gone, which has no row and
\* gets none any more.
Ended ==
  /\ session = "gone" => rows = {} /\ writer = None
  /\ reaping # "no" \/ sweep = "purging" => session = "gone"

\* Whatever the sweep may remove and has a row by now had one when it asked.
Seen == sweep \in {"listing", "files"} => rows \cap old \subseteq refs

Rest == Placed /\ Apart /\ Dropped /\ Ended /\ Seen /\ RowsOnDisk

Safe == TypeOK /\ Rest

LEMMA SafeAtFirst == Init => Safe
<1> SUFFICES ASSUME Init PROVE Safe
  OBVIOUS
<1>1. TypeOK
  <2>1. /\ age \in [Name \cup {Dir} -> 0..Grace]
        /\ drop \in [File -> {"no", "unlink", "rmdir"}]
        /\ crashes \in 0..MaxCrashes
    BY AttachmentConstants DEF Init
  <2>2. up \in [Upload -> [step : {"idle", "begun", "made", "temp", "filed"},
                          id : File \cup {None}, temp : Temp \cup {None}]]
    BY DEF Init, Resting
  <2> QED BY <2>1, <2>2 DEF Init, TypeOK
<1>2. Placed /\ Apart
  BY DEF Init, Placed, Apart, Resting
<1>3. Dropped /\ Ended /\ Seen /\ RowsOnDisk
  BY DEF Init, Dropped, Ended, Seen, RowsOnDisk
<1> QED BY <1>1, <1>2, <1>3 DEF Safe, Rest

\* What is done to the file system leaves it well-formed.
LEMMA FilesTyped ==
  ASSUME TypeOK
  PROVE  /\ \A S : Touch(S) => age' \in [Name \cup {Dir} -> 0..Grace] /\ old' \in SUBSET (Name \cup {Dir})
         /\ \A n \in Name :
              Remove(n) => /\ age' \in [Name \cup {Dir} -> 0..Grace] /\ old' \in SUBSET (Name \cup {Dir})
                           /\ disk' \in SUBSET Name /\ dir' \in BOOLEAN /\ (disk' # {} => dir')
         /\ RemoveDir => /\ age' \in [Name \cup {Dir} -> 0..Grace] /\ old' \in SUBSET (Name \cup {Dir})
                         /\ disk' \in SUBSET Name /\ dir' \in BOOLEAN /\ (disk' # {} => dir')
<1>1. \A S : Touch(S) => age' \in [Name \cup {Dir} -> 0..Grace] /\ old' \in SUBSET (Name \cup {Dir})
  BY AttachmentConstants DEF TypeOK, Touch
<1>2. ASSUME NEW n \in Name, Remove(n)
      PROVE  /\ age' \in [Name \cup {Dir} -> 0..Grace] /\ old' \in SUBSET (Name \cup {Dir})
             /\ disk' \in SUBSET Name /\ dir' \in BOOLEAN /\ (disk' # {} => dir')
  BY <1>1, <1>2 DEF TypeOK, Remove
<1>3. ASSUME RemoveDir
      PROVE  /\ age' \in [Name \cup {Dir} -> 0..Grace] /\ old' \in SUBSET (Name \cup {Dir})
             /\ disk' \in SUBSET Name /\ dir' \in BOOLEAN /\ (disk' # {} => dir')
  BY <1>1, <1>3 DEF TypeOK, RemoveDir
<1> QED BY <1>1, <1>2, <1>3

LEMMA UploadsTyped ==
  ASSUME TypeOK, Placed, NEW u \in Upload, Begin(u) \/ Proceed(u) \/ Cancel(u)
  PROVE  TypeOK'
<1> USE AttachmentConstants DEF TypeOK, Name, db, fs, sweeping
<1>1. CASE Begin(u)
  BY <1>1 DEF Begin
<1>2. CASE MakeDir(u)
  BY <1>2, FilesTyped DEF MakeDir, Go
<1>3. CASE WriteTemp(u)
  BY <1>3, FilesTyped DEF WriteTemp, Go, Placed
<1>4. CASE MissDir(u)
  BY <1>4 DEF MissDir, End, Unlock, Resting
<1>5. CASE Rename(u)
  BY <1>5 DEF Rename, Placed
<1>6. CASE WriteFails(u)
  BY <1>6, FilesTyped DEF WriteFails, End, Unlock, Resting, Placed
<1>7. CASE Commit(u) \/ CommitFails(u)
  BY <1>7 DEF Commit, CommitFails, End, Unlock, Resting, Placed
<1>8. CASE Cancel(u)
  BY <1>8 DEF Cancel
<1> QED BY <1>1, <1>2, <1>3, <1>4, <1>5, <1>6, <1>7, <1>8 DEF Proceed

LEMMA OthersTyped ==
  ASSUME TypeOK,
         \/ \E f \in File : DeleteFile(f) \/ DropFile(f)
         \/ Expires \/ Delete \/ DeleteIdle \/ DeleteExpired \/ RemoveAll
         \/ SweepStart \/ SweepOn \/ Tick \/ Crash \/ UNCHANGED vars
  PROVE  TypeOK'
<1> USE AttachmentConstants DEF TypeOK, Name, db, fs, sweeping
<1>1. CASE \E f \in File : DeleteFile(f) \/ DropFile(f)
  BY <1>1, FilesTyped DEF DeleteFile, DropFile
<1>2. CASE Expires \/ Delete \/ DeleteIdle \/ DeleteExpired
  BY <1>2 DEF Expires, Delete, DeleteIdle, DeleteExpired, DropRows
<1>3. CASE RemoveAll
  BY <1>3, FilesTyped DEF RemoveAll
<1>4. CASE SweepStart \/ SweepSnapshot \/ SweepList \/ SweepVet
  <2>1. UNCHANGED <<session, rows, writer, dir, disk, age, up, drop, cleanup, reaping, crashes>>
    BY <1>4 DEF SweepStart, SweepSnapshot, SweepList, SweepVet
  <2>2. /\ sweep' \in {"idle", "started", "sessions", "listing", "files", "vetting", "purging"}
        /\ known' \in BOOLEAN
    BY <1>4 DEF SweepStart, SweepSnapshot, SweepList, SweepVet, SweepOver
  <2>3. old' \in SUBSET (Name \cup {Dir}) /\ refs' \in SUBSET File /\ todo' \in SUBSET Name
    BY <1>4 DEF SweepStart, SweepSnapshot, SweepList, SweepVet, SweepOver
  <2> QED BY <2>1, <2>2, <2>3
<1>5. CASE \E n \in Name : SweepLive(n) \/ SweepOrphan(n)
  BY <1>5, FilesTyped DEF SweepLive, SweepOrphan
<1>6. CASE SweepEnd
  <2>1. /\ age' \in [Name \cup {Dir} -> 0..Grace]
        /\ dir' \in BOOLEAN /\ disk' = disk /\ (disk' # {} => dir')
    <3>1. disk' = disk
      BY <1>6 DEF SweepEnd
    <3>2. CASE UNCHANGED <<dir, age>>
      BY <3>1, <3>2
    <3>3. CASE disk = {} /\ dir' = FALSE /\ age' = [age EXCEPT ![Dir] = 0]
      <4>1. 0 \in 0..Grace
        OBVIOUS
      <4>2. age' \in [Name \cup {Dir} -> 0..Grace]
        BY ONLY TypeOK, <3>3, <4>1 DEF TypeOK
      <4>3. disk' = {}
        BY <3>1, <3>3
      <4> QED BY <3>1, <3>3, <4>2, <4>3
    <3>4. UNCHANGED <<dir, age>> \/ (disk = {} /\ dir' = FALSE /\ age' = [age EXCEPT ![Dir] = 0])
      BY ONLY <1>6 DEF SweepEnd
    <3> QED BY <3>2, <3>3, <3>4
  <2> QED BY <1>6, <2>1 DEF SweepEnd, SweepOver
<1>7. CASE Tick
  BY <1>7 DEF Tick
<1>8. CASE Crash
  <2>1. /\ drop' \in [File -> {"no", "unlink", "rmdir"}]
        /\ up' \in [Upload -> [step : {"idle", "begun", "made", "temp", "filed"},
                               id : File \cup {None}, temp : Temp \cup {None}]]
        /\ crashes' \in 0..MaxCrashes
    BY ONLY TypeOK, <1>8, AttachmentConstants DEF Crash, Resting, TypeOK
  <2> QED BY <1>8, <2>1 DEF Crash
<1>9. CASE UNCHANGED vars
  BY <1>9 DEF vars
<1> QED BY <1>1, <1>2, <1>3, <1>4, <1>5, <1>6, <1>7, <1>8, <1>9 DEF SweepOn

LEMMA UploadsSafe ==
  ASSUME Safe, NEW u \in Upload, Begin(u) \/ Proceed(u) \/ Cancel(u)
  PROVE  Rest'
<1> USE AttachmentConstants DEF Safe, TypeOK, Name, db, fs, sweeping, Rest, Placed, Apart, Dropped, Ended, Seen, RowsOnDisk
<1>1. CASE Begin(u)
  BY <1>1 DEF Begin, Unused, UnusedTemp, Resting
<1>2. CASE MakeDir(u)
  BY <1>2 DEF MakeDir, Go, Touch
<1>3. CASE WriteTemp(u)
  BY <1>3 DEF WriteTemp, Go, Touch
<1>4. CASE MissDir(u)
  BY <1>4 DEF MissDir, End, Unlock, Resting
<1>5. CASE Rename(u)
  BY <1>5, SMTT(20) DEF Rename
<1>6. CASE WriteFails(u)
  BY <1>6 DEF WriteFails, End, Unlock, Resting, Remove, Touch
<1>7. CASE Commit(u)
  BY <1>7 DEF Commit, End, Unlock, Resting
<1>8. CASE CommitFails(u)
  BY <1>8 DEF CommitFails, End, Unlock, Resting
<1>9. CASE Cancel(u)
  BY <1>9 DEF Cancel
<1> QED BY <1>1, <1>2, <1>3, <1>4, <1>5, <1>6, <1>7, <1>8, <1>9 DEF Proceed

LEMMA OthersSafe ==
  ASSUME Safe,
         \/ \E f \in File : DeleteFile(f) \/ DropFile(f)
         \/ Expires \/ Delete \/ DeleteIdle \/ DeleteExpired \/ RemoveAll
         \/ SweepStart \/ SweepOn \/ Tick \/ Crash \/ UNCHANGED vars
  PROVE  Rest'
<1> USE AttachmentConstants DEF Safe, TypeOK, Name, db, fs, sweeping, Rest, Placed, Apart, Dropped, Ended, Seen, RowsOnDisk
<1>1. CASE \E f \in File : DeleteFile(f)
  BY <1>1 DEF DeleteFile
<1>2. CASE \E f \in File : DropFile(f)
  BY <1>2 DEF DropFile, Remove, RemoveDir, Touch
<1>3. CASE Expires \/ Delete \/ DeleteIdle \/ DeleteExpired
  BY <1>3 DEF Expires, Delete, DeleteIdle, DeleteExpired, DropRows
<1>4. CASE RemoveAll
  BY <1>4 DEF RemoveAll, RemoveDir, Touch
<1>5. CASE SweepStart
  BY <1>5 DEF SweepStart
<1>6. CASE SweepSnapshot \/ SweepList
  BY <1>6 DEF SweepSnapshot, SweepList
<1>7. CASE SweepVet
  BY <1>7 DEF SweepVet, SweepOver
<1>8. CASE \E n \in Name : SweepLive(n)
  BY <1>8 DEF SweepLive, Remove, Touch
<1>9. CASE \E n \in Name : SweepOrphan(n)
  BY <1>9 DEF SweepOrphan, Remove, Touch
<1>10. CASE SweepEnd
  BY <1>10 DEF SweepEnd, SweepOver
<1>11. CASE Tick
  BY <1>11 DEF Tick, InTime
<1>12. CASE Crash
  BY <1>12 DEF Crash, Resting
<1>13. CASE UNCHANGED vars
  BY <1>13 DEF vars
<1> QED
  BY <1>1, <1>2, <1>3, <1>4, <1>5, <1>6, <1>7, <1>8, <1>9, <1>10, <1>11, <1>12, <1>13 DEF SweepOn

LEMMA SafeKept == Safe /\ [Next]_vars => Safe'
<1> SUFFICES ASSUME Safe, [Next]_vars PROVE Safe'
  OBVIOUS
<1>1. CASE \E u \in Upload : Begin(u) \/ Proceed(u) \/ Cancel(u)
  BY <1>1, UploadsTyped, UploadsSafe DEF Safe, Rest
<1>2. CASE \/ \E f \in File : DeleteFile(f) \/ DropFile(f)
           \/ Expires \/ Delete \/ DeleteIdle \/ DeleteExpired \/ RemoveAll
           \/ SweepStart \/ SweepOn \/ Tick \/ Crash \/ UNCHANGED vars
  BY <1>2, OthersTyped, OthersSafe DEF Safe
<1> QED BY <1>1, <1>2 DEF Next

\* The attachments' state stays well-formed, for any files, uploads and crashes.
THEOREM AttachmentTypes == Spec => []TypeOK
<1>1. Safe => TypeOK
  BY DEF Safe
<1> QED BY <1>1, SafeAtFirst, SafeKept, PTL DEF Spec

\* Every row has its file: no crash, no sweep beside an upload (SweepFSOrphans), no
\* clean-up of a failed upload and no deletion (removeFSFile, removeSessionDir) takes
\* the file of a row that is committed or about to be.
THEOREM RowsHaveFiles == Spec => []RowsOnDisk
<1>1. Safe => RowsOnDisk
  BY DEF Safe, Rest
<1> QED BY <1>1, SafeAtFirst, SafeKept, PTL DEF Spec
-----------------------------------------------------------------------------
(* The sizes of sessions: every state is well-formed, and keeps the limit *)

Record ==
  [kind : Kind, step : Step, session : Session \cup {Nobody},
   size : Nat, grew : Nat, tries : 0..(MaxTries - 1)]

\* StorageTypeOK, but for the size of the attachments, which the limit bounds.
Typed ==
  /\ live \in SUBSET Session
  /\ text \in [Session -> 0..MaxText]
  /\ files \in [Session -> Nat]
  /\ txn \in Request \cup {Nobody}
  /\ mu \in Request \cup {Nobody}
  /\ fresh \in BOOLEAN
  /\ req \in [Request -> Record]

\* A request that is under way knows its session, and the text of an edit is not
\* too long.
Sound(q) ==
  /\ q.kind # "create" /\ q.step \notin {"idle", "stored"} => q.session \in Session
  /\ q.kind = "edit" => q.size <= MaxText

Addressed == \A r \in Request : Sound(req[r])

Asking == {"asking", "text", "files", "reset", "deciding"}

\* In its transaction, and past the checks of its session.
Checked(r) ==
  \/ req[r].step = "open"
  \/ req[r].kind = "edit" /\ req[r].step \in Asking

\* An edit that asks makes its text grow.
Grows(r) == req[r].kind = "edit" /\ req[r].step \in Asking => Extra(r) > 0

\* It has the write lock, and what it is about to store still fits.
Guarded ==
  \A r \in Request : Checked(r) => txn = r /\ req[r].kind # "create" /\ Fits(r) /\ Grows(r)

SInv == Typed /\ Addressed /\ Guarded /\ SessionWithinLimit

LEMMA Rests == Idle \in Record /\ Sound(Idle) /\ Idle.step = "idle"
BY StorageConstants DEF Record, Kind, Step, Sound, Idle, At

LEMMA SessionsStart == StorageInit => SInv
<1> SUFFICES ASSUME StorageInit PROVE SInv
  OBVIOUS
<1>1. Typed /\ Addressed /\ Guarded
  <2>1. \A r \in Request : req[r] = Idle
    BY DEF StorageInit
  <2>2. Guarded
    BY <2>1, Rests DEF Guarded, Checked, Asking
  <2>3. text \in [Session -> 0..MaxText] /\ files \in [Session -> Nat]
    BY StorageConstants DEF StorageInit
  <2>4. req \in [Request -> Record]
    BY Rests DEF StorageInit
  <2> HIDE DEF Idle
  <2> QED BY <2>1, <2>2, <2>3, <2>4, Rests DEF StorageInit, Typed, Addressed
<1>2. SessionWithinLimit
  BY StorageConstants DEF StorageInit, SessionWithinLimit
<1> QED BY <1>1, <1>2 DEF SInv

\* A step of one request that stores nothing keeps the invariant, if that
\* request comes out of it well.
LEMMA OneMoves ==
  ASSUME SInv, NEW r \in Request, NEW to \in Record,
         req' = [req EXCEPT ![r] = to],
         UNCHANGED <<text, files>>,
         live' \in SUBSET Session, txn' \in Request \cup {Nobody}, mu' \in Request \cup {Nobody}, fresh' \in BOOLEAN,
         \A q \in Request \ {r} : txn = q => txn' = q,
         Sound(to),
         Checked(r)' => txn' = r /\ to.kind # "create" /\ Fits(r)' /\ Grows(r)'
  PROVE  SInv'
<1> USE DEF SInv
<1>1. Typed'
  BY DEF Typed
<1>2. Addressed'
  BY DEF Addressed, Typed
<1>3. Guarded'
  <2> SUFFICES ASSUME NEW q \in Request, Checked(q)'
               PROVE  (txn = q /\ req[q].kind # "create" /\ Fits(q) /\ Grows(q))'
    BY DEF Guarded
  <2>1. CASE q = r
    BY <2>1 DEF Typed
  <2>2. CASE q # r
    <3>1. req'[q] = req[q]
      BY <2>2 DEF Typed
    <3> QED BY <2>2, <3>1 DEF Guarded, Checked, Fits, Grows, Extra
  <2> QED BY <2>1, <2>2
<1>4. SessionWithinLimit'
  BY DEF SessionWithinLimit
<1> QED BY <1>1, <1>2, <1>3, <1>4

LEMMA Starting ==
  ASSUME SInv, NEW r \in Request, StartUpload(r) \/ StartEdit(r) \/ StartCreate(r)
  PROVE  SInv'
<1>1. PICK new \in Record :
        /\ req' = [req EXCEPT ![r] = new]
        /\ Sound(new)
        /\ new.step # "open" /\ ~(new.kind = "edit" /\ new.step \in Asking)
  <2> USE StorageConstants DEF SInv, Typed, Record, Kind, Step, Asking, Sound
  <2>1. /\ \A s \in Session : At("upload", "asking", s, FileSize) \in Record
        /\ \A s \in Session, n \in 0..MaxText : At("edit", "cleared", s, n) \in Record
        /\ At("create", "asking", Nobody, 0) \in Record
    BY DEF At
  <2>2. CASE StartUpload(r)
    <3>1. PICK s \in live : req' = [req EXCEPT ![r] = At("upload", "asking", s, FileSize)]
      BY <2>2 DEF StartUpload
    <3> QED BY <2>1, <3>1 DEF At
  <2>3. CASE StartEdit(r)
    <3>1. PICK s \in live, n \in 0..MaxText : req' = [req EXCEPT ![r] = At("edit", "cleared", s, n)]
      BY <2>3 DEF StartEdit
    <3> DEFINE edit == At("edit", "cleared", s, n)
    <3>2. edit \in Record /\ req' = [req EXCEPT ![r] = edit]
      BY <2>1, <3>1
    <3>3. edit.session \in Session /\ edit.size <= MaxText /\ edit.step = "cleared"
      BY DEF At
    <3> HIDE DEF edit
    <3>4. Sound(edit) /\ edit.step # "open" /\ ~(edit.kind = "edit" /\ edit.step \in Asking)
      BY <3>3
    <3> QED BY <3>2, <3>4
  <2>4. CASE StartCreate(r)
    <3>1. req' = [req EXCEPT ![r] = At("create", "asking", Nobody, 0)]
      BY <2>4 DEF StartCreate
    <3> QED BY <2>1, <3>1 DEF At
  <2> QED BY <2>2, <2>3, <2>4
<1>2. UNCHANGED <<contents, txn, mu, cache>>
  BY DEF StartUpload, StartEdit, StartCreate
<1>3. ~Checked(r)'
  BY <1>1 DEF Checked, SInv, Typed
<1> QED BY <1>1, <1>2, <1>3, OneMoves DEF contents, cache, SInv, Typed

LEMMA Finishing ==
  ASSUME SInv, NEW r \in Request,
         Refuse(r) \/ Reject(r) \/ Insert(r) \/ Fail(r) \/ Note(r)
  PROVE  SInv'
<1>1. /\ Idle \in Record
      /\ req' = [req EXCEPT ![r] = Idle]
      /\ UNCHANGED <<text, files>>
      /\ live' \in SUBSET Session
      /\ txn' \in Request \cup {Nobody} /\ mu' \in Request \cup {Nobody} /\ fresh' \in BOOLEAN
      /\ \A q \in Request \ {r} : txn = q => txn' = q
  <2>1. Idle \in Record
    BY Rests
  <2> QED BY <2>1 DEF Refuse, Reject, Insert, Fail, Note, Done, EndTx, contents, cache, SInv, Typed
<1>2. req'[r] = Idle
  BY <1>1 DEF SInv, Typed
<1>3. ~Checked(r)'
  BY <1>2 DEF Checked, Asking, Idle, At
<1>4. Sound(Idle)
  BY Rests
<1> HIDE DEF Idle
<1> QED BY <1>1, <1>3, <1>4, OneMoves
\* storageFull, which moves a request on and stores nothing.
LEMMA Deciding ==
  ASSUME SInv, NEW r \in Request,
         Lock(r) \/ Query(r) \/ QueryFails(r) \/ Reset(r) \/ Approve(r)
  PROVE  SInv'
<1> DEFINE new == req'[r]
<1>1. /\ req[r].step \in Asking
      /\ UNCHANGED <<contents, txn>> /\ mu' \in Request \cup {Nobody} /\ fresh' \in BOOLEAN
  BY DEF Lock, Query, QueryFails, Reset, Approve, Asking, cache, SInv, Typed
<1>2. /\ req' = [req EXCEPT ![r] = new]
      /\ new \in Record
      /\ new.kind = req[r].kind /\ new.session = req[r].session /\ new.size = req[r].size
      /\ new.step \in Asking \/ new.step = IF new.kind = "edit" THEN "open" ELSE "cleared"
  <2> USE DEF SInv, Typed, Record, Kind, Step, Asking
  <2>1. CASE Lock(r)
    BY <2>1 DEF Lock, To
  <2>2. CASE Query(r)
    BY <2>2 DEF Query, To
  <2>3. CASE QueryFails(r)
    BY <2>3 DEF QueryFails, To
  <2>4. CASE Reset(r)
    BY <2>4 DEF Reset, To
  <2>5. CASE Approve(r) /\ req[r].kind = "edit"
    <3>1. Extra(r) \in Nat
      <4>1. Checked(r)
        BY <2>5 DEF Approve, Checked
      <4>2. Extra(r) \in Int
        BY <2>5 DEF Extra, Approve, Addressed, Sound
      <4> QED BY <2>5, <4>1, <4>2 DEF Approve, Guarded, Grows
    <3>2. req' = [req EXCEPT ![r].step = "open", ![r].grew = Extra(r)]
      BY <2>5 DEF Approve
    <3> HIDE DEF Extra
    <3> QED BY <2>5, <3>1, <3>2
  <2>6. CASE Approve(r) /\ req[r].kind # "edit"
    BY <2>6 DEF Approve, To
  <2> QED BY <2>1, <2>2, <2>3, <2>4, <2>5, <2>6
<1>3. Sound(new)
  BY <1>1, <1>2 DEF SInv, Addressed, Sound, Asking
<1>4. Checked(r)' => Checked(r)
  BY <1>1, <1>2 DEF Checked, Asking
<1>5. Checked(r)' => txn' = r /\ new.kind # "create" /\ Fits(r)' /\ Grows(r)'
  BY <1>1, <1>2, <1>4 DEF SInv, Guarded, Fits, Grows, Extra, contents
<1> HIDE DEF new
<1> QED BY <1>1, <1>2, <1>3, <1>5, OneMoves DEF contents, SInv, Typed

\* BEGIN IMMEDIATE: the checks are made under the write lock.
LEMMA Beginning ==
  ASSUME SInv, NEW r \in Request, BeginTx(r)
  PROVE  SInv'
<1> DEFINE new == req'[r]
<1>1. /\ txn = Nobody /\ txn' = r
      /\ req[r].kind # "create" /\ req[r].session \in live /\ Fits(r)
      /\ UNCHANGED <<contents, mu, cache>>
  BY DEF BeginTx
<1>2. /\ req' = [req EXCEPT ![r] = new]
      /\ new \in Record
      /\ new.kind = req[r].kind /\ new.session = req[r].session /\ new.size = req[r].size
  BY DEF BeginTx, To, SInv, Typed, Record, Kind, Step
<1>3. Sound(new) /\ Fits(r)' /\ Grows(r)'
  <2>1. Sound(new) /\ Fits(r)'
    BY <1>1, <1>2 DEF Sound, Fits, contents, SInv, Typed, Addressed
  <2>2. Grows(r)'
    BY <1>1, <1>2 DEF BeginTx, To, Grows, Extra, Asking, contents, SInv, Typed
  <2> QED BY <2>1, <2>2
<1>4. \A q \in Request \ {r} : txn # q
  BY <1>1, StorageConstants
<1> HIDE DEF new
<1> QED BY <1>1, <1>2, <1>3, <1>4, OneMoves DEF contents, cache, SInv, Typed

\* Rolled back, to be tried again.
LEMMA Retrying ==
  ASSUME SInv, NEW r \in Request, Busy(r)
  PROVE  SInv'
<1> DEFINE new == req'[r]
<1>1. /\ req' = [req EXCEPT ![r].step = "cleared", ![r].tries = @ + 1]
      /\ UNCHANGED <<contents, mu, cache>> /\ txn' \in {txn, Nobody}
      /\ \A q \in Request \ {r} : txn = q => txn' = q
      /\ req[r].step \in {"cleared", "open"} /\ req[r].tries + 1 < MaxTries
  BY DEF Busy, EndTx
<1>2. /\ req' = [req EXCEPT ![r] = new]
      /\ new \in Record
      /\ new.kind = req[r].kind /\ new.session = req[r].session /\ new.step = "cleared"
      /\ new.size = req[r].size
  BY <1>1, StorageConstants DEF SInv, Typed, Record, Kind, Step
<1>3. Sound(new)
  BY <1>1, <1>2 DEF SInv, Addressed, Sound
<1>4. ~Checked(r)'
  BY <1>2 DEF Checked, Asking
<1> HIDE DEF new
<1> QED BY <1>1, <1>2, <1>3, <1>4, OneMoves DEF contents, cache, SInv, Typed

\* Nobody else is past its checks when something is stored.
LEMMA Committing ==
  ASSUME SInv, NEW r \in Request, CommitTx(r)
  PROVE  SInv'
<1> DEFINE s == req[r].session
<1>1. /\ req[r].step = "open" /\ Checked(r)
      /\ txn = r /\ req[r].kind # "create" /\ Fits(r) /\ s \in Session
      /\ UNCHANGED <<live, mu, cache>> /\ txn' \in {txn, Nobody}
      /\ req[r].kind = "edit" => req[r].size <= MaxText
  BY DEF CommitTx, EndTx, Checked, SInv, Guarded, Addressed, Sound
<1>2. \A q \in Request \ {r} : ~Checked(q)
  BY <1>1 DEF SInv, Guarded
<1>3. /\ text' \in [Session -> 0..MaxText] /\ files' \in [Session -> Nat]
      /\ text'[s] + files'[s] <= SessionLimit
      /\ \A t \in Session \ {s} : text'[t] = text[t] /\ files'[t] = files[t]
  <2>1. CASE req[r].kind = "upload"
    BY <1>1, <2>1, StorageConstants DEF CommitTx, Fits, SInv, Typed
  <2>2. CASE req[r].kind = "edit"
    BY <1>1, <2>2, StorageConstants DEF CommitTx, Fits, SInv, Typed, Record
  <2> QED BY <1>1, <2>1, <2>2 DEF SInv, Typed, Record, Kind
<1>4. SessionWithinLimit'
  BY <1>3 DEF SInv, SessionWithinLimit
<1> DEFINE grew == IF req[r].kind = "upload" THEN FileSize ELSE req[r].grew
           new == [kind |-> req[r].kind, step |-> "stored", session |-> Nobody,
                   size |-> 0, grew |-> grew, tries |-> 0]
<1>6. req' = [req EXCEPT ![r] = new]
  BY DEF CommitTx
<1>7. new \in Record
  BY StorageConstants DEF SInv, Typed, Record, Kind, Step
<1>8. new.step = "stored" /\ new.size = 0
  OBVIOUS
<1> HIDE DEF new
<1>9. Typed'
  BY <1>1, <1>3, <1>6, <1>7 DEF SInv, Typed, cache
<1>10. Addressed'
  BY <1>6, <1>7, <1>8, StorageConstants DEF SInv, Typed, Addressed, Sound
<1>11. Guarded'
  BY <1>2, <1>6, <1>7, <1>8 DEF SInv, Typed, Guarded, Checked, Asking
<1> QED BY <1>4, <1>9, <1>10, <1>11 DEF SInv

LEMMA Deleting ==
  ASSUME SInv, NEW s \in Session, DeleteSession(s)
  PROVE  SInv'
<1>1. \A r \in Request : ~Checked(r)
  BY StorageConstants DEF DeleteSession, SInv, Guarded
<1>2. Typed' /\ Addressed'
  BY StorageConstants DEF DeleteSession, SInv, Typed, Addressed, cache
<1>3. Guarded'
  BY <1>1 DEF DeleteSession, Guarded, Checked
<1>4. SessionWithinLimit'
  <2> SUFFICES ASSUME NEW t \in Session PROVE text'[t] + files'[t] <= SessionLimit
    BY DEF SessionWithinLimit
  <2> QED BY StorageConstants DEF DeleteSession, SInv, Typed, SessionWithinLimit
<1> QED BY <1>2, <1>3, <1>4 DEF SInv

LEMMA SessionsStep == SInv /\ [StorageNext]_storageVars => SInv'
<1> SUFFICES ASSUME SInv, [StorageNext]_storageVars PROVE SInv'
  OBVIOUS
<1>1. CASE Age \/ UNCHANGED storageVars
  BY <1>1 DEF Age, storageVars, contents, cache, SInv, Typed, Addressed, Guarded, Checked, Fits, Grows, Extra, SessionWithinLimit
<1>2. ASSUME NEW r \in Request,
             \/ StartUpload(r) \/ StartEdit(r) \/ StartCreate(r)
             \/ Lock(r) \/ WithMutex(r) \/ QueryFails(r) \/ InStore(r)
      PROVE  SInv'
  BY ONLY SInv, <1>2, Starting, Finishing, Deciding, Beginning, Retrying, Committing DEF WithMutex, InStore
<1> QED BY <1>1, <1>2, Deleting DEF StorageNext

\* A session never holds more than its limit, whatever uploads, edits, repetitions
\* and deletions run beside one another: the checks and what they allow are under one
\* write lock (AddFile, UpdateWithin).
THEOREM LimitKept == StorageSpec => []SessionWithinLimit
<1>1. SInv => SessionWithinLimit
  BY DEF SInv
<1> QED BY SessionsStart, SessionsStep, <1>1, PTL DEF StorageSpec

\* Texts, attachments, locks and requests are well-formed: above all, no request
\* counts a negative number of bytes, or tries once more than it may.
THEOREM StorageTypes == StorageSpec => []StorageTypeOK
<1>1. ASSUME SInv PROVE StorageTypeOK
  <2>1. \A s \in Session : files[s] \in 0..SessionLimit
    BY <1>1, StorageConstants DEF SInv, Typed, SessionWithinLimit
  <2> QED BY <1>1, <2>1 DEF SInv, Typed, StorageTypeOK, Record
<1> QED BY SessionsStart, SessionsStep, <1>1, PTL DEF StorageSpec

-----------------------------------------------------------------------------
(* Sums over finite sets *)

\* FiniteSetsExt adds the elements of a set up in an order that it chooses.
Pick(s) == CHOOSE x \in s : TRUE
Sum(v, S) == MapThenSumSet(LAMBDA x : v[x], S)

\* What a sum over a set is computed from: its value for every subset.
Running(g, v, S) == g = [s \in SUBSET S |-> IF s = {} THEN 0 ELSE v[Pick(s)] + g[s \ {Pick(s)}]]

\* A set of naturals has a least element.
LEMMA Least ==
  ASSUME NEW T \in SUBSET Nat, T # {}
  PROVE  \E n \in T : \A m \in T : n <= m
<1>1. PICK n \in T : \A m \in T : ~(<<m, n>> \in OpToRel(<, Nat))
  BY WFMin, NatLessThanWellFounded
<1>2. \A m \in T : ~(m < n)
  BY <1>1, Zenon DEF OpToRel
<1> QED BY <1>2

\* Where there is such a function, the sum is one's value for the whole set.
LEMMA SumIs ==
  ASSUME NEW S, NEW v, \E g : Running(g, v, S)
  PROVE  \E g : Running(g, v, S) /\ Sum(v, S) = g[S]
<1> DEFINE h == CHOOSE g : g = [s \in SUBSET S |->
                  IF s = {} THEN 0
                  ELSE v[CHOOSE x \in s : TRUE] + g[s \ {CHOOSE x \in s : TRUE}]]
<1>1. Sum(v, S) = h[S]
  BY DEF Sum, MapThenSumSet, MapThenFoldSet
<1>2. Running(h, v, S)
  BY DEF Running, Pick
<1> QED BY <1>1, <1>2

\* Among subsets of a finite set there is one that contains no other.
LEMMA Smallest ==
  ASSUME NEW S, IsFiniteSet(S), NEW T \in SUBSET (SUBSET S), T # {}
  PROVE  \E t \in T : \A u \in T : u \subseteq t => u = t
<1>1. T \subseteq FiniteSubsetsOf(S)
  BY FS_Subset DEF FiniteSubsetsOf
<1>2. PICK t \in T : \A u \in T : ~(<<u, t>> \in StrictSubsetOrdering(S))
  BY <1>1, WFMin, FS_StrictSubsetOrderingWellFounded
<1> QED BY <1>2 DEF StrictSubsetOrdering

\* There is such a function for the subsets of every finite set.
LEMMA Runs ==
  ASSUME NEW S, IsFiniteSet(S), NEW v \in [S -> Int]
  PROVE  \E g : Running(g, v, S)
<1> DEFINE P == SUBSET S
           Small(n) == {s \in P : Cardinality(s) <= n}
           After(g, s) == IF s = {} THEN 0 ELSE v[Pick(s)] + g[s \ {Pick(s)}]
           Good(n) == \E g : g = [s \in Small(n) |-> After(g, s)]
           Bad == {n \in Nat : ~Good(n)}
<1>1. ASSUME NEW s \in P
      PROVE  /\ Cardinality(s) \in Nat
             /\ s # {} => Cardinality(s \ {Pick(s)}) = Cardinality(s) - 1
             /\ Cardinality(s) = 0 => s = {}
  <2>1. IsFiniteSet(s)
    BY FS_Subset
  <2>2. s # {} => Pick(s) \in s
    BY DEF Pick
  <2> QED BY <2>1, <2>2, FS_CardinalityType, FS_RemoveElement, FS_EmptySet
<1>0. \A s \in P : s \ {Pick(s)} \in P
  OBVIOUS
<1> HIDE DEF P
<1>2. Good(0)
  <2> DEFINE g == [s \in Small(0) |-> 0]
  <2>1. ASSUME NEW s \in P, Cardinality(s) <= 0 PROVE s = {}
    <3>1. Cardinality(s) \in Nat
      BY <1>1
    <3>2. Cardinality(s) = 0
      BY <3>1, <2>1
    <3>3. Cardinality(s) = 0 => s = {}
      BY <1>1
    <3> QED BY <3>2, <3>3
  <2>2. \A s \in Small(0) : After(g, s) = 0
    BY <2>1
  <2>3. g = [s \in Small(0) |-> After(g, s)]
    <3> HIDE DEF Small, After
    <3> QED BY <2>2
  <2> QED BY <2>3
<1>3. ASSUME NEW n \in Nat, Good(n) PROVE Good(n + 1)
  <2>1. PICK g : g = [s \in Small(n) |-> After(g, s)]
    BY <1>3
  <2> DEFINE h == [s \in Small(n + 1) |-> After(g, s)]
  <2>2. \A s \in Small(n + 1) : s = {} \/ s \ {Pick(s)} \in Small(n)
    BY <1>1, <1>0
  <2>3. ASSUME NEW s \in P, Cardinality(s) <= n PROVE Cardinality(s) <= n + 1
    <3>1. Cardinality(s) \in Nat
      BY <1>1
    <3> QED BY <3>1, <2>3
  <2>0. Small(n) \subseteq Small(n + 1)
    BY <2>3
  <2>4. \A s \in Small(n) : h[s] = g[s]
    <3> HIDE DEF Small, After
    <3> QED BY <2>1, <2>0
  <2>5. \A s \in Small(n + 1) : After(h, s) = After(g, s)
    <3> HIDE DEF Small, h
    <3> QED BY <2>2, <2>4
  <2>6. h = [s \in Small(n + 1) |-> After(h, s)]
    <3>1. h = [s \in Small(n + 1) |-> After(g, s)]
      OBVIOUS
    <3> HIDE DEF Small, After, h
    <3> QED BY <2>5, <3>1
  <2> HIDE DEF Small, After, h
  <2> QED BY <2>6
<1>4. Bad = {}
  <2> SUFFICES ASSUME Bad # {} PROVE FALSE
    OBVIOUS
  <2> HIDE DEF Good
  <2>1. PICK n \in Bad : \A m \in Bad : n <= m
    BY Least
  <2>2. n # 0 /\ n - 1 \in Nat /\ n - 1 \notin Bad
    BY <1>2, <2>1
  <2>3. Good(n - 1 + 1) /\ n - 1 + 1 = n
    BY <1>3, <2>2
  <2> QED BY <2>3
<1>5. Good(Cardinality(S))
  <2> HIDE DEF Good
  <2> QED BY <1>4, FS_CardinalityType
<1>6. Small(Cardinality(S)) = SUBSET S
  BY FS_Subset, <1>1 DEF P
<1> QED BY <1>5, <1>6 DEF Running

\* Induction over the subsets of a finite set: what holds of the empty set, and of a
\* set if it holds of the set without its first element, holds of the whole.
LEMMA ElementByElement ==
  ASSUME NEW S, IsFiniteSet(S), NEW Good, {} \in Good,
         \A s \in SUBSET S : s # {} /\ s \ {Pick(s)} \in Good => s \in Good
  PROVE  SUBSET S \subseteq Good
<1> DEFINE Bad == {s \in SUBSET S : s \notin Good}
<1> SUFFICES ASSUME Bad # {} PROVE FALSE
  OBVIOUS
<1>1. Bad \in SUBSET (SUBSET S)
  OBVIOUS
<1> HIDE DEF Bad
<1>2. PICK s \in Bad : \A t \in Bad : t \subseteq s => t = s
  BY <1>1, Smallest
<1> USE DEF Bad
<1>3. s # {} /\ Pick(s) \in s
  BY DEF Pick
<1>4. s \ {Pick(s)} \notin Bad
  BY <1>2, <1>3
<1> QED BY <1>3, <1>4

\* What is known of the function.
Adds(g, v, S) ==
  /\ g[{}] = 0
  /\ \A s \in SUBSET S : g[s] \in Int
  /\ \A s \in SUBSET S : s # {} => g[s] = v[Pick(s)] + g[s \ {Pick(s)}]

\* What is picked is an element.
LEMMA Picked == ASSUME NEW S, NEW s \in SUBSET S, s # {} PROVE Pick(s) \in s /\ Pick(s) \in S
BY DEF Pick

\* Every sum over a finite set is computed in that way, of numbers.
LEMMA Summed ==
  ASSUME NEW S, IsFiniteSet(S), NEW v \in [S -> Int]
  PROVE  \E g : Adds(g, v, S) /\ Sum(v, S) = g[S]
<1>1. PICK g : Running(g, v, S) /\ Sum(v, S) = g[S]
  BY Runs, SumIs
<1>2. g[{}] = 0
  BY <1>1 DEF Running
<1>3. \A s \in SUBSET S : s # {} => g[s] = v[Pick(s)] + g[s \ {Pick(s)}]
  BY <1>1 DEF Running
<1> DEFINE Good == {s \in SUBSET S : g[s] \in Int}
<1>4. {} \in Good
  BY <1>2
<1>5. ASSUME NEW s \in SUBSET S, s # {}, s \ {Pick(s)} \in Good PROVE s \in Good
  BY <1>3, <1>5, Picked
<1>6. SUBSET S \subseteq Good
  <2> HIDE DEF Good
  <2> QED BY <1>4, <1>5, ElementByElement
<1> QED BY <1>1, <1>2, <1>3, <1>6 DEF Adds

\* One summand changes.
LEMMA SumChange ==
  ASSUME NEW S, IsFiniteSet(S), NEW v \in [S -> Int], NEW w \in [S -> Int], NEW a \in S,
         \A x \in S \ {a} : w[x] = v[x]
  PROVE  Sum(v, S) \in Int /\ Sum(w, S) = Sum(v, S) - v[a] + w[a]
<1>1. PICK g : Adds(g, v, S) /\ Sum(v, S) = g[S]
  BY Summed
<1>2. PICK h : Adds(h, w, S) /\ Sum(w, S) = h[S]
  BY Summed
<1> DEFINE Good == {s \in SUBSET S : h[s] = g[s] + (IF a \in s THEN w[a] - v[a] ELSE 0)}
<1>3. {} \in Good
  BY <1>1, <1>2 DEF Adds
<1>4. ASSUME NEW s \in SUBSET S, s # {}, s \ {Pick(s)} \in Good PROVE s \in Good
  <2> DEFINE p == Pick(s)
             r == s \ {p}
  <2>1. p \in s /\ p \in S
    BY <1>4, Picked
  <2>2. r \in SUBSET S
    OBVIOUS
  <2>3. g[s] = v[p] + g[r] /\ h[s] = w[p] + h[r] /\ g[r] \in Int /\ h[r] \in Int
    BY <1>1, <1>2, <1>4, <2>2 DEF Adds
  <2>4. v[p] \in Int /\ w[p] \in Int /\ w[a] \in Int /\ v[a] \in Int
    BY <2>1
  <2>5. h[r] = g[r] + (IF a \in r THEN w[a] - v[a] ELSE 0)
    BY <1>4
  <2>6. CASE p = a
    BY <2>1, <2>3, <2>4, <2>5, <2>6
  <2>7. CASE p # a
    BY <2>1, <2>3, <2>4, <2>5, <2>7
  <2> QED BY <2>6, <2>7
<1>5. SUBSET S \subseteq Good
  <2> HIDE DEF Good
  <2> QED BY <1>3, <1>4, ElementByElement
<1> QED BY <1>1, <1>2, <1>5 DEF Adds

\* Two sums whose summands are together at most c.
LEMMA SumBound ==
  ASSUME NEW S, IsFiniteSet(S), NEW v \in [S -> Int], NEW w \in [S -> Int], NEW c \in Int,
         \A x \in S : v[x] + w[x] <= c
  PROVE  /\ Sum(v, S) \in Int /\ Sum(w, S) \in Int
         /\ Sum(v, S) + Sum(w, S) <= Cardinality(S) * c
<1>1. PICK g : Adds(g, v, S) /\ Sum(v, S) = g[S]
  BY Summed
<1>2. PICK h : Adds(h, w, S) /\ Sum(w, S) = h[S]
  BY Summed
<1> DEFINE Good == {s \in SUBSET S : g[s] + h[s] <= Cardinality(s) * c}
<1>3. {} \in Good
  <2>1. Cardinality({}) = 0
    BY FS_EmptySet
  <2> QED BY <2>1, <1>1, <1>2 DEF Adds
<1>4. ASSUME NEW s \in SUBSET S, s # {}, s \ {Pick(s)} \in Good PROVE s \in Good
  <2> DEFINE p == Pick(s)
             r == s \ {p}
             n == Cardinality(s)
  <2>1. p \in s /\ p \in S
    BY <1>4, Picked
  <2>2. r \in SUBSET S
    OBVIOUS
  <2>3. g[s] = v[p] + g[r] /\ h[s] = w[p] + h[r] /\ g[r] \in Int /\ h[r] \in Int
    BY <1>1, <1>2, <1>4, <2>2 DEF Adds
  <2>4. v[p] \in Int /\ w[p] \in Int /\ v[p] + w[p] <= c
    BY <2>1
  <2>5. IsFiniteSet(s)
    BY FS_Subset
  <2>6. n \in Nat /\ Cardinality(r) = n - 1
    BY <2>1, <2>5, FS_CardinalityType, FS_RemoveElement
  <2>7. g[r] + h[r] <= (n - 1) * c
    BY <1>4, <2>6
  <2>8. g[s] + h[s] <= n * c
    <3> HIDE DEF n, r, p
    <3>1. (n - 1) * c = n * c - c /\ n * c \in Int
      BY <2>6
    <3> QED BY <2>3, <2>4, <2>7, <3>1
  <2> QED BY <2>8
<1>5. SUBSET S \subseteq Good
  <2> HIDE DEF Good
  <2> QED BY <1>3, <1>4, ElementByElement
<1> QED BY <1>1, <1>2, <1>5 DEF Adds

\* A sum of naturals.
LEMMA SumNat ==
  ASSUME NEW S, IsFiniteSet(S), NEW v \in [S -> Nat]
  PROVE  Sum(v, S) \in Nat
<1>1. PICK g : Adds(g, v, S) /\ Sum(v, S) = g[S]
  BY Summed
<1> DEFINE Good == {s \in SUBSET S : g[s] \in Nat}
<1>2. {} \in Good
  BY <1>1 DEF Adds
<1>3. ASSUME NEW s \in SUBSET S, s # {}, s \ {Pick(s)} \in Good PROVE s \in Good
  <2>1. g[s] = v[Pick(s)] + g[s \ {Pick(s)}] /\ v[Pick(s)] \in Nat
    BY <1>1, <1>3, Picked DEF Adds
  <2> QED BY <1>3, <2>1
<1>4. SUBSET S \subseteq Good
  <2> HIDE DEF Good
  <2> QED BY <1>2, <1>3, ElementByElement
<1> QED BY <1>1, <1>4

-----------------------------------------------------------------------------
(* The server's total *)

\* What a request that was let in may still add to what is stored.
Due(r) ==
  IF req[r].kind = "upload" /\ req[r].step \in {"cleared", "open"} THEN FileSize
  ELSE IF req[r].kind = "edit" /\ req[r].step = "open" /\ Extra(r) > 0 THEN Extra(r)
  ELSE 0

\* What it has added and not counted yet.
Uncounted(r) == IF req[r].step = "stored" THEN req[r].grew ELSE 0

DueBytes == Sum([r \in Request |-> Due(r)], Request)
UncountedBytes == Sum([r \in Request |-> Uncounted(r)], Request)

\* What all requests but one can be up to.
Slack == (Cardinality(Request) - 1) * Largest

Counters == total \in Int /\ added \in Int /\ seen \in Int

\* What a request counts in the end covers what it is about to add.
Covers ==
  \A r \in Request :
    /\ req[r].grew <= Largest
    /\ req[r].kind = "edit" /\ req[r].step = "open" => Due(r) <= req[r].grew

HasMutex ==
  \A r \in Request : req[r].step \in {"text", "files", "reset", "deciding"} => mu = r

\* Who was let in was let in below the limit, but for what was not known then.
Within == Stored + DueBytes <= Limit + 2 * Slack

\* The total is out by what is not counted yet, and by what was stored while it was
\* queried.
TotalKnown == Stored <= total + added + UncountedBytes + Slack

\* While it is queried nobody is let in: what was due then is all that the query
\* can miss.
Querying ==
  \A r \in Request :
    /\ req[r].step = "files" => TextBytes + DueBytes <= seen + Slack
    /\ req[r].step = "reset" => Stored + DueBytes <= seen + Slack

Accounts == Counters /\ Covers /\ HasMutex /\ Within /\ TotalKnown /\ Querying

\* The constants.
LEMMA Sizes == /\ Largest \in Nat /\ MaxText <= Largest /\ FileSize <= Largest
               /\ Cardinality(Request) \in Nat /\ Slack \in Nat
<1>1. Largest \in Nat /\ MaxText <= Largest /\ FileSize <= Largest
  BY StorageConstants DEF Largest
<1>2. Cardinality(Request) \in Nat /\ Cardinality(Request) # 0
  BY StorageConstants, FS_CardinalityType, FS_EmptySet
<1>3. \A m, n \in Nat : m * n \in Nat
  OBVIOUS
<1> QED BY <1>1, <1>2, <1>3 DEF Slack

\* What a request owes, one way or the other.
LEMMA Owed ==
  ASSUME SInv, Covers
  PROVE  /\ [r \in Request |-> Due(r)] \in [Request -> Nat]
         /\ [r \in Request |-> Uncounted(r)] \in [Request -> Nat]
         /\ \A r \in Request : Due(r) + Uncounted(r) <= Largest
<1> SUFFICES ASSUME NEW r \in Request
             PROVE  Due(r) \in Nat /\ Uncounted(r) \in Nat /\ Due(r) + Uncounted(r) <= Largest
  OBVIOUS
<1>1. req[r] \in Record /\ Sound(req[r])
  BY DEF SInv, Typed, Addressed
<1>2. Uncounted(r) \in Nat /\ Uncounted(r) <= Largest
  BY <1>1, Sizes DEF Uncounted, Record, Covers
<1>3. req[r].step = "open" /\ req[r].kind = "edit"
      => /\ req[r].size \in Nat /\ text[req[r].session] \in Nat
         /\ Extra(r) = req[r].size - text[req[r].session]
         /\ req[r].size <= MaxText
  BY <1>1, StorageConstants DEF SInv, Typed, Record, Sound, Extra
<1>4. Due(r) \in Nat /\ Due(r) <= Largest
  BY <1>3, Sizes, StorageConstants DEF Due
<1>5. Due(r) = 0 \/ Uncounted(r) = 0
  BY DEF Due, Uncounted
<1> QED BY <1>2, <1>4, <1>5, Sizes

\* A request that is up to nothing leaves the slack to the others.
LEMMA Together ==
  ASSUME SInv, Covers
  PROVE  /\ DueBytes \in Nat /\ UncountedBytes \in Nat
         /\ \A r \in Request : Due(r) = 0 /\ Uncounted(r) = 0
                               => DueBytes + UncountedBytes <= Slack
<1> DEFINE v == [r \in Request |-> Due(r)]
           w == [r \in Request |-> Uncounted(r)]
<1>1. v \in [Request -> Nat] /\ w \in [Request -> Nat]
  BY Owed
<1>2. DueBytes \in Nat /\ UncountedBytes \in Nat
  <2> HIDE DEF v, w
  <2>1. Sum(v, Request) \in Nat /\ Sum(w, Request) \in Nat
    BY <1>1, SumNat, StorageConstants
  <2> QED BY <2>1 DEF v, w, DueBytes, UncountedBytes
<1>3. ASSUME NEW r \in Request, Due(r) = 0, Uncounted(r) = 0
      PROVE  DueBytes + UncountedBytes <= Slack
  <2> DEFINE more == [v EXCEPT ![r] = Largest]
  <2>1. v[r] = 0 /\ w[r] = 0 /\ more \in [Request -> Int] /\ more[r] = Largest
    BY <1>1, <1>3, Sizes
  <2>2. \A x \in Request \ {r} : more[x] = v[x]
    BY <1>1
  <2>3. \A x \in Request : more[x] + w[x] <= Largest
    BY <2>1, <2>2, Owed, Sizes
  <2>4. v \in [Request -> Int] /\ w \in [Request -> Int]
    BY <1>1
  <2> HIDE DEF v, w, more
  <2>5. Sum(more, Request) = Sum(v, Request) - 0 + Largest /\ Sum(v, Request) \in Int
    BY <2>1, <2>2, <2>4, SumChange, StorageConstants
  <2>6. /\ Sum(more, Request) + Sum(w, Request) <= Cardinality(Request) * Largest
        /\ Sum(w, Request) \in Int
    BY <2>1, <2>3, <2>4, SumBound, StorageConstants, Sizes
  <2>7. Slack = Cardinality(Request) * Largest - Largest /\ Slack \in Int
    BY Sizes DEF Slack
  <2>8. Sum(v, Request) + Sum(w, Request) <= Slack
    BY <2>5, <2>6, <2>7, Sizes
  <2> QED BY <2>8 DEF v, w, DueBytes, UncountedBytes
<1> QED BY <1>2, <1>3

\* What is known of these numbers in any state.
Reckoned ==
  /\ \A r \in Request : Due(r) \in Nat /\ Uncounted(r) \in Nat
  /\ \A r \in Request : Due(r) = 0 /\ Uncounted(r) = 0 => DueBytes + UncountedBytes <= Slack
  /\ DueBytes \in Nat /\ UncountedBytes \in Nat

\* ... in this state
LEMMA Reckoning == SInv /\ Covers => Reckoned
<1> SUFFICES ASSUME SInv, Covers PROVE Reckoned
  OBVIOUS
<1>1. \A r \in Request : Due(r) \in Nat /\ Uncounted(r) \in Nat
  <2> DEFINE v == [r \in Request |-> Due(r)]
             w == [r \in Request |-> Uncounted(r)]
  <2>1. \A r \in Request : v[r] \in Nat /\ w[r] \in Nat
    BY Owed
  <2> QED BY <2>1
<1> QED BY <1>1, Together DEF Reckoned

\* ... and in the next.
LEMMA ReckoningNext == SInv' /\ Covers' => Reckoned'
BY Reckoning, PTL

\* One request moves: the sums change by what it owes.
LEMMA Moves ==
  ASSUME SInv, SInv', Covers, Covers', NEW r \in Request,
         \A q \in Request \ {r} : Due(q)' = Due(q) /\ Uncounted(q)' = Uncounted(q)
  PROVE  /\ DueBytes' = DueBytes - Due(r) + Due(r)'
         /\ UncountedBytes' = UncountedBytes - Uncounted(r) + Uncounted(r)'
<1> DEFINE v == [q \in Request |-> Due(q)]
           w == [q \in Request |-> Uncounted(q)]
           v2 == [q \in Request |-> Due(q)']
           w2 == [q \in Request |-> Uncounted(q)']
<1>1. /\ v \in [Request -> Int] /\ w \in [Request -> Int]
      /\ v2 \in [Request -> Int] /\ w2 \in [Request -> Int]
  BY Reckoning, ReckoningNext DEF Reckoned
<1>2. \A q \in Request \ {r} : v2[q] = v[q] /\ w2[q] = w[q]
  OBVIOUS
<1>3. v[r] = Due(r) /\ w[r] = Uncounted(r) /\ v2[r] = Due(r)' /\ w2[r] = Uncounted(r)'
  OBVIOUS
<1>4. DueBytes = Sum(v, Request) /\ UncountedBytes = Sum(w, Request)
      /\ DueBytes' = Sum(v2, Request) /\ UncountedBytes' = Sum(w2, Request)
  BY DEF DueBytes, UncountedBytes
<1> HIDE DEF v, w, v2, w2
<1>5. Sum(v2, Request) = Sum(v, Request) - v[r] + v2[r]
  BY <1>1, <1>2, SumChange, StorageConstants
<1>6. Sum(w2, Request) = Sum(w, Request) - w[r] + w2[r]
  BY <1>1, <1>2, SumChange, StorageConstants
<1> QED BY <1>3, <1>4, <1>5, <1>6

\* What the sizes of texts and attachments add up to.
Sized ==
  /\ TextBytes = Sum(text, Session) /\ FileBytes = Sum(files, Session)
  /\ TextBytes \in Nat /\ FileBytes \in Nat /\ Stored = TextBytes + FileBytes
  /\ text \in [Session -> Nat] /\ files \in [Session -> Nat]

\* ... in this state
LEMMA Sizing == SInv => Sized
<1>1. TextBytes = Sum(text, Session) /\ FileBytes = Sum(files, Session)
  BY DEF TextBytes, FileBytes, Sum
<1>2. SInv => text \in [Session -> Nat] /\ files \in [Session -> Nat]
  BY StorageConstants DEF SInv, Typed
<1>3. SInv => TextBytes \in Nat /\ FileBytes \in Nat
  BY <1>1, <1>2, SumNat, StorageConstants
<1> QED BY <1>1, <1>2, <1>3 DEF Sized, Stored

\* ... and in the next.
LEMMA SizingNext == SInv' => Sized'
BY Sizing, PTL

\* A smaller summand keeps a bound.
LEMMA Less ==
  \A a, b, c, d \in Int : /\ a + b <= d /\ c <= b => a + c <= d
                          /\ a + b <= d /\ c <= a => c + b <= d
OBVIOUS

\* One request moves: what others count, and who has l.mu.
LEMMA OthersKeep ==
  ASSUME SInv, Covers, HasMutex, NEW r \in Request, NEW to \in Record,
         req' = [req EXCEPT ![r] = to], UNCHANGED text,
         to.grew <= Largest, to.kind = "edit" /\ to.step = "open" => Due(r)' <= to.grew,
         to.step \in {"text", "files", "reset", "deciding"} => mu' = r,
         \A q \in Request \ {r} : mu = q => mu' = q
  PROVE  Covers' /\ HasMutex'
<1>1. req'[r] = to /\ \A q \in Request \ {r} : req'[q] = req[q]
  BY DEF SInv, Typed
<1>2. \A q \in Request \ {r} : Due(q)' = Due(q)
  BY <1>1 DEF Due, Extra
<1>3. Covers'
  BY <1>1, <1>2 DEF Covers
<1>4. HasMutex'
  BY <1>1 DEF HasMutex
<1> QED BY <1>3, <1>4

\* A step that stores nothing, and by which nobody comes to owe more, is no query's
\* and no query's end.
Quiet(r, to) ==
  /\ req' = [req EXCEPT ![r] = to]
  /\ UNCHANGED <<text, files, total, added>>
  /\ to.grew <= Largest
  /\ to.kind = "edit" /\ to.step = "open" => Due(r)' <= to.grew
  /\ to.step \in {"text", "deciding"} => mu' = r
  /\ \A q \in Request \ {r} : mu = q => mu' = q
  /\ Due(r)' <= Due(r) /\ Uncounted(r)' = Uncounted(r)
  /\ to.step \notin {"files", "reset"}
  /\ seen' = seen \/ (mu = r /\ seen' \in Int)

\* It keeps the accounts.
LEMMA QuietStep ==
  ASSUME SInv, SInv', Accounts, NEW r \in Request, NEW to \in Record, Quiet(r, to)
  PROVE  Accounts'
<1> USE DEF Quiet
<1>0. Covers' /\ HasMutex'
  BY OthersKeep DEF Accounts
<1>1. \A q \in Request \ {r} : req'[q] = req[q]
  BY DEF SInv, Typed
<1>2. \A q \in Request \ {r} : Due(q)' = Due(q) /\ Uncounted(q)' = Uncounted(q)
  BY <1>1 DEF Due, Uncounted, Extra
<1>3. /\ DueBytes' = DueBytes - Due(r) + Due(r)'
      /\ UncountedBytes' = UncountedBytes - Uncounted(r) + Uncounted(r)'
  BY <1>0, <1>2, Moves DEF Accounts
<1>4. /\ DueBytes \in Nat /\ UncountedBytes \in Nat
      /\ DueBytes' \in Nat /\ UncountedBytes' \in Nat
      /\ Due(r) \in Nat /\ Due(r)' \in Nat /\ Uncounted(r) \in Nat
  BY <1>0, Reckoning, ReckoningNext DEF Accounts, Reckoned
<1>5. TextBytes' = TextBytes /\ FileBytes' = FileBytes /\ Stored' = Stored
  BY Sizing, SizingNext DEF Sized
<1>6. TextBytes \in Nat /\ FileBytes \in Nat /\ Stored \in Int
  BY Sizing DEF Sized
<1>7. DueBytes' <= DueBytes /\ UncountedBytes' = UncountedBytes
  BY <1>3, <1>4
<1>8. Limit \in Int /\ Slack \in Int
  BY Sizes, StorageConstants
<1>9. Within'
  <2>1. Stored + DueBytes <= Limit + 2 * Slack
    BY DEF Accounts, Within
  <2>2. /\ Stored \in Int /\ DueBytes \in Int /\ DueBytes' \in Int /\ Limit + 2 * Slack \in Int
        /\ DueBytes' <= DueBytes
    BY <1>4, <1>6, <1>7, <1>8
  <2>3. Stored + DueBytes' <= Limit + 2 * Slack
    BY <2>1, <2>2, Less
  <2> QED BY <2>3, <1>5 DEF Within
<1>10. TotalKnown'
  BY <1>5, <1>7, <1>8 DEF Accounts, TotalKnown
<1>11. Querying'
  <2> SUFFICES ASSUME NEW q \in Request, req'[q].step \in {"files", "reset"}
               PROVE  /\ (req[q].step = "files" => TextBytes + DueBytes <= seen + Slack)'
                      /\ (req[q].step = "reset" => Stored + DueBytes <= seen + Slack)'
    BY DEF Querying
  <2>1. q # r
    BY DEF SInv, Typed
  <2>2. req'[q] = req[q] /\ mu = q
    BY <1>1, <2>1 DEF Accounts, HasMutex
  <2>3. seen' = seen
    BY <2>1, <2>2
  <2>4. /\ req[q].step = "files" => TextBytes + DueBytes <= seen + Slack
        /\ req[q].step = "reset" => Stored + DueBytes <= seen + Slack
        /\ seen \in Int
    BY DEF Accounts, Querying, Counters
  <2>5. /\ Stored \in Int /\ TextBytes \in Int /\ DueBytes \in Int /\ DueBytes' \in Int
        /\ seen + Slack \in Int /\ DueBytes' <= DueBytes
    BY <2>4, <1>4, <1>6, <1>7, <1>8
  <2>6. /\ req[q].step = "files" => TextBytes + DueBytes' <= seen + Slack
        /\ req[q].step = "reset" => Stored + DueBytes' <= seen + Slack
    BY <2>4, <2>5, Less
  <2> QED BY <2>2, <2>3, <2>6, <1>5
<1>12. Counters'
  BY DEF Accounts, Counters
<1> QED BY <1>0, <1>9, <1>10, <1>11, <1>12 DEF Accounts

\* What is known of a request that is about to move.
LEMMA Known ==
  ASSUME SInv, Accounts, NEW r \in Request
  PROVE  /\ req[r] \in Record /\ Sound(req[r]) /\ req[r].grew <= Largest /\ req[r].grew \in Nat
         /\ mu \in Request \cup {Nobody} /\ Nobody \notin Request
BY StorageConstants DEF SInv, Typed, Addressed, Accounts, Covers, Record

\* A request comes: it owes nothing yet.
LEMMA StartingQuiet ==
  ASSUME SInv, SInv', Accounts, NEW r \in Request, StartUpload(r) \/ StartEdit(r) \/ StartCreate(r)
  PROVE  Accounts'
<1>1. PICK to \in Record :
        /\ req' = [req EXCEPT ![r] = to]
        /\ to.grew = 0 /\ to.step \in {"asking", "cleared"} /\ (to.kind = "upload" => to.step = "asking")
  BY Known, StorageConstants DEF StartUpload, StartEdit, StartCreate, At, Record, Kind, Step, SInv, Typed
<1>2. req'[r] = to
  BY <1>1 DEF SInv, Typed
<1>3. req[r].step = "idle" /\ UNCHANGED <<text, files, total, added, mu, seen>>
  BY DEF StartUpload, StartEdit, StartCreate, contents, cache
<1>4. Due(r)' = 0 /\ Due(r) = 0 /\ Uncounted(r)' = 0 /\ Uncounted(r) = 0
  BY <1>1, <1>2, <1>3 DEF Due, Uncounted
<1>5. Quiet(r, to)
  BY <1>1, <1>3, <1>4, Sizes DEF Quiet
<1> QED BY <1>1, <1>5, QuietStep

\* A request that is done with owes nothing.
LEMMA EndingQuiet ==
  ASSUME SInv, SInv', Accounts, NEW r \in Request, Done(r), req[r].step # "stored",
         UNCHANGED <<text, files, total, added, seen>>,
         mu' = mu \/ mu = r
  PROVE  Accounts'
<1>1. Idle \in Record /\ Idle.step = "idle" /\ Idle.grew = 0
  BY Rests DEF Idle, At
<1>2. req' = [req EXCEPT ![r] = Idle] /\ req'[r] = Idle
  BY DEF Done, SInv, Typed
<1>3. Due(r)' = 0 /\ Uncounted(r)' = 0 /\ Uncounted(r) = 0
  BY <1>1, <1>2 DEF Due, Uncounted
<1>4. Due(r) \in Nat
  BY Reckoning DEF Reckoned, Accounts
<1>5. \A q \in Request \ {r} : mu = q => mu' = q
  OBVIOUS
<1>6. Quiet(r, Idle)
  BY <1>1, <1>2, <1>3, <1>4, <1>5, Sizes DEF Quiet
<1> QED BY <1>1, <1>6, QuietStep

\* l.mu is taken, or a query fails.
LEMMA LockingQuiet ==
  ASSUME SInv, SInv', Accounts, NEW r \in Request, Lock(r) \/ QueryFails(r)
  PROVE  Accounts'
<1>1. PICK step \in {"deciding", "text"} : To(r, step) /\ mu' = r
  BY Known DEF Lock, QueryFails, Accounts, HasMutex
<1> DEFINE to == [req[r] EXCEPT !.step = step]
<1>2. to \in Record /\ to.step = step /\ to.grew = req[r].grew /\ req' = [req EXCEPT ![r] = to]
  BY <1>1, Known DEF To, Record, Step
<1>3. req'[r] = to
  BY <1>2 DEF SInv, Typed
<1>4. UNCHANGED <<text, files, total, added>> /\ (seen' = seen \/ (mu = r /\ seen' \in Int))
  BY Known DEF Lock, QueryFails, contents, cache, Accounts, HasMutex
<1>5. \A q \in Request \ {r} : mu # q
  BY Known DEF Lock, QueryFails, Accounts, HasMutex
<1>6. req[r].step \in {"asking", "text", "files"}
  BY DEF Lock, QueryFails
<1>7. Due(r)' = 0 /\ Due(r) = 0 /\ Uncounted(r)' = 0 /\ Uncounted(r) = 0
  BY <1>2, <1>3, <1>6 DEF Due, Uncounted
<1> HIDE DEF to
<1>8. Quiet(r, to)
  BY <1>1, <1>2, <1>4, <1>5, <1>7, Known DEF Quiet
<1> QED BY <1>2, <1>8, QuietStep

\* Transactions begin, fail, and are tried again: what is due stays or goes.
LEMMA TransactionQuiet ==
  ASSUME SInv, SInv', Accounts, NEW r \in Request,
         BeginTx(r) \/ Reject(r) \/ Insert(r) \/ Busy(r) \/ Fail(r)
  PROVE  Accounts'
<1>1. CASE Reject(r) \/ Insert(r) \/ Fail(r)
  <2>1. Done(r) /\ req[r].step # "stored" /\ UNCHANGED <<text, files, total, added, seen, mu>>
    BY <1>1 DEF Reject, Insert, Fail, contents, cache
  <2> QED BY <2>1, EndingQuiet
<1>2. CASE BeginTx(r)
  <2> DEFINE step == IF req[r].kind = "edit" /\ Extra(r) > 0 THEN "asking" ELSE "open"
             to == [req[r] EXCEPT !.step = step]
  <2>1. to \in Record /\ to.step = step /\ to.grew = req[r].grew /\ to.kind = req[r].kind
        /\ to.session = req[r].session /\ to.size = req[r].size /\ req' = [req EXCEPT ![r] = to]
    BY <1>2, Known DEF BeginTx, To, Record, Step
  <2>2. req'[r] = to
    BY <2>1 DEF SInv, Typed
  <2>3. UNCHANGED <<text, files, total, added, mu, seen>> /\ req[r].step = "cleared"
    BY <1>2 DEF BeginTx, contents, cache
  <2>4. Extra(r)' = Extra(r)
    BY <2>1, <2>2, <2>3 DEF Extra
  <2>5. Due(r)' = Due(r) /\ (to.kind = "edit" => Due(r)' = 0)
    BY <2>1, <2>2, <2>3, <2>4 DEF Due
  <2>6. Uncounted(r)' = 0 /\ Uncounted(r) = 0 /\ Due(r) \in Nat
    BY <2>1, <2>2, <2>3, Reckoning DEF Uncounted, Reckoned, Accounts
  <2>7. to.step \in {"asking", "open"}
    BY <2>1
  <2> HIDE DEF to
  <2>8. Quiet(r, to)
    BY <2>1, <2>3, <2>5, <2>6, <2>7, Known DEF Quiet
  <2> QED BY <2>1, <2>8, QuietStep
<1>3. CASE Busy(r)
  <2> DEFINE to == [req[r] EXCEPT !.step = "cleared", !.tries = @ + 1]
  <2>1. to \in Record /\ to.step = "cleared" /\ to.grew = req[r].grew /\ to.kind = req[r].kind
        /\ req' = [req EXCEPT ![r] = to]
    <3>1. req[r].tries \in 0..(MaxTries - 1) /\ req[r].tries + 1 < MaxTries /\ MaxTries \in Nat
      BY <1>3, Known, StorageConstants DEF Busy, Record
    <3>2. req[r].tries + 1 \in 0..(MaxTries - 1)
      BY <3>1
    <3>3. "cleared" \in Step /\ req' = [req EXCEPT ![r] = to]
      BY <1>3 DEF Busy, Step
    <3>4. to \in Record
      BY <3>2, <3>3, Known DEF Record
    <3> QED BY <3>3, <3>4, Known DEF Record
  <2>2. req'[r] = to
    BY <2>1 DEF SInv, Typed
  <2>3. UNCHANGED <<text, files, total, added, mu, seen>> /\ req[r].step \in {"cleared", "open"}
    BY <1>3 DEF Busy, contents, cache
  <2>4. Due(r) \in Nat
    BY Reckoning DEF Reckoned, Accounts
  <2>5. Due(r)' <= Due(r)
    <3>1. CASE req[r].kind = "upload"
      BY <3>1, <2>1, <2>2, <2>3, StorageConstants DEF Due
    <3>2. CASE req[r].kind # "upload"
      <4>1. Due(r)' = 0
        BY <3>2, <2>1, <2>2 DEF Due
      <4> QED BY <4>1, <2>4
    <3> QED BY <3>1, <3>2
  <2>6. Uncounted(r)' = 0 /\ Uncounted(r) = 0
    BY <2>1, <2>2, <2>3 DEF Uncounted
  <2> HIDE DEF to
  <2>7. Quiet(r, to)
    BY <2>1, <2>3, <2>5, <2>6, Known DEF Quiet
  <2> QED BY <2>1, <2>7, QuietStep
<1> QED BY <1>1, <1>2, <1>3

\* Whoever has l.mu owes nothing, and is alone with the cache.
LEMMA Alone ==
  ASSUME SInv, SInv', Accounts, NEW r \in Request, NEW to \in Record,
         req[r].step \in {"text", "files", "reset", "deciding"},
         req' = [req EXCEPT ![r] = to], UNCHANGED <<text, files>>,
         to.step # "stored",
         to.grew <= Largest, to.kind = "edit" /\ to.step = "open" => Due(r)' <= to.grew,
         to.step \in {"text", "files", "reset", "deciding"} => mu' = r
  PROVE  /\ Covers' /\ HasMutex'
         /\ DueBytes' = DueBytes + Due(r)' /\ UncountedBytes' = UncountedBytes
         /\ DueBytes + UncountedBytes <= Slack
         /\ DueBytes \in Nat /\ UncountedBytes \in Nat /\ Due(r)' \in Nat
         /\ TextBytes' = TextBytes /\ FileBytes' = FileBytes /\ Stored' = Stored
         /\ TextBytes \in Nat /\ FileBytes \in Nat /\ Stored = TextBytes + FileBytes
         /\ req'[r] = to
         /\ \A q \in Request \ {r} : req'[q].step \notin {"files", "reset"}
<1>1. mu = r /\ \A q \in Request \ {r} : req[q].step \notin {"text", "files", "reset", "deciding"}
  BY DEF Accounts, HasMutex
<1>2. req'[r] = to /\ \A q \in Request \ {r} : req'[q] = req[q]
  BY DEF SInv, Typed
<1>3. Covers' /\ HasMutex'
  BY <1>1, OthersKeep DEF Accounts
<1>4. Due(r) = 0 /\ Uncounted(r) = 0 /\ Uncounted(r)' = 0
  BY <1>2 DEF Due, Uncounted
<1>5. \A q \in Request \ {r} : Due(q)' = Due(q) /\ Uncounted(q)' = Uncounted(q)
  BY <1>2 DEF Due, Uncounted, Extra
<1>6. /\ DueBytes' = DueBytes - Due(r) + Due(r)'
      /\ UncountedBytes' = UncountedBytes - Uncounted(r) + Uncounted(r)'
  BY <1>3, <1>5, Moves DEF Accounts
<1>7. /\ DueBytes + UncountedBytes <= Slack
      /\ DueBytes \in Nat /\ UncountedBytes \in Nat /\ Due(r)' \in Nat
  BY <1>3, <1>4, Reckoning, ReckoningNext DEF Accounts, Reckoned
<1>8. DueBytes' = DueBytes + Due(r)' /\ UncountedBytes' = UncountedBytes
  BY <1>4, <1>6, <1>7
<1>9. /\ TextBytes' = TextBytes /\ FileBytes' = FileBytes /\ Stored' = Stored
      /\ TextBytes \in Nat /\ FileBytes \in Nat /\ Stored = TextBytes + FileBytes
  BY Sizing, SizingNext DEF Sized
<1> QED BY <1>1, <1>2, <1>3, <1>7, <1>8, <1>9

\* storageFull counts anew.
LEMMA Counting ==
  ASSUME SInv, SInv', Accounts, NEW r \in Request, Query(r) \/ Reset(r)
  PROVE  Accounts'
<1>1. PICK step \in {"files", "reset", "deciding"} : To(r, step) /\ (step = "deciding" <=> Reset(r))
                                                     /\ (step = "files" <=> req[r].step = "text")
  BY DEF Query, Reset
<1> DEFINE to == [req[r] EXCEPT !.step = step]
<1>2. to \in Record /\ to.step = step /\ to.grew = req[r].grew /\ req' = [req EXCEPT ![r] = to]
  BY <1>1, Known DEF To, Record, Step
<1>3. UNCHANGED <<text, files, mu>> /\ req[r].step \in {"text", "files", "reset"} /\ mu = r
  BY DEF Query, Reset, contents, cache, Accounts, HasMutex
<1> HIDE DEF to
<1>4. /\ Covers' /\ HasMutex'
      /\ DueBytes' = DueBytes + Due(r)' /\ UncountedBytes' = UncountedBytes
      /\ DueBytes + UncountedBytes <= Slack
      /\ DueBytes \in Nat /\ UncountedBytes \in Nat
      /\ TextBytes' = TextBytes /\ FileBytes' = FileBytes /\ Stored' = Stored
      /\ TextBytes \in Nat /\ FileBytes \in Nat /\ Stored = TextBytes + FileBytes
      /\ req'[r] = to
      /\ \A q \in Request \ {r} : req'[q].step \notin {"files", "reset"}
  <2>1. to.grew <= Largest /\ to.step \in {"text", "files", "reset", "deciding"} /\ mu' = r
    BY <1>1, <1>2, <1>3, Known
  <2>2. to.step # "stored" /\ to.step # "open"
    BY <1>1, <1>2
  <2>3. UNCHANGED <<text, files>> /\ req[r].step \in {"text", "files", "reset", "deciding"}
    BY <1>3
  <2> QED BY <1>2, <2>1, <2>2, <2>3, Alone
<1>5. Due(r)' = 0
  BY <1>1, <1>2, <1>4 DEF Due
<1>6. DueBytes' = DueBytes
  BY <1>4, <1>5
<1>7. /\ total \in Int /\ added \in Int /\ seen \in Int /\ Slack \in Int
      /\ Stored + DueBytes <= Limit + 2 * Slack
      /\ Stored <= total + added + UncountedBytes + Slack
      /\ req[r].step = "files" => TextBytes + DueBytes <= seen + Slack
      /\ req[r].step = "reset" => Stored + DueBytes <= seen + Slack
  BY Sizes DEF Accounts, Counters, Within, TotalKnown, Querying
<1>8. Within'
  BY <1>4, <1>6, <1>7 DEF Within
<1>9. CASE req[r].step = "text"
  <2>1. seen' = TextBytes /\ total' = total /\ added' = added /\ step = "files"
    BY <1>1, <1>9 DEF Query, Reset, cache
  <2>2. TextBytes + DueBytes <= TextBytes + Slack
    BY <1>4, <1>7
  <2>3. TotalKnown' /\ Counters'
    BY <2>1, <1>4, <1>7 DEF TotalKnown, Counters
  <2>4. Querying'
    BY <2>1, <2>2, <1>2, <1>4, <1>6 DEF Querying
  <2> QED BY <2>3, <2>4, <1>4, <1>8 DEF Accounts
<1>10. CASE req[r].step = "files"
  <2>1. seen' = seen + FileBytes /\ total' = total /\ added' = added /\ step = "reset"
    BY <1>1, <1>10 DEF Query, Reset, cache
  <2>2. Stored + DueBytes <= seen + FileBytes + Slack
    BY <1>4, <1>7, <1>10
  <2>3. TotalKnown' /\ Counters'
    BY <2>1, <1>4, <1>7 DEF TotalKnown, Counters
  <2>4. Querying'
    BY <2>1, <2>2, <1>2, <1>4, <1>6 DEF Querying
  <2> QED BY <2>3, <2>4, <1>4, <1>8 DEF Accounts
<1>11. CASE req[r].step = "reset"
  <2>1. total' = seen /\ added' = 0 /\ seen' = 0 /\ step = "deciding"
    BY <1>1, <1>11 DEF Query, Reset
  <2>2. Stored <= seen + 0 + UncountedBytes + Slack
    BY <1>4, <1>7, <1>11
  <2>3. TotalKnown' /\ Counters'
    BY <2>1, <2>2, <1>4, <1>7 DEF TotalKnown, Counters
  <2>4. Querying'
    BY <2>1, <1>2, <1>4 DEF Querying
  <2> QED BY <2>3, <2>4, <1>4, <1>8 DEF Accounts
<1> QED BY <1>3, <1>9, <1>10, <1>11

\* Whoever is let in fits below the limit, as far as storageFull can know.
LEMMA Approving ==
  ASSUME SInv, SInv', Accounts, NEW r \in Request, Approve(r)
  PROVE  Accounts'
<1> DEFINE to == IF req[r].kind = "edit" THEN [req[r] EXCEPT !.step = "open", !.grew = Extra(r)]
                 ELSE [req[r] EXCEPT !.step = "cleared"]
<1>1. req[r].step = "deciding" /\ req[r].kind \in Kind
  BY Known DEF Approve, Record
<1>2. req[r].kind = "edit"
      => /\ Extra(r) \in Nat /\ Extra(r) > 0 /\ Extra(r) <= Largest
         /\ Extra(r) = req[r].size - text[req[r].session]
  BY <1>1, Known, Sizes, StorageConstants
     DEF SInv, Typed, Guarded, Checked, Asking, Grows, Extra, Sound, Record
<1>3. req' = [req EXCEPT ![r] = to]
  BY DEF Approve, To
<1>4. to \in Record /\ to.kind = req[r].kind /\ to.session = req[r].session /\ to.size = req[r].size
      /\ to.step = (IF req[r].kind = "edit" THEN "open" ELSE "cleared")
      /\ to.grew = (IF req[r].kind = "edit" THEN Extra(r) ELSE req[r].grew)
  BY <1>2, Known DEF Record, Step
<1>5. req'[r] = to /\ UNCHANGED <<text, files, total, added, seen>>
  BY <1>3 DEF Approve, SInv, Typed, contents, cache
<1> HIDE DEF to
<1>6. Extra(r)' = Extra(r)
  BY <1>4, <1>5 DEF Extra
<1>7. Due(r)' = Extra(r)
  BY <1>1, <1>2, <1>4, <1>5, <1>6 DEF Due, Extra, Kind
<1>8. /\ Covers' /\ HasMutex'
      /\ DueBytes' = DueBytes + Due(r)' /\ UncountedBytes' = UncountedBytes
      /\ DueBytes + UncountedBytes <= Slack
      /\ DueBytes \in Nat /\ UncountedBytes \in Nat /\ Due(r)' \in Nat
      /\ Stored' = Stored /\ Stored \in Nat
      /\ \A q \in Request \ {r} : req'[q].step \notin {"files", "reset"}
  <2>1. to.grew <= Largest /\ (to.kind = "edit" /\ to.step = "open" => Due(r)' <= to.grew)
    BY <1>2, <1>4, <1>7, Known
  <2>2. to.step \notin {"text", "files", "reset", "deciding", "stored"} /\ UNCHANGED <<text, files>>
    BY <1>4, <1>5
  <2>3. /\ Covers' /\ HasMutex'
        /\ DueBytes' = DueBytes + Due(r)' /\ UncountedBytes' = UncountedBytes
        /\ DueBytes + UncountedBytes <= Slack
        /\ DueBytes \in Nat /\ UncountedBytes \in Nat /\ Due(r)' \in Nat
        /\ Stored' = Stored /\ TextBytes \in Nat /\ FileBytes \in Nat /\ Stored = TextBytes + FileBytes
        /\ \A q \in Request \ {r} : req'[q].step \notin {"files", "reset"}
    BY <1>1, <1>3, <1>4, <2>1, <2>2, Alone
  <2> QED BY <2>3
<1>9. /\ total \in Int /\ added \in Int /\ Slack \in Int /\ Limit \in Int
      /\ Stored <= total + added + UncountedBytes + Slack
      /\ total + added + Extra(r) <= Limit
  BY <1>7, <1>8, Sizes, StorageConstants DEF Accounts, Counters, TotalKnown, Approve, Full
<1>10. Stored + (DueBytes + Extra(r)) <= Limit + 2 * Slack
  BY <1>7, <1>8, <1>9
<1>11. Within' /\ TotalKnown' /\ Counters'
  BY <1>5, <1>7, <1>8, <1>9, <1>10 DEF Within, TotalKnown, Counters, Accounts
<1>12. Querying'
  BY <1>4, <1>5, <1>8 DEF Querying
<1> QED BY <1>8, <1>11, <1>12 DEF Accounts

\* A commit stores no more than was due, and leaves as much to be counted.
LEMMA CommittingAccounts ==
  ASSUME SInv, SInv', Accounts, NEW r \in Request, CommitTx(r)
  PROVE  Accounts'
<1> DEFINE s == req[r].session
           grown == IF req[r].kind = "upload" THEN FileSize ELSE req[r].size - text[s]
           to == [kind |-> req[r].kind, step |-> "stored", session |-> Nobody, size |-> 0, tries |-> 0,
                  grew |-> IF req[r].kind = "upload" THEN FileSize ELSE req[r].grew]
<1>1. /\ req[r].step = "open" /\ txn = r /\ req[r].kind \in {"upload", "edit"}
      /\ s \in Session /\ req[r].size \in Nat /\ req[r].grew \in Nat /\ req[r].grew <= Largest
  BY Known DEF CommitTx, SInv, Guarded, Checked, Sound, Record, Kind
<1>2. req' = [req EXCEPT ![r] = to] /\ UNCHANGED <<total, added, seen, mu>>
  BY DEF CommitTx, cache
<1>3. req'[r] = to /\ \A q \in Request \ {r} : req'[q] = req[q]
  BY <1>2 DEF SInv, Typed
<1>4. to.step = "stored" /\ to.kind = req[r].kind
      /\ to.grew = (IF req[r].kind = "upload" THEN FileSize ELSE req[r].grew)
  OBVIOUS
<1>5. text \in [Session -> Nat] /\ files \in [Session -> Nat] /\ FileSize \in Nat
  BY Sizing, StorageConstants DEF Sized
<1>6. grown \in Int
  BY <1>1, <1>5
<1>7. /\ req[r].kind = "upload" => text' = text /\ files' = [files EXCEPT ![s] = @ + FileSize]
      /\ req[r].kind = "edit" => files' = files /\ text' = [text EXCEPT ![s] = req[r].size]
  BY DEF CommitTx
<1>8. /\ TextBytes \in Nat /\ FileBytes \in Nat /\ TextBytes' \in Nat /\ FileBytes' \in Nat
      /\ TextBytes' = TextBytes + (IF req[r].kind = "edit" THEN grown ELSE 0)
      /\ FileBytes' = FileBytes + (IF req[r].kind = "upload" THEN grown ELSE 0)
      /\ Stored = TextBytes + FileBytes /\ Stored' = TextBytes' + FileBytes'
  <2> DEFINE t == text'
             f == files'
  <2>1. /\ TextBytes = Sum(text, Session) /\ FileBytes = Sum(files, Session)
        /\ TextBytes' = Sum(t, Session) /\ FileBytes' = Sum(f, Session)
        /\ TextBytes \in Nat /\ FileBytes \in Nat /\ TextBytes' \in Nat /\ FileBytes' \in Nat
        /\ t \in [Session -> Int] /\ f \in [Session -> Int]
        /\ text \in [Session -> Int] /\ files \in [Session -> Int]
        /\ Stored = TextBytes + FileBytes /\ Stored' = TextBytes' + FileBytes'
    BY Sizing, SizingNext DEF Sized
  <2>2. CASE req[r].kind = "upload"
    <3>1. t = text /\ f[s] = files[s] + FileSize /\ \A x \in Session \ {s} : f[x] = files[x]
      BY <1>1, <1>5, <1>7, <2>2
    <3> HIDE DEF t, f, s
    <3>2. Sum(f, Session) = Sum(files, Session) - files[s] + f[s]
      BY <1>1, <2>1, <3>1, SumChange, StorageConstants
    <3>3. FileBytes' = FileBytes + FileSize
      BY <1>1, <1>5, <2>1, <3>1, <3>2
    <3> QED BY <2>1, <2>2, <3>1, <3>3
  <2>3. CASE req[r].kind = "edit"
    <3>1. f = files /\ t[s] = req[r].size /\ \A x \in Session \ {s} : t[x] = text[x]
      BY <1>1, <1>5, <1>7, <2>3
    <3> HIDE DEF t, f, s
    <3>2. Sum(t, Session) = Sum(text, Session) - text[s] + t[s]
      BY <1>1, <2>1, <3>1, SumChange, StorageConstants
    <3>3. TextBytes' = TextBytes + (req[r].size - text[s])
      BY <1>1, <1>5, <2>1, <3>1, <3>2
    <3> QED BY <2>1, <2>3, <3>1, <3>3
  <2> QED BY <1>1, <2>2, <2>3
<1>9. Due(r) \in Nat /\ grown <= Due(r) /\ Due(r) <= to.grew /\ to.grew \in Nat /\ to.grew <= Largest
  <2>1. req[r].kind = "edit" => Extra(r) = grown
    BY DEF Extra
  <2>2. Due(r) \in Nat /\ (req[r].kind = "edit" => Due(r) <= req[r].grew)
    BY <1>1, Reckoning DEF Reckoned, Accounts, Covers
  <2>3. grown <= Due(r)
    <3> HIDE DEF grown
    <3>1. CASE req[r].kind = "upload"
      <4>1. grown = FileSize /\ Due(r) = FileSize
        BY <1>1, <3>1 DEF Due, grown
      <4> QED BY <4>1, <1>5
    <3>2. CASE req[r].kind = "edit"
      <4>1. Due(r) = IF grown > 0 THEN grown ELSE 0
        BY <1>1, <2>1, <3>2 DEF Due
      <4> QED BY <4>1, <1>6
    <3> QED BY <1>1, <3>1, <3>2
  <2>4. CASE req[r].kind = "upload"
    <3>1. Due(r) = FileSize
      BY <1>1, <2>4 DEF Due
    <3> QED BY <3>1, <2>3, <2>4, <1>5, Sizes
  <2>5. CASE req[r].kind = "edit"
    BY <2>5, <2>2, <2>3, <1>1
  <2> QED BY <1>1, <2>4, <2>5
<1> HIDE DEF to, grown
<1>10. Due(r)' = 0 /\ Uncounted(r) = 0 /\ Uncounted(r)' = to.grew
  BY <1>1, <1>3, <1>4 DEF Due, Uncounted
<1>11. \A q \in Request \ {r} : Due(q)' = Due(q) /\ Uncounted(q)' = Uncounted(q)
  <2> SUFFICES ASSUME NEW q \in Request, q # r
               PROVE  Due(q)' = Due(q) /\ Uncounted(q)' = Uncounted(q)
    OBVIOUS
  <2>1. req'[q] = req[q] /\ req[q].step # "open"
    BY <1>1, <1>3 DEF SInv, Guarded, Checked
  <2> QED BY <2>1 DEF Due, Uncounted
<1>12. Covers'
  BY <1>3, <1>4, <1>9, <1>11 DEF Accounts, Covers
<1>13. HasMutex'
  BY <1>2, <1>3, <1>4 DEF Accounts, HasMutex
<1>14. /\ DueBytes' = DueBytes - Due(r) /\ UncountedBytes' = UncountedBytes + to.grew
       /\ DueBytes \in Nat /\ UncountedBytes \in Nat
  <2>1. /\ DueBytes' = DueBytes - Due(r) + Due(r)'
        /\ UncountedBytes' = UncountedBytes - Uncounted(r) + Uncounted(r)'
        /\ DueBytes \in Nat /\ UncountedBytes \in Nat
    BY <1>11, <1>12, Moves, Reckoning DEF Accounts, Reckoned
  <2> QED BY <2>1, <1>9, <1>10
<1>15. /\ TextBytes' + DueBytes' <= TextBytes + DueBytes
       /\ Stored' + DueBytes' <= Stored + DueBytes
       /\ Stored' <= Stored + to.grew
       /\ Stored \in Int /\ Stored' \in Int /\ DueBytes' \in Int
  BY <1>6, <1>8, <1>9, <1>14
<1>16. /\ total \in Int /\ added \in Int /\ seen \in Int /\ Slack \in Int /\ Limit \in Int
       /\ Stored + DueBytes <= Limit + 2 * Slack
       /\ Stored <= total + added + UncountedBytes + Slack
  BY Sizes, StorageConstants DEF Accounts, Counters, Within, TotalKnown
<1>17. Stored' + DueBytes' <= Limit + 2 * Slack
  BY <1>14, <1>15, <1>16
<1>18. Stored' <= total + added + (UncountedBytes + to.grew) + Slack
  BY <1>9, <1>14, <1>15, <1>16
<1>19. Within' /\ TotalKnown' /\ Counters'
  BY <1>2, <1>14, <1>17, <1>18 DEF Within, TotalKnown, Counters, Accounts
<1>20. Querying'
  <2> SUFFICES ASSUME NEW q \in Request, req'[q].step \in {"files", "reset"}
               PROVE  /\ (req[q].step = "files" => TextBytes + DueBytes <= seen + Slack)'
                      /\ (req[q].step = "reset" => Stored + DueBytes <= seen + Slack)'
    BY DEF Querying
  <2>1. req'[q] = req[q]
    BY <1>3, <1>4
  <2>2. /\ req[q].step = "files" => TextBytes + DueBytes <= seen + Slack
        /\ req[q].step = "reset" => Stored + DueBytes <= seen + Slack
    BY DEF Accounts, Querying
  <2>3. /\ req[q].step = "files" => TextBytes' + DueBytes' <= seen + Slack
        /\ req[q].step = "reset" => Stored' + DueBytes' <= seen + Slack
    BY <2>2, <1>8, <1>14, <1>15, <1>16
  <2> QED BY <2>1, <2>3, <1>2
<1> QED BY <1>12, <1>13, <1>19, <1>20 DEF Accounts

\* What is counted was not, and is no more to be.
LEMMA Noting ==
  ASSUME SInv, SInv', Accounts, NEW r \in Request, Note(r)
  PROVE  Accounts'
<1>1. Idle \in Record /\ Idle.step = "idle" /\ Idle.grew = 0
  BY Rests DEF Idle, At
<1>2. /\ req' = [req EXCEPT ![r] = Idle] /\ added' = added + req[r].grew /\ req[r].step = "stored"
      /\ UNCHANGED <<text, files, mu, total, seen>> /\ req[r].grew \in Nat
  BY Known DEF Note, Done, contents
<1>3. req'[r] = Idle /\ \A q \in Request \ {r} : req'[q] = req[q]
  BY <1>2 DEF SInv, Typed
<1>4. Covers' /\ HasMutex'
  <2>1. Idle.grew <= Largest /\ UNCHANGED text
    BY <1>1, <1>2, Sizes
  <2>2. Idle.step \notin {"text", "files", "reset", "deciding", "open"}
    BY <1>1
  <2>3. \A q \in Request \ {r} : mu = q => mu' = q
    BY <1>2
  <2>4. req' = [req EXCEPT ![r] = Idle]
    BY <1>2
  <2> HIDE DEF Accounts
  <2>5. Covers /\ HasMutex
    BY DEF Accounts
  <2> QED BY <1>1, <2>1, <2>2, <2>3, <2>4, <2>5, OthersKeep
<1>5. Due(r) = 0 /\ Due(r)' = 0 /\ Uncounted(r) = req[r].grew /\ Uncounted(r)' = 0
  BY <1>1, <1>2, <1>3 DEF Due, Uncounted
<1>6. \A q \in Request \ {r} : Due(q)' = Due(q) /\ Uncounted(q)' = Uncounted(q)
  BY <1>2, <1>3 DEF Due, Uncounted, Extra
<1>7. /\ DueBytes' = DueBytes - Due(r) + Due(r)'
      /\ UncountedBytes' = UncountedBytes - Uncounted(r) + Uncounted(r)'
      /\ DueBytes \in Nat /\ UncountedBytes \in Nat
  BY <1>4, <1>6, Moves, Reckoning DEF Accounts, Reckoned
<1>8. DueBytes' = DueBytes /\ UncountedBytes' = UncountedBytes - req[r].grew
  BY <1>2, <1>5, <1>7
<1>9. TextBytes' = TextBytes /\ Stored' = Stored /\ Stored \in Int
  BY <1>2, Sizing, SizingNext DEF Sized
<1>10. /\ total \in Int /\ added \in Int /\ seen \in Int /\ Slack \in Int
       /\ Stored <= total + added + UncountedBytes + Slack
  BY Sizes DEF Accounts, Counters, TotalKnown
<1>11. Stored <= total + (added + req[r].grew) + (UncountedBytes - req[r].grew) + Slack
  BY <1>2, <1>7, <1>9, <1>10
<1>12. TotalKnown' /\ Counters'
  BY <1>2, <1>8, <1>9, <1>10, <1>11 DEF TotalKnown, Counters
<1>13. Within'
  BY <1>8, <1>9 DEF Accounts, Within
<1>14. Querying'
  BY <1>1, <1>2, <1>3, <1>8, <1>9 DEF Accounts, Querying
<1> QED BY <1>4, <1>12, <1>13, <1>14 DEF Accounts

\* Nobody moves: the sums stay.
LEMMA Unmoved ==
  ASSUME \A q \in Request : Due(q)' = Due(q) /\ Uncounted(q)' = Uncounted(q)
  PROVE  DueBytes' = DueBytes /\ UncountedBytes' = UncountedBytes
<1>1. [q \in Request |-> Due(q)'] = [q \in Request |-> Due(q)]
      /\ [q \in Request |-> Uncounted(q)'] = [q \in Request |-> Uncounted(q)]
  OBVIOUS
<1>2. /\ DueBytes = Sum([q \in Request |-> Due(q)], Request)
      /\ UncountedBytes = Sum([q \in Request |-> Uncounted(q)], Request)
      /\ DueBytes' = Sum([q \in Request |-> Due(q)'], Request)
      /\ UncountedBytes' = Sum([q \in Request |-> Uncounted(q)'], Request)
  BY DEF DueBytes, UncountedBytes
<1> QED BY <1>1, <1>2

\* What is deleted can only make room.
LEMMA DeletingAccounts ==
  ASSUME SInv, SInv', Accounts, NEW s \in Session, DeleteSession(s)
  PROVE  Accounts'
<1>1. /\ text' = [text EXCEPT ![s] = 0] /\ files' = [files EXCEPT ![s] = 0]
      /\ UNCHANGED <<req, mu, total, added, seen>> /\ txn = Nobody
  BY DEF DeleteSession, cache
<1>2. \A q \in Request : req[q].step # "open"
  BY <1>1, StorageConstants DEF SInv, Guarded, Checked
<1>3. \A q \in Request : Due(q)' = Due(q) /\ Uncounted(q)' = Uncounted(q)
  BY <1>1, <1>2 DEF Due, Uncounted
<1>4. DueBytes' = DueBytes /\ UncountedBytes' = UncountedBytes /\ DueBytes \in Nat /\ UncountedBytes \in Nat
  BY <1>3, Unmoved, Reckoning DEF Accounts, Reckoned
<1>5. Covers' /\ HasMutex' /\ Counters'
  BY <1>1, <1>3 DEF Accounts, Covers, HasMutex, Counters
<1>6. TextBytes' <= TextBytes /\ Stored' <= Stored
      /\ TextBytes \in Int /\ TextBytes' \in Int /\ Stored \in Int /\ Stored' \in Int
  <2> DEFINE t == text'
             f == files'
  <2>1. /\ TextBytes = Sum(text, Session) /\ FileBytes = Sum(files, Session)
        /\ TextBytes' = Sum(t, Session) /\ FileBytes' = Sum(f, Session)
        /\ TextBytes \in Nat /\ FileBytes \in Nat /\ TextBytes' \in Nat /\ FileBytes' \in Nat
        /\ t \in [Session -> Int] /\ f \in [Session -> Int]
        /\ text \in [Session -> Int] /\ files \in [Session -> Int]
        /\ text[s] \in Nat /\ files[s] \in Nat
        /\ Stored = TextBytes + FileBytes /\ Stored' = TextBytes' + FileBytes'
    BY Sizing, SizingNext DEF Sized
  <2>2. /\ t[s] = 0 /\ \A x \in Session \ {s} : t[x] = text[x]
        /\ f[s] = 0 /\ \A x \in Session \ {s} : f[x] = files[x]
    BY <1>1, <2>1
  <2> HIDE DEF t, f
  <2>3. Sum(t, Session) = Sum(text, Session) - text[s] + t[s]
    BY <2>1, <2>2, SumChange, StorageConstants
  <2>4. Sum(f, Session) = Sum(files, Session) - files[s] + f[s]
    BY <2>1, <2>2, SumChange, StorageConstants
  <2>5. TextBytes' = TextBytes - text[s] /\ FileBytes' = FileBytes - files[s]
    BY <2>1, <2>2, <2>3, <2>4
  <2> QED BY <2>1, <2>5
<1>7. /\ total \in Int /\ added \in Int /\ seen \in Int /\ Slack \in Int /\ Limit \in Int
      /\ Stored + DueBytes <= Limit + 2 * Slack
      /\ Stored <= total + added + UncountedBytes + Slack
  BY Sizes, StorageConstants DEF Accounts, Counters, Within, TotalKnown
<1>8. Stored' + DueBytes <= Limit + 2 * Slack
  <2>1. Limit + 2 * Slack \in Int /\ DueBytes \in Int
    BY <1>4, <1>7
  <2>2. Stored + DueBytes <= Limit + 2 * Slack /\ Stored' <= Stored /\ Stored \in Int /\ Stored' \in Int
    BY <1>6, <1>7
  <2> QED BY <2>1, <2>2, Less
<1>9. Stored' <= total + added + UncountedBytes + Slack
  BY <1>4, <1>6, <1>7
<1>10. Within' /\ TotalKnown'
  BY <1>1, <1>4, <1>8, <1>9 DEF Within, TotalKnown
<1>11. Querying'
  <2> SUFFICES ASSUME NEW q \in Request
               PROVE  /\ (req[q].step = "files" => TextBytes + DueBytes <= seen + Slack)'
                      /\ (req[q].step = "reset" => Stored + DueBytes <= seen + Slack)'
    BY DEF Querying
  <2>1. /\ req[q].step = "files" => TextBytes + DueBytes <= seen + Slack
        /\ req[q].step = "reset" => Stored + DueBytes <= seen + Slack
    BY DEF Accounts, Querying
  <2>2. /\ req[q].step = "files" => TextBytes' + DueBytes <= seen + Slack
        /\ req[q].step = "reset" => Stored' + DueBytes <= seen + Slack
    <3>1. seen + Slack \in Int /\ DueBytes \in Int
      BY <1>4, <1>7
    <3> QED BY <2>1, <3>1, <1>6, Less
  <2> QED BY <2>2, <1>1, <1>4
<1> QED BY <1>5, <1>10, <1>11 DEF Accounts

\* A total that gets old, or nothing at all.
LEMMA NothingMoves ==
  ASSUME SInv, SInv', Accounts, UNCHANGED <<text, files, mu, total, added, seen, req>>
  PROVE  Accounts'
<1>1. \A q \in Request : Due(q)' = Due(q) /\ Uncounted(q)' = Uncounted(q)
  BY DEF Due, Uncounted, Extra
<1>2. DueBytes' = DueBytes /\ UncountedBytes' = UncountedBytes
  BY <1>1, Unmoved
<1>3. TextBytes' = TextBytes /\ Stored' = Stored
  BY Sizing, SizingNext DEF Sized
<1> QED BY <1>1, <1>2, <1>3 DEF Accounts, Covers, HasMutex, Counters, Within, TotalKnown, Querying

\* Every step keeps the accounts.
LEMMA AccountsStep == SInv /\ SInv' /\ Accounts /\ [StorageNext]_storageVars => Accounts'
<1> SUFFICES ASSUME SInv, SInv', Accounts, [StorageNext]_storageVars PROVE Accounts'
  OBVIOUS
<1>1. CASE UNCHANGED storageVars \/ Age
  <2>1. UNCHANGED <<text, files, mu, total, added, seen, req>>
    BY <1>1 DEF storageVars, Age, contents, cache
  <2> QED BY <2>1, NothingMoves
<1>2. ASSUME NEW s \in Session, DeleteSession(s) PROVE Accounts'
  BY <1>2, DeletingAccounts
<1>3. ASSUME NEW r \in Request,
             \/ StartUpload(r) \/ StartEdit(r) \/ StartCreate(r)
             \/ Lock(r) \/ WithMutex(r) \/ QueryFails(r) \/ InStore(r)
      PROVE  Accounts'
  <2>1. CASE StartUpload(r) \/ StartEdit(r) \/ StartCreate(r)
    BY <2>1, StartingQuiet
  <2>2. CASE Lock(r) \/ QueryFails(r)
    BY <2>2, LockingQuiet
  <2>3. CASE Query(r) \/ Reset(r)
    BY <2>3, Counting
  <2>4. CASE Approve(r)
    BY <2>4, Approving
  <2>5. CASE Refuse(r)
    <3>1. Done(r) /\ req[r].step = "deciding" /\ UNCHANGED <<text, files, total, added, seen>>
      BY <2>5 DEF Refuse, contents, cache
    <3>2. mu = r
      BY <3>1 DEF Accounts, HasMutex
    <3> QED BY <3>1, <3>2, EndingQuiet
  <2>6. CASE BeginTx(r) \/ Reject(r) \/ Insert(r) \/ Busy(r) \/ Fail(r)
    BY <2>6, TransactionQuiet
  <2>7. CASE CommitTx(r)
    BY <2>7, CommittingAccounts
  <2>8. CASE Note(r)
    BY <2>8, Noting
  <2> QED BY <1>3, <2>1, <2>2, <2>3, <2>4, <2>5, <2>6, <2>7, <2>8 DEF WithMutex, InStore
<1> QED BY <1>1, <1>2, <1>3 DEF StorageNext

\* They are in order at first.
LEMMA AccountsStart == StorageInit => Accounts
<1> SUFFICES ASSUME StorageInit PROVE Accounts
  OBVIOUS
<1>1. SInv
  BY SessionsStart
<1>2. \A r \in Request : req[r].step = "idle" /\ req[r].grew = 0
  BY Rests DEF StorageInit, Idle, At
<1>3. Covers /\ HasMutex /\ Counters /\ Querying
  BY <1>2, Sizes DEF StorageInit, Covers, HasMutex, Counters, Querying
<1>4. \A r \in Request : Due(r) = 0 /\ Uncounted(r) = 0
  BY <1>2 DEF Due, Uncounted
<1>5. /\ DueBytes \in Nat /\ UncountedBytes \in Nat
      /\ \A r \in Request : DueBytes + UncountedBytes <= Slack
  BY <1>1, <1>3, <1>4, Reckoning DEF Reckoned
<1>6. Stored = 0
  <2>1. /\ text \in [Session -> Int] /\ files \in [Session -> Int]
        /\ TextBytes = Sum(text, Session) /\ FileBytes = Sum(files, Session)
        /\ TextBytes \in Nat /\ FileBytes \in Nat /\ Stored = TextBytes + FileBytes
    BY <1>1, Sizing DEF Sized
  <2>2. \A s \in Session : text[s] + files[s] <= 0
    BY DEF StorageInit
  <2>3. Sum(text, Session) + Sum(files, Session) <= Cardinality(Session) * 0
    BY <2>1, <2>2, SumBound, StorageConstants
  <2>4. Cardinality(Session) * 0 = 0
    BY StorageConstants, FS_CardinalityType
  <2> QED BY <2>1, <2>3, <2>4
<1>7. PICK r \in Request : TRUE
  BY StorageConstants
<1>8. DueBytes <= Slack /\ Slack \in Nat /\ Limit \in Nat
  BY <1>5, <1>7, Sizes, StorageConstants
<1>9. Within
  BY <1>5, <1>6, <1>8 DEF Within
<1>10. TotalKnown
  BY <1>5, <1>6, <1>8 DEF TotalKnown, StorageInit
<1> QED BY <1>3, <1>9, <1>10 DEF Accounts

\* The inductive invariant of the server's total.
LEMMA AccountsKept == StorageSpec => [](SInv /\ Accounts)
<1>1. StorageInit => SInv /\ Accounts
  BY SessionsStart, AccountsStart
<1>2. SInv /\ Accounts /\ [StorageNext]_storageVars => SInv' /\ Accounts'
  BY SessionsStep, AccountsStep
<1> QED BY <1>1, <1>2, PTL DEF StorageSpec

\* What is stored never exceeds the server's limit by more than what all requests
\* but one can add twice, for any number of requests and sessions, any sizes and
\* any timing of queries, refreshes, retries and deletions.
THEOREM OverrunIsBounded == StorageSpec => []OverrunBounded
<1>1. SInv /\ Accounts => OverrunBounded
  <2> SUFFICES ASSUME SInv, Accounts PROVE OverrunBounded
    OBVIOUS
  <2>1. DueBytes \in Nat /\ Stored \in Int
    BY Reckoning, Sizing DEF Reckoned, Sized, Accounts
  <2>2. Stored + DueBytes <= Limit + 2 * Slack /\ Limit \in Int /\ Slack \in Nat
    BY Sizes, StorageConstants DEF Accounts, Within
  <2>3. Stored <= Limit + 2 * Slack
    BY <2>1, <2>2
  <2>4. \A m, n \in Int : 2 * m * n = 2 * (m * n)
    OBVIOUS
  <2>5. 2 * (Cardinality(Request) - 1) * Largest = 2 * Slack
    BY <2>4, Sizes DEF Slack
  <2> QED BY <2>3, <2>5 DEF OverrunBounded
<1> QED BY <1>1, AccountsKept, PTL
=============================================================================
