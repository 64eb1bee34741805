------------------------- MODULE ServiceWorkerProofs -------------------------
(* Theorems about ServiceWorker, for any requests, attachments and bound. *)
EXTENDS ServiceWorker, FiniteSetTheorems, TLAPS

\* Entries that a trim under way is going to delete.
Doomed == UNION {req[r].todo : r \in Request}

\* Downloads that have stored their file and not yet looked at the keys.
Listing == {r \in Request : req[r].step = "listing"}

\* What a request's fields say of one another.
Consistent ==
  \A r \in Request :
    /\ req[r].step \in {"putting", "listing", "trimming"} => req[r].url \in File
    /\ req[r].op # "none" => req[r].url \in Page
    /\ req[r].todo # {} => req[r].step = "trimming"

\* What no trim is about to delete fits, but for one entry per download that
\* has its own look at the keys still to come.
Fits == Cardinality(files \ Doomed) <= MaxFiles + Cardinality(Listing)

IInv == TypeOK /\ Consistent /\ Fits

LEMMA Starts == Init => IInv
<1> SUFFICES ASSUME Init PROVE IInv
  OBVIOUS
<1>1. TypeOK /\ Consistent
  BY WorkerConstants DEF Init, TypeOK, Consistent, Record, Idle, Step, Page
<1>2. files \ Doomed = {} /\ Listing = {}
  BY DEF Init, Doomed, Listing, Idle
<1> QED BY <1>1, <1>2, FS_EmptySet, WorkerConstants DEF IInv, Fits

LEMMA Typed ==
  ASSUME TypeOK, Consistent, [Next]_vars
  PROVE  (TypeOK /\ Consistent)'
<1> USE WorkerConstants DEF TypeOK, Consistent, Record, Step, Page
<1>1. CASE Delete \/ UNCHANGED vars
  <2>1. CASE Delete
    BY <2>1 DEF Delete
  <2>2. CASE UNCHANGED vars
    BY <2>2 DEF vars
  <2> QED BY <1>1, <2>1, <2>2
<1>2. ASSUME NEW r \in Request, NEW url \in Page \cup File, Begin(r, url) PROVE (TypeOK /\ Consistent)'
  BY <1>2 DEF Begin, Idle
<1>3. ASSUME NEW r \in Request, Reply(r) \/ Fail(r) PROVE (TypeOK /\ Consistent)'
  BY <1>3 DEF Reply, Fail
<1>4. ASSUME NEW r \in Request, Receive(r) PROVE (TypeOK /\ Consistent)'
  <2>1. req[r].url \in Page /\ UNCHANGED <<live, copy, files>>
    BY <1>4 DEF Receive
  <2>2. Follow(req[r].answer) \in {"none", "put", "delete"}
    BY DEF Follow
  <2> DEFINE half == [req EXCEPT ![r].net = "in"]
  <2>3. PICK op \in {"none", "put", "delete"} : req' = [half EXCEPT ![r].op = op]
    BY <1>4, <2>2 DEF Receive
  <2>4. half \in [Request -> Record]
    BY <1>4
  <2>5. req' \in [Request -> Record]
    <3> HIDE DEF half
    <3> QED BY <2>3, <2>4
  <2>6. \A q \in Request :
          /\ req'[q].url = req[q].url /\ req'[q].step = req[q].step /\ req'[q].todo = req[q].todo
          /\ q # r => req'[q].op = req[q].op
    BY <1>4 DEF Receive
  <2>7. Consistent'
    BY <2>1, <2>6
  <2> QED BY <2>1, <2>5, <2>7
<1>5. ASSUME NEW r \in Request, ReceiveFile(r) PROVE (TypeOK /\ Consistent)'
  BY <1>5 DEF ReceiveFile, Give
<1>6. ASSUME NEW r \in Request, Perform(r) \/ MatchSnapshot(r) PROVE (TypeOK /\ Consistent)'
  BY <1>6 DEF Perform, MatchSnapshot
<1>7. ASSUME NEW r \in Request, Settle(r) \/ Timeout(r) PROVE (TypeOK /\ Consistent)'
  BY <1>7 DEF Settle, Timeout, Give, GiveCopy
<1>8. ASSUME NEW r \in Request, Finish(r) \/ MatchFile(r) PROVE (TypeOK /\ Consistent)'
  <2>1. CASE Finish(r)
    BY <2>1 DEF Finish, Idle
  <2>2. CASE MatchFile(r)
    BY <2>2 DEF MatchFile, Give
  <2> QED BY <1>8, <2>1, <2>2
<1>9. ASSUME NEW r \in Request, Put(r) PROVE (TypeOK /\ Consistent)'
  BY <1>9 DEF Put, Give
<1>10. ASSUME NEW r \in Request, List(r) \/ Trim(r) PROVE (TypeOK /\ Consistent)'
  BY <1>10 DEF List, Trim, Give
<1> QED
  BY <1>1, <1>2, <1>3, <1>4, <1>5, <1>6, <1>7, <1>8, <1>9, <1>10 DEF Next, Work

\* Sets of attachments and of requests are finite.
LEMMA Sizes ==
  /\ \A S : S \subseteq File => IsFiniteSet(S) /\ Cardinality(S) \in Nat
  /\ \A S : S \subseteq Request => IsFiniteSet(S) /\ Cardinality(S) \in Nat
BY WorkerConstants, FS_Subset, FS_CardinalityType

\* A step that neither adds to the cache nor takes from what is doomed or about
\* to be looked at keeps the bound.
LEMMA FitsStill ==
  ASSUME TypeOK, Fits, files' \ Doomed' \subseteq files \ Doomed, Listing \subseteq Listing',
         TypeOK'
  PROVE  Fits'
<1>1. Cardinality(files' \ Doomed') <= Cardinality(files \ Doomed)
  BY Sizes, FS_Subset DEF TypeOK
<1>2. Cardinality(Listing) <= Cardinality(Listing')
  BY Sizes, FS_Subset DEF Listing
<1>3. /\ Cardinality(files' \ Doomed') \in Nat /\ Cardinality(files \ Doomed) \in Nat
      /\ Cardinality(Listing) \in Nat /\ Cardinality(Listing') \in Nat
  BY Sizes DEF TypeOK, Listing
<1> QED BY <1>1, <1>2, <1>3, WorkerConstants DEF Fits

\* A download adds one entry and becomes one more that is yet to look.
LEMMA PutFits ==
  ASSUME IInv, NEW r \in Request, Put(r), (TypeOK /\ Consistent)'
  PROVE  Fits'
<1>1. CASE files' = files
  <2>1. Doomed' = Doomed /\ Listing \subseteq Listing'
    BY <1>1 DEF IInv, TypeOK, Record, Put, Give, Doomed, Listing
  <2> QED BY <1>1, <2>1, FitsStill DEF IInv
<1>2. CASE files' = files \cup {req[r].url} /\ req' = [req EXCEPT ![r].step = "listing"]
  <2> DEFINE url == req[r].url
  <2>1. url \in File /\ req[r].step = "putting"
    BY DEF IInv, Consistent, Put
  <2>2. Doomed' = Doomed
    BY <1>2 DEF IInv, TypeOK, Record, Doomed
  <2>3. Listing' = Listing \cup {r} /\ r \notin Listing
    BY <1>2, <2>1 DEF IInv, TypeOK, Record, Listing
  <2>4. files' \ Doomed' \subseteq (files \ Doomed) \cup {url}
    BY <1>2, <2>2
  <2>5. Cardinality(files' \ Doomed') <= Cardinality((files \ Doomed) \cup {url})
    BY <2>1, <2>4, Sizes, FS_Subset DEF IInv, TypeOK, Record
  <2>6. Cardinality((files \ Doomed) \cup {url}) <= Cardinality(files \ Doomed) + 1
    <3>1. IsFiniteSet(files \ Doomed) /\ Cardinality(files \ Doomed) \in Nat
      BY Sizes DEF IInv, TypeOK, Record
    <3>2. Cardinality((files \ Doomed) \cup {url})
            = IF url \in files \ Doomed THEN Cardinality(files \ Doomed) ELSE Cardinality(files \ Doomed) + 1
      BY <3>1, FS_AddElement
    <3> QED BY <3>1, <3>2
  <2>7. Cardinality(Listing') = Cardinality(Listing) + 1
    BY <2>3, Sizes, FS_AddElement DEF Listing
  <2>8. /\ Cardinality(files' \ Doomed') \in Nat /\ Cardinality(files \ Doomed) \in Nat
        /\ Cardinality((files \ Doomed) \cup {url}) \in Nat
        /\ Cardinality(Listing) \in Nat
    BY <2>1, Sizes DEF IInv, TypeOK, Record, Listing
  <2> QED BY <2>5, <2>6, <2>7, <2>8, WorkerConstants DEF IInv, Fits
<1> QED BY <1>1, <1>2 DEF Put

\* Whoever looks at the keys leaves at most MaxFiles that are not doomed.
LEMMA ListFits ==
  ASSUME IInv, NEW r \in Request, List(r), (TypeOK /\ Consistent)'
  PROVE  Fits'
<1>1. PICK kept \in SUBSET files :
        Cardinality(kept) = Kept
        /\ req' = [req EXCEPT ![r].step = "trimming", ![r].todo = files \ kept]
  BY DEF List
<1>2. files' \ Doomed' \subseteq kept
  <2>1. req'[r].todo = files \ kept /\ files' = files
    BY <1>1 DEF IInv, TypeOK, Record, List
  <2> QED BY <2>1 DEF Doomed
<1>3. Cardinality(kept) <= MaxFiles
  BY <1>1, Sizes, WorkerConstants DEF Kept, IInv, TypeOK, Record
<1>4. Cardinality(files' \ Doomed') <= Cardinality(kept)
  BY <1>2, Sizes, FS_Subset DEF IInv, TypeOK, Record
<1>5. /\ Cardinality(files' \ Doomed') \in Nat /\ Cardinality(kept) \in Nat
      /\ Cardinality(Listing') \in Nat
  BY Sizes DEF IInv, TypeOK, Record, Listing
<1> QED BY <1>3, <1>4, <1>5, WorkerConstants DEF Fits

\* A deletion takes the same entry from the cache and from its own list only.
LEMMA TrimFits ==
  ASSUME IInv, NEW r \in Request, Trim(r), (TypeOK /\ Consistent)'
  PROVE  Fits'
<1>1. CASE \E f \in req[r].todo : files' = files \ {f} /\ req' = [req EXCEPT ![r].todo = @ \ {f}]
  <2>1. PICK f \in req[r].todo : files' = files \ {f} /\ req' = [req EXCEPT ![r].todo = @ \ {f}]
    BY <1>1
  <2>2. Doomed \ {f} \subseteq Doomed'
    BY <2>1 DEF IInv, TypeOK, Record, Doomed
  <2>3. Listing' = Listing
    BY <2>1 DEF IInv, TypeOK, Record, Listing
  <2> QED BY <2>1, <2>2, <2>3, FitsStill DEF IInv
<1>2. CASE req[r].todo = {} /\ Give(r, "answer") /\ UNCHANGED files
  <2>1. Doomed' = Doomed
    BY <1>2 DEF IInv, TypeOK, Record, Doomed, Give
  <2>2. Listing' = Listing
    BY <1>2 DEF IInv, TypeOK, Record, Listing, Give, Trim
  <2> QED BY <1>2, <2>1, <2>2, FitsStill DEF IInv
<1> QED BY <1>1, <1>2 DEF Trim

LEMMA Inductive == IInv /\ [Next]_vars => IInv'
<1> SUFFICES ASSUME IInv, [Next]_vars PROVE IInv'
  OBVIOUS
<1>1. (TypeOK /\ Consistent)'
  BY Typed DEF IInv
<1>2. ASSUME UNCHANGED files,
             \A q \in Request : req'[q].todo = req[q].todo /\ (req[q].step = "listing" => req'[q].step = "listing")
      PROVE  Fits'
  <2>1. Doomed' = Doomed /\ Listing \subseteq Listing'
    BY <1>2 DEF Doomed, Listing
  <2> QED BY <1>1, <1>2, <2>1, FitsStill DEF IInv
<1>3. ASSUME Delete \/ UNCHANGED vars PROVE Fits'
  BY <1>2, <1>3 DEF Delete, vars
<1>4. ASSUME NEW r \in Request, NEW url \in Page \cup File, Begin(r, url) PROVE Fits'
  BY <1>2, <1>4 DEF Begin, Idle, IInv, TypeOK, Record
<1>5. ASSUME NEW r \in Request, Reply(r) \/ Fail(r) \/ Receive(r) \/ ReceiveFile(r) PROVE Fits'
  BY <1>2, <1>5 DEF Reply, Fail, Receive, ReceiveFile, Give, IInv, TypeOK, Record
<1>6. ASSUME NEW r \in Request, Perform(r) \/ MatchSnapshot(r) \/ Settle(r) \/ Timeout(r) \/ MatchFile(r)
      PROVE  Fits'
  BY <1>2, <1>6 DEF Perform, MatchSnapshot, Settle, Timeout, MatchFile, Give, GiveCopy, IInv, TypeOK, Record
<1>7. ASSUME NEW r \in Request, Finish(r) PROVE Fits'
  <2>1. req[r].todo = {}
    BY <1>7 DEF Finish, IInv, Consistent
  <2> QED BY <1>2, <1>7, <2>1 DEF Finish, Idle, IInv, TypeOK, Record
<1>8. ASSUME NEW r \in Request, Put(r) \/ List(r) \/ Trim(r) PROVE Fits'
  BY <1>1, <1>8, PutFits, ListFits, TrimFits
<1>9. Fits'
  BY <1>3, <1>4, <1>5, <1>6, <1>7, <1>8 DEF Next, Work
<1> QED BY <1>1, <1>9 DEF IInv

\* A request's record is always one that the worker can be in.
THEOREM WorkerTypes == Spec => []TypeOK
<1>1. IInv => TypeOK
  BY DEF IInv
<1> QED BY <1>1, Starts, Inductive, PTL DEF Spec

\* trimCache keeps the cache of attachments within FILES_CACHE_MAX, however many
\* downloads put, list and delete at the same time.
THEOREM CacheBounded == Spec => []FilesBounded
<1>1. IInv => FilesBounded
  <2> SUFFICES ASSUME IInv, \A r \in Request : req[r].step \notin {"listing", "trimming"}
      PROVE Cardinality(files) <= MaxFiles
    BY DEF FilesBounded
  <2>1. Listing = {} /\ Doomed = {}
    BY DEF IInv, Consistent, Listing, Doomed
  <2>2. Cardinality(Listing) = 0
    BY <2>1, FS_EmptySet
  <2>3. Cardinality(files \ Doomed) = Cardinality(files)
    <3>1. files \ Doomed = files
      BY <2>1
    <3> QED BY <3>1
  <2>4. Cardinality(files) <= MaxFiles + 0
    BY <2>2, <2>3 DEF IInv, Fits
  <2> QED BY <2>4, WorkerConstants
<1> QED BY <1>1, Starts, Inductive, PTL DEF Spec

\* An answer from the network is never kept back for a copy's sake.
THEOREM NetworkFirst == Spec => NetworkWins
<1>1. ASSUME IInv, [Next]_vars, NEW r \in Request,
             req[r].url \in Page, req[r].step # "done", req'[r].step = "done", req[r].net = "in"
      PROVE  req'[r].gave = "answer"
  <2> USE WorkerConstants DEF IInv, TypeOK, Record, Page
  <2>1. CASE Delete \/ UNCHANGED vars
    BY <1>1, <2>1 DEF Delete, vars
  <2>2. ASSUME NEW q \in Request, NEW url \in Page \cup File, Begin(q, url) PROVE FALSE
    BY <1>1, <2>2 DEF Begin, Idle
  <2>3. ASSUME NEW q \in Request, Reply(q) \/ Fail(q) \/ Receive(q) \/ Perform(q) \/ MatchSnapshot(q)
        PROVE  FALSE
    BY <1>1, <2>3 DEF Reply, Fail, Receive, Perform, MatchSnapshot
  <2>4. ASSUME NEW q \in Request, Settle(q) PROVE req'[r].gave = "answer"
    BY <1>1, <2>4 DEF Settle, Give, GiveCopy
  <2>5. ASSUME NEW q \in Request, Timeout(q) \/ Finish(q) \/ MatchFile(q) PROVE FALSE
    BY <1>1, <2>5 DEF Timeout, Finish, MatchFile, Give, Idle
  <2>6. ASSUME NEW q \in Request, ReceiveFile(q) \/ Put(q) \/ List(q) \/ Trim(q) PROVE FALSE
    BY <1>1, <2>6 DEF ReceiveFile, Put, List, Trim, Give, Consistent
  <2> QED BY <1>1, <2>1, <2>2, <2>3, <2>4, <2>5, <2>6 DEF Next, Work
<1>2. IInv /\ [Next]_vars =>
        [\A r \in Request :
           req[r].url \in Page /\ req[r].step # "done" /\ req'[r].step = "done"
             => req'[r].gave = "answer" \/ req[r].net # "in"]_vars
  BY <1>1
<1> QED BY <1>2, Starts, Inductive, PTL DEF Spec, NetworkWins
=============================================================================
