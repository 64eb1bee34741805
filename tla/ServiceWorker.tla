--------------------------- MODULE ServiceWorker ---------------------------
(***************************************************************************)
(* The service worker (cmd/server/sw.js.tmpl) between a session's pages,   *)
(* the network and the browser's caches: the session's HTML shell and its  *)
(* snapshot, which ask the network first and fall back on a copy, and its  *)
(* attachments, which are answered from a cache of bounded size.           *)
(*                                                                         *)
(* Nothing orders two requests.  The network may answer late, fail or hang *)
(* for ever; the calls that store or drop a copy are not awaited, so a     *)
(* copy changes some time after its request is answered.  What a copy says *)
(* is left out: it is there or not; and so is the order of the attachments *)
(* in their cache, of which the oldest are evicted.                        *)
(***************************************************************************)
EXTENDS Naturals, FiniteSets

CONSTANTS
  Request,   \* bound: requests under way at a time, background work included
  File,      \* the attachments
  None,
  MaxFiles   \* FILES_CACHE_MAX

Page == {"shell", "snapshot"}

ASSUME WorkerConstants ==
  /\ MaxFiles \in Nat \ {0}
  /\ IsFiniteSet(File) /\ IsFiniteSet(Request)
  /\ File \cap Page = {}
  /\ None \notin File \cup Page

VARIABLES
  live,   \* the session exists
  copy,   \* the pages of which there is a copy
  files,  \* the attachments in their cache
  req     \* the requests

vars == <<live, copy, files, req>>

Step == {"idle",
         "matching",                       \* cache.match under way
         "waiting",                        \* for the network
         "putting", "listing", "trimming", \* an attachment that has come
         "done"}                           \* answered

Idle == [url |-> None, step |-> "idle", net |-> "none", answer |-> "none",
         hit |-> FALSE, op |-> "none", todo |-> {}, gave |-> "none"]

Record ==
  [url : Page \cup File \cup {None}, step : Step,
   net : {"none", "out", "back", "in", "failed"},
   answer : {"none", "ok", "gone", "error"},  \* gone: 404 or 410
   hit : BOOLEAN,                             \* match has found a copy
   op : {"none", "put", "delete"},            \* called and not awaited
   todo : SUBSET File,                        \* what trimCache has to delete
   gave : {"none", "answer", "copy", "error"}]

TypeOK ==
  /\ live \in BOOLEAN
  /\ copy \in SUBSET Page
  /\ files \in SUBSET File
  /\ req \in [Request -> Record]

Init ==
  /\ live = TRUE
  /\ copy = {}
  /\ files = {}
  /\ req = [r \in Request |-> Idle]

Give(r, what) ==
  req' = [req EXCEPT ![r].step = "done", ![r].gave = what, ![r].hit = FALSE]
GiveCopy(r, found) == Give(r, IF found THEN "copy" ELSE "error")

-----------------------------------------------------------------------------
(* The server, the network and the page *)

Delete == live /\ live' = FALSE /\ UNCHANGED <<copy, files, req>>

\* The fetch reaches the server.
Reply(r) ==
  /\ req[r].net = "out"
  /\ \E answer \in {IF live THEN "ok" ELSE "gone", "error"} :
       req' = [req EXCEPT ![r].net = "back", ![r].answer = answer]
  /\ UNCHANGED <<live, copy, files>>

\* The page asks: snapshots match and fetch at the same time, shells fetch
\* first, attachments match first.
Begin(r, url) ==
  /\ req[r] = Idle
  /\ req' = [req EXCEPT ![r].url = url,
               ![r].step = IF url = "shell" THEN "waiting" ELSE "matching",
               ![r].net = IF url \in File THEN "none" ELSE "out"]
  /\ UNCHANGED <<live, copy, files>>

-----------------------------------------------------------------------------
(* networkFirstShell and networkFirstSnapshot *)

\* Mutant of Follow: a session that is gone keeps its copy.
KeepCopy(answer) == IF answer = "ok" THEN "put" ELSE "none"

\* What becomes of the copy when the network has answered.
Follow(answer) ==
  CASE answer = "ok" -> "put" [] answer = "gone" -> "delete" [] OTHER -> "none"

\* The answer comes in, whether or not the page still waits for it.
Receive(r) ==
  /\ req[r].url \in Page
  /\ req[r].net = "back"
  /\ req' = [req EXCEPT ![r].net = "in", ![r].op = Follow(req[r].answer)]
  /\ UNCHANGED <<live, copy, files>>

\* No answer any more; a browser that stops an idle worker ends its fetch too.
Fail(r) ==
  /\ req[r].net \in {"out", "back"}
  /\ req' = [req EXCEPT ![r].net = "failed", ![r].answer = "none"]
  /\ UNCHANGED <<live, copy, files>>

\* put, which may fail for want of space, or delete.
Perform(r) ==
  /\ \/ req[r].op = "put" /\ copy' \in {copy, copy \cup {req[r].url}}
     \/ req[r].op = "delete" /\ copy' = copy \ {req[r].url}
  /\ req' = [req EXCEPT ![r].op = "none"]
  /\ UNCHANGED <<live, files>>

MatchSnapshot(r) ==
  /\ req[r].url = "snapshot"
  /\ req[r].step = "matching"
  /\ req' = [req EXCEPT ![r].step = "waiting", ![r].hit = "snapshot" \in copy]
  /\ UNCHANGED <<live, copy, files>>

\* Mutant of Settle: a copy is as good as an answer.
CopyFirst(r) ==
  /\ req[r].url \in Page
  /\ req[r].step = "waiting"
  /\ \/ req[r].net = "in" /\ Give(r, IF req[r].hit THEN "copy" ELSE "answer")
     \/ req[r].net = "failed" /\ GiveCopy(r, req[r].hit)
  /\ UNCHANGED <<live, copy, files>>

\* The answer; without one the copy, which for a shell is looked up only now.
Settle(r) ==
  /\ req[r].url \in Page
  /\ req[r].step = "waiting"
  /\ \/ req[r].net = "in" /\ Give(r, "answer")
     \/ req[r].net = "failed" /\ GiveCopy(r, req[r].hit \/ (req[r].url = "shell" /\ "shell" \in copy))
  /\ UNCHANGED <<live, copy, files>>

\* Mutant of Timeout: the network is waited for, as where there is no copy.
NoTimeout(r) == FALSE /\ UNCHANGED vars

\* SNAPSHOT_TIMEOUT_MS with neither an answer nor an error: the copy is served.
Timeout(r) ==
  /\ req[r].url = "snapshot"
  /\ req[r].step = "waiting"
  /\ req[r].hit
  /\ req[r].net \in {"out", "back"}
  /\ Give(r, "copy")
  /\ UNCHANGED <<live, copy, files>>

\* The page has its answer, and the worker has nothing left to do for it.
Finish(r) ==
  /\ req[r].step = "done"
  /\ req[r].net \notin {"out", "back"}
  /\ req[r].op = "none"
  /\ req' = [req EXCEPT ![r] = Idle]
  /\ UNCHANGED <<live, copy, files>>

-----------------------------------------------------------------------------
(* cacheFirstWithBound *)

MatchFile(r) ==
  /\ req[r].url \in File
  /\ req[r].step = "matching"
  /\ IF req[r].url \in files
     THEN Give(r, "copy")
     ELSE req' = [req EXCEPT ![r].step = "waiting", ![r].net = "out"]
  /\ UNCHANGED <<live, copy, files>>

\* What is not ok goes on to the page as it is, an error as an error.
ReceiveFile(r) ==
  /\ req[r].url \in File
  /\ req[r].step = "waiting"
  /\ \/ /\ req[r].net = "back"
        /\ IF req[r].answer = "ok"
           THEN req' = [req EXCEPT ![r].net = "in", ![r].step = "putting"]
           ELSE req' = [req EXCEPT ![r].net = "in", ![r].step = "done", ![r].gave = "answer"]
     \/ req[r].net = "failed" /\ Give(r, "error")
  /\ UNCHANGED <<live, copy, files>>

\* A put that fails, unlike a page's, fails the request that has its answer.
Put(r) ==
  /\ req[r].step = "putting"
  /\ \/ /\ files' = files \cup {req[r].url}
        /\ req' = [req EXCEPT ![r].step = "listing"]
     \/ Give(r, "error") /\ UNCHANGED files
  /\ UNCHANGED <<live, copy>>

\* Mutant of Kept: off by one.
KeptAndOne ==
  IF Cardinality(files) > MaxFiles THEN MaxFiles + 1 ELSE Cardinality(files)

Kept == IF Cardinality(files) > MaxFiles THEN MaxFiles ELSE Cardinality(files)

\* trimCache: the keys, and which of them have to go.
List(r) ==
  /\ req[r].step = "listing"
  /\ \E kept \in SUBSET files :
       /\ Cardinality(kept) = Kept
       /\ req' = [req EXCEPT ![r].step = "trimming", ![r].todo = files \ kept]
  /\ UNCHANGED <<live, copy, files>>

\* trimCache: the deletions, which run beside one another and others' puts.
Trim(r) ==
  /\ req[r].step = "trimming"
  /\ \/ \E f \in req[r].todo :
          /\ files' = files \ {f}
          /\ req' = [req EXCEPT ![r].todo = @ \ {f}]
     \/ req[r].todo = {} /\ Give(r, "answer") /\ UNCHANGED files
  /\ UNCHANGED <<live, copy>>

-----------------------------------------------------------------------------
\* What the worker does for a request without the network's help.
Work(r) ==
  \/ Perform(r) \/ MatchSnapshot(r) \/ Settle(r) \/ Finish(r)
  \/ MatchFile(r) \/ Put(r) \/ List(r) \/ Trim(r)

Next ==
  \/ Delete
  \/ \E r \in Request :
       \/ \E url \in Page \cup File : Begin(r, url)
       \/ Reply(r) \/ Receive(r) \/ ReceiveFile(r) \/ Fail(r)
       \/ Work(r) \/ Timeout(r)

Spec == Init /\ [][Next]_vars

\* The worker is run and its timers fire; the network owes nobody anything.
FairSpec ==
  /\ Spec
  /\ \A r \in Request : WF_vars(Work(r)) /\ WF_vars(Timeout(r))

-----------------------------------------------------------------------------
(***************************************************************************)
(* Properties                                                              *)
(***************************************************************************)

\* A request for the session's page or snapshot that the network has answered
\* is given that answer, whatever copy was found meanwhile: a copy is good only
\* while the network is unusable, or a session that was deleted would seem to
\* live on.
NetworkWins ==
  [][\A r \in Request :
       req[r].url \in Page /\ req[r].step # "done" /\ req'[r].step = "done"
         => req'[r].gave = "answer" \/ req[r].net # "in"]_vars

\* A snapshot of which there is a copy does not wait for a network that hangs.
CopyAnswers ==
  \A r \in Request :
    req[r].step = "waiting" /\ req[r].hit ~> req[r].step = "done"

\* An answer that was under way when the session went may put back a copy that
\* a later 404 has removed.  A page that goes on asking, as the editor does
\* before it reconnects, gets rid of it for good all the same.
DeadSessionForgotten ==
  \A u \in Page :
    []<>(\E r \in Request : req[r].url = u /\ req[r].answer = "gone" /\ req[r].net = "in")
      => <>[](u \notin copy)

\* The cache of attachments is within FILES_CACHE_MAX whenever nobody is at work
\* on it, however downloads, evictions made from old lists of its keys and files
\* stored again have interleaved.
FilesBounded ==
  (\A r \in Request : req[r].step \notin {"listing", "trimming"})
    => Cardinality(files) <= MaxFiles
=============================================================================
