------------------------------- MODULE Outbox -------------------------------
(***************************************************************************)
(* The pure parts of the editor's client: the bookkeeping of its outgoing  *)
(* edits (cmd/server/static/outbox.js), and the decisions of lock.js and   *)
(* sync.js.  An outbox is a record with the fields                         *)
(*   editor       the text in the editor, which readText returns           *)
(*   pending, lastSent, confirmed, seq   as in outbox.js                   *)
(*   outstanding  pairs of a number and a text                             *)
(*   jobs         the chain of transmissions, each with its allowRest      *)
(* among others, and every method is a function on such records.           *)
(***************************************************************************)
EXTENDS Naturals, Sequences

CONSTANT MaxText   \* bound: texts typed during a behaviour

\* A text is the number under which it was typed; 0 is what there was before.
Text == 0..MaxText
NoText == MaxText + 1     \* lastSent = null

\* flush: a transmission is queued.
Queued(c, rest) == [c EXCEPT !.jobs = Append(@, rest)]

\* markDirty, after the editor's text has changed.
Typed(c, text) == [c EXCEPT !.editor = text, !.pending = TRUE]

\* The number is one of an edit that waits for its answer.
Waits(c, n) == \E o \in c.outstanding : o[1] = n

\* forgetUpTo.
After(c, n) == {o \in c.outstanding : o[1] > n}

\* The end of transmit, when the text was handed over: the user may have typed
\* meanwhile.
HandedOver(c, text) == [c EXCEPT !.lastSent = text, !.pending = @ /\ c.editor # text]

\* transmit by a frame, which is to be answered.
SentAsFrame(c, text) ==
  [HandedOver(c, text) EXCEPT !.seq = @ + 1,
                              !.outstanding = @ \cup {<<c.seq + 1, text>>}]

\* transmit by PUT, which is answered.
StoredByPut(c, text) ==
  [HandedOver(c, text) EXCEPT !.confirmed = text, !.outstanding = {}]

\* ack.
Acked(c, n) ==
  IF Waits(c, n)
  THEN [c EXCEPT !.outstanding = After(c, n),
                 !.confirmed = (CHOOSE o \in c.outstanding : o[1] = n)[2]]
  ELSE c

\* refused.
Refused(c, n) ==
  IF Waits(c, n)
  THEN [c EXCEPT !.outstanding = After(c, n), !.lastSent = NoText, !.pending = TRUE]
  ELSE c

\* remoteApplied, with the write to the editor that goes before it.
RemoteApplied(c, text) ==
  [c EXCEPT !.editor = text, !.lastSent = text, !.confirmed = text, !.pending = FALSE]

\* remoteSeen.
RemoteSeen(c, text) ==
  IF c.editor = text
  THEN [c EXCEPT !.confirmed = text, !.lastSent = text, !.pending = FALSE]
  ELSE [c EXCEPT !.confirmed = text]

\* Mutant of Lost: nothing is re-sent.
LostUnnoticed(c) == [c EXCEPT !.outstanding = {}]

\* Mutant of Lost: the edits wait for their answers still.
LostKept(c) ==
  IF c.outstanding = {} THEN c
  ELSE [c EXCEPT !.lastSent = NoText, !.pending = TRUE]

\* connectionLost.
Lost(c) ==
  IF c.outstanding = {} THEN c
  ELSE [c EXCEPT !.outstanding = {}, !.lastSent = NoText, !.pending = TRUE]

\* Mutant of Reverted: back to the last text sent, not the last confirmed.
RevertedToSent(c) ==
  [c EXCEPT !.pending = FALSE, !.outstanding = {}, !.editor = c.lastSent]

\* revert, with the write to the editor that comes after it.
Reverted(c) ==
  [c EXCEPT !.pending = FALSE, !.outstanding = {}, !.lastSent = c.confirmed,
            !.editor = c.confirmed]

-----------------------------------------------------------------------------
\* classifyLock, for the lock of `who` as the client `me` sees it, 0 being
\* nobody.  A lock of one's own earlier connection ("former", by
\* formerClientIDs) is somebody else's too, but no peer's.
Classify(me, who, peers) ==
  CASE who = 0        -> "free"
    [] who \in peers  -> "theirs"
    [] who = me       -> "mine"
    [] OTHER          -> "former"

\* canEditNow.
CanEditNow(lock) == lock \notin {"theirs", "former"}

\* shouldRequestLock.
ShouldRequestLock(lock) == lock = "free"

\* shouldApplyRemoteContent: text that waits to be sent is never overwritten.
ShouldApply(c, text) == c.editor # text /\ ~c.pending

\* shouldFlushPendingLocalChanges, of a snapshot.
ShouldFlush(c) == c.pending
=============================================================================
