----------------------------- MODULE LeaseLock ------------------------------
(***************************************************************************)
(* What the editor lock promises, without timers, goroutines or entries: a *)
(* lease that one client at a time owns, that lasts TTL ticks after its    *)
(* last renewal, and a room that is told of its owner.  EditorLock         *)
(* implements this module (see MCEditorLock and EditorLockProofs).  The    *)
(* promises are those of the doc comments of internal/handlers/lock.go and *)
(* of the section "Lock di modifica" of the repository's README.           *)
(***************************************************************************)
EXTENDS Integers

CONSTANTS Client, Nobody, TTL

VARIABLES
  owner,   \* the client the lease was last granted to and not yet taken from
  lease,   \* what is left of it
  told     \* the owner the room last heard of

leaseVars == <<owner, lease, told>>

Init == owner = Nobody /\ lease = 0 /\ told = Nobody

\* The lease passes to c when nobody has it or when it has run out; the room
\* hears of it at once or later, but of a former owner no more.
Grant(c) ==
  /\ owner = Nobody \/ lease = 0
  /\ owner' = c
  /\ lease' = TTL
  /\ told' \in {Nobody, c}

\* Only the owner renews, and only in time.
Renew ==
  /\ owner # Nobody
  /\ lease > 0
  /\ lease' = TTL
  /\ UNCHANGED <<owner, told>>

\* Release, expiry or deletion: the room is not left thinking it is held.
Free ==
  /\ owner # Nobody
  /\ owner' = Nobody
  /\ lease' = 0
  /\ told' = Nobody

Tell ==
  /\ told' = owner
  /\ UNCHANGED <<owner, lease>>

Pass ==
  /\ lease' = IF lease > 0 THEN lease - 1 ELSE 0
  /\ UNCHANGED <<owner, told>>

Next ==
  \/ \E c \in Client : Grant(c)
  \/ Renew
  \/ Free
  \/ Tell
  \/ Pass

\* The end of a lease that has run out: it is freed or passes on.
Reclaim ==
  /\ owner # Nobody
  /\ lease = 0
  /\ Free \/ \E c \in Client : Grant(c)

Spec == Init /\ [][Next]_leaseVars

\* Time passes, the room is told in the end, and a lease that has run out is
\* taken back.
FairSpec ==
  /\ Spec
  /\ WF_leaseVars(Pass)
  /\ WF_leaseVars(Tell)
  /\ WF_leaseVars(Reclaim)
=============================================================================
