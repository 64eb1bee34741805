---------------------------- MODULE MCAdminGate ----------------------------
(* AdminGate with states told apart only by what can still matter: not by  *)
(* the data of a request that is answered, of a deleted entry or of a      *)
(* failure that is out of every window, nor by what a guard that is off    *)
(* would have looked at.                                                   *)
EXTENDS AdminGate, TLC

Symmetry == Permutations(Request)

Gist(r) ==
  IF stage[r] = "idle" THEN <<>>
  ELSE <<sender[r],
         IF Waits(r) THEN stamp[r] ELSE now,
         IF "lockout" \in setup THEN login[r] ELSE "any">>

Limited ==
  [hits |-> hits,
   buckets |-> [k \in known |-> <<tokens[k], last[k]>>],
   served |-> [k \in Key |-> [t \in 0..now |-> served[k][t]]]]

LockedOut ==
  [entries |-> [k \in failing |-> <<fails[k], IF Blocked(k) THEN until[k] ELSE 0, lastFail[k]>>],
   wrong |-> [k \in Key |-> [t \in (now - Window + 1)..now |-> IF t < 0 THEN 0 ELSE wrong[k][t]]],
   locks |-> [k \in Key |-> {t \in locks[k] : now < t + Window}]]

Relevant ==
  <<now, setup, stage, [r \in Request |-> Gist(r)],
    {r \in Request : stage[r] # "idle" /\ origin[r] \in Client /\ sender[r] # origin[r]},
    IF "limiter" \in setup THEN Limited ELSE <<>>,
    IF "lockout" \in setup THEN LockedOut ELSE <<>>>>
=============================================================================
