---------------------------- MODULE AuthLockout ----------------------------
(***************************************************************************)
(* authLockout (internal/handlers/authlockout.go): a client address is     *)
(* blocked for Duration after MaxFails failed admin logins.  Each method   *)
(* holds l.mu, so each is one step; but fail reads the clock before it     *)
(* takes l.mu, so that failures are counted with stamps that are up to     *)
(* Delay ticks old, and in another order than that of their stamps.        *)
(* Between blocked, fail and reset the middleware compares passwords       *)
(* (BasicAuth in admin.go, module AdminGate).                              *)
(***************************************************************************)
EXTENDS Clock, FiniteSets

CONSTANTS
  MaxFails,    \* max; 0 would disable the lockout
  Duration,    \* duration, in ticks
  MaxEntries   \* 4096: the size of the map above which fail prunes it

ASSUME LockoutConstants ==
  /\ MaxFails \in Nat \ {0}
  /\ Duration \in Nat \ {0}
  /\ MaxEntries \in Nat

VARIABLES
  failing,   \* the keys of l.m
  fails,     \* e.fails
  until,     \* e.until; 0 is the zero time
  lastFail,  \* e.last
  wrong,     \* history: wrong[k][t] failures of k were counted at t or later,
             \* since its last login that succeeded
  locks      \* history: locks[k] are the moments at which one of them was the
             \* MaxFails-th in a row

lockoutVars == <<failing, fails, until, lastFail, wrong, locks>>

Moment == 0..(Horizon + Duration)

LockoutTypeOK ==
  /\ failing \in SUBSET Key
  /\ fails \in [Key -> 0..(MaxFails - 1)]
  /\ until \in [Key -> Moment]
  /\ lastFail \in [Key -> Moment]
  /\ wrong \in [Key -> [0..Horizon -> Nat]]
  /\ locks \in [Key -> SUBSET (0..Horizon)]

LockoutInit ==
  /\ failing = {}
  /\ fails = [k \in Key |-> 0]
  /\ until = [k \in Key |-> 0]
  /\ lastFail = [k \in Key |-> 0]
  /\ wrong = [k \in Key |-> [t \in 0..Horizon |-> 0]]
  /\ locks = [k \in Key |-> {}]

-----------------------------------------------------------------------------
\* blocked: time.Now().Before(e.until).
Blocked(k) == k \in failing /\ now < until[k]

\* Mutant of Forgotten: whoever has not failed in this tick is dropped.
ForgottenEarly(s) ==
  IF Cardinality(failing) > MaxEntries THEN {k \in failing : lastFail[k] < s} ELSE {}

\* The entries fail drops when the map has grown too large.
Forgotten(s) ==
  IF Cardinality(failing) > MaxEntries
  THEN {k \in failing : s - lastFail[k] > Duration}
  ELSE {}

\* What e.fails counts on from: nothing, in a new entry (whose zero e.last is
\* long ago) or after a failure that is more than Duration ago.
Strikes(k, s) ==
  IF k \in failing \ Forgotten(s) /\ s - lastFail[k] <= Duration THEN fails[k] ELSE 0

\* fail, for a login of k with stamp s: a stamp that is older than the entry's
\* sets e.last, and it may be e.until, back.
Fail(k, s) ==
  /\ failing' = (failing \ Forgotten(s)) \cup {k}
  /\ lastFail' = [lastFail EXCEPT ![k] = s]
  /\ IF Strikes(k, s) + 1 >= MaxFails
     THEN /\ until' = [until EXCEPT ![k] = s + Duration]
          /\ fails' = [fails EXCEPT ![k] = 0]
          /\ locks' = [locks EXCEPT ![k] = @ \cup {now}]
     ELSE /\ fails' = [fails EXCEPT ![k] = Strikes(k, s) + 1]
          /\ until' = [until EXCEPT ![k] = IF k \in failing \ Forgotten(s) THEN @ ELSE 0]
          /\ UNCHANGED locks
  /\ wrong' = [wrong EXCEPT ![k] = [t \in 0..Horizon |-> IF t <= now THEN @[t] + 1 ELSE @[t]]]

\* reset, after a login that succeeded.
Reset(k) ==
  /\ failing' = failing \ {k}
  /\ wrong' = [wrong EXCEPT ![k] = [t \in 0..Horizon |-> 0]]
  /\ locks' = [locks EXCEPT ![k] = {}]
  /\ UNCHANGED <<fails, until, lastFail>>
=============================================================================
