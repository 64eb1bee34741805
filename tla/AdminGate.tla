----------------------------- MODULE AdminGate -----------------------------
(***************************************************************************)
(* The way of an admin request through the middlewares that main.go puts   *)
(* before the admin handlers: RealIP, the rate limiter of the admin group  *)
(* and BasicAuth with its lockout.  Each middleware locks its own table    *)
(* for its own call only; between two calls, and above all while bcrypt    *)
(* compares the password, other requests of the same address get their     *)
(* turns.  What is checked is that the per-address promises survive that.  *)
(***************************************************************************)
EXTENDS RateLimiter, AuthLockout, RealIP

CONSTANTS
  Request,  \* bound: requests that are under way at a time
  Setups    \* the configurations to look at, by what they switch on

Guard == {"limiter", "lockout"}  \* RATE_LIMIT_ENABLED, ADMIN_AUTH_MAX_FAILS > 0

ASSUME GateConstants ==
  /\ Key = Address
  /\ IsFiniteSet(Request)
  /\ Setups \subseteq SUBSET Guard

VARIABLES
  setup,   \* the guards this server has
  stage,   \* how far the request has come
  sender,  \* r.RemoteAddr after RealIP, the key of both tables
  origin,  \* who really sent it
  stamp,   \* time.Now() as the rate limiter's middleware, then fail, read it
  login    \* the credentials it carries

requestVars == <<stage, sender, origin, stamp, login>>
vars == <<now, setup, limiterVars, lockoutVars, requestVars>>

Login == {"none", "wrong", "right"}

\* The headers a client may send by itself, and the proxies on the way.
Own == {<<>>} \cup {<<a>> : a \in Address \cup {Junk}}
Path == {<<>>} \cup {<<p>> : p \in Proxy}

TypeOK ==
  /\ now \in 0..Horizon
  /\ setup \in Setups
  /\ LimiterTypeOK
  /\ LockoutTypeOK
  /\ stage \in [Request -> {"idle", "arrived", "limited", "comparing", "failed"}]
  /\ sender \in [Request -> Address]
  /\ origin \in [Request -> Address]
  /\ stamp \in [Request -> 0..Horizon]
  /\ login \in [Request -> Login]

Init ==
  /\ now = 0
  /\ setup \in Setups
  /\ LimiterInit
  /\ LockoutInit
  /\ stage = [r \in Request |-> "idle"]
  /\ \E a \in Client : sender = [r \in Request |-> a] /\ origin = [r \in Request |-> a]
  /\ stamp = [r \in Request |-> 0]
  /\ login = [r \in Request |-> "none"]

-----------------------------------------------------------------------------
\* Mutant of Arrive: time.Now() was read when the middleware was set up.
ArriveUnstamped(r) ==
  /\ stage[r] = "idle"
  /\ \E a \in Address, own \in Own, path \in Path, l \in Login :
       /\ origin' = [origin EXCEPT ![r] = a]
       /\ sender' = [sender EXCEPT ![r] = Sender(Peer(a, path), Hops(a, own, path))]
       /\ login' = [login EXCEPT ![r] = l]
  /\ stage' = [stage EXCEPT ![r] = "arrived"]
  /\ UNCHANGED <<now, setup, limiterVars, lockoutVars, stamp>>

\* RealIP, and the argument time.Now() of the rate limiter's middleware.
Arrive(r) ==
  /\ stage[r] = "idle"
  /\ \E a \in Address, own \in Own, path \in Path, l \in Login :
       /\ origin' = [origin EXCEPT ![r] = a]
       /\ sender' = [sender EXCEPT ![r] = Sender(Peer(a, path), Hops(a, own, path))]
       /\ login' = [login EXCEPT ![r] = l]
  /\ stage' = [stage EXCEPT ![r] = "arrived"]
  /\ stamp' = [stamp EXCEPT ![r] = now]
  /\ UNCHANGED <<now, setup, limiterVars, lockoutVars>>

Goes(r, s) ==
  /\ stage' = [stage EXCEPT ![r] = s]
  /\ UNCHANGED <<now, setup, sender, origin, stamp, login>>

\* NewIPRateLimiter's handler, once it has l.mu.
LimitPasses(r) ==
  /\ stage[r] = "arrived"
  /\ IF "limiter" \in setup THEN Admit(sender[r], stamp[r]) ELSE UNCHANGED limiterVars
  /\ Goes(r, "limited")
  /\ UNCHANGED lockoutVars

LimitRefuses(r) ==
  /\ stage[r] = "arrived"
  /\ "limiter" \in setup
  /\ Refuse(sender[r], stamp[r])
  /\ Goes(r, "idle")
  /\ UNCHANGED lockoutVars

\* BasicAuth up to the comparison: 429 for a blocked address, and 401 for a
\* request without credentials, which is no failed attempt.
TurnedAway(r) ==
  /\ stage[r] = "limited"
  /\ Blocked(sender[r]) \/ login[r] = "none"
  /\ Goes(r, "idle")
  /\ UNCHANGED <<limiterVars, lockoutVars>>

\* Mutant of Compare: whoever is blocked is let through to the comparison.
CompareAnyway(r) ==
  /\ stage[r] = "limited"
  /\ login[r] # "none"
  /\ Goes(r, "comparing")
  /\ UNCHANGED <<limiterVars, lockoutVars>>

Compare(r) ==
  /\ stage[r] = "limited"
  /\ ~Blocked(sender[r])
  /\ login[r] # "none"
  /\ Goes(r, "comparing")
  /\ UNCHANGED <<limiterVars, lockoutVars>>

\* BasicAuth after the comparison: fail reads the clock, if it is to do anything ...
LoginFails(r) ==
  /\ stage[r] = "comparing"
  /\ login[r] = "wrong"
  /\ stage' = [stage EXCEPT ![r] = IF "lockout" \in setup THEN "failed" ELSE "idle"]
  /\ stamp' = [stamp EXCEPT ![r] = now]
  /\ UNCHANGED <<now, setup, sender, origin, login, limiterVars, lockoutVars>>

\* ... and then takes l.mu.
FailCounts(r) ==
  /\ stage[r] = "failed"
  /\ Fail(sender[r], stamp[r])
  /\ Goes(r, "idle")
  /\ UNCHANGED limiterVars

LoginSucceeds(r) ==
  /\ stage[r] = "comparing"
  /\ login[r] = "right"
  /\ IF "lockout" \in setup THEN Reset(sender[r]) ELSE UNCHANGED lockoutVars
  /\ Goes(r, "idle")
  /\ UNCHANGED limiterVars

\* It has a stamp, and waits for a mutex.
Waits(r) == stage[r] = "failed" \/ (stage[r] = "arrived" /\ "limiter" \in setup)

\* Time passes; a stamped request gets its mutex within Delay ticks.
Pass ==
  /\ \A r \in Request : Waits(r) => now < stamp[r] + Delay
  /\ Tick
  /\ UNCHANGED <<setup, limiterVars, lockoutVars, requestVars>>

Next ==
  \/ Pass
  \/ \E r \in Request :
       \/ Arrive(r) \/ LimitPasses(r) \/ LimitRefuses(r)
       \/ TurnedAway(r) \/ Compare(r) \/ LoginFails(r) \/ FailCounts(r) \/ LoginSucceeds(r)

Spec == Init /\ [][Next]_vars

-----------------------------------------------------------------------------
\* RateKept, from RateLimiter, holds here for requests as they really arrive:
\* LimiterSpec, of which it is proved, is what the admin group's limiter does.

\* A request of a client outside the trusted networks counts for that client,
\* whatever it put into the header and whether or not it came by a proxy
\* (RealIP, forwardedClient).
SenderIsOrigin ==
  \A r \in Request : stage[r] # "idle" /\ origin[r] \in Client => sender[r] = origin[r]

\* What of a Duration is left when failures are counted as late as can be, with
\* stamps that are Delay old.
Window == Duration - Delay

\* In any window, an address fails at most MaxFails times, and once more for
\* every other request that was let through to the comparison before the lock:
\* neither failures that are counted out of order, nor the pruning of the table,
\* nor a lock that runs out starts a second count (blocked, fail, and BasicAuth
\* between them).
FailuresBounded ==
  \A k \in Key : \A t \in 0..now :
    t > now - Window => wrong[k][t] <= MaxFails + Cardinality(Request) - 1

\* Whoever was locked out stays so for a window, but for a login that succeeds:
\* late failures set e.until and e.last back by no more than they are late, and
\* fail's pruning does not forget the lock (fail, blocked).
LockLasts ==
  \A k \in Key : \A t \in locks[k] : now < t + Window => Blocked(k)
=============================================================================
