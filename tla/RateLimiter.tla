---------------------------- MODULE RateLimiter ----------------------------
(***************************************************************************)
(* One ipRateLimiter (internal/handlers/middleware.go): a token bucket per *)
(* client address in a map that is pruned on every PruneEvery-th request.  *)
(*                                                                         *)
(* The middleware reads the clock, then waits for l.mu: a request is       *)
(* served with a stamp that may be up to Delay ticks old, and requests may *)
(* be served in another order than that of their stamps.  A token is       *)
(* earned Rate times a tick; `tokens` may be negative, after a stamp that  *)
(* is older than the bucket's.                                             *)
(***************************************************************************)
EXTENDS Clock

CONSTANTS
  Rate,        \* RequestsPerSecond, in tokens per tick
  Burst,
  EntryTTL,    \* in ticks
  PruneEvery   \* 256

ASSUME LimiterConstants ==
  /\ Rate \in Nat \ {0}
  /\ Burst \in Nat \ {0}
  /\ EntryTTL \in Nat
  /\ PruneEvery \in Nat \ {0}

\* A bucket that is old enough to be pruned has filled up again.  The code
\* does not enforce it; its defaults satisfy it many times over.
ASSUME BucketsOutlastTheirBurst == Burst + 2 * Delay * Rate <= EntryTTL * Rate

VARIABLES
  known,   \* the keys of l.buckets
  tokens,  \* bucket.tokens
  last,    \* bucket.last, which bucket.lastSeen always equals
  hits,    \* l.hits, of which only the remainder matters
  served   \* history: served[k][t] requests of k stamped t or later were let in

limiterVars == <<known, tokens, last, hits, served>>

Time == 0..Horizon

LimiterTypeOK ==
  /\ known \in SUBSET Key
  /\ tokens \in [Key -> Int]
  /\ last \in [Key -> Time]
  /\ hits \in 0..(PruneEvery - 1)
  /\ served \in [Key -> [Time -> Nat]]

LimiterInit ==
  /\ known = {}
  /\ tokens = [k \in Key |-> 0]
  /\ last = [k \in Key |-> 0]
  /\ hits = 0
  /\ served = [k \in Key |-> [t \in Time |-> 0]]

-----------------------------------------------------------------------------
\* Mutant of Pruned: what was not used for a tick is dropped.
PrunedEarly(s) ==
  IF (hits + 1) % PruneEvery = 0 THEN {k \in known : last[k] < s} ELSE {}

\* The buckets that prune drops in a request's turn, before it looks up its own.
Pruned(s) ==
  IF (hits + 1) % PruneEvery = 0
  THEN {k \in known : last[k] < s - EntryTTL}
  ELSE {}

\* What k's bucket holds at s, if it has one.
Refilled(k, s) ==
  LET earned == tokens[k] + (s - last[k]) * Rate
  IN IF earned < Burst THEN earned ELSE Burst

Count(k, s) ==
  served' = [served EXCEPT ![k] = [t \in Time |-> IF t <= s THEN @[t] + 1 ELSE @[t]]]

\* allow, for a request of k with stamp s, that lets it in ...
Admit(k, s) ==
  /\ hits' = (hits + 1) % PruneEvery
  /\ known' = (known \ Pruned(s)) \cup {k}
  /\ last' = [last EXCEPT ![k] = s]
  /\ \/ /\ k \notin known \ Pruned(s)
        /\ tokens' = [tokens EXCEPT ![k] = Burst - 1]
     \/ /\ k \in known \ Pruned(s)
        /\ Refilled(k, s) >= 1
        /\ tokens' = [tokens EXCEPT ![k] = Refilled(k, s) - 1]
  /\ Count(k, s)

\* ... and that answers 429: the bucket is brought up to date all the same.
Refuse(k, s) ==
  /\ hits' = (hits + 1) % PruneEvery
  /\ known' = known \ Pruned(s)
  /\ last' = [last EXCEPT ![k] = s]
  /\ k \in known \ Pruned(s)
  /\ Refilled(k, s) < 1
  /\ tokens' = [tokens EXCEPT ![k] = Refilled(k, s)]
  /\ UNCHANGED served

Stamps == {s \in Time : now - Delay <= s /\ s <= now}

LimiterNext ==
  \/ \E k \in Key, s \in Stamps : (Admit(k, s) \/ Refuse(k, s)) /\ UNCHANGED now
  \/ Tick /\ UNCHANGED limiterVars

LimiterSpec ==
  now = 0 /\ LimiterInit /\ [][LimiterNext]_<<now, limiterVars>>

-----------------------------------------------------------------------------
\* Since any moment, an address was let in at most Burst times and Rate times
\* a tick: neither pruning its bucket nor serving requests out of order gives
\* tokens away (allow, prune).
RateKept ==
  \A k \in Key : \A t \in 0..now : served[k][t] <= Burst + (now - t) * Rate
=============================================================================
