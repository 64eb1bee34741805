-------------------------- MODULE AdminGateProofs --------------------------
(***************************************************************************)
(* That the promises of the gate hold for any addresses, proxies, limits,  *)
(* delays and numbers of requests.                                         *)
(*                                                                         *)
(* The rate: a bucket accounts for every request that was let in since any *)
(* moment; what is forgotten with a pruned bucket had been earned back.    *)
(* The lockout: an entry counts the failures of its window, and those who  *)
(* are past the check when a lock falls can be the only ones to fail after *)
(* that.                                                                   *)
(***************************************************************************)
EXTENDS AdminGate, FiniteSetTheorems, SequenceTheorems, TLAPS

\* What k's bucket, or the lack of one, tells of the requests of k let in.
Accounts(k) ==
  IF k \in known
  THEN /\ tokens[k] + Delay * Rate >= 0
       /\ tokens[k] + (now - last[k]) * Rate >= 0
       /\ \A a \in Time :
            served[k][a] > 0 => served[k][a] <= Burst + (last[k] - a) * Rate - tokens[k]
  ELSE \A a \in Time : served[k][a] > 0 => served[k][a] <= (now - Delay - a) * Rate

Balanced == now \in Time /\ LimiterTypeOK /\ \A k \in Key : Accounts(k)

-----------------------------------------------------------------------------
\* Products with the rate, which the solver is to take as unknowns.
LEMMA RateTimes ==
  ASSUME NEW x \in Int, NEW y \in Int
  PROVE  /\ x * Rate \in Int
         /\ (x - y) * Rate = x * Rate - y * Rate
         /\ x <= y => x * Rate <= y * Rate
<1>1. Rate \in Nat /\ Rate > 0
  BY LimiterConstants, SMT DEF LimiterConstants
<1>2. QED
  BY <1>1, LimiterConstants, SMT DEF LimiterConstants

LEMMA Constants ==
  /\ Rate \in Nat /\ Burst \in Nat /\ Burst >= 1 /\ EntryTTL \in Nat
  /\ PruneEvery \in Nat /\ PruneEvery >= 1 /\ Delay \in Nat /\ Horizon \in Nat
  /\ Delay * Rate \in Nat
  /\ EntryTTL * Rate \in Nat
  /\ Burst + Delay * Rate + Delay * Rate <= EntryTTL * Rate
<1>1. Rate \in Nat /\ Delay \in Nat /\ EntryTTL \in Nat /\ Burst \in Nat
  BY LimiterConstants, ClockConstants, SMT DEF LimiterConstants, ClockConstants
<1>2. Delay * Rate \in Nat /\ EntryTTL * Rate \in Nat
  BY <1>1, SMT
<1>3. 2 * Delay * Rate = Delay * Rate + Delay * Rate
  BY <1>1, SMT
<1>4. Burst + Delay * Rate + Delay * Rate <= EntryTTL * Rate
  BY <1>1, <1>2, <1>3, BucketsOutlastTheirBurst, SMT
<1>5. QED
  BY <1>2, <1>4, LimiterConstants, ClockConstants, SMT DEF LimiterConstants, ClockConstants

\* What a refill gives is at most a full bucket and at most what was earned.
LEMMA RefilledBounds ==
  ASSUME LimiterTypeOK, NEW k \in Key, NEW s \in Time
  PROVE  /\ Refilled(k, s) \in Int
         /\ Refilled(k, s) <= Burst
         /\ Refilled(k, s) <= tokens[k] + s * Rate - last[k] * Rate
         /\ \/ Refilled(k, s) = Burst
            \/ Refilled(k, s) = tokens[k] + s * Rate - last[k] * Rate
<1>1. tokens[k] \in Int /\ last[k] \in Int /\ s \in Int
  BY Constants, SMT DEF LimiterTypeOK, Time
<1>2. /\ s * Rate \in Int /\ last[k] * Rate \in Int
      /\ (s - last[k]) * Rate = s * Rate - last[k] * Rate
  BY <1>1, RateTimes
<1>3. QED
  BY <1>1, <1>2, Constants, SMT DEF Refilled

-----------------------------------------------------------------------------
\* The state stays well-formed.
LEMMA TypeStep ==
  ASSUME now \in Time, LimiterTypeOK, LimiterNext
  PROVE  now' \in Time /\ LimiterTypeOK'
<1>1. CASE Tick /\ UNCHANGED limiterVars
  BY <1>1, Constants, SMT DEF Tick, Time, limiterVars, LimiterTypeOK
<1>2. ASSUME NEW k \in Key, NEW s \in Stamps, Admit(k, s) \/ Refuse(k, s), UNCHANGED now
      PROVE  now' \in Time /\ LimiterTypeOK'
  <2>1. s \in Time /\ Refilled(k, s) \in Int
    BY RefilledBounds DEF Stamps
  <2>2. (hits + 1) % PruneEvery \in 0..(PruneEvery - 1)
    BY Constants, SMT DEF LimiterTypeOK
  <2>3. known' \in SUBSET Key /\ hits' \in 0..(PruneEvery - 1)
    BY <1>2, <2>2 DEF Admit, Refuse, LimiterTypeOK
  <2>4. last' \in [Key -> Time]
    BY <1>2, <2>1 DEF Admit, Refuse, LimiterTypeOK
  <2>5. tokens' \in [Key -> Int]
    <3>1. CASE tokens' = [tokens EXCEPT ![k] = Burst - 1]
      BY <3>1, Constants, SMT DEF LimiterTypeOK
    <3>2. CASE tokens' = [tokens EXCEPT ![k] = Refilled(k, s) - 1]
      BY <3>2, <2>1, SMT DEF LimiterTypeOK
    <3>3. CASE tokens' = [tokens EXCEPT ![k] = Refilled(k, s)]
      BY <3>3, <2>1, SMT DEF LimiterTypeOK
    <3>4. QED
      BY <1>2, <3>1, <3>2, <3>3 DEF Admit, Refuse
  <2>6. served' \in [Key -> [Time -> Nat]]
    <3>1. CASE UNCHANGED served
      BY <3>1 DEF LimiterTypeOK
    <3>2. CASE Count(k, s)
      <4>1. [t \in Time |-> IF t <= s THEN served[k][t] + 1 ELSE served[k][t]] \in [Time -> Nat]
        BY SMT DEF LimiterTypeOK
      <4>2. QED
        BY <3>2, <4>1 DEF Count, LimiterTypeOK
    <3>3. QED
      BY <1>2, <3>1, <3>2 DEF Admit, Refuse
  <2>7. QED
    BY <1>2, <2>3, <2>4, <2>5, <2>6 DEF LimiterTypeOK
<1>3. QED
  BY <1>1, <1>2 DEF LimiterNext
-----------------------------------------------------------------------------
\* Whoever has no bucket after pruning has earned back all it was given: a
\* bucket that is old enough to be pruned accounts for no more.
LEMMA EarnedBack ==
  ASSUME Balanced, NEW j \in Key, NEW s \in Stamps, j \notin known \ Pruned(s),
         NEW a \in Time, served[j][a] > 0
  PROVE  served[j][a] <= now * Rate - Delay * Rate - a * Rate
<1>1. /\ now \in Int /\ s \in Int /\ a \in Int /\ s <= now
      /\ last[j] \in Int /\ tokens[j] \in Int /\ served[j][a] \in Nat
  <2>1. now \in Time /\ LimiterTypeOK
    BY DEF Balanced
  <2>2. now \in Int /\ s \in Int /\ a \in Int /\ s <= now
    BY <2>1, SMT DEF Stamps, Time
  <2>3. last[j] \in Time /\ tokens[j] \in Int /\ served[j] \in [Time -> Nat]
    BY <2>1 DEF LimiterTypeOK
  <2>4. last[j] \in Int
    BY <2>3, SMT DEF Time
  <2>5. served[j][a] \in Nat
    BY <2>3
  <2>6. QED
    BY <2>2, <2>3, <2>4, <2>5
<1>2. /\ now * Rate \in Int /\ a * Rate \in Int /\ last[j] * Rate \in Int
      /\ (last[j] - a) * Rate = last[j] * Rate - a * Rate
  BY <1>1, RateTimes
<1>3. Accounts(j)
  BY DEF Balanced
<1>4. CASE j \notin known
  <2>1. now - Delay \in Int
    BY <1>1, Constants, SMT
  <2>2. (now - Delay - a) * Rate = (now - Delay) * Rate - a * Rate
    BY <1>1, <2>1, RateTimes
  <2>3. (now - Delay) * Rate = now * Rate - Delay * Rate
    BY <1>1, Constants, RateTimes, SMT
  <2>4. served[j][a] <= (now - Delay - a) * Rate
    BY <1>3, <1>4 DEF Accounts
  <2>5. QED
    BY <2>2, <2>3, <2>4
<1>5. CASE j \in known
  <2>1. last[j] < s - EntryTTL
    BY <1>5 DEF Pruned
  <2>2. last[j] <= now - EntryTTL /\ now - EntryTTL \in Int
    BY <1>1, <2>1, Constants, SMT
  <2>3. last[j] * Rate <= (now - EntryTTL) * Rate
    BY <1>1, <2>2, RateTimes
  <2>4. (now - EntryTTL) * Rate = now * Rate - EntryTTL * Rate
    BY <1>1, Constants, RateTimes, SMT
  <2>5. /\ tokens[j] + Delay * Rate >= 0
        /\ served[j][a] <= Burst + (last[j] - a) * Rate - tokens[j]
    BY <1>3, <1>5 DEF Accounts
  <2>6. QED
    BY <1>1, <1>2, <2>3, <2>4, <2>5, Constants, SMT
<1>6. QED
  BY <1>4, <1>5

\* An address that had no turn keeps its account, pruned or not.
LEMMA OthersAccounts ==
  ASSUME Balanced, NEW j \in Key, NEW s \in Stamps, now' = now,
         j \in known' <=> j \in known \ Pruned(s),
         tokens'[j] = tokens[j], last'[j] = last[j], served'[j] = served[j]
  PROVE  Accounts(j)'
<1>1. CASE j \in known \ Pruned(s)
  BY <1>1 DEF Accounts, Balanced
<1>2. CASE j \notin known \ Pruned(s)
  <2>1. ASSUME NEW a \in Time, served'[j][a] > 0
        PROVE  served'[j][a] <= (now' - Delay - a) * Rate
    <3>1. now \in Int /\ a \in Int /\ now - Delay \in Int /\ Delay \in Int
      BY Constants, SMT DEF Balanced, Time
    <3>2. (now - Delay - a) * Rate = now * Rate - Delay * Rate - a * Rate
      BY <3>1, RateTimes, SMT
    <3>3. served[j][a] <= now * Rate - Delay * Rate - a * Rate
      BY <1>2, <2>1, EarnedBack
    <3>4. QED
      BY <3>2, <3>3
  <2>2. QED
    BY <1>2, <2>1 DEF Accounts
<1>3. QED
  BY <1>1, <1>2

\* A request that is let in is paid for.
LEMMA AdmitAccounts ==
  ASSUME Balanced, NEW k \in Key, NEW s \in Stamps, Admit(k, s), now' = now
  PROVE  Accounts(k)'
<1>1. /\ now \in Int /\ s \in Int /\ s \in Time /\ s <= now /\ s >= now - Delay
      /\ last[k] \in Int /\ tokens[k] \in Int
      /\ last'[k] = s /\ k \in known'
  BY SMT DEF Balanced, LimiterTypeOK, Stamps, Time, Admit
<1>2. /\ now * Rate \in Int /\ s * Rate \in Int /\ last[k] * Rate \in Int
      /\ s * Rate <= now * Rate
      /\ (now - s) * Rate = now * Rate - s * Rate
      /\ (now - last[k]) * Rate = now * Rate - last[k] * Rate
  BY <1>1, RateTimes
<1>3. ASSUME NEW a \in Time
      PROVE  /\ served[k][a] \in Nat
             /\ served'[k][a] = IF a <= s THEN served[k][a] + 1 ELSE served[k][a]
  BY SMT DEF Admit, Count, Balanced, LimiterTypeOK
<1>4. ASSUME NEW a \in Time
      PROVE  /\ a \in Int /\ a * Rate \in Int
             /\ (s - a) * Rate = s * Rate - a * Rate
             /\ (last[k] - a) * Rate = last[k] * Rate - a * Rate
             /\ a <= s => a * Rate <= s * Rate
             /\ s <= a => s * Rate <= a * Rate
  <2>1. a \in Int
    BY SMT DEF Time
  <2>2. QED
    BY <1>1, <2>1, RateTimes
<1>5. CASE k \notin known \ Pruned(s)
  <2>1. tokens'[k] = Burst - 1
    BY <1>5 DEF Admit, Balanced, LimiterTypeOK
  <2>2. ASSUME NEW a \in Time, served'[k][a] > 0
        PROVE  served'[k][a] <= Burst + (last'[k] - a) * Rate - tokens'[k]
    <3>1. served[k][a] > 0 => served[k][a] <= now * Rate - Delay * Rate - a * Rate
      BY <1>5, EarnedBack
    <3>2. now * Rate - Delay * Rate <= s * Rate
      <4>1. (now - Delay) * Rate = now * Rate - Delay * Rate
        BY <1>1, Constants, RateTimes, SMT
      <4>2. (now - Delay) * Rate <= s * Rate
        BY <1>1, Constants, RateTimes, SMT
      <4>3. QED
        BY <4>1, <4>2
    <3>3. a \in Int /\ a * Rate \in Int /\ (s - a) * Rate = s * Rate - a * Rate
      BY <1>4
    <3>4. CASE served[k][a] = 0
      <4>1. a <= s /\ served'[k][a] = 1
        BY <1>3, <2>2, <3>4
      <4>2. a * Rate <= s * Rate
        BY <1>4, <4>1
      <4>3. QED
        BY <1>1, <1>2, <2>1, <3>3, <4>1, <4>2, Constants, SMT
    <3>5. CASE served[k][a] > 0
      <4>1. served[k][a] \in Nat /\ served[k][a] <= s * Rate - a * Rate
        <5>1. served[k][a] \in Nat /\ served[k][a] <= now * Rate - Delay * Rate - a * Rate
          BY <1>3, <3>1, <3>5
        <5>2. now * Rate - Delay * Rate \in Int
          BY <1>2, Constants, SMT
        <5>3. QED
          BY <1>2, <3>2, <3>3, <5>1, <5>2, SMT
      <4>2. a <= s
        <5>1. ~ (s * Rate <= a * Rate)
          BY <1>2, <3>3, <3>5, <4>1, SMT
        <5>2. ~ (s <= a)
          BY <1>4, <5>1
        <5>3. QED
          BY <1>1, <3>3, <5>2, SMT
      <4>3. served'[k][a] = served[k][a] + 1
        BY <1>3, <4>2
      <4>4. QED
        BY <1>1, <1>2, <2>1, <3>3, <4>1, <4>3, Constants, SMT
    <3>6. QED
      BY <1>3, <3>4, <3>5, SMT
  <2>3. QED
    BY <1>1, <1>2, <2>1, <2>2, Constants, SMT DEF Accounts
<1>6. CASE k \in known \ Pruned(s)
  <2>1. tokens'[k] = Refilled(k, s) - 1 /\ Refilled(k, s) >= 1
    BY <1>6 DEF Admit, Balanced, LimiterTypeOK
  <2>2. /\ Refilled(k, s) \in Int
        /\ Refilled(k, s) <= Burst
        /\ Refilled(k, s) <= tokens[k] + s * Rate - last[k] * Rate
    BY <1>1, RefilledBounds DEF Balanced
  <2>3. ASSUME NEW a \in Time, served'[k][a] > 0
        PROVE  served'[k][a] <= Burst + (last'[k] - a) * Rate - tokens'[k]
    <3>1. /\ a \in Int /\ a * Rate \in Int
          /\ (s - a) * Rate = s * Rate - a * Rate
          /\ (last[k] - a) * Rate = last[k] * Rate - a * Rate
      BY <1>4
    <3>2. CASE served[k][a] = 0
      <4>1. a <= s /\ served'[k][a] = 1
        BY <1>3, <2>3, <3>2
      <4>2. a * Rate <= s * Rate
        BY <1>4, <4>1
      <4>3. QED
        BY <1>1, <1>2, <2>1, <2>2, <3>1, <4>1, <4>2, Constants, SMT
    <3>3. CASE served[k][a] > 0
      <4>1. served[k][a] <= Burst + (last[k] - a) * Rate - tokens[k]
        BY <1>6, <3>3 DEF Balanced, Accounts
      <4>2. served[k][a] \in Nat /\ served'[k][a] \in Nat /\ served'[k][a] <= served[k][a] + 1
        BY <1>3, SMT
      <4>3. QED
        BY <1>1, <1>2, <2>1, <2>2, <3>1, <4>1, <4>2, Constants, SMT
    <3>4. QED
      BY <1>3, <3>2, <3>3, SMT
  <2>4. QED
    BY <1>1, <1>2, <2>1, <2>2, <2>3, Constants, SMT DEF Accounts
<1>7. QED
  BY <1>5, <1>6

\* A request that is refused brings its bucket up to date, and no more.
LEMMA RefuseAccounts ==
  ASSUME Balanced, NEW k \in Key, NEW s \in Stamps, Refuse(k, s), now' = now
  PROVE  Accounts(k)'
<1>1. /\ now \in Int /\ s \in Int /\ s \in Time /\ s <= now /\ s >= now - Delay
      /\ last[k] \in Int /\ tokens[k] \in Int
      /\ last'[k] = s /\ k \in known /\ k \in known'
  BY SMT DEF Balanced, LimiterTypeOK, Stamps, Time, Refuse
<1>2. /\ now * Rate \in Int /\ s * Rate \in Int /\ last[k] * Rate \in Int
      /\ s * Rate <= now * Rate
      /\ (now - s) * Rate = now * Rate - s * Rate
      /\ (now - last[k]) * Rate = now * Rate - last[k] * Rate
  BY <1>1, RateTimes
<1>3. now * Rate - Delay * Rate <= s * Rate
  <2>1. (now - Delay) * Rate = now * Rate - Delay * Rate
    BY <1>1, Constants, RateTimes, SMT
  <2>2. (now - Delay) * Rate <= s * Rate
    BY <1>1, Constants, RateTimes, SMT
  <2>3. QED
    BY <2>1, <2>2
<1>4. tokens'[k] = Refilled(k, s)
  BY DEF Refuse, Balanced, LimiterTypeOK
<1>5. /\ Refilled(k, s) \in Int
      /\ Refilled(k, s) <= Burst
      /\ Refilled(k, s) <= tokens[k] + s * Rate - last[k] * Rate
      /\ \/ Refilled(k, s) = Burst
         \/ Refilled(k, s) = tokens[k] + s * Rate - last[k] * Rate
  BY <1>1, RefilledBounds DEF Balanced
<1>6. tokens[k] + (now - last[k]) * Rate >= 0
  BY <1>1 DEF Balanced, Accounts
<1>7. /\ tokens'[k] + (now - last'[k]) * Rate >= 0
      /\ tokens'[k] + Delay * Rate >= 0
  BY <1>1, <1>2, <1>3, <1>4, <1>5, <1>6, Constants, SMT
<1>8. ASSUME NEW a \in Time, served'[k][a] > 0
      PROVE  served'[k][a] <= Burst + (last'[k] - a) * Rate - tokens'[k]
  <2>1. a \in Int /\ served'[k][a] = served[k][a] /\ served[k][a] \in Nat
    <3>1. a \in Int
      BY SMT DEF Time
    <3>2. served'[k][a] = served[k][a] /\ served[k][a] \in Nat
      BY DEF Refuse, Balanced, LimiterTypeOK
    <3>3. QED
      BY <3>1, <3>2
  <2>2. /\ a * Rate \in Int
        /\ (s - a) * Rate = s * Rate - a * Rate
        /\ (last[k] - a) * Rate = last[k] * Rate - a * Rate
    BY <1>1, <2>1, RateTimes
  <2>3. served[k][a] <= Burst + (last[k] - a) * Rate - tokens[k]
    BY <1>1, <1>8, <2>1 DEF Balanced, Accounts
  <2>4. QED
    BY <1>1, <1>2, <1>4, <1>5, <2>1, <2>2, <2>3, Constants, SMT
<1>9. QED
  BY <1>1, <1>7, <1>8 DEF Accounts

\* Waiting earns: what was accounted for stays so.
LEMMA WaitAccounts ==
  ASSUME Balanced, NEW j \in Key, now \in Int, now' = now + 1, UNCHANGED limiterVars
  PROVE  Accounts(j)'
<1>1. Accounts(j) /\ LimiterTypeOK
  BY DEF Balanced
<1>2. last[j] \in Int /\ tokens[j] \in Int
  BY <1>1, SMT DEF LimiterTypeOK, Time
<1>3. UNCHANGED <<known, tokens, last, served>>
  BY DEF limiterVars
<1>4. CASE j \in known
  <2>1. now - last[j] \in Int /\ now' - last[j] \in Int /\ now - last[j] <= now' - last[j]
    BY <1>2, SMT
  <2>2. /\ (now - last[j]) * Rate \in Int /\ (now' - last[j]) * Rate \in Int
        /\ (now - last[j]) * Rate <= (now' - last[j]) * Rate
    BY <2>1, RateTimes
  <2>3. tokens[j] + (now' - last[j]) * Rate >= 0
    BY <1>1, <1>2, <1>4, <2>2, SMT DEF Accounts
  <2>4. QED
    BY <1>1, <1>3, <1>4, <2>3 DEF Accounts
<1>5. CASE j \notin known
  <2>1. ASSUME NEW a \in Time, served[j][a] > 0
        PROVE  served[j][a] <= (now' - Delay - a) * Rate
    <3>1. /\ a \in Int /\ now - Delay - a \in Int /\ now' - Delay - a \in Int
          /\ now - Delay - a <= now' - Delay - a
      BY Constants, SMT DEF Time
    <3>2. /\ (now - Delay - a) * Rate \in Int
          /\ (now' - Delay - a) * Rate \in Int
          /\ (now - Delay - a) * Rate <= (now' - Delay - a) * Rate
      BY <3>1, RateTimes
    <3>3. served[j][a] <= (now - Delay - a) * Rate /\ served[j][a] \in Nat
      BY <1>1, <1>5, <2>1, SMT DEF Accounts, LimiterTypeOK
    <3>4. QED
      BY <3>2, <3>3, SMT
  <2>2. QED
    BY <1>3, <1>5, <2>1 DEF Accounts
<1>6. QED
  BY <1>4, <1>5

-----------------------------------------------------------------------------
LEMMA Inductive ==
  ASSUME Balanced, [LimiterNext]_<<now, limiterVars>>
  PROVE  Balanced'
<1>1. CASE UNCHANGED <<now, limiterVars>>
  BY <1>1 DEF Balanced, LimiterTypeOK, Accounts, limiterVars
<1>2. CASE LimiterNext
  <2>1. now' \in Time /\ LimiterTypeOK'
    BY <1>2, TypeStep DEF Balanced
  <2>2. ASSUME NEW j \in Key PROVE Accounts(j)'
    <3>1. ASSUME NEW k \in Key, NEW s \in Stamps, Admit(k, s), UNCHANGED now
          PROVE  Accounts(j)'
      <4>1. CASE j = k
        BY <3>1, <4>1, AdmitAccounts
      <4>2. CASE j # k
        BY <3>1, <4>2, OthersAccounts DEF Admit, Count, Balanced, LimiterTypeOK
      <4>3. QED
        BY <4>1, <4>2
    <3>2. ASSUME NEW k \in Key, NEW s \in Stamps, Refuse(k, s), UNCHANGED now
          PROVE  Accounts(j)'
      <4>1. CASE j = k
        BY <3>2, <4>1, RefuseAccounts
      <4>2. CASE j # k
        BY <3>2, <4>2, OthersAccounts DEF Refuse, Balanced, LimiterTypeOK
      <4>3. QED
        BY <4>1, <4>2
    <3>3. CASE Tick /\ UNCHANGED limiterVars
      <4>1. now \in Int
        BY SMT DEF Balanced, Time
      <4>2. QED
        BY <3>3, <4>1, WaitAccounts DEF Tick
    <3>4. QED
      BY <1>2, <3>1, <3>2, <3>3 DEF LimiterNext
  <2>3. QED
    BY <2>1, <2>2 DEF Balanced
<1>3. QED
  BY <1>1, <1>2

LEMMA Starts ==
  ASSUME now = 0, LimiterInit
  PROVE  Balanced
<1>1. LimiterTypeOK /\ now \in Time
  BY Constants, SMT DEF LimiterInit, LimiterTypeOK, Time
<1>2. ASSUME NEW k \in Key PROVE Accounts(k)
  BY SMT DEF LimiterInit, Accounts
<1>3. QED
  BY <1>1, <1>2 DEF Balanced

LEMMA Suffices ==
  ASSUME Balanced
  PROVE  RateKept
<1> SUFFICES ASSUME NEW k \in Key, NEW t \in 0..now
             PROVE  served[k][t] <= Burst + (now - t) * Rate
  BY DEF RateKept
<1>1. /\ now \in Int /\ t \in Int /\ t \in Time /\ t <= now
      /\ LimiterTypeOK /\ Accounts(k)
  <2>1. now \in Time /\ LimiterTypeOK /\ Accounts(k)
    BY DEF Balanced
  <2>2. QED
    BY <2>1, Constants, SMT DEF Time
<1>2. last[k] \in Int /\ tokens[k] \in Int /\ served[k][t] \in Nat
  <2>1. last[k] \in Time /\ tokens[k] \in Int /\ served[k][t] \in Nat
    BY <1>1 DEF LimiterTypeOK
  <2>2. QED
    BY <2>1, SMT DEF Time
<1>3. /\ now * Rate \in Int /\ t * Rate \in Int /\ last[k] * Rate \in Int
      /\ t * Rate <= now * Rate
      /\ (now - t) * Rate = now * Rate - t * Rate
      /\ (last[k] - t) * Rate = last[k] * Rate - t * Rate
      /\ (now - last[k]) * Rate = now * Rate - last[k] * Rate
  BY <1>1, <1>2, RateTimes
<1>4. CASE served[k][t] = 0
  BY <1>3, <1>4, Constants, SMT
<1>5. CASE served[k][t] > 0 /\ k \in known
  <2>1. /\ tokens[k] + (now - last[k]) * Rate >= 0
        /\ served[k][t] <= Burst + (last[k] - t) * Rate - tokens[k]
    BY <1>1, <1>5 DEF Accounts
  <2>2. QED
    BY <1>2, <1>3, <2>1, Constants, SMT
<1>6. CASE served[k][t] > 0 /\ k \notin known
  <2>1. served[k][t] <= (now - Delay - t) * Rate
    BY <1>1, <1>6 DEF Accounts
  <2>2. (now - Delay - t) * Rate <= (now - t) * Rate
    BY <1>1, Constants, RateTimes, SMT
  <2>3. (now - Delay - t) * Rate \in Int /\ (now - t) * Rate \in Int
    BY <1>1, Constants, RateTimes, SMT
  <2>4. QED
    BY <1>2, <2>1, <2>2, <2>3, Constants, SMT
<1>7. QED
  BY <1>2, <1>4, <1>5, <1>6, SMT

\* However the requests of however many addresses are interleaved and delayed,
\* and whatever is pruned meanwhile, no address is let in more than Burst times
\* and Rate times a tick since any moment (NewIPRateLimiter, allow, prune).
THEOREM LimiterKeepsRate == LimiterSpec => []RateKept
<1>1. now = 0 /\ LimiterInit => Balanced
  BY Starts
<1>2. Balanced /\ [LimiterNext]_<<now, limiterVars>> => Balanced'
  BY Inductive
<1>3. Balanced => RateKept
  BY Suffices
<1>4. QED
  BY <1>1, <1>2, <1>3, PTL DEF LimiterSpec

-----------------------------------------------------------------------------
(* The invariant of the gate *)

\* A request waits for a mutex no longer than Delay.
Stamped == \A r \in Request : Waits(r) => stamp[r] <= now /\ now <= stamp[r] + Delay

\* Those that were let through, whose failure an address has still to reckon with.
Checked(k) == {r \in Request : stage[r] \in {"comparing", "failed"} /\ sender[r] = k}

\* A lock that fell within the window still holds, and keeps the entry in the map.
Locked(k) ==
  \A n \in locks[k] :
    /\ n <= now
    /\ now <= n + Window => k \in failing /\ until[k] >= n + Window /\ lastFail[k] >= n - Delay

\* No failure is in the window that is not in the entry.
Fresh(k) ==
  /\ \A t \in Time : t > now => wrong[k][t] = 0
  /\ k \notin failing => \A t \in Time : t > now - Window => wrong[k][t] = 0
  /\ k \in failing => \A t \in Time : t > lastFail[k] + Delay => wrong[k][t] = 0

\* An entry counts every failure of the window since the last lock; after a lock
\* nobody is let through to the comparison before the window has passed.
Struck(k) ==
  \A t \in Time : t > now - Window =>
    IF \E n \in locks[k] : n >= t
    THEN wrong[k][t] + Cardinality(Checked(k)) <= MaxFails + Cardinality(Request) - 1
    ELSE k \in failing => wrong[k][t] <= fails[k]

Counted(k) == Locked(k) /\ Fresh(k) /\ Struck(k)

IInv == TypeOK /\ Stamped /\ SenderIsOrigin /\ \A k \in Key : Counted(k)

-----------------------------------------------------------------------------
(* Who a request counts for *)

LEMMA NotEmpty ==
  ASSUME NEW S, NEW s \in Seq(S), Len(s) # 0
  PROVE  s # <<>>
BY EmptySeq

\* What arrives from outside the trusted networks, straight or by one proxy, counts
\* for who sent it; whatever arrives counts for somebody.
LEMMA SenderRight ==
  ASSUME NEW a \in Address, NEW own \in Own, NEW path \in Path
  PROVE  /\ Sender(Peer(a, path), Hops(a, own, path)) \in Address
         /\ a \in Client => Sender(Peer(a, path), Hops(a, own, path)) = a
<1> DEFINE hops == Hops(a, own, path)
           Entry == Address \cup {Junk}
<1>1. own \in Seq(Entry) /\ Len(own) <= 1
  <2>1. CASE own = <<>>
    <3>1. <<>> \in Seq(Entry) /\ Len(<<>>) = 0
      OBVIOUS
    <3> QED BY <2>1, <3>1
  <2>2. ASSUME NEW b \in Entry, own = <<b>>
        PROVE  own \in Seq(Entry) /\ Len(own) <= 1
    BY <2>2
  <2> QED BY <2>1, <2>2 DEF Own
<1>2. CASE path = <<>>
  <2>1. hops = own /\ Peer(a, path) = a
    BY <1>2 DEF Hops, Peer
  <2>2. hops # <<>> => Ends(hops) = {1} /\ hops[1] \in Entry
    BY <1>1, <2>1 DEF Ends
  <2>3. hops # <<>> => Max(Ends(hops)) = 1
    BY <2>2 DEF Max
  <2> HIDE DEF hops, Entry
  <2>4. Sender(a, hops) \in Address
    BY <2>2, <2>3 DEF Sender, Entry
  <2>5. a \in Client => Sender(a, hops) = a
    BY Addresses DEF Sender, Addresses
  <2> QED BY <2>1, <2>4, <2>5 DEF hops
<1>3. ASSUME NEW p \in Proxy, path = <<p>>
      PROVE  /\ Sender(Peer(a, path), hops) \in Address
             /\ a \in Client => Sender(Peer(a, path), hops) = a
  <2>1. Peer(a, path) = p /\ p \in Address
    BY <1>3 DEF Peer, Address
  <2>2. SubSeq(path, 1, Len(path) - 1) = <<>>
    BY <1>3
  <2>3. hops = own \o <<a>> \o <<>>
    BY <1>3, <2>2 DEF Hops
  <2>4. hops \in Seq(Entry) /\ Len(hops) \in {1, 2} /\ hops[Len(hops)] = a
    BY <1>1, <2>3
  <2>9. hops # <<>>
    BY <2>4, NotEmpty
  <2> HIDE DEF hops
  <2>5. /\ Ends(hops) \subseteq {1, 2} /\ 1 \in Ends(hops)
        /\ \A i \in Ends(hops) : hops[i] \in Entry /\ i <= Len(hops)
    BY <2>4 DEF Ends
  <2>6. Max(Ends(hops)) \in Ends(hops) /\ \A i \in Ends(hops) : i <= Max(Ends(hops))
    <3>1. \E x \in Ends(hops) : \A y \in Ends(hops) : x >= y
      BY <2>5
    <3> QED BY <2>5, <3>1 DEF Max
  <2>7. hops[Max(Ends(hops))] \in Entry
    BY <2>5, <2>6
  <2>8. ASSUME a \in Client
        PROVE  Max(Ends(hops)) = Len(hops) /\ a # Junk
    <3>1. a \notin Proxy /\ a # Junk
      BY <2>8, Addresses DEF Addresses
    <3>2. Len(hops) \in Ends(hops)
      BY <2>4, <3>1 DEF Ends
    <3> QED BY <2>4, <2>5, <2>6, <3>1, <3>2
  <2> QED BY <2>1, <2>4, <2>7, <2>8, <2>9 DEF Sender
<1> QED BY <1>2, <1>3 DEF Path

-----------------------------------------------------------------------------
(* The steps of the gate *)

LEMMA LockoutNumbers ==
  /\ MaxFails \in Nat /\ MaxFails > 0 /\ Duration \in Nat /\ Duration > 0
  /\ Horizon \in Nat /\ Delay \in Nat
  /\ Key = Address /\ IsFiniteSet(Request) /\ Cardinality(Request) \in Nat
BY LockoutConstants, ClockConstants, LimiterConstants, GateConstants, FS_CardinalityType
   DEF LockoutConstants, ClockConstants, LimiterConstants, GateConstants

LEMMA CheckedFinite ==
  ASSUME NEW k
  PROVE  /\ IsFiniteSet(Checked(k)) /\ Cardinality(Checked(k)) \in Nat
         /\ Cardinality(Checked(k)) <= Cardinality(Request)
BY LockoutNumbers, FS_Subset, FS_CardinalityType DEF Checked

\* The numbers of the lockout.
LEMMA LockoutTypes ==
  ASSUME LockoutTypeOK, now \in Time
  PROVE  /\ now \in Nat /\ Window = Duration - Delay /\ Window \in Int
         /\ \A t \in Time : t \in Nat
         /\ \A k \in Key : /\ lastFail[k] \in Nat /\ until[k] \in Nat
                           /\ fails[k] \in Nat /\ fails[k] <= MaxFails - 1
                           /\ \A n \in locks[k] : n \in Nat
                           /\ \A t \in Time : wrong[k][t] \in Nat
<1>1. /\ now \in Nat /\ Window = Duration - Delay /\ Window \in Int /\ \A t \in Time : t \in Nat
  BY LockoutNumbers DEF Time, Window
<1>2. \A k \in Key : lastFail[k] \in Nat /\ until[k] \in Nat /\ fails[k] \in Nat /\ fails[k] <= MaxFails - 1
  BY LockoutNumbers DEF LockoutTypeOK, Moment
<1>3. \A k \in Key : locks[k] \subseteq 0..Horizon
  BY DEF LockoutTypeOK
<1>4. \A k \in Key : \A t \in Time : wrong[k][t] \in Nat
  BY DEF LockoutTypeOK, Time
<1> QED BY <1>1, <1>2, <1>3, <1>4, LockoutNumbers

LEMMA GateStarts == Init => IInv
<1> SUFFICES ASSUME Init PROVE IInv
  OBVIOUS
<1>1. LimiterTypeOK
  BY Starts DEF Init, Balanced
<1>2. LockoutTypeOK
  BY LockoutNumbers DEF Init, LockoutInit, LockoutTypeOK, Moment
<1>3. TypeOK
  BY <1>1, <1>2, LockoutNumbers DEF Init, TypeOK, Address, Login
<1>4. Stamped /\ SenderIsOrigin
  BY DEF Init, Stamped, Waits, SenderIsOrigin
<1>5. \A k \in Key : Counted(k)
  BY DEF Init, LockoutInit, Counted, Locked, Fresh, Struck, Time
<1> QED BY <1>3, <1>4, <1>5 DEF IInv

\* A lock that fell within the window blocks.
LEMMA WindowBlocks ==
  ASSUME LockoutTypeOK, now \in Time, NEW k \in Key, Locked(k), NEW n \in locks[k], now < n + Window
  PROVE  Blocked(k)
BY LockoutTypes DEF Locked, Blocked

\* What a step of the requests leaves alone.
LEMMA CountedStays ==
  ASSUME LockoutTypeOK, now \in Time, NEW k \in Key, Counted(k), UNCHANGED <<now, lockoutVars>>,
         Checked(k)' \subseteq Checked(k) \/ ~Blocked(k)
  PROVE  Counted(k)'
<1>1. UNCHANGED <<now, failing, fails, until, lastFail, wrong, locks, Window>>
  BY DEF lockoutVars, Window
<1>2. Locked(k)' /\ Fresh(k)'
  BY <1>1 DEF Counted, Locked, Fresh
<1>3. ASSUME NEW t \in Time, t > now - Window
      PROVE  IF \E n \in locks[k] : n >= t
             THEN wrong[k][t] + Cardinality(Checked(k)') <= MaxFails + Cardinality(Request) - 1
             ELSE k \in failing => wrong[k][t] <= fails[k]
  <2>1. CASE ~\E n \in locks[k] : n >= t
    BY <1>3, <2>1 DEF Counted, Struck
  <2>2. CASE \E n \in locks[k] : n >= t
    <3>1. PICK n \in locks[k] : n >= t
      BY <2>2
    <3>2. now < n + Window
      BY <1>3, <3>1, LockoutTypes
    <3>3. Checked(k)' \subseteq Checked(k)
      BY <3>2, WindowBlocks DEF Counted
    <3>4. /\ Cardinality(Checked(k)') <= Cardinality(Checked(k))
          /\ Cardinality(Checked(k)') \in Nat /\ Cardinality(Checked(k)) \in Nat
      <4> DEFINE after == Checked(k)'
      <4>1. IsFiniteSet(Checked(k)) /\ Cardinality(Checked(k)) \in Nat /\ after \subseteq Checked(k)
        BY <3>3, CheckedFinite
      <4> HIDE DEF after
      <4>2. Cardinality(after) <= Cardinality(Checked(k)) /\ Cardinality(after) \in Nat
        BY <4>1, FS_Subset, FS_CardinalityType
      <4> QED BY <4>1, <4>2 DEF after
    <3>5. wrong[k][t] + Cardinality(Checked(k)) <= MaxFails + Cardinality(Request) - 1
      BY <1>3, <2>2 DEF Counted, Struck
    <3>6. wrong[k][t] \in Nat
      BY LockoutTypes
    <3> HIDE DEF Checked
    <3> QED BY <2>2, <3>4, <3>5, <3>6, LockoutNumbers
  <2> QED BY <2>1, <2>2
<1>4. Struck(k)'
  BY <1>1, <1>3 DEF Struck
<1> QED BY <1>2, <1>4 DEF Counted

\* What is forgotten, or too old to be counted on from, has no failure and no lock
\* in the window, however late the stamp that finds it so.
LEMMA OldIsOut ==
  ASSUME LockoutTypeOK, now \in Time, NEW k \in Key, Counted(k), k \in failing,
         NEW s \in Nat, s <= now, s - lastFail[k] > Duration
  PROVE  /\ \A t \in Time : t > now - Window => wrong[k][t] = 0
         /\ \A n \in locks[k] : ~(now <= n + Window)
<1>1. now - Window > lastFail[k] + Delay
  BY LockoutTypes, LockoutNumbers
<1>2. \A t \in Time : t > now - Window => t > lastFail[k] + Delay
  BY <1>1, LockoutTypes, LockoutNumbers
<1>3. ASSUME NEW n \in locks[k], now <= n + Window
      PROVE  FALSE
  <2>1. lastFail[k] >= n - Delay
    BY <1>3 DEF Counted, Locked
  <2> QED BY <1>1, <1>3, <2>1, LockoutTypes, LockoutNumbers
<1> QED BY <1>2, <1>3 DEF Counted, Fresh

\* Strikes counts the failures that no lock has answered for.
LEMMA StrikesCount ==
  ASSUME LockoutTypeOK, now \in Time, NEW j \in Key, Counted(j), NEW s \in Nat, s <= now
  PROVE  /\ Strikes(j, s) \in Nat /\ Strikes(j, s) <= MaxFails - 1
         /\ \A t \in Time : t > now - Window /\ (~\E n \in locks[j] : n >= t) => wrong[j][t] <= Strikes(j, s)
<1>1. Forgotten(s) \subseteq {k \in failing : s - lastFail[k] > Duration}
  BY DEF Forgotten
<1>2. Strikes(j, s) \in Nat /\ Strikes(j, s) <= MaxFails - 1
  BY LockoutTypes, LockoutNumbers DEF Strikes
<1>3. ASSUME NEW t \in Time, t > now - Window, ~\E n \in locks[j] : n >= t
      PROVE  wrong[j][t] <= Strikes(j, s)
  <2>1. CASE j \notin failing
    BY <1>2, <1>3, <2>1 DEF Counted, Fresh
  <2>2. CASE j \in failing /\ s - lastFail[j] > Duration
    BY <1>2, <1>3, <2>2, OldIsOut
  <2>3. CASE j \in failing /\ ~(s - lastFail[j] > Duration)
    <3>1. j \in failing \ Forgotten(s) /\ s - lastFail[j] <= Duration
      BY <1>1, <2>3, LockoutTypes, LockoutNumbers
    <3>2. Strikes(j, s) = fails[j]
      BY <3>1 DEF Strikes
    <3> QED BY <1>3, <2>3, <3>2 DEF Counted, Struck
  <2> QED BY <2>1, <2>2, <2>3
<1> QED BY <1>2, <1>3

\* Arithmetic, of numbers that are not to be looked into.
LEMMA OneMore ==
  ASSUME NEW w \in Int, NEW v \in Int, NEW c \in Int, NEW d \in Int, NEW m \in Int, NEW n \in Int,
         w + c <= m + n - 1, v <= w + 1, d = c - 1
  PROVE  v + d <= m + n - 1
OBVIOUS

LEMMA AddBounds ==
  ASSUME NEW w \in Int, NEW c \in Int, NEW m \in Int, NEW n \in Int, w <= m - 1, c <= n
  PROVE  w + c <= m + n - 1
OBVIOUS

\* Of another address, a failure may only take the entry out of the map.
LEMMA OthersCounted ==
  ASSUME LockoutTypeOK, now \in Time, NEW j \in Key, NEW s \in Nat, s <= now, Fail(j, s),
         NEW k \in Key \ {j}, Counted(k), UNCHANGED now, Checked(k)' = Checked(k)
  PROVE  Counted(k)'
<1>1. /\ lastFail'[k] = lastFail[k] /\ until'[k] = until[k] /\ fails'[k] = fails[k]
      /\ wrong'[k] = wrong[k] /\ locks'[k] = locks[k]
  BY DEF Fail, LockoutTypeOK
<1>2. (k \in failing' <=> k \in failing \ Forgotten(s)) /\ Window' = Window /\ now' = now
  BY DEF Fail, Window
<1>3. k \in Forgotten(s) => /\ k \in failing
                            /\ \A t \in Time : t > now - Window => wrong[k][t] = 0
                            /\ \A n \in locks[k] : ~(now <= n + Window)
  BY OldIsOut DEF Forgotten
<1>4. Locked(k)'
  BY <1>1, <1>2, <1>3 DEF Counted, Locked
<1>5. Fresh(k)'
  BY <1>1, <1>2, <1>3 DEF Counted, Fresh
<1> DEFINE after == Checked(k)'
<1>6. after = Checked(k)
  OBVIOUS
<1> HIDE DEF after
<1>7. \A t \in Time : t > now - Window =>
        IF \E n \in locks'[k] : n >= t
        THEN wrong'[k][t] + Cardinality(after) <= MaxFails + Cardinality(Request) - 1
        ELSE k \in failing' => wrong'[k][t] <= fails'[k]
  BY <1>1, <1>2, <1>6 DEF Counted, Struck
<1>8. Struck(k)'
  BY <1>2, <1>7 DEF Struck, after
<1> QED BY <1>4, <1>5, <1>8 DEF Counted

\* A failure is counted, or falls into a lock; a lock is set back by no more than the
\* failure is late.
LEMMA FailCounted ==
  ASSUME LockoutTypeOK, now \in Time, NEW k \in Key, Counted(k),
         NEW s \in Nat, s <= now, now <= s + Delay, Fail(k, s), UNCHANGED now,
         NEW r \in Checked(k), Checked(k)' = Checked(k) \ {r}
  PROVE  Counted(k)'
<1>1. /\ lastFail'[k] = s /\ k \in failing' /\ Window' = Window /\ now' = now
      /\ \A t \in Time : wrong'[k][t] = IF t <= now THEN wrong[k][t] + 1 ELSE wrong[k][t]
      /\ \/ /\ until'[k] = s + Duration /\ fails'[k] = 0
            /\ locks'[k] = locks[k] \cup {now}
         \/ /\ fails'[k] = Strikes(k, s) + 1 /\ locks'[k] = locks[k]
            /\ until'[k] = IF k \in failing \ Forgotten(s) THEN until[k] ELSE 0
  BY DEF Fail, LockoutTypeOK, Time, Window
<1>2. /\ Strikes(k, s) \in Nat /\ Strikes(k, s) <= MaxFails - 1
      /\ \A t \in Time : t > now - Window /\ (~\E n \in locks[k] : n >= t) => wrong[k][t] <= Strikes(k, s)
  BY StrikesCount
<1>3. /\ now \in Nat /\ until[k] \in Nat /\ Window = Duration - Delay /\ Window \in Int
      /\ \A n \in locks[k] : n \in Nat
      /\ \A t \in Time : t \in Nat /\ wrong[k][t] \in Nat
  BY LockoutTypes
<1>4. ASSUME NEW n \in locks'[k]
      PROVE  /\ n <= now
             /\ now <= n + Window => until'[k] >= n + Window /\ s >= n - Delay
  <2>1. n \in Nat /\ n <= now
    BY <1>1, <1>3, <1>4 DEF Counted, Locked
  <2>2. s >= n - Delay
    BY <1>3, <2>1, LockoutNumbers
  <2>3. CASE until'[k] = s + Duration
    BY <1>3, <2>1, <2>2, <2>3, LockoutNumbers
  <2>4. CASE locks'[k] = locks[k] /\ until'[k] = IF k \in failing \ Forgotten(s) THEN until[k] ELSE 0
    <3> SUFFICES ASSUME now <= n + Window PROVE until'[k] >= n + Window
      BY <2>1, <2>2
    <3>1. k \in failing /\ until[k] >= n + Window
      BY <1>4, <2>4 DEF Counted, Locked
    <3>2. k \notin Forgotten(s)
      BY <1>4, <2>4, <3>1, OldIsOut DEF Forgotten
    <3> QED BY <2>4, <3>1, <3>2
  <2> QED BY <1>1, <2>3, <2>4
<1>5. Locked(k)'
  BY <1>1, <1>4 DEF Locked
<1>6. Fresh(k)'
  <2>1. \A t \in Time : t > now => wrong'[k][t] = 0
    BY <1>1, <1>3 DEF Counted, Fresh
  <2>2. \A t \in Time : t > s + Delay => t > now
    BY <1>3, LockoutNumbers
  <2> QED BY <1>1, <2>1, <2>2 DEF Fresh
<1> DEFINE after == Checked(k)'
<1>7. /\ Cardinality(after) = Cardinality(Checked(k)) - 1
      /\ Cardinality(Checked(k)) \in Nat /\ Cardinality(Checked(k)) <= Cardinality(Request)
      /\ Cardinality(after) \in Int
  <2>1. IsFiniteSet(Checked(k)) /\ Cardinality(Checked(k)) \in Nat
        /\ Cardinality(Checked(k)) <= Cardinality(Request)
    BY CheckedFinite
  <2>2. after = Checked(k) \ {r}
    OBVIOUS
  <2> HIDE DEF after
  <2>3. Cardinality(after) = Cardinality(Checked(k)) - 1
    BY <2>1, <2>2, FS_RemoveElement
  <2> QED BY <2>1, <2>3
<1> HIDE DEF after
<1>8. ASSUME NEW t \in Time, t > now - Window
      PROVE  IF \E n \in locks'[k] : n >= t
             THEN wrong'[k][t] + Cardinality(after) <= MaxFails + Cardinality(Request) - 1
             ELSE wrong'[k][t] <= fails'[k]
  <2>1. wrong[k][t] \in Nat /\ wrong'[k][t] \in Nat /\ wrong'[k][t] <= wrong[k][t] + 1
    BY <1>1, <1>3
  <2>2. CASE \E n \in locks[k] : n >= t
    <3>1. wrong[k][t] + Cardinality(Checked(k)) <= MaxFails + Cardinality(Request) - 1
      BY <1>8, <2>2 DEF Counted, Struck
    <3>2. wrong'[k][t] + Cardinality(after) <= MaxFails + Cardinality(Request) - 1
      BY <1>7, <2>1, <3>1, LockoutNumbers, OneMore
    <3> QED BY <1>1, <2>2, <3>2
  <2>3. CASE ~\E n \in locks[k] : n >= t
    <3>1. wrong[k][t] <= Strikes(k, s)
      BY <1>2, <1>8, <2>3
    <3>2. wrong[k][t] <= MaxFails - 1
      BY <1>2, <2>1, <3>1, LockoutNumbers
    <3>3. wrong[k][t] + Cardinality(Checked(k)) <= MaxFails + Cardinality(Request) - 1
      BY <1>7, <2>1, <3>2, LockoutNumbers, AddBounds
    <3>4. wrong'[k][t] + Cardinality(after) <= MaxFails + Cardinality(Request) - 1
      BY <1>7, <2>1, <3>3, LockoutNumbers, OneMore
    <3>5. CASE fails'[k] = 0 /\ locks'[k] = locks[k] \cup {now}
      <4>1. (~\E n \in locks'[k] : n >= t) => t > now
        BY <1>3, <3>5
      <4>2. t > now => wrong'[k][t] = 0
        BY <1>6, <1>1 DEF Fresh
      <4> QED BY <3>4, <3>5, <4>1, <4>2
    <3>6. CASE fails'[k] = Strikes(k, s) + 1 /\ locks'[k] = locks[k]
      <4>1. wrong'[k][t] <= fails'[k]
        BY <1>2, <2>1, <3>1, <3>6
      <4> QED BY <2>3, <3>6, <4>1
    <3> QED BY <1>1, <3>5, <3>6
  <2> QED BY <2>2, <2>3
<1>9. Struck(k)'
  BY <1>1, <1>8 DEF Struck, after
<1> QED BY <1>5, <1>6, <1>9 DEF Counted

LEMMA FailTyped ==
  ASSUME LockoutTypeOK, now \in Time, NEW j \in Key, Counted(j), NEW s \in Time, s <= now, Fail(j, s)
  PROVE  LockoutTypeOK'
<1>1. /\ Strikes(j, s) \in 0..(MaxFails - 1) /\ s \in Nat /\ s \in Moment /\ s + Duration \in Moment
      /\ 0 \in Moment
  <2>1. s \in Nat
    BY LockoutTypes
  <2>2. Strikes(j, s) \in Nat /\ Strikes(j, s) <= MaxFails - 1
    BY <2>1, StrikesCount
  <2> QED BY <2>1, <2>2, LockoutNumbers DEF Time, Moment
<1>2. failing' \in SUBSET Key /\ lastFail' \in [Key -> Moment]
  BY <1>1 DEF Fail, LockoutTypeOK
<1>3. fails' \in [Key -> 0..(MaxFails - 1)] /\ until' \in [Key -> Moment]
  <2>1. CASE Strikes(j, s) + 1 >= MaxFails
    <3>1. 0 \in 0..(MaxFails - 1)
      BY LockoutNumbers
    <3> QED BY <1>1, <2>1, <3>1 DEF Fail, LockoutTypeOK
  <2>2. CASE ~(Strikes(j, s) + 1 >= MaxFails)
    <3>1. Strikes(j, s) + 1 \in 0..(MaxFails - 1)
      BY <1>1, <2>2, LockoutNumbers
    <3> QED BY <1>1, <2>2, <3>1 DEF Fail, LockoutTypeOK
  <2> QED BY <2>1, <2>2
<1>4. wrong' \in [Key -> [0..Horizon -> Nat]]
  <2>1. [t \in 0..Horizon |-> IF t <= now THEN wrong[j][t] + 1 ELSE wrong[j][t]] \in [0..Horizon -> Nat]
    <3>1. \A t \in 0..Horizon : wrong[j][t] \in Nat
      BY DEF LockoutTypeOK
    <3>2. \A t \in 0..Horizon : (IF t <= now THEN wrong[j][t] + 1 ELSE wrong[j][t]) \in Nat
      <4> SUFFICES ASSUME NEW t \in 0..Horizon
                   PROVE  (IF t <= now THEN wrong[j][t] + 1 ELSE wrong[j][t]) \in Nat
        OBVIOUS
      <4> DEFINE w == wrong[j][t]
      <4>1. w \in Nat
        BY <3>1
      <4> HIDE DEF w
      <4>2. w + 1 \in Nat
        BY <4>1
      <4> QED BY <4>1, <4>2 DEF w
    <3> QED BY <3>2
  <2> QED BY <2>1 DEF Fail, LockoutTypeOK
<1>5. locks' \in [Key -> SUBSET (0..Horizon)]
  <2>1. now \in 0..Horizon
    BY DEF Time
  <2>2. locks[j] \cup {now} \in SUBSET (0..Horizon)
    BY <2>1 DEF LockoutTypeOK
  <2>3. locks' = locks \/ locks' = [locks EXCEPT ![j] = @ \cup {now}]
    BY DEF Fail
  <2> QED BY <2>2, <2>3 DEF LockoutTypeOK
<1> QED BY <1>2, <1>3, <1>4, <1>5 DEF LockoutTypeOK

\* A login that succeeds wipes out the failures of its address, and no others.
LEMMA ResetCounted ==
  ASSUME LockoutTypeOK, now \in Time, NEW j \in Key, Reset(j), UNCHANGED now,
         NEW k \in Key, Counted(k), k # j => Checked(k)' = Checked(k)
  PROVE  LockoutTypeOK' /\ Counted(k)'
<1>1. LockoutTypeOK'
  BY DEF Reset, LockoutTypeOK
<1>2. CASE k = j
  <2>1. k \notin failing' /\ locks'[k] = {} /\ \A t \in Time : wrong'[k][t] = 0
    BY <1>2 DEF Reset, LockoutTypeOK, Time
  <2> HIDE DEF Checked
  <2> QED BY <1>1, <2>1 DEF Counted, Locked, Fresh, Struck
<1>3. CASE k # j
  <2>1. /\ k \in failing' <=> k \in failing
        /\ wrong'[k] = wrong[k] /\ until'[k] = until[k] /\ fails'[k] = fails[k] /\ lastFail'[k] = lastFail[k]
        /\ locks'[k] = locks[k] /\ Window' = Window /\ now' = now
    BY <1>3 DEF Reset, LockoutTypeOK, Window
  <2>2. Locked(k)' /\ Fresh(k)'
    BY <2>1 DEF Counted, Locked, Fresh
  <2> DEFINE after == Checked(k)'
  <2>3. after = Checked(k)
    BY <1>3
  <2> HIDE DEF after
  <2>4. \A t \in Time : t > now - Window =>
          IF \E n \in locks'[k] : n >= t
          THEN wrong'[k][t] + Cardinality(after) <= MaxFails + Cardinality(Request) - 1
          ELSE k \in failing' => wrong'[k][t] <= fails'[k]
    BY <2>1, <2>3 DEF Counted, Struck
  <2>5. Struck(k)'
    BY <2>1, <2>4 DEF Struck, after
  <2> QED BY <1>1, <2>2, <2>5 DEF Counted
<1> QED BY <1>2, <1>3

\* As time passes the window moves on and locks end.
LEMMA WaitCounted ==
  ASSUME LockoutTypeOK, now \in Time, now' = now + 1, UNCHANGED <<lockoutVars, stage, sender>>,
         NEW k \in Key, Counted(k)
  PROVE  Counted(k)'
<1>1. UNCHANGED <<failing, fails, until, lastFail, wrong, locks>> /\ Window' = Window
  BY DEF lockoutVars, Window
<1>2. \A t \in Time : /\ t > now' => t > now
                      /\ t > now' - Window => t > now - Window
  BY LockoutTypes
<1>3. \A n \in locks[k] : /\ n <= now => n <= now'
                          /\ now' <= n + Window => now <= n + Window
  BY LockoutTypes
<1>4. Locked(k)' /\ Fresh(k)'
  BY <1>1, <1>2, <1>3 DEF Counted, Locked, Fresh
<1> DEFINE after == Checked(k)'
<1>5. after = Checked(k)
  BY DEF Checked
<1> HIDE DEF after
<1>6. \A t \in Time : t > now' - Window =>
        IF \E n \in locks[k] : n >= t
        THEN wrong[k][t] + Cardinality(after) <= MaxFails + Cardinality(Request) - 1
        ELSE k \in failing => wrong[k][t] <= fails[k]
  BY <1>2, <1>5 DEF Counted, Struck
<1>7. Struck(k)'
  BY <1>1, <1>6 DEF Struck, after
<1> QED BY <1>4, <1>7 DEF Counted

-----------------------------------------------------------------------------
(* The gate keeps the invariant *)

\* Seen from the limiter, the gate is a source of requests with stamps that are
\* at most Delay old.
LEMMA StepIsLimiterStep ==
  ASSUME TypeOK, Stamped, [Next]_vars
  PROVE  [LimiterNext]_<<now, limiterVars>>
<1>1. CASE UNCHANGED vars
  BY <1>1 DEF vars
<1>2. CASE Pass
  BY <1>2 DEF Pass, LimiterNext
<1>3. ASSUME NEW r \in Request, LimitPasses(r) \/ LimitRefuses(r), "limiter" \in setup
      PROVE  LimiterNext
  <2>1. sender[r] \in Key
    BY LockoutNumbers DEF TypeOK
  <2>2. stamp[r] \in Time /\ stamp[r] \in Nat /\ now \in Nat
    BY LockoutNumbers DEF TypeOK, Time
  <2>3. stamp[r] <= now /\ now <= stamp[r] + Delay
    BY <1>3 DEF Stamped, Waits, LimitPasses, LimitRefuses
  <2>4. stamp[r] \in Stamps
    BY <2>2, <2>3, LockoutNumbers DEF Stamps
  <2>5. (Admit(sender[r], stamp[r]) \/ Refuse(sender[r], stamp[r])) /\ UNCHANGED now
    BY <1>3 DEF LimitPasses, LimitRefuses, Goes
  <2> QED BY <2>1, <2>4, <2>5 DEF LimiterNext
<1>4. ASSUME NEW r \in Request, LimitPasses(r), "limiter" \notin setup
      PROVE  UNCHANGED <<now, limiterVars>>
  BY <1>4 DEF LimitPasses, Goes
<1>5. ASSUME NEW r \in Request, \/ Arrive(r) \/ TurnedAway(r) \/ Compare(r)
                              \/ LoginFails(r) \/ FailCounts(r) \/ LoginSucceeds(r)
      PROVE  UNCHANGED <<now, limiterVars>>
  BY <1>5 DEF Arrive, TurnedAway, Compare, LoginFails, FailCounts, LoginSucceeds, Goes
<1> QED BY <1>1, <1>2, <1>3, <1>4, <1>5 DEF Next, LimitRefuses

\* What a step does to the requests.
LEMMA RequestsStay ==
  ASSUME TypeOK, Stamped, SenderIsOrigin, Next
  PROVE  /\ now' \in 0..Horizon /\ setup' \in Setups
         /\ stage' \in [Request -> {"idle", "arrived", "limited", "comparing", "failed"}]
         /\ sender' \in [Request -> Address] /\ origin' \in [Request -> Address]
         /\ stamp' \in [Request -> 0..Horizon] /\ login' \in [Request -> Login]
         /\ Stamped' /\ SenderIsOrigin'
<1>1. now \in Nat /\ now <= Horizon /\ \A r \in Request : stamp[r] \in Nat
  BY LockoutNumbers DEF TypeOK
<1>2. CASE Pass
  <2>1. now' = now + 1 /\ now' \in 0..Horizon /\ UNCHANGED <<setup, requestVars>>
    BY <1>1, <1>2, LockoutNumbers DEF Pass, Tick
  <2>2. Stamped'
    BY <1>1, <1>2, <2>1, LockoutNumbers DEF Stamped, Waits, requestVars, Pass
  <2> QED BY <2>1, <2>2 DEF TypeOK, requestVars, SenderIsOrigin
<1>3. ASSUME NEW r \in Request, Arrive(r)
      PROVE  /\ now' \in 0..Horizon /\ setup' \in Setups
             /\ stage' \in [Request -> {"idle", "arrived", "limited", "comparing", "failed"}]
             /\ sender' \in [Request -> Address] /\ origin' \in [Request -> Address]
             /\ stamp' \in [Request -> 0..Horizon] /\ login' \in [Request -> Login]
             /\ Stamped' /\ SenderIsOrigin'
  <2>1. PICK a \in Address, own \in Own, path \in Path, l \in Login :
          /\ origin' = [origin EXCEPT ![r] = a]
          /\ sender' = [sender EXCEPT ![r] = Sender(Peer(a, path), Hops(a, own, path))]
          /\ login' = [login EXCEPT ![r] = l]
    BY <1>3 DEF Arrive
  <2>2. /\ Sender(Peer(a, path), Hops(a, own, path)) \in Address
        /\ a \in Client => Sender(Peer(a, path), Hops(a, own, path)) = a
    BY SenderRight
  <2>3. UNCHANGED <<now, setup>> /\ stage' = [stage EXCEPT ![r] = "arrived"] /\ stamp' = [stamp EXCEPT ![r] = now]
    BY <1>3 DEF Arrive
  <2>4. Stamped'
    BY <1>1, <2>3, LockoutNumbers DEF Stamped, Waits, TypeOK
  <2>5. SenderIsOrigin'
    BY <2>1, <2>2, <2>3 DEF SenderIsOrigin, TypeOK
  <2> QED BY <2>1, <2>2, <2>3, <2>4, <2>5 DEF TypeOK
<1>4. ASSUME NEW r \in Request, NEW s \in {"idle", "limited", "comparing"}, Goes(r, s), stage[r] # "idle"
      PROVE  /\ now' \in 0..Horizon /\ setup' \in Setups
             /\ stage' \in [Request -> {"idle", "arrived", "limited", "comparing", "failed"}]
             /\ sender' \in [Request -> Address] /\ origin' \in [Request -> Address]
             /\ stamp' \in [Request -> 0..Horizon] /\ login' \in [Request -> Login]
             /\ Stamped' /\ SenderIsOrigin'
  BY <1>4 DEF Goes, TypeOK, Stamped, Waits, SenderIsOrigin
<1>5. ASSUME NEW r \in Request, \/ LimitPasses(r) \/ LimitRefuses(r) \/ TurnedAway(r)
                              \/ Compare(r) \/ FailCounts(r) \/ LoginSucceeds(r)
      PROVE  stage[r] # "idle" /\ \E s \in {"idle", "limited", "comparing"} : Goes(r, s)
  BY <1>5 DEF LimitPasses, LimitRefuses, TurnedAway, Compare, FailCounts, LoginSucceeds
<1>6. ASSUME NEW r \in Request, LoginFails(r)
      PROVE  /\ now' \in 0..Horizon /\ setup' \in Setups
             /\ stage' \in [Request -> {"idle", "arrived", "limited", "comparing", "failed"}]
             /\ sender' \in [Request -> Address] /\ origin' \in [Request -> Address]
             /\ stamp' \in [Request -> 0..Horizon] /\ login' \in [Request -> Login]
             /\ Stamped' /\ SenderIsOrigin'
  <2>1. /\ UNCHANGED <<now, setup, sender, origin, login>> /\ stamp' = [stamp EXCEPT ![r] = now]
        /\ stage[r] = "comparing"
        /\ \E s \in {"failed", "idle"} : stage' = [stage EXCEPT ![r] = s]
    BY <1>6 DEF LoginFails
  <2>2. Stamped'
    BY <1>1, <2>1, LockoutNumbers DEF Stamped, Waits, TypeOK
  <2>3. SenderIsOrigin'
    BY <2>1 DEF SenderIsOrigin, TypeOK
  <2> QED BY <2>1, <2>2, <2>3 DEF TypeOK
<1> QED BY <1>2, <1>3, <1>4, <1>5, <1>6 DEF Next

\* What a step does to the lockout: it stays well-formed and counts on.
LEMMA LockoutStays ==
  ASSUME IInv, Next, NEW k \in Key
  PROVE  LockoutTypeOK' /\ Counted(k)'
<1>1. /\ LockoutTypeOK /\ now \in Time /\ Key = Address
      /\ stage \in [Request -> {"idle", "arrived", "limited", "comparing", "failed"}]
      /\ \A r \in Request : sender[r] \in Key /\ stamp[r] \in Time
      /\ \A j \in Key : Counted(j)
  BY LockoutNumbers DEF IInv, TypeOK, Time
<1>2. ASSUME UNCHANGED lockoutVars
      PROVE  LockoutTypeOK'
  BY <1>1, <1>2 DEF lockoutVars, LockoutTypeOK
<1>3. CASE Pass
  <2>1. now' = now + 1 /\ UNCHANGED <<lockoutVars, stage, sender>>
    BY <1>3 DEF Pass, Tick, requestVars
  <2> QED BY <1>1, <1>2, <2>1, WaitCounted
<1>4. ASSUME NEW r \in Request,
             Arrive(r) \/ LimitPasses(r) \/ LimitRefuses(r) \/ TurnedAway(r) \/ Compare(r) \/ LoginFails(r)
      PROVE  LockoutTypeOK' /\ Counted(k)'
  <2>1. UNCHANGED <<now, lockoutVars>>
    BY <1>4 DEF Arrive, LimitPasses, LimitRefuses, TurnedAway, Compare, LoginFails, Goes
  <2>2. CASE Arrive(r) \/ LimitPasses(r) \/ LimitRefuses(r) \/ TurnedAway(r)
    <3>1. stage[r] \notin {"comparing", "failed"}
          /\ stage' \in {[stage EXCEPT ![r] = s] : s \in {"arrived", "limited", "idle"}}
      BY <2>2 DEF Arrive, LimitPasses, LimitRefuses, TurnedAway, Goes
    <3>2. \A q \in Request : q # r => sender'[q] = sender[q]
      BY <2>2 DEF Arrive, LimitPasses, LimitRefuses, TurnedAway, Goes, IInv, TypeOK
    <3>3. Checked(k)' \subseteq Checked(k)
      BY <1>1, <3>1, <3>2 DEF Checked
    <3> QED BY <1>1, <1>2, <2>1, <3>3, CountedStays
  <2>3. CASE Compare(r)
    <3>1. ~Blocked(sender[r]) /\ stage' = [stage EXCEPT ![r] = "comparing"] /\ sender' = sender
      BY <2>3 DEF Compare, Goes
    <3>2. Checked(k)' \subseteq Checked(k) \/ ~Blocked(k)
      BY <1>1, <3>1 DEF Checked
    <3> QED BY <1>1, <1>2, <2>1, <3>2, CountedStays
  <2>4. CASE LoginFails(r)
    <3>1. /\ stage[r] = "comparing" /\ sender' = sender
          /\ \E s \in {"failed", "idle"} : stage' = [stage EXCEPT ![r] = s]
      BY <2>4 DEF LoginFails
    <3>2. Checked(k)' \subseteq Checked(k)
      BY <1>1, <3>1 DEF Checked
    <3> QED BY <1>1, <1>2, <2>1, <3>2, CountedStays
  <2> QED BY <1>4, <2>2, <2>3, <2>4
<1>5. ASSUME NEW r \in Request, FailCounts(r)
      PROVE  LockoutTypeOK' /\ Counted(k)'
  <2>1. /\ stage[r] = "failed" /\ stage' = [stage EXCEPT ![r] = "idle"] /\ UNCHANGED <<now, sender>>
        /\ Fail(sender[r], stamp[r])
    BY <1>5 DEF FailCounts, Goes
  <2>2. stamp[r] \in Nat /\ stamp[r] <= now /\ now <= stamp[r] + Delay
    BY <1>1, <2>1, LockoutTypes DEF IInv, Stamped, Waits
  <2>3. LockoutTypeOK'
    BY <1>1, <2>1, <2>2, FailTyped
  <2>4. CASE k = sender[r]
    <3>1. r \in Checked(k) /\ Checked(k)' = Checked(k) \ {r}
      BY <1>1, <2>1, <2>4 DEF Checked
    <3> QED BY <1>1, <2>1, <2>2, <2>3, <2>4, <3>1, FailCounted
  <2>5. CASE k # sender[r]
    <3>1. Checked(k)' = Checked(k)
      BY <1>1, <2>1, <2>5 DEF Checked
    <3> QED BY <1>1, <2>1, <2>2, <2>3, <2>5, <3>1, OthersCounted
  <2> QED BY <2>4, <2>5
<1>6. ASSUME NEW r \in Request, LoginSucceeds(r)
      PROVE  LockoutTypeOK' /\ Counted(k)'
  <2>1. stage[r] = "comparing" /\ stage' = [stage EXCEPT ![r] = "idle"] /\ UNCHANGED <<now, sender>>
    BY <1>6 DEF LoginSucceeds, Goes
  <2>2. Checked(k)' \subseteq Checked(k) /\ (k # sender[r] => Checked(k)' = Checked(k))
    BY <1>1, <2>1 DEF Checked
  <2>3. CASE Reset(sender[r])
    BY <1>1, <2>1, <2>2, <2>3, ResetCounted
  <2>4. CASE UNCHANGED lockoutVars
    BY <1>1, <1>2, <2>1, <2>2, <2>4, CountedStays
  <2> QED BY <1>6, <2>3, <2>4 DEF LoginSucceeds
<1> QED BY <1>3, <1>4, <1>5, <1>6 DEF Next

LEMMA GateSteps ==
  ASSUME IInv, [Next]_vars
  PROVE  IInv'
<1>1. CASE UNCHANGED vars
  <2>1. UNCHANGED <<now, setup, known, tokens, last, hits, served, failing, fails, until,
                    lastFail, wrong, locks, stage, sender, origin, stamp, login>>
    BY <1>1 DEF vars, limiterVars, lockoutVars, requestVars
  <2>2. TypeOK'
    BY <2>1 DEF IInv, TypeOK, LimiterTypeOK, LockoutTypeOK
  <2>3. Stamped' /\ SenderIsOrigin'
    BY <2>1 DEF IInv, Stamped, Waits, SenderIsOrigin
  <2>4. \A k \in Key : Counted(k)'
    BY <2>1 DEF IInv, Counted, Locked, Fresh, Struck, Window, Checked
  <2> QED BY <2>2, <2>3, <2>4 DEF IInv
<1>2. CASE Next
  <2>1. LimiterTypeOK'
    <3>1. [LimiterNext]_<<now, limiterVars>> /\ now \in Time /\ LimiterTypeOK
      BY StepIsLimiterStep DEF IInv, TypeOK, Time
    <3>2. CASE LimiterNext
      BY <3>1, <3>2, TypeStep
    <3>3. CASE UNCHANGED <<now, limiterVars>>
      BY <3>1, <3>3 DEF limiterVars, LimiterTypeOK
    <3> QED BY <3>1, <3>2, <3>3
  <2>2. LockoutTypeOK'
    <3>1. CASE Key # {}
      BY <1>2, <3>1, LockoutStays
    <3>2. CASE Key = {}
      <4>1. Request = {}
        BY <3>2, LockoutNumbers DEF IInv, TypeOK
      <4>2. UNCHANGED lockoutVars
        BY <1>2, <4>1 DEF Next, Pass
      <4> QED BY <4>2 DEF IInv, TypeOK, lockoutVars, LockoutTypeOK
    <3> QED BY <3>1, <3>2
  <2>3. TypeOK' /\ Stamped' /\ SenderIsOrigin'
    BY <1>2, <2>1, <2>2, RequestsStay DEF IInv, TypeOK
  <2>4. \A k \in Key : Counted(k)'
    BY <1>2, LockoutStays
  <2> QED BY <2>3, <2>4 DEF IInv
<1> QED BY <1>1, <1>2

THEOREM GateInvariant == Spec => []IInv
BY GateStarts, GateSteps, PTL DEF Spec

\* The tables and the requests are well-formed.
THEOREM GateTypes == Spec => []TypeOK
<1>1. IInv => TypeOK
  BY DEF IInv
<1> QED BY <1>1, GateInvariant, PTL

\* The limiter of the admin group sees what RateLimiter assumes: requests in any
\* order, with stamps that are at most Delay old (NewIPRateLimiter's handler).
THEOREM LimiterRefined == Spec => LimiterSpec
<1>1. Init => now = 0 /\ LimiterInit
  BY DEF Init
<1>2. IInv /\ [Next]_vars => [LimiterNext]_<<now, limiterVars>>
  BY StepIsLimiterStep DEF IInv
<1> QED BY <1>1, <1>2, GateInvariant, PTL DEF Spec, LimiterSpec

\* So no address gets past it more often than its burst and its rate allow.
THEOREM GateKeepsRate == Spec => []RateKept
BY LimiterRefined, LimiterKeepsRate, PTL

\* A client outside the trusted networks is counted as itself, whatever header it
\* sends and whether or not it comes by a proxy (RealIP, forwardedClient).
THEOREM CountedAsItself == Spec => []SenderIsOrigin
<1>1. IInv => SenderIsOrigin
  BY DEF IInv
<1> QED BY <1>1, GateInvariant, PTL

\* In no window does an address fail more often than MaxFails and once for every
\* other request that was past the check, in whatever order failures are counted
\* (blocked, fail, BasicAuth).
THEOREM GuessesBounded == Spec => []FailuresBounded
<1>1. ASSUME IInv, NEW k \in Key, NEW t \in 0..now, t > now - Window
      PROVE  wrong[k][t] <= MaxFails + Cardinality(Request) - 1
  <2>1. LockoutTypeOK /\ Counted(k) /\ now \in Time /\ t \in Time
    BY <1>1, LockoutNumbers DEF IInv, TypeOK, Time
  <2>2. wrong[k][t] \in Nat /\ fails[k] \in Nat /\ fails[k] <= MaxFails - 1
    BY <2>1, LockoutTypes
  <2>3. Cardinality(Checked(k)) \in Nat
    BY CheckedFinite
  <2>4. IF \E n \in locks[k] : n >= t
        THEN wrong[k][t] + Cardinality(Checked(k)) <= MaxFails + Cardinality(Request) - 1
        ELSE wrong[k][t] = 0 \/ wrong[k][t] <= fails[k]
    BY <1>1, <2>1 DEF Counted, Struck, Fresh
  <2> HIDE DEF Checked
  <2> QED BY <2>2, <2>3, <2>4, LockoutNumbers
<1>2. IInv => FailuresBounded
  BY <1>1 DEF FailuresBounded
<1> QED BY <1>2, GateInvariant, PTL

\* A lock holds for the window, unless a login succeeds: neither failures that are
\* counted late nor the pruning of the table shorten it further (fail, blocked).
THEOREM LocksHold == Spec => []LockLasts
<1>1. IInv => LockLasts
  <2> SUFFICES ASSUME IInv, NEW k \in Key, NEW t \in locks[k], now < t + Window
               PROVE  Blocked(k)
    BY DEF LockLasts
  <2>1. LockoutTypeOK /\ Counted(k) /\ now \in Time
    BY DEF IInv, TypeOK, Time
  <2> QED BY <2>1, WindowBlocks DEF Counted
<1> QED BY <1>1, GateInvariant, PTL
=============================================================================
