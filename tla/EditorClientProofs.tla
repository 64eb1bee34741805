-------------------------- MODULE EditorClientProofs --------------------------
(***************************************************************************)
(* Theorems about the editor's client: its connection (Connection), for    *)
(* any set of sockets, and its text and lock (EditorClient), for any       *)
(* number of texts, connections and refusals.                              *)
(***************************************************************************)
EXTENDS EditorClient, SequenceTheorems, TLAPS

CONSTANT Socket
VARIABLES socket, timer, deciding, kicked, stopped, alive, scheduled, probes, begun

C == INSTANCE Connection

-----------------------------------------------------------------------------
(* The connection *)

\* Until the connection is stopped, the current socket is the only one; then
\* there is none, and no timer, but the last one may still have to close.
Current ==
  /\ socket # C!None => socket \in alive
  /\ ~stopped => alive \subseteq {socket}
  /\ stopped => socket = C!None /\ ~timer

\* OneSocket needs Current, which says why the next socket is opened only when
\* the last one has closed; Current needs OneWayOn, which says that no second
\* timer or probe is left to open another.
ConnInv == C!TypeOK /\ C!OneSocket /\ C!OneWayOn /\ Current

LEMMA NullIsNoSocket == C!None \notin Socket
BY NoSetContainsEverything DEF C!None

LEMMA ConnStarts == C!Init => ConnInv
<1> SUFFICES ASSUME C!Init PROVE ConnInv
  OBVIOUS
<1>1. C!TypeOK
  BY DEF C!Init, C!TypeOK
<1>2. C!OneSocket
  BY DEF C!Init, C!OneSocket
<1>3. C!OneWayOn
  BY DEF C!Init, C!OneWayOn
<1>4. Current
  BY DEF C!Init, Current
<1> QED BY <1>1, <1>2, <1>3, <1>4 DEF ConnInv

LEMMA ConnectKeeps == ASSUME ConnInv, C!Connect PROVE ConnInv'
<1>T. C!TypeOK'
  <2>1. /\ (timer \in BOOLEAN)' /\ (deciding \in BOOLEAN)' /\ (kicked \in BOOLEAN)'
     /\ (stopped \in BOOLEAN)' /\ (begun \in BOOLEAN)'
    BY DEF ConnInv, C!TypeOK, C!Connect, C!ClearTimer, C!Open, C!Retry
  <2>2. (socket \in Socket \cup {C!None})' /\ (alive \in SUBSET Socket)'
    BY DEF ConnInv, C!TypeOK, C!Connect, C!ClearTimer, C!Open, C!Retry
  <2>3. (scheduled \in Nat)' /\ (probes \in Nat)'
    BY DEF ConnInv, C!TypeOK, C!OneWayOn, C!Connect, C!ClearTimer, C!Open, C!Retry
  <2> QED BY <2>1, <2>2, <2>3 DEF C!TypeOK
<1>S. C!OneSocket'
  BY NullIsNoSocket DEF ConnInv, C!TypeOK, C!OneSocket, C!OneWayOn, Current, C!Connect, C!ClearTimer, C!Open, C!Retry
<1>W. C!OneWayOn'
  BY NullIsNoSocket DEF ConnInv, C!TypeOK, C!OneSocket, C!OneWayOn, Current, C!Connect, C!ClearTimer, C!Open, C!Retry
<1>C. Current'
  BY NullIsNoSocket DEF ConnInv, C!TypeOK, C!OneSocket, C!OneWayOn, Current, C!Connect, C!ClearTimer, C!Open, C!Retry
<1> QED BY <1>T, <1>S, <1>W, <1>C DEF ConnInv

LEMMA TimerKeeps == ASSUME ConnInv, C!TimerRuns PROVE ConnInv'
<1>1. timer /\ ~deciding /\ socket = C!None /\ ~stopped
  BY DEF ConnInv, C!OneWayOn, Current, C!TimerRuns
<1>T. C!TypeOK'
  <2>1. /\ (timer \in BOOLEAN)' /\ (deciding \in BOOLEAN)' /\ (kicked \in BOOLEAN)'
     /\ (stopped \in BOOLEAN)' /\ (begun \in BOOLEAN)'
    BY <1>1 DEF ConnInv, C!TypeOK, C!TimerRuns, C!Open, C!Retry
  <2>2. (socket \in Socket \cup {C!None})' /\ (alive \in SUBSET Socket)'
    BY <1>1 DEF ConnInv, C!TypeOK, C!TimerRuns, C!Open, C!Retry
  <2>3. (scheduled \in Nat)' /\ (probes \in Nat)'
    BY <1>1 DEF ConnInv, C!TypeOK, C!OneWayOn, C!TimerRuns, C!Open, C!Retry
  <2> QED BY <2>1, <2>2, <2>3 DEF C!TypeOK
<1>S. C!OneSocket'
  BY <1>1, NullIsNoSocket DEF ConnInv, C!TypeOK, C!OneSocket, C!OneWayOn, Current, C!TimerRuns, C!Open, C!Retry
<1>W. C!OneWayOn'
  BY <1>1, NullIsNoSocket DEF ConnInv, C!TypeOK, C!OneSocket, C!OneWayOn, Current, C!TimerRuns, C!Open, C!Retry
<1>C. Current'
  BY <1>1, NullIsNoSocket DEF ConnInv, C!TypeOK, C!OneSocket, C!OneWayOn, Current, C!TimerRuns, C!Open, C!Retry
<1> QED BY <1>T, <1>S, <1>W, <1>C DEF ConnInv

LEMMA GiveUpKeeps == ASSUME ConnInv, C!GiveUp PROVE ConnInv'
<1>1. deciding /\ ~timer /\ socket = C!None /\ probes = 1 /\ scheduled = 0
  BY DEF ConnInv, C!OneWayOn, C!GiveUp
<1>T. C!TypeOK'
  <2>1. /\ (timer \in BOOLEAN)' /\ (deciding \in BOOLEAN)' /\ (kicked \in BOOLEAN)'
     /\ (stopped \in BOOLEAN)' /\ (begun \in BOOLEAN)'
    BY <1>1 DEF ConnInv, C!TypeOK, C!GiveUp
  <2>2. (socket \in Socket \cup {C!None})' /\ (alive \in SUBSET Socket)'
    BY <1>1 DEF ConnInv, C!TypeOK, C!GiveUp
  <2>3. (scheduled \in Nat)' /\ (probes \in Nat)'
    BY <1>1 DEF ConnInv, C!TypeOK, C!OneWayOn, C!GiveUp
  <2> QED BY <2>1, <2>2, <2>3 DEF C!TypeOK
<1>S. C!OneSocket'
  BY <1>1, NullIsNoSocket DEF ConnInv, C!TypeOK, C!OneSocket, C!OneWayOn, Current, C!GiveUp
<1>W. C!OneWayOn'
  BY <1>1, NullIsNoSocket DEF ConnInv, C!TypeOK, C!OneSocket, C!OneWayOn, Current, C!GiveUp
<1>C. Current'
  BY <1>1, NullIsNoSocket DEF ConnInv, C!TypeOK, C!OneSocket, C!OneWayOn, Current, C!GiveUp
<1> QED BY <1>T, <1>S, <1>W, <1>C DEF ConnInv

LEMMA GoOnKeeps == ASSUME ConnInv, C!GoOn PROVE ConnInv'
<1>1. deciding /\ ~timer /\ socket = C!None /\ probes = 1 /\ scheduled = 0
  BY DEF ConnInv, C!OneWayOn, C!GoOn
<1>2. ~stopped /\ stopped' = stopped /\ begun' = begun /\ C!ClearTimer /\ C!Open(probes - 1)
  BY <1>1 DEF C!GoOn
<1>3. timer' = FALSE /\ scheduled' = 0
  BY <1>1, <1>2 DEF C!ClearTimer
<1>4. probes - 1 = 0
  BY <1>1
<1>5. CASE \E s \in Socket \ alive : socket' = s /\ alive' = alive \cup {s}
  <2>1. deciding' = FALSE /\ probes' = 0 /\ kicked' = kicked
    BY <1>2, <1>4, <1>5 DEF ConnInv, C!TypeOK, C!Open, C!Retry
  <2>2. C!TypeOK'
    BY <1>2, <1>3, <1>5, <2>1 DEF ConnInv, C!TypeOK
  <2>3. (C!OneSocket /\ Current)'
    BY <1>1, <1>2, <1>5, NullIsNoSocket DEF ConnInv, C!TypeOK, C!OneSocket, Current
  <2>4. C!OneWayOn'
    BY <1>2, <1>3, <1>5, <2>1, NullIsNoSocket DEF C!OneWayOn
  <2> QED BY <2>2, <2>3, <2>4 DEF ConnInv
<1>6. CASE deciding' = TRUE /\ kicked' = FALSE /\ probes' = 1 /\ UNCHANGED <<socket, alive>>
  <2>1. C!TypeOK'
    BY <1>2, <1>3, <1>6 DEF ConnInv, C!TypeOK
  <2>2. (C!OneSocket /\ Current)'
    BY <1>1, <1>2, <1>3, <1>6 DEF ConnInv, C!OneSocket, Current
  <2>3. C!OneWayOn'
    BY <1>1, <1>2, <1>3, <1>6 DEF C!OneWayOn
  <2> QED BY <2>1, <2>2, <2>3 DEF ConnInv
<1>7. probes - 1 + 1 = 1
  BY <1>1
<1> QED BY <1>2, <1>5, <1>6, <1>7 DEF C!Open, C!Retry

LEMMA BackOffKeeps == ASSUME ConnInv, C!BackOff PROVE ConnInv'
<1>1. deciding /\ ~timer /\ socket = C!None /\ probes = 1 /\ scheduled = 0
  BY DEF ConnInv, C!OneWayOn, C!BackOff
<1>T. C!TypeOK'
  <2>1. /\ (timer \in BOOLEAN)' /\ (deciding \in BOOLEAN)' /\ (kicked \in BOOLEAN)'
     /\ (stopped \in BOOLEAN)' /\ (begun \in BOOLEAN)'
    BY <1>1 DEF ConnInv, C!TypeOK, C!BackOff
  <2>2. (socket \in Socket \cup {C!None})' /\ (alive \in SUBSET Socket)'
    BY <1>1 DEF ConnInv, C!TypeOK, C!BackOff
  <2>3. (scheduled \in Nat)' /\ (probes \in Nat)'
    BY <1>1 DEF ConnInv, C!TypeOK, C!OneWayOn, C!BackOff
  <2> QED BY <2>1, <2>2, <2>3 DEF C!TypeOK
<1>S. C!OneSocket'
  BY <1>1, NullIsNoSocket DEF ConnInv, C!TypeOK, C!OneSocket, C!OneWayOn, Current, C!BackOff
<1>W. C!OneWayOn'
  BY <1>1, NullIsNoSocket DEF ConnInv, C!TypeOK, C!OneSocket, C!OneWayOn, Current, C!BackOff
<1>C. Current'
  BY <1>1, NullIsNoSocket DEF ConnInv, C!TypeOK, C!OneSocket, C!OneWayOn, Current, C!BackOff
<1> QED BY <1>T, <1>S, <1>W, <1>C DEF ConnInv

LEMMA CloseKeeps == ASSUME ConnInv, NEW s \in alive, C!Close(s) PROVE ConnInv'
<1>T. C!TypeOK'
  <2>1. /\ (timer \in BOOLEAN)' /\ (deciding \in BOOLEAN)' /\ (kicked \in BOOLEAN)'
     /\ (stopped \in BOOLEAN)' /\ (begun \in BOOLEAN)'
    BY DEF ConnInv, C!TypeOK, C!Close, C!Retry
  <2>2. (socket \in Socket \cup {C!None})' /\ (alive \in SUBSET Socket)'
    BY DEF ConnInv, C!TypeOK, C!Close, C!Retry
  <2>3. (scheduled \in Nat)' /\ (probes \in Nat)'
    BY DEF ConnInv, C!TypeOK, C!OneWayOn, C!Close, C!Retry
  <2> QED BY <2>1, <2>2, <2>3 DEF C!TypeOK
<1>S. C!OneSocket'
  BY NullIsNoSocket DEF ConnInv, C!TypeOK, C!OneSocket, C!OneWayOn, Current, C!Close, C!Retry
<1>W. C!OneWayOn'
  BY NullIsNoSocket DEF ConnInv, C!TypeOK, C!OneSocket, C!OneWayOn, Current, C!Close, C!Retry
<1>C. Current'
  BY NullIsNoSocket DEF ConnInv, C!TypeOK, C!OneSocket, C!OneWayOn, Current, C!Close, C!Retry
<1> QED BY <1>T, <1>S, <1>W, <1>C DEF ConnInv

LEMMA StopKeeps == ASSUME ConnInv, C!Stop PROVE ConnInv'
<1>T. C!TypeOK'
  <2>1. /\ (timer \in BOOLEAN)' /\ (deciding \in BOOLEAN)' /\ (kicked \in BOOLEAN)'
     /\ (stopped \in BOOLEAN)' /\ (begun \in BOOLEAN)'
    BY DEF ConnInv, C!TypeOK, C!Stop, C!ClearTimer
  <2>2. (socket \in Socket \cup {C!None})' /\ (alive \in SUBSET Socket)'
    BY DEF ConnInv, C!TypeOK, C!Stop, C!ClearTimer
  <2>3. (scheduled \in Nat)' /\ (probes \in Nat)'
    BY DEF ConnInv, C!TypeOK, C!OneWayOn, C!Stop, C!ClearTimer
  <2> QED BY <2>1, <2>2, <2>3 DEF C!TypeOK
<1>S. C!OneSocket'
  BY NullIsNoSocket DEF ConnInv, C!TypeOK, C!OneSocket, C!OneWayOn, Current, C!Stop, C!ClearTimer
<1>W. C!OneWayOn'
  BY NullIsNoSocket DEF ConnInv, C!TypeOK, C!OneSocket, C!OneWayOn, Current, C!Stop, C!ClearTimer
<1>C. Current'
  BY NullIsNoSocket DEF ConnInv, C!TypeOK, C!OneSocket, C!OneWayOn, Current, C!Stop, C!ClearTimer
<1> QED BY <1>T, <1>S, <1>W, <1>C DEF ConnInv

LEMMA ConnInductive == ConnInv /\ [C!Next]_(C!vars) => ConnInv'
<1> SUFFICES ASSUME ConnInv, [C!Next]_(C!vars) PROVE ConnInv'
  OBVIOUS
<1>1. CASE UNCHANGED C!vars
  BY <1>1 DEF C!vars, ConnInv, C!TypeOK, C!OneSocket, C!OneWayOn, Current
<1> QED
  BY <1>1, ConnectKeeps, TimerKeeps, GiveUpKeeps, GoOnKeeps, BackOffKeeps, CloseKeeps, StopKeeps DEF C!Next

\* The connection's invariant.
THEOREM ConnInvariance == C!Spec => []ConnInv
BY ConnStarts, ConnInductive, PTL DEF C!Spec

\* connection.js opens its next socket only when the last one has closed,
\* whatever closes late, throws, fires or asks meanwhile.
THEOREM SocketsAreSingle == C!Spec => []C!OneSocket
<1>1. ConnInv => C!OneSocket
  BY DEF ConnInv
<1> QED BY <1>1, ConnInvariance, PTL

\* connection.js is never left without a way to its next socket, nor with two.
THEOREM NeverStranded == C!Spec => []C!OneWayOn
<1>1. ConnInv => C!OneWayOn
  BY DEF ConnInv
<1> QED BY <1>1, ConnInvariance, PTL

\* After stop, no timer and no probe that was awaited opens another socket.
THEOREM StopsForGood == C!Spec => C!StopIsFinal
<1> DEFINE Final == stopped => stopped' /\ alive' \subseteq alive /\ ~timer'
<1>1. ConnInv /\ [C!Next]_(C!vars) => [Final]_(C!vars)
  <2> SUFFICES ASSUME ConnInv, C!Next, stopped PROVE stopped' /\ alive' \subseteq alive /\ ~timer'
    BY DEF Final
  <2>1. ~timer
    BY DEF ConnInv, Current
  <2>2. CASE C!Connect
    BY <2>2 DEF C!Connect
  <2>3. CASE C!TimerRuns
    BY <2>1, <2>3 DEF C!TimerRuns
  <2>4. CASE C!GiveUp \/ C!GoOn \/ C!BackOff
    BY <2>1, <2>4 DEF C!GiveUp, C!GoOn, C!BackOff
  <2>5. CASE C!Stop
    BY <2>5 DEF C!Stop, C!ClearTimer
  <2>6. CASE \E s \in alive : C!Close(s)
    BY <2>1, <2>6 DEF C!Close
  <2> QED BY <2>2, <2>3, <2>4, <2>5, <2>6 DEF C!Next
<1> QED BY <1>1, ConnInvariance, PTL DEF C!Spec, C!StopIsFinal

-----------------------------------------------------------------------------
(* Queues *)

Items(q) == {q[i] : i \in 1..Len(q)}

\* Each item and each that comes after it are related; each item of A has one of B
\* ahead of it, or later.
Pairwise(q, R) == \A i, j \in 1..Len(q) : i < j => <<q[i], q[j]>> \in R
Ahead(q, A, B) == \A i \in 1..Len(q) : q[i] \in A => \E j \in 1..Len(q) : j < i /\ q[j] \in B
Later(q, A, B) == \A i \in 1..Len(q) : q[i] \in A => \E j \in 1..Len(q) : i < j /\ q[j] \in B

\* What is queued comes after what was queued before.
LEMMA Joint ==
  ASSUME NEW S, NEW q \in Seq(S), NEW r \in Seq(S)
  PROVE  LET n == Len(q)  m == Len(r)  z == q \o r IN
         /\ n \in Nat /\ m \in Nat /\ Len(z) = n + m /\ z \in Seq(S)
         /\ \A i \in 1..n : i \in 1..n + m /\ z[i] = q[i]
         /\ \A j \in 1..m : n + j \in 1..n + m /\ n < n + j /\ z[n + j] = r[j]
         /\ \A i \in 1..n + m :
              i \in 1..n \/ (i \notin 1..n /\ i - n \in 1..m /\ z[i] = r[i - n])
<1> DEFINE n == Len(q)  m == Len(r)  z == q \o r
<1>1. /\ n \in Nat /\ m \in Nat /\ Len(z) = n + m /\ z \in Seq(S)
      /\ \A i \in 1..n + m : z[i] = IF i <= n THEN q[i] ELSE r[i - n]
  BY ConcatProperties
<1> HIDE DEF n, m, z
<1>2. \A i \in 1..n : i \in 1..n + m /\ z[i] = q[i]
  BY <1>1 DEF n
<1>3. \A j \in 1..m : n + j \in 1..n + m /\ n < n + j /\ z[n + j] = r[j]
  BY <1>1 DEF m
<1>4. \A i \in 1..n + m : i \in 1..n \/ (i \notin 1..n /\ i - n \in 1..m /\ z[i] = r[i - n])
  BY <1>1
<1> QED BY <1>1, <1>2, <1>3, <1>4 DEF n, m, z

LEMMA Joining ==
  ASSUME NEW S, NEW q \in Seq(S), NEW r \in Seq(S)
  PROVE  q \o r \in Seq(S) /\ Items(q \o r) = Items(q) \cup Items(r)
<1> DEFINE n == Len(q)  m == Len(r)  z == q \o r
<1>1. /\ n \in Nat /\ m \in Nat /\ Len(z) = n + m /\ z \in Seq(S)
      /\ \A i \in 1..n : i \in 1..n + m /\ z[i] = q[i]
      /\ \A j \in 1..m : n + j \in 1..n + m /\ n < n + j /\ z[n + j] = r[j]
      /\ \A i \in 1..n + m :
           i \in 1..n \/ (i \notin 1..n /\ i - n \in 1..m /\ z[i] = r[i - n])
  BY Joint
<1> HIDE DEF n, m, z
<1>2. Items(z) \subseteq Items(q) \cup Items(r)
  BY <1>1 DEF Items, n, m
<1>3. Items(q) \subseteq Items(z)
  BY <1>1 DEF Items, n, m
<1>4. Items(r) \subseteq Items(z)
  BY <1>1 DEF Items, n, m
<1> QED BY <1>1, <1>2, <1>3, <1>4 DEF z

LEMMA JoiningPairs ==
  ASSUME NEW S, NEW q \in Seq(S), NEW r \in Seq(S), NEW R, Pairwise(q, R), Pairwise(r, R),
         \A x \in Items(q), y \in Items(r) : <<x, y>> \in R
  PROVE  Pairwise(q \o r, R)
<1> DEFINE n == Len(q)  m == Len(r)  z == q \o r
<1>1. /\ n \in Nat /\ m \in Nat /\ Len(z) = n + m
      /\ \A i \in 1..n : i \in 1..n + m /\ z[i] = q[i]
      /\ \A i \in 1..n + m :
           i \in 1..n \/ (i \notin 1..n /\ i - n \in 1..m /\ z[i] = r[i - n])
  BY Joint
<1> HIDE DEF n, m, z
<1> SUFFICES ASSUME NEW i \in 1..n + m, NEW j \in 1..n + m, i < j PROVE <<z[i], z[j]>> \in R
  BY <1>1 DEF Pairwise, z
<1>2. CASE j \in 1..n
  <2>1. i \in 1..n
    BY <1>1, <1>2
  <2> QED BY <1>1, <1>2, <2>1 DEF Pairwise, n
<1>3. CASE i \in 1..n /\ j \notin 1..n
  <2>1. z[i] \in Items(q)
    BY <1>1, <1>3 DEF Items, n
  <2>2. z[j] \in Items(r)
    BY <1>1, <1>3 DEF Items, m
  <2> QED BY <2>1, <2>2
<1>4. CASE i \notin 1..n /\ j \notin 1..n
  <2>1. i - n \in 1..m /\ j - n \in 1..m /\ i - n < j - n /\ z[i] = r[i - n] /\ z[j] = r[j - n]
    BY <1>1, <1>4
  <2> QED BY <2>1 DEF Pairwise, m
<1> QED BY <1>1, <1>2, <1>3, <1>4

LEMMA JoiningAhead ==
  ASSUME NEW S, NEW q \in Seq(S), NEW r \in Seq(S), NEW A, NEW B,
         Ahead(q, A, B), Items(r) \cap A = {}
  PROVE  Ahead(q \o r, A, B)
<1> DEFINE n == Len(q)  m == Len(r)  z == q \o r
<1>1. /\ n \in Nat /\ m \in Nat /\ Len(z) = n + m
      /\ \A i \in 1..n : i \in 1..n + m /\ z[i] = q[i]
      /\ \A i \in 1..n + m :
           i \in 1..n \/ (i \notin 1..n /\ i - n \in 1..m /\ z[i] = r[i - n])
  BY Joint
<1> HIDE DEF n, m, z
<1> SUFFICES ASSUME NEW i \in 1..n + m, z[i] \in A PROVE \E j \in 1..n + m : j < i /\ z[j] \in B
  BY <1>1 DEF Ahead, z
<1>2. i \in 1..n
  BY <1>1 DEF Items, m
<1>3. PICK j \in 1..n : j < i /\ q[j] \in B
  BY <1>1, <1>2 DEF Ahead, n
<1> QED BY <1>1, <1>3

LEMMA JoiningLater ==
  ASSUME NEW S, NEW q \in Seq(S), NEW r \in Seq(S), NEW A, NEW B, Items(r) \cap A = {},
         Later(q, A, B) \/ Items(r) \cap B # {}
  PROVE  Later(q \o r, A, B)
<1> DEFINE n == Len(q)  m == Len(r)  z == q \o r
<1>1. /\ n \in Nat /\ m \in Nat /\ Len(z) = n + m
      /\ \A i \in 1..n : i \in 1..n + m /\ z[i] = q[i]
      /\ \A j \in 1..m : n + j \in 1..n + m /\ n < n + j /\ z[n + j] = r[j]
      /\ \A i \in 1..n + m :
           i \in 1..n \/ (i \notin 1..n /\ i - n \in 1..m /\ z[i] = r[i - n])
  BY Joint
<1> HIDE DEF n, m, z
<1> SUFFICES ASSUME NEW i \in 1..n + m, z[i] \in A PROVE \E j \in 1..n + m : i < j /\ z[j] \in B
  BY <1>1 DEF Later, z
<1>2. i \in 1..n /\ z[i] = q[i]
  BY <1>1 DEF Items, m
<1>3. CASE Later(q, A, B)
  <2>1. PICK j \in 1..n : i < j /\ q[j] \in B
    BY <1>2, <1>3 DEF Later, n
  <2> QED BY <1>1, <2>1
<1>4. CASE Items(r) \cap B # {}
  <2>1. PICK j \in 1..m : r[j] \in B
    BY <1>4 DEF Items, m
  <2>2. i < n + j
    BY <1>1, <1>2, <2>1
  <2> QED BY <1>1, <2>1, <2>2
<1> QED BY <1>3, <1>4

\* A queue of none or one; to append an item is to queue a sequence of one.
LEMMA One ==
  ASSUME NEW S, NEW x \in S
  PROVE  /\ <<>> \in Seq(S) /\ <<x>> \in Seq(S)
         /\ Items(<<>>) = {} /\ Items(<<x>>) = {x}
         /\ \A R : Pairwise(<<>>, R) /\ Pairwise(<<x>>, R)
<1>1. Items(<<>>) = {} /\ Items(<<x>>) = {x}
  BY DEF Items
<1>2. \A R : Pairwise(<<>>, R) /\ Pairwise(<<x>>, R)
  BY DEF Pairwise
<1>3. <<>> \in Seq(S) /\ <<x>> \in Seq(S)
  OBVIOUS
<1> QED BY <1>1, <1>2, <1>3

LEMMA Within ==
  ASSUME NEW S, NEW q \in Seq(S)
  PROVE  Items(q) \subseteq S
BY ElementOfSeq DEF Items

LEMMA Appending ==
  ASSUME NEW S, NEW q \in Seq(S), NEW x \in S
  PROVE  Append(q, x) \in Seq(S) /\ Items(Append(q, x)) = Items(q) \cup {x}
<1> DEFINE r == <<x>>
<1>1. Append(q, x) = q \o r
  BY AppendIsConcat
<1>2. r \in Seq(S) /\ Items(r) = {x}
  BY One
<1> HIDE DEF r
<1>3. q \o r \in Seq(S) /\ Items(q \o r) = Items(q) \cup {x}
  BY <1>2, Joining
<1> QED BY <1>1, <1>3 DEF r

LEMMA AppendingPairs ==
  ASSUME NEW S, NEW q \in Seq(S), NEW x \in S, NEW R, Pairwise(q, R),
         \A y \in Items(q) : <<y, x>> \in R
  PROVE  Pairwise(Append(q, x), R)
<1> DEFINE r == <<x>>
<1>1. r \in Seq(S) /\ Items(r) = {x} /\ Pairwise(r, R)
  BY One
<1>2. Append(q, x) = q \o r
  BY AppendIsConcat
<1> HIDE DEF r
<1>3. Pairwise(q \o r, R)
  BY <1>1, JoiningPairs
<1> QED BY <1>2, <1>3

LEMMA AppendingAhead ==
  ASSUME NEW S, NEW q \in Seq(S), NEW x \in S, NEW A, NEW B, Ahead(q, A, B),
         x \notin A \/ Items(q) \cap B # {}
  PROVE  Ahead(Append(q, x), A, B)
<1> DEFINE n == Len(q)  z == Append(q, x)
<1>1. n \in Nat /\ Len(z) = n + 1 /\ z[n + 1] = x /\ \A i \in 1..n : z[i] = q[i]
  BY AppendProperties
<1> HIDE DEF n, z
<1>2. \A i \in 1..n + 1 : i \in 1..n \/ i = n + 1
  BY <1>1
<1>3. \A i \in 1..n : i \in 1..n + 1 /\ i < n + 1
  BY <1>1
<1> SUFFICES ASSUME NEW i \in 1..n + 1, z[i] \in A PROVE \E j \in 1..n + 1 : j < i /\ z[j] \in B
  BY <1>1 DEF Ahead, z
<1>4. CASE i \in 1..n
  <2>1. PICK j \in 1..n : j < i /\ q[j] \in B
    BY <1>1, <1>4 DEF Ahead, n
  <2> QED BY <1>1, <1>3, <2>1
<1>5. CASE i = n + 1
  <2>1. PICK j \in 1..n : q[j] \in B
    BY <1>1, <1>5 DEF Items, n
  <2> QED BY <1>1, <1>3, <1>5, <2>1
<1> QED BY <1>2, <1>4, <1>5

LEMMA AppendingLater ==
  ASSUME NEW S, NEW q \in Seq(S), NEW x \in S, NEW A, NEW B, x \notin A, x \in B
  PROVE  Later(Append(q, x), A, B)
<1> DEFINE r == <<x>>
<1>1. r \in Seq(S) /\ Items(r) = {x}
  BY One
<1>2. Append(q, x) = q \o r
  BY AppendIsConcat
<1> HIDE DEF r
<1>3. Later(q \o r, A, B)
  BY <1>1, JoiningLater
<1> QED BY <1>2, <1>3

\* What is left when the first item was taken.
LEMMA Rest ==
  ASSUME NEW S, NEW q \in Seq(S), q # <<>>
  PROVE  LET n == Len(q)  z == Tail(q) IN
         /\ n \in Nat /\ 1 \in 1..n /\ Len(z) = n - 1 /\ z \in Seq(S)
         /\ Head(q) \in S /\ Head(q) = q[1]
         /\ \A i \in 1..n - 1 : i + 1 \in 1..n /\ z[i] = q[i + 1]
         /\ \A i \in 1..n : i = 1 \/ (i > 1 /\ i - 1 \in 1..n - 1 /\ q[i] = z[i - 1])
<1> DEFINE n == Len(q)  z == Tail(q)
<1>1. /\ n \in Nat /\ n > 0 /\ Len(z) = n - 1 /\ z \in Seq(S) /\ Head(q) \in S /\ Head(q) = q[1]
      /\ \A i \in 1..n - 1 : z[i] = q[i + 1]
  BY HeadTailProperties, EmptySeq
<1> HIDE DEF n, z
<1>2. \A i \in 1..n - 1 : i + 1 \in 1..n /\ z[i] = q[i + 1]
  BY <1>1
<1>3. \A i \in 1..n : i = 1 \/ (i > 1 /\ i - 1 \in 1..n - 1 /\ q[i] = z[i - 1])
  BY <1>1
<1>4. 1 \in 1..n
  BY <1>1
<1> QED BY <1>1, <1>2, <1>3, <1>4 DEF n, z

LEMMA Taking ==
  ASSUME NEW S, NEW q \in Seq(S), q # <<>>
  PROVE  /\ Head(q) \in S /\ Tail(q) \in Seq(S)
         /\ Items(q) = {Head(q)} \cup Items(Tail(q))
<1> DEFINE n == Len(q)  z == Tail(q)
<1>1. /\ 1 \in 1..n /\ Len(z) = n - 1 /\ z \in Seq(S)
      /\ Head(q) \in S /\ Head(q) = q[1]
      /\ \A i \in 1..n - 1 : i + 1 \in 1..n /\ z[i] = q[i + 1]
      /\ \A i \in 1..n : i = 1 \/ (i > 1 /\ i - 1 \in 1..n - 1 /\ q[i] = z[i - 1])
  BY Rest
<1> HIDE DEF n, z
<1>2. Items(q) \subseteq {Head(q)} \cup Items(z)
  BY <1>1 DEF Items, n
<1>3. {Head(q)} \cup Items(z) \subseteq Items(q)
  BY <1>1 DEF Items, n
<1> QED BY <1>1, <1>2, <1>3 DEF z

LEMMA TakingPairs ==
  ASSUME NEW S, NEW q \in Seq(S), q # <<>>, NEW R, Pairwise(q, R)
  PROVE  Pairwise(Tail(q), R) /\ \A y \in Items(Tail(q)) : <<Head(q), y>> \in R
<1> DEFINE n == Len(q)  z == Tail(q)
<1>1. /\ n \in Nat /\ 1 \in 1..n /\ Len(z) = n - 1 /\ Head(q) = q[1]
      /\ \A i \in 1..n - 1 : i + 1 \in 1..n /\ z[i] = q[i + 1]
  BY Rest
<1> HIDE DEF n, z
<1>2. \A i, j \in 1..n - 1 : i < j => <<z[i], z[j]>> \in R
  <2> SUFFICES ASSUME NEW i \in 1..n - 1, NEW j \in 1..n - 1, i < j PROVE <<z[i], z[j]>> \in R
    OBVIOUS
  <2>1. i + 1 \in 1..n /\ j + 1 \in 1..n /\ i + 1 < j + 1
    BY <1>1
  <2> QED BY <1>1, <2>1 DEF Pairwise, n
<1>3. \A j \in 1..n - 1 : <<Head(q), z[j]>> \in R
  <2> TAKE j \in 1..n - 1
  <2>1. j + 1 \in 1..n /\ 1 < j + 1
    BY <1>1
  <2> QED BY <1>1, <2>1 DEF Pairwise, n
<1> QED BY <1>1, <1>2, <1>3 DEF Pairwise, Items, z

LEMMA TakingAhead ==
  ASSUME NEW S, NEW q \in Seq(S), q # <<>>, NEW A, NEW B, Ahead(q, A, B)
  PROVE  Head(q) \notin A /\ (Head(q) \notin B => Ahead(Tail(q), A, B))
<1> DEFINE n == Len(q)  z == Tail(q)
<1>1. /\ n \in Nat /\ 1 \in 1..n /\ Len(z) = n - 1 /\ Head(q) = q[1]
      /\ \A i \in 1..n - 1 : i + 1 \in 1..n /\ z[i] = q[i + 1]
      /\ \A i \in 1..n : i = 1 \/ (i > 1 /\ i - 1 \in 1..n - 1 /\ q[i] = z[i - 1])
  BY Rest
<1> HIDE DEF n, z
<1>2. Head(q) \notin A
  <2>1. ~ \E j \in 1..n : j < 1
    BY <1>1
  <2> QED BY <1>1, <2>1 DEF Ahead, n
<1>3. ASSUME Head(q) \notin B, NEW i \in 1..n - 1, z[i] \in A
      PROVE  \E j \in 1..n - 1 : j < i /\ z[j] \in B
  <2>1. PICK j \in 1..n : j < i + 1 /\ q[j] \in B
    BY <1>1, <1>3 DEF Ahead, n
  <2>2. j # 1
    BY <1>1, <1>3, <2>1
  <2>3. j - 1 \in 1..n - 1 /\ q[j] = z[j - 1] /\ j - 1 < i
    BY <1>1, <2>1, <2>2
  <2> QED BY <2>1, <2>3
<1> QED BY <1>1, <1>2, <1>3 DEF Ahead, z

LEMMA TakingLater ==
  ASSUME NEW S, NEW q \in Seq(S), q # <<>>, NEW A, NEW B, Later(q, A, B)
  PROVE  Later(Tail(q), A, B) /\ (Head(q) \in A => Items(Tail(q)) \cap B # {})
<1> DEFINE n == Len(q)  z == Tail(q)
<1>1. /\ n \in Nat /\ 1 \in 1..n /\ Len(z) = n - 1 /\ Head(q) = q[1]
      /\ \A i \in 1..n - 1 : i + 1 \in 1..n /\ z[i] = q[i + 1]
      /\ \A i \in 1..n : i = 1 \/ (i > 1 /\ i - 1 \in 1..n - 1 /\ q[i] = z[i - 1])
  BY Rest
<1> HIDE DEF n, z
<1>2. ASSUME NEW i \in 1..n - 1, z[i] \in A
      PROVE  \E j \in 1..n - 1 : i < j /\ z[j] \in B
  <2>1. PICK j \in 1..n : i + 1 < j /\ q[j] \in B
    BY <1>1, <1>2 DEF Later, n
  <2>2. j - 1 \in 1..n - 1 /\ q[j] = z[j - 1] /\ i < j - 1
    BY <1>1, <2>1
  <2> QED BY <2>1, <2>2
<1>3. ASSUME Head(q) \in A PROVE Items(z) \cap B # {}
  <2>1. PICK j \in 1..n : 1 < j /\ q[j] \in B
    BY <1>1, <1>3 DEF Later, n
  <2>2. j - 1 \in 1..n - 1 /\ q[j] = z[j - 1]
    BY <1>1, <2>1
  <2> QED BY <1>1, <2>1, <2>2 DEF Items
<1> QED BY <1>1, <1>2, <1>3 DEF Later, z

\* What had arrived when a connection broke.
LEMMA Cutting ==
  ASSUME NEW S, NEW q \in Seq(S), NEW k \in 0..Len(q)
  PROVE  LET z == SubSeq(q, 1, k) IN
         /\ z \in Seq(S) /\ Len(z) = k /\ Items(z) \subseteq Items(q)
         /\ \A i \in 1..k : i \in 1..Len(q) /\ z[i] = q[i]
         /\ \A i \in 1..k, j \in 1..Len(q) : j < i => j \in 1..k
<1> DEFINE z == SubSeq(q, 1, k)
<1>1. /\ Len(q) \in Nat /\ k \in Nat /\ k <= Len(q)
      /\ z \in Seq(S) /\ Len(z) = k
      /\ \A i \in 1..k : i \in 1..Len(q) /\ z[i] = q[i]
  OBVIOUS
<1> HIDE DEF z
<1>2. Items(z) \subseteq Items(q)
  BY <1>1 DEF Items
<1>3. \A i \in 1..k, j \in 1..Len(q) : j < i => j \in 1..k
  BY <1>1
<1> QED BY <1>1, <1>2, <1>3 DEF z

LEMMA CuttingPairs ==
  ASSUME NEW S, NEW q \in Seq(S), NEW k \in 0..Len(q), NEW R, Pairwise(q, R)
  PROVE  Pairwise(SubSeq(q, 1, k), R)
<1> DEFINE z == SubSeq(q, 1, k)
<1>1. Len(z) = k /\ \A i \in 1..k : i \in 1..Len(q) /\ z[i] = q[i]
  BY Cutting
<1> HIDE DEF z
<1> QED BY <1>1 DEF Pairwise, z

LEMMA CuttingAhead ==
  ASSUME NEW S, NEW q \in Seq(S), NEW k \in 0..Len(q), NEW A, NEW B, Ahead(q, A, B)
  PROVE  Ahead(SubSeq(q, 1, k), A, B)
<1> DEFINE z == SubSeq(q, 1, k)
<1>1. /\ Len(z) = k /\ \A i \in 1..k : i \in 1..Len(q) /\ z[i] = q[i]
      /\ \A i \in 1..k, j \in 1..Len(q) : j < i => j \in 1..k
  BY Cutting
<1> HIDE DEF z
<1> SUFFICES ASSUME NEW i \in 1..k, z[i] \in A PROVE \E j \in 1..k : j < i /\ z[j] \in B
  BY <1>1 DEF Ahead, z
<1>2. PICK j \in 1..Len(q) : j < i /\ q[j] \in B
  BY <1>1 DEF Ahead
<1> QED BY <1>1, <1>2

-----------------------------------------------------------------------------
(* The editor: what holds at any pace *)

Clients ==
  [editor : Text, confirmed : Text, lastSent : Text \cup {NoText}, pending : BOOLEAN,
   debounce : BOOLEAN, jobs : Seq(BOOLEAN), seq : Nat, outstanding : SUBSET (Nat \X Text),
   me : Id, lock : {"free", "mine", "theirs", "former"}]

Jobs ==
  [step : {"none", "encoding", "put", "stored", "refused"}, text : Text, rest : BOOLEAN, as : Id]

Frames == [kind : {"edit", "acquire"}, from : Id, n : Nat, text : Text]

Events ==
  [kind : {"snapshot", "content", "lock", "denied", "ack", "rejected", "lost"},
   n : Nat, text : Text, who : Who]

\* The ranges of the variables, the fields of the records and the queues.
Ranges ==
  /\ ui \in Clients
  /\ job \in Jobs
  /\ job.step = "none" => job = NoJob
  /\ conn \in {"down", "open", "up"}
  /\ conns \in Id
  /\ toServer \in Seq(Frames) /\ late \in Seq(Frames) /\ toClient \in Seq(Events)
  /\ stored \in Text
  /\ holder \in Who
  /\ texts \in Text
  /\ refusals \in 0..MaxRefusals
  /\ paced \in BOOLEAN

\* No id, connection or number is used before it was given out.
Given ==
  /\ conn # "down" => conns # 0
  /\ conn = "down" => toServer = <<>>
  /\ ui.me <= conns /\ job.as <= conns /\ holder \in (0..conns) \cup {Peer}
  /\ \A f \in Items(toServer) :
       f.from = conns /\ f.n <= ui.seq /\ (f.kind = "edit" <=> f.n # 0)
  /\ \A f \in Items(late) : f.from \in 1..conns /\ (conn # "down" => f.from # conns)
  /\ \A e \in Items(toClient) :
       /\ e.kind = "snapshot" => e.n <= conns
       /\ e.kind \in {"ack", "denied", "rejected"} => e.n <= ui.seq
       /\ e.kind \in {"ack", "rejected"} => e.n > 0

\* No text is anywhere before it was typed.
Known ==
  /\ {ui.editor, ui.confirmed, job.text, stored} \subseteq 0..texts
  /\ ui.lastSent \in (0..texts) \cup {NoText}
  /\ \A o \in ui.outstanding : o[2] <= texts
  /\ \A f \in Items(toServer) \cup Items(late) : f.text <= texts
  /\ \A e \in Items(toClient) : e.text <= texts

\* What waits to be sent is not what was sent.
Dirty == ui.pending => ui.editor # ui.lastSent

Base == Ranges /\ Given /\ Known /\ Dirty

-----------------------------------------------------------------------------
(* What the client's functions do *)

LEMMA Numbered == Id \subseteq Nat /\ 0 \in Id /\ Peer \notin Id /\ MaxText \in Nat /\ 0 \in Text
                  /\ NoText \notin Text /\ Text \subseteq Nat
BY ClientConstants DEF Id, Text, NoText

\* The same client, but for what has still to be tried.
Alike(c, d) ==
  /\ d.editor = c.editor /\ d.confirmed = c.confirmed /\ d.lastSent = c.lastSent
  /\ d.pending = c.pending /\ d.seq = c.seq /\ d.outstanding = c.outstanding
  /\ d.me = c.me /\ d.lock = c.lock

LEMMA Flushing ==
  ASSUME NEW c \in Clients, NEW rest \in BOOLEAN
  PROVE  Flush(c, rest) \in Clients /\ Alike(c, Flush(c, rest))
<1>1. Append(c.jobs, rest) \in Seq(BOOLEAN)
  BY DEF Clients
<1>2. CASE c.pending /\ ~Locked(c)
  <2>1. Flush(c, rest) = [c EXCEPT !.debounce = FALSE, !.jobs = Append(@, rest)]
    BY <1>2 DEF Flush, Queued, Clients
  <2> QED BY <1>1, <2>1 DEF Clients, Alike
<1>3. CASE ~(c.pending /\ ~Locked(c))
  BY <1>3 DEF Flush, Clients, Alike
<1> QED BY <1>2, <1>3

LEMMA FlushingNow ==
  ASSUME NEW c \in Clients
  PROVE  Flush(c, FALSE) \in Clients /\ Alike(c, Flush(c, FALSE))
<1>1. FALSE \in BOOLEAN
  OBVIOUS
<1> QED BY ONLY <1>1, Flushing, c \in Clients, Zenon

\* The client rolled back, since a peer has the lock.
RolledBack(c, d) ==
  /\ d.editor = c.confirmed /\ d.lastSent = c.confirmed /\ ~d.pending /\ d.outstanding = {}
  /\ d.lock = "theirs"

Unmoved(c, d) ==
  /\ d.editor = c.editor /\ d.lastSent = c.lastSent /\ d.pending = c.pending
  /\ d.outstanding = c.outstanding

LEMMA Classified ==
  ASSUME NEW me \in Id, NEW who \in Who
  PROVE  /\ Classify(me, who, {Peer}) \in {"free", "mine", "theirs", "former"}
         /\ Classify(me, who, {Peer}) = "theirs" <=> who = Peer
BY Numbered DEF Classify, Who

LEMMA LockApplied ==
  ASSUME NEW c \in Clients, NEW who \in Who
  PROVE  LET d == ApplyLock(c, who) IN
         /\ d \in Clients
         /\ d.me = c.me /\ d.seq = c.seq /\ d.confirmed = c.confirmed
         /\ Unmoved(c, d) \/ (who = Peer /\ c.pending /\ RolledBack(c, d))
<1> DEFINE s == Shown(c, who)  d == ApplyLock(c, who)
<1>1. s \in Clients /\ s = [c EXCEPT !.lock = s.lock] /\ (s.lock = "theirs" <=> who = Peer)
  BY Classified DEF Shown, Clients
<1>2. CASE s.lock = "theirs" /\ c.pending
  <2>1. d = [s EXCEPT !.pending = FALSE, !.outstanding = {}, !.lastSent = s.confirmed,
                      !.editor = s.confirmed, !.debounce = FALSE]
    BY <1>1, <1>2 DEF ApplyLock, Revert, Reverted, Clients
  <2>2. d \in Clients
    BY <1>1, <2>1 DEF Clients
  <2> HIDE DEF s, d
  <2> QED BY <1>1, <1>2, <2>1, <2>2 DEF Clients, RolledBack, d
<1>3. CASE ~(s.lock = "theirs" /\ c.pending)
  <2>1. d = s \/ d = Flush(s, FALSE)
    BY <1>3 DEF ApplyLock
  <2> HIDE DEF s, d
  <2>2. Flush(s, FALSE) \in Clients /\ Alike(s, Flush(s, FALSE)) /\ Alike(s, s)
    <3>1. s \in Clients
      BY <1>1
    <3> QED BY ONLY <3>1, FlushingNow, Zenon DEF Alike
  <2>3. d \in Clients /\ Alike(s, d)
    BY <1>1, <2>1, <2>2
  <2> QED BY <1>1, <2>3 DEF Clients, Alike, Unmoved, d
<1> QED BY <1>2, <1>3

\* Pending text stays, anything else makes way; either way the text is confirmed.
LEMMA RemoteApplies ==
  ASSUME NEW c \in Clients, NEW t \in Text
  PROVE  LET d == ApplyRemote(c, t) IN
         /\ d \in Clients
         /\ d.me = c.me /\ d.seq = c.seq /\ d.outstanding = c.outstanding /\ d.confirmed = t
         /\ \/ c.pending /\ d.pending /\ d.editor = c.editor /\ d.lastSent = c.lastSent
            \/ /\ d.editor = t /\ d.lastSent = t /\ ~d.pending
               /\ d.editor # c.editor => ~c.pending
<1> DEFINE d == ApplyRemote(c, t)
<1>1. CASE ShouldApply(c, t)
  BY <1>1 DEF ApplyRemote, ShouldApply, RemoteApplied, Clients
<1>2. CASE ~ShouldApply(c, t) /\ c.editor = t
  BY <1>2 DEF ApplyRemote, ShouldApply, RemoteSeen, Clients
<1>3. CASE ~ShouldApply(c, t) /\ c.editor # t
  BY <1>3 DEF ApplyRemote, ShouldApply, RemoteSeen, Clients
<1> QED BY <1>1, <1>2, <1>3

LEMMA SnapshotApplies ==
  ASSUME NEW c \in Clients, NEW e \in Events, e.n \in Id
  PROVE  LET d == ApplySnapshot(c, e) IN
         /\ d \in Clients
         /\ d.me = e.n /\ d.seq = c.seq /\ d.confirmed = e.text
         /\ \/ /\ c.pending /\ d.pending /\ d.editor = c.editor /\ d.lastSent = c.lastSent
               /\ d.outstanding = c.outstanding
            \/ /\ d.editor = e.text /\ d.lastSent = e.text /\ ~d.pending
               /\ d.outstanding = c.outstanding
               /\ d.editor # c.editor => ~c.pending
            \/ /\ e.who = Peer /\ d.editor = e.text /\ d.lastSent = e.text /\ ~d.pending
               /\ d.outstanding = {} /\ d.lock = "theirs"
<1> DEFINE b == [c EXCEPT !.me = e.n]
           r == ApplyRemote(b, e.text)
           l == ApplyLock(r, e.who)
           d == ApplySnapshot(c, e)
<1>1. b \in Clients /\ b.me = e.n /\ b.seq = c.seq /\ Unmoved(c, b)
  BY DEF Clients, Unmoved
<1>2. e.text \in Text /\ e.who \in Who
  BY DEF Events
<1>3. /\ r \in Clients
      /\ r.me = e.n /\ r.seq = c.seq /\ r.outstanding = c.outstanding /\ r.confirmed = e.text
      /\ \/ c.pending /\ r.pending /\ r.editor = c.editor /\ r.lastSent = c.lastSent
         \/ /\ r.editor = e.text /\ r.lastSent = e.text /\ ~r.pending
            /\ r.editor # c.editor => ~c.pending
  <2> HIDE DEF b
  <2> QED BY <1>1, <1>2, RemoteApplies DEF Unmoved
<1>4. /\ l \in Clients
      /\ l.me = r.me /\ l.seq = r.seq /\ l.confirmed = r.confirmed
      /\ Unmoved(r, l) \/ (e.who = Peer /\ r.pending /\ RolledBack(r, l))
  <2> HIDE DEF r
  <2> QED BY <1>2, <1>3, LockApplied
<1>5. d = l \/ d = Flush(l, FALSE)
  BY DEF ApplySnapshot
<1>6. d \in Clients /\ Alike(l, d)
  <2> HIDE DEF l, d
  <2>1. Flush(l, FALSE) \in Clients /\ Alike(l, Flush(l, FALSE)) /\ Alike(l, l)
    <3>1. l \in Clients
      BY <1>4
    <3> QED BY ONLY <3>1, FlushingNow, Zenon DEF Alike
  <2> QED BY <1>4, <1>5, <2>1
<1> HIDE DEF b, r, l, d
<1>7. d.me = e.n /\ d.seq = c.seq /\ d.confirmed = e.text
  BY <1>3, <1>4, <1>6 DEF Alike
<1>8. CASE Unmoved(r, l)
  BY <1>3, <1>6, <1>7, <1>8 DEF Alike, Unmoved, d
<1>9. CASE e.who = Peer /\ RolledBack(r, l)
  BY <1>3, <1>6, <1>7, <1>9 DEF Alike, RolledBack, d
<1> QED BY <1>4, <1>8, <1>9

LEMMA AckApplies ==
  ASSUME NEW c \in Clients, NEW n \in Nat
  PROVE  LET d == Acked(c, n) IN
         /\ d \in Clients
         /\ d.editor = c.editor /\ d.lastSent = c.lastSent /\ d.pending = c.pending
         /\ d.seq = c.seq /\ d.me = c.me
         /\ \/ /\ d.outstanding = c.outstanding /\ d.confirmed = c.confirmed
               /\ \A o \in c.outstanding : o[1] # n
            \/ /\ d.outstanding = {o \in c.outstanding : o[1] > n}
               /\ \E o \in c.outstanding : o[1] = n /\ d.confirmed = o[2]
<1>1. CASE Waits(c, n)
  <2> DEFINE a == CHOOSE o \in c.outstanding : o[1] = n
  <2>1. a \in c.outstanding /\ a[1] = n
    BY <1>1 DEF Waits
  <2>2. Acked(c, n) = [c EXCEPT !.outstanding = After(c, n), !.confirmed = a[2]]
    BY <1>1 DEF Acked
  <2>3. After(c, n) \in SUBSET (Nat \X Text) /\ a[2] \in Text
    BY <2>1 DEF After, Clients
  <2> HIDE DEF a
  <2> QED BY <2>1, <2>2, <2>3 DEF After, Clients
<1>2. CASE ~Waits(c, n)
  BY <1>2 DEF Acked, Waits
<1> QED BY <1>1, <1>2

LEMMA RefusalApplies ==
  ASSUME NEW c \in Clients, NEW n \in Nat
  PROVE  LET d == Refused(c, n) IN
         /\ d \in Clients
         /\ d.editor = c.editor /\ d.confirmed = c.confirmed /\ d.seq = c.seq /\ d.me = c.me
         /\ \/ d = c /\ \A o \in c.outstanding : o[1] # n
            \/ /\ d.outstanding = {o \in c.outstanding : o[1] > n}
               /\ \E o \in c.outstanding : o[1] = n
               /\ d.lastSent = NoText /\ d.pending
<1>1. CASE Waits(c, n)
  <2>1. After(c, n) \in SUBSET (Nat \X Text)
    BY DEF After, Clients
  <2> QED BY <1>1, <2>1 DEF Refused, After, Waits, Clients
<1>2. CASE ~Waits(c, n)
  BY <1>2 DEF Refused, Waits
<1> QED BY <1>1, <1>2

LEMMA LossApplies ==
  ASSUME NEW c \in Clients
  PROVE  LET d == Lost(c) IN
         /\ d \in Clients
         /\ d.editor = c.editor /\ d.confirmed = c.confirmed /\ d.seq = c.seq /\ d.me = c.me
         /\ d.outstanding = {}
         /\ d = c \/ (d.lastSent = NoText /\ d.pending)
<1>1. CASE c.outstanding = {}
  BY <1>1 DEF Lost
<1>2. CASE c.outstanding # {}
  BY <1>2 DEF Lost, Clients
<1> QED BY <1>1, <1>2

-----------------------------------------------------------------------------
(* What the server tells the client *)

\* Of what is told at once no two events are equal.
Plain(r) ==
  /\ r \in Seq(Events)
  /\ \A R : (\A x, y \in Items(r) : x # y => <<x, y>> \in R) => Pairwise(r, R)

\* The lock's event, if the lock changes hands.
Locks(who) == IF holder = who THEN {} ELSE {Event("lock", 0, 0, who)}

LEMMA Eventful ==
  ASSUME NEW k \in {"snapshot", "content", "lock", "denied", "ack", "rejected", "lost"},
         NEW n \in Nat, NEW t \in Text, NEW w \in Who
  PROVE  /\ Event(k, n, t, w) \in Events
         /\ Event(k, n, t, w).kind = k /\ Event(k, n, t, w).n = n
         /\ Event(k, n, t, w).text = t /\ Event(k, n, t, w).who = w
BY DEF Event, Events

LEMMA Announcing ==
  ASSUME NEW who \in Who
  PROVE  Plain(Announced(who)) /\ Items(Announced(who)) = Locks(who)
<1> DEFINE l == Event("lock", 0, 0, who)
<1>1. l \in Events
  BY Numbered, Eventful
<1> HIDE DEF l
<1>2. Plain(<<>>) /\ Plain(<<l>>) /\ Items(<<>>) = {} /\ Items(<<l>>) = {l}
  BY <1>1, One DEF Plain
<1> QED BY <1>2 DEF Announced, Locks, l

\* A single event, alone or next to the lock's.
LEMMA Saying ==
  ASSUME NEW who \in Who, NEW e \in Events, e.kind # "lock"
  PROVE  /\ Plain(<<>>) /\ Items(<<>>) = {}
         /\ Plain(<<e>>) /\ Items(<<e>>) = {e}
         /\ Plain(<<e>> \o Announced(who))
         /\ Items(<<e>> \o Announced(who)) = {e} \cup Locks(who)
         /\ Plain(Announced(who) \o <<e>>)
         /\ Items(Announced(who) \o <<e>>) = {e} \cup Locks(who)
<1> DEFINE a == Announced(who)  s == <<e>>
<1>1. a \in Seq(Events) /\ Items(a) = Locks(who) /\ \A x \in Locks(who) : x # e
  BY Announcing DEF Plain, Locks, Event
<1>2. s \in Seq(Events) /\ Items(s) = {e}
  BY One
<1>3. Plain(<<>>) /\ Plain(s) /\ Items(<<>>) = {}
  BY One DEF Plain
<1>4. Plain(a)
  BY Announcing
<1> HIDE DEF a, s
<1>5. /\ s \o a \in Seq(Events) /\ Items(s \o a) = {e} \cup Locks(who)
      /\ a \o s \in Seq(Events) /\ Items(a \o s) = {e} \cup Locks(who)
  BY <1>1, <1>2, Joining
<1>6. ASSUME NEW R, \A x, y \in {e} \cup Locks(who) : x # y => <<x, y>> \in R
      PROVE  Pairwise(s \o a, R) /\ Pairwise(a \o s, R)
  <2>1. Pairwise(a, R) /\ Pairwise(s, R)
    BY <1>1, <1>2, <1>3, <1>4, <1>6 DEF Plain
  <2>2. \A x \in Items(s), y \in Items(a) : <<x, y>> \in R /\ <<y, x>> \in R
    BY <1>1, <1>2, <1>6
  <2> QED BY <1>1, <1>2, <2>1, <2>2, JoiningPairs
<1>7. Plain(s \o a) /\ Plain(a \o s)
  BY <1>5, <1>6 DEF Plain
<1> QED BY <1>2, <1>3, <1>5, <1>7 DEF a, s

LEMMA Told ==
  ASSUME Ranges, NEW r, Plain(r), Tell(r)
  PROVE  /\ toClient' \in Seq(Events)
         /\ Items(toClient') \subseteq Items(toClient) \cup Items(r)
         /\ conn = "up" => toClient' = toClient \o r /\ Items(toClient') = Items(toClient) \cup Items(r)
         /\ conn # "up" => toClient' = toClient
<1>1. toClient \in Seq(Events) /\ r \in Seq(Events)
  BY DEF Ranges, Plain
<1>2. toClient \o r \in Seq(Events) /\ Items(toClient \o r) = Items(toClient) \cup Items(r)
  BY <1>1, Joining
<1> QED BY <1>1, <1>2 DEF Tell

\* The answer to a frame, as what it changes and what it tells.
LEMMA Answered ==
  ASSUME Ranges, NEW f \in Frames, NEW own \in BOOLEAN, Answer(f, own)
  PROVE  \E r, told :
           /\ Plain(r) /\ Tell(r) /\ Items(r) = told
           /\ \/ /\ holder \notin {0, f.from}
                 /\ stored' = stored /\ holder' = holder /\ refusals' = refusals
                 /\ told = IF own THEN {Event("denied", f.n, 0, holder)} ELSE {}
              \/ /\ holder \in {0, f.from} /\ holder' = f.from
                 /\ f.kind = "acquire" /\ stored' = stored /\ refusals' = refusals
                 /\ told \subseteq {Event("lock", 0, 0, f.from)}
              \/ /\ holder \in {0, f.from} /\ holder' = f.from
                 /\ f.kind = "edit" /\ stored' = f.text /\ refusals' = refusals
                 /\ told = Locks(f.from) \cup (IF own THEN {Event("ack", f.n, 0, 0)}
                                                 ELSE {Event("content", 0, f.text, 0)})
              \/ /\ holder \in {0, f.from} /\ holder' = f.from
                 /\ f.kind = "edit" /\ stored' = stored
                 /\ refusals < MaxRefusals /\ refusals' = refusals + 1
                 /\ told = Locks(f.from) \cup (IF own THEN {Event("rejected", f.n, 0, 0)} ELSE {})
<1>1. /\ f.from \in Who /\ f.n \in Nat /\ f.text \in Text /\ holder \in Who /\ 0 \in Who
      /\ 0 \in Text /\ 0 \in Nat
  BY Numbered DEF Frames, Ranges, Who
<1> DEFINE d == Event("denied", f.n, 0, holder)
           l == Event("lock", 0, 0, f.from)
           a == Event("ack", f.n, 0, 0)
           c == Event("content", 0, f.text, 0)
           j == Event("rejected", f.n, 0, 0)
<1>2. d \in Events /\ d.kind # "lock" /\ a \in Events /\ a.kind # "lock"
      /\ c \in Events /\ c.kind # "lock" /\ j \in Events /\ j.kind # "lock" /\ l \in Events
  BY <1>1, Eventful
<1>3. Plain(<<l>>) /\ Items(<<l>>) = {l}
  BY <1>2, One DEF Plain
<1>4. Plain(<<>>) /\ Items(<<>>) = {}
  BY <1>1, <1>2, Saying
<1>5. Plain(Announced(f.from)) /\ Items(Announced(f.from)) = Locks(f.from)
  BY <1>1, Announcing
<1>6. \A e \in {d, a, c, j} :
        /\ Plain(<<e>>) /\ Items(<<e>>) = {e}
        /\ Plain(<<e>> \o Announced(f.from))
        /\ Items(<<e>> \o Announced(f.from)) = {e} \cup Locks(f.from)
        /\ Plain(Announced(f.from) \o <<e>>)
        /\ Items(Announced(f.from) \o <<e>>) = {e} \cup Locks(f.from)
  BY <1>1, <1>2, Saying
<1>7. /\ <<>> \o Announced(f.from) = Announced(f.from)
      /\ Announced(f.from) \o <<>> = Announced(f.from)
      /\ (<<c>> \o Announced(f.from)) \o <<>> = <<c>> \o Announced(f.from)
  <2>1. Announced(f.from) \in Seq(Events) /\ <<c>> \o Announced(f.from) \in Seq(Events)
    BY <1>5, <1>6 DEF Plain
  <2> HIDE DEF c
  <2> QED BY <2>1, ConcatEmptySeq
<1> HIDE DEF d, l, a, c, j
<1>8. CASE holder \notin {0, f.from}
  <2>1. /\ stored' = stored /\ holder' = holder /\ refusals' = refusals
        /\ Tell(IF own THEN <<d>> ELSE <<>>)
    BY <1>8 DEF Answer, d
  <2>2. Plain(IF own THEN <<d>> ELSE <<>>)
        /\ Items(IF own THEN <<d>> ELSE <<>>) = IF own THEN {d} ELSE {}
    BY <1>4, <1>6
  <2> QED BY <1>8, <2>1, <2>2 DEF d
<1>9. CASE holder \in {0, f.from} /\ f.kind = "acquire"
  <2>1. /\ stored' = stored /\ holder' = f.from /\ refusals' = refusals
        /\ \/ Tell(Announced(f.from)) \/ Tell(<<l>>) \/ Tell(<<>>)
    BY <1>9 DEF Answer, l
  <2>2. Locks(f.from) \subseteq {l}
    BY DEF Locks, l
  <2> QED BY <1>3, <1>4, <1>5, <1>9, <2>1, <2>2 DEF l
<1>10. CASE holder \in {0, f.from} /\ f.kind = "edit" /\ stored' = f.text /\ refusals' = refusals
              /\ Tell((IF own THEN <<>> ELSE <<c>>) \o Announced(f.from) \o (IF own THEN <<a>> ELSE <<>>))
  <2>1. holder' = f.from
    BY <1>10 DEF Answer
  <2>2. CASE own
    <3>1. Tell(Announced(f.from) \o <<a>>)
      BY <1>7, <1>10, <2>2
    <3> QED BY <1>6, <1>10, <2>1, <2>2, <3>1 DEF a
  <2>3. CASE ~own
    <3>1. Tell(<<c>> \o Announced(f.from))
      BY <1>7, <1>10, <2>3
    <3> QED BY <1>6, <1>10, <2>1, <2>3, <3>1 DEF c
  <2> QED BY <2>2, <2>3
<1>11. CASE holder \in {0, f.from} /\ f.kind = "edit" /\ refusals < MaxRefusals /\ refusals' = refusals + 1
              /\ stored' = stored
              /\ Tell(Announced(f.from) \o (IF own THEN <<j>> ELSE <<>>))
  <2>1. holder' = f.from
    BY <1>11 DEF Answer
  <2>2. CASE own
    BY <1>6, <1>11, <2>1, <2>2 DEF j
  <2>3. CASE ~own
    <3>1. Tell(Announced(f.from))
      BY <1>7, <1>11, <2>3
    <3> QED BY <1>5, <1>11, <2>1, <2>3, <3>1
  <2> QED BY <2>2, <2>3
<1> QED BY <1>8, <1>9, <1>10, <1>11 DEF Answer, a, c, j

-----------------------------------------------------------------------------
(* What holds at any pace, step by step *)

LEMMA BaseInit == Init => Base
<1> SUFFICES ASSUME Init PROVE Base
  OBVIOUS
<1>1. ui \in Clients
  BY Numbered DEF Init, Clients
<1>2. Ranges
  BY <1>1, Numbered, ClientConstants DEF Init, Ranges, Jobs, NoJob, Who
<1>3. Given
  BY DEF Init, Given, Items, NoJob
<1>4. Known
  BY Numbered DEF Init, Known, Items, NoJob
<1> QED BY <1>2, <1>3, <1>4 DEF Base, Dirty, Init

\* A step that opens and closes no connection, by what it may put where.
Right(e, n, t) ==
  /\ e.kind = "snapshot" => e.n <= conns
  /\ e.kind \in {"ack", "denied", "rejected"} => e.n <= n
  /\ e.kind \in {"ack", "rejected"} => e.n > 0
  /\ e.text <= t

LEMMA BaseStep ==
  ASSUME Base,
         conn' = conn, conns' = conns, paced' = paced,
         ui' \in Clients, ui'.me <= conns, ui'.seq >= ui.seq, Dirty',
         job' \in Jobs, job'.step = "none" => job' = NoJob, job'.as <= conns,
         texts' \in Text, texts' >= texts, refusals' \in 0..MaxRefusals,
         {ui'.editor, ui'.confirmed, job'.text, stored'} \subseteq 0..texts',
         ui'.lastSent \in (0..texts') \cup {NoText}, \A o \in ui'.outstanding : o[2] <= texts',
         holder' \in (0..conns) \cup {Peer},
         toServer' \in Seq(Frames), late' \in Seq(Frames), toClient' \in Seq(Events),
         conn = "down" => toServer' = toServer,
         \A f \in Items(toServer') : f \in Items(toServer) \/
            /\ f.from = conns /\ f.n <= ui'.seq /\ f.text <= texts'
            /\ f.kind = "edit" <=> f.n # 0,
         Items(late') \subseteq Items(late),
         \A e \in Items(toClient') : e \in Items(toClient) \/ Right(e, ui'.seq, texts')
  PROVE  Base'
<1>1. /\ texts \in Nat /\ texts' \in Nat /\ ui.seq \in Nat /\ ui'.seq \in Nat
      /\ conns \in Nat /\ conns \in Id
  BY Numbered DEF Base, Ranges, Clients, Text
<1>2. /\ Items(toServer) \cup Items(late) \subseteq Frames /\ Items(toClient) \subseteq Events
  BY Within DEF Base, Ranges
<1>3. holder' \in Who /\ stored' \in Text
  BY <1>1, ClientConstants DEF Who, Id, Text
<1>4. Ranges'
  BY <1>1, <1>3 DEF Base, Ranges
<1>5. /\ \A f \in Frames : f.n \in Nat /\ f.text \in Nat
      /\ \A e \in Events : e.n \in Nat /\ e.text \in Nat
  BY Numbered DEF Frames, Events
<1>6. /\ \A f \in Items(toServer) : f.n <= ui'.seq /\ f.text <= texts'
      /\ \A f \in Items(late) : f.text <= texts'
  <2>1. \A f \in Items(toServer) \cup Items(late) : f.n \in Nat /\ f.text \in Nat /\ f.text <= texts
    BY <1>2, <1>5 DEF Base, Known
  <2>2. \A f \in Items(toServer) : f.n <= ui.seq
    BY DEF Base, Given
  <2>3. \A n \in Nat : (n <= ui.seq => n <= ui'.seq) /\ (n <= texts => n <= texts')
    BY ONLY <1>1, ui'.seq >= ui.seq, texts' >= texts, SMT
  <2> QED BY <2>1, <2>2, <2>3
<1>9. \A e \in Items(toClient) : Right(e, ui'.seq, texts')
  <2> TAKE e \in Items(toClient)
  <2>1. e.n \in Nat /\ e.text \in Nat
    BY <1>2, <1>5
  <2>2. Right(e, ui.seq, texts)
    BY DEF Base, Given, Known, Right
  <2>3. (e.n <= ui.seq => e.n <= ui'.seq) /\ (e.text <= texts => e.text <= texts')
    BY ONLY <1>1, <2>1, ui'.seq >= ui.seq, texts' >= texts, SMT
  <2> QED BY <2>2, <2>3 DEF Right
<1>7. Given'
  BY <1>1, <1>6, <1>9 DEF Base, Given, Right
<1>8. Known'
  BY <1>1, <1>6, <1>9 DEF Base, Known, Right
<1> QED BY <1>4, <1>7, <1>8 DEF Base

\* Typed text is new: it is not the one sent last.
LEMMA TypedText ==
  ASSUME Base, texts < MaxText
  PROVE  LET d == Typed(ui, texts + 1) IN
         /\ d \in Clients /\ texts + 1 \in Text /\ texts + 1 >= texts
         /\ d.editor = texts + 1 /\ d.confirmed = ui.confirmed /\ d.lastSent = ui.lastSent
         /\ d.pending /\ d.seq = ui.seq /\ d.outstanding = ui.outstanding /\ d.me = ui.me
         /\ d.editor # d.lastSent
         /\ {d.editor, d.confirmed, job.text, stored} \subseteq 0..(texts + 1)
         /\ d.lastSent \in (0..(texts + 1)) \cup {NoText}
         /\ \A o \in d.outstanding : o[2] <= texts + 1
<1>1. texts \in Nat /\ texts + 1 \in Text /\ texts + 1 >= texts /\ 0..texts \subseteq 0..(texts + 1)
  BY ClientConstants DEF Base, Ranges, Text
<1>2. ui.lastSent \in (0..texts) \cup {NoText} /\ ui \in Clients
  BY DEF Base, Ranges, Known
<1>3. texts + 1 # ui.lastSent
  BY <1>1, <1>2, ClientConstants DEF Text, NoText
<1>4. \A o \in ui.outstanding : o[2] \in Nat /\ o[2] <= texts + 1
  <2>1. ui.outstanding \subseteq Nat \X Text /\ \A o \in ui.outstanding : o[2] <= texts
    BY <1>2 DEF Base, Clients, Known
  <2> TAKE o \in ui.outstanding
  <2>2. o[2] \in Nat /\ o[2] <= texts
    BY <2>1, Numbered
  <2> QED BY <1>1, <2>2
<1>5. {ui.confirmed, job.text, stored} \subseteq 0..(texts + 1)
  BY <1>1 DEF Base, Known
<1> DEFINE d == Typed(ui, texts + 1)
<1>6. /\ d \in Clients
      /\ d.editor = texts + 1 /\ d.confirmed = ui.confirmed /\ d.lastSent = ui.lastSent
      /\ d.pending /\ d.seq = ui.seq /\ d.outstanding = ui.outstanding /\ d.me = ui.me
  BY <1>1, <1>2 DEF Typed, Clients
<1> HIDE DEF d
<1>7. texts + 1 \in 0..(texts + 1)
  BY <1>1
<1> QED BY <1>1, <1>2, <1>3, <1>4, <1>5, <1>6, <1>7 DEF d

\* Nothing is known but what was.
LEMMA Kept ==
  ASSUME Base
  PROVE  /\ ui \in Clients /\ ui.me <= conns /\ ui.seq >= ui.seq /\ ui.seq \in Nat
         /\ job \in Jobs /\ job.as <= conns /\ (job.step = "none" => job = NoJob)
         /\ texts \in Text /\ texts >= texts /\ texts \in Nat /\ refusals \in 0..MaxRefusals
         /\ {ui.editor, ui.confirmed, job.text, stored} \subseteq 0..texts
         /\ ui.lastSent \in (0..texts) \cup {NoText}
         /\ \A o \in ui.outstanding : o[2] <= texts
         /\ holder \in (0..conns) \cup {Peer} /\ conns \in Nat /\ 0 <= conns
         /\ toServer \in Seq(Frames) /\ late \in Seq(Frames) /\ toClient \in Seq(Events)
BY Numbered DEF Base, Ranges, Given, Known, Clients, Text

\* Nor counted.
LEMMA Counted ==
  ASSUME Base
  PROVE  conns \in Nat /\ texts \in Nat /\ ui.seq \in Nat /\ ui.me \in Nat /\ job.as \in Nat
BY Kept, Numbered DEF Clients, Jobs

LEMMA BaseTypeText == Base /\ TypeText => Base'
<1> SUFFICES ASSUME Base, TypeText PROVE Base'
  OBVIOUS
<1> DEFINE d == Typed(ui, texts + 1)
<1>1. /\ d \in Clients /\ texts + 1 \in Text /\ texts + 1 >= texts
      /\ d.pending /\ d.seq = ui.seq /\ d.outstanding = ui.outstanding /\ d.me = ui.me
      /\ d.editor # d.lastSent
      /\ {d.editor, d.confirmed, job.text, stored} \subseteq 0..(texts + 1)
      /\ d.lastSent \in (0..(texts + 1)) \cup {NoText}
      /\ \A o \in d.outstanding : o[2] <= texts + 1
  BY TypedText DEF TypeText
<1>2. ui' = [d EXCEPT !.debounce = TRUE] /\ texts' = texts + 1
      /\ UNCHANGED <<job, conn, conns, late, toClient, stored, holder, refusals, paced>>
  BY DEF TypeText
<1> HIDE DEF d
<1>3. ui' \in Clients /\ Alike(d, ui')
  BY <1>1, <1>2 DEF Clients, Alike
<1>4. \/ toServer' = toServer
      \/ /\ conn # "down" /\ toServer' \in Seq(Frames)
         /\ Items(toServer') = Items(toServer) \cup {Frame("acquire", conns, 0, 0)}
  <2> DEFINE f == Frame("acquire", conns, 0, 0)
  <2>1. f \in Frames /\ toServer \in Seq(Frames)
    BY Numbered DEF Frame, Frames, Base, Ranges
  <2> HIDE DEF f
  <2>2. Append(toServer, f) \in Seq(Frames) /\ Items(Append(toServer, f)) = Items(toServer) \cup {f}
    BY <2>1, Appending
  <2>3. toServer' = toServer \/ (conn # "down" /\ toServer' = Append(toServer, f))
    BY DEF TypeText, f
  <2> QED BY <2>2, <2>3 DEF f
<1>5. Dirty'
  BY <1>1, <1>3 DEF Dirty, Alike
<1>6. 0 <= texts + 1 /\ 0 <= ui.seq
  BY Kept
<1>7. \A f \in Items(toServer') : f \in Items(toServer) \/
         /\ f.from = conns /\ f.n <= ui'.seq /\ f.text <= texts'
         /\ f.kind = "edit" <=> f.n # 0
  BY <1>1, <1>2, <1>3, <1>4, <1>6 DEF Frame, Alike
<1> QED BY <1>1, <1>2, <1>3, <1>4, <1>5, <1>7, Kept, BaseStep DEF Alike

LEMMA BaseInsertMarkers == Base /\ InsertMarkers => Base'
<1> SUFFICES ASSUME Base, InsertMarkers PROVE Base'
  OBVIOUS
<1> DEFINE d == Typed(ui, texts + 1)
<1>1. /\ d \in Clients /\ texts + 1 \in Text /\ texts + 1 >= texts
      /\ d.pending /\ d.seq = ui.seq /\ d.outstanding = ui.outstanding /\ d.me = ui.me
      /\ d.editor # d.lastSent
      /\ {d.editor, d.confirmed, job.text, stored} \subseteq 0..(texts + 1)
      /\ d.lastSent \in (0..(texts + 1)) \cup {NoText}
      /\ \A o \in d.outstanding : o[2] <= texts + 1
  BY TypedText DEF InsertMarkers
<1>2. ui' = Flush(d, TRUE) /\ texts' = texts + 1
      /\ UNCHANGED <<job, conn, conns, toServer, late, toClient, stored, holder, refusals, paced>>
  BY DEF InsertMarkers
<1> HIDE DEF d
<1>3. ui' \in Clients /\ Alike(d, ui')
  BY <1>1, <1>2, Flushing
<1>4. Dirty'
  BY <1>1, <1>3 DEF Dirty, Alike
<1>5. /\ ui'.seq >= ui.seq /\ ui'.me <= conns
      /\ {ui'.editor, ui'.confirmed, job'.text, stored'} \subseteq 0..texts'
      /\ ui'.lastSent \in (0..texts') \cup {NoText} /\ \A o \in ui'.outstanding : o[2] <= texts'
  <2>1. ui.me <= conns /\ ui.seq >= ui.seq
    BY Kept
  <2>2. /\ ui'.editor = d.editor /\ ui'.confirmed = d.confirmed /\ ui'.lastSent = d.lastSent
        /\ ui'.seq = ui.seq /\ ui'.me = ui.me /\ ui'.outstanding = d.outstanding
    BY <1>1, <1>3 DEF Alike
  <2>3. \A o \in ui'.outstanding : o[2] <= texts'
    BY <1>1, <1>2, <2>2
  <2>4. {ui'.editor, ui'.confirmed, job'.text, stored'} = {d.editor, d.confirmed, job.text, stored}
    BY <1>2, <2>2
  <2>5. 0..texts' = 0..(texts + 1)
    BY <1>2
  <2>6. ui'.seq >= ui.seq /\ ui'.me <= conns
    BY <2>1, <2>2
  <2>7. ui'.lastSent \in (0..texts') \cup {NoText}
    BY <1>1, <2>2, <2>5
  <2>8. {ui'.editor, ui'.confirmed, job'.text, stored'} \subseteq 0..texts'
    BY <1>1, <2>4, <2>5
  <2> QED BY <2>3, <2>6, <2>7, <2>8
<1>6. texts' \in Text /\ texts' >= texts
  BY <1>1, <1>2
<1>7. /\ job' \in Jobs /\ (job'.step = "none" => job' = NoJob) /\ job'.as <= conns
      /\ refusals' \in 0..MaxRefusals /\ holder' \in (0..conns) \cup {Peer}
      /\ toServer' \in Seq(Frames) /\ late' \in Seq(Frames) /\ toClient' \in Seq(Events)
  BY <1>2, Kept
<1> QED BY <1>2, <1>3, <1>4, <1>5, <1>6, <1>7, BaseStep

LEMMA BaseDebounce == Base /\ Debounce => Base'
<1> SUFFICES ASSUME Base, Debounce PROVE Base'
  OBVIOUS
<1>1. ui' \in Clients /\ Alike(ui, ui')
  BY FlushingNow, Kept DEF Debounce
<1>2. Dirty'
  BY <1>1 DEF Base, Dirty, Alike
<1>3. UNCHANGED <<job, conn, conns, toServer, late, toClient, stored, holder, texts, refusals, paced>>
  BY DEF Debounce
<1> QED BY <1>1, <1>2, <1>3, Kept, BaseStep DEF Alike

LEMMA BaseStart == Base /\ Start => Base'
<1> SUFFICES ASSUME Base, Start PROVE Base'
  OBVIOUS
<1>1. Tail(ui.jobs) \in Seq(BOOLEAN) /\ Head(ui.jobs) \in BOOLEAN
  BY Taking, Kept DEF Start, Clients
<1>2. UNCHANGED <<conn, conns, toServer, late, toClient, stored, holder, texts, refusals, paced>>
  BY DEF Start
<1>3. CASE ui.editor = ui.lastSent
  <2>1. ui' = [ui EXCEPT !.jobs = Tail(@), !.pending = FALSE] /\ job' = job
    BY <1>3 DEF Start
  <2>2. /\ ui' \in Clients /\ ~ui'.pending /\ ui'.seq = ui.seq /\ ui'.me = ui.me
        /\ ui'.editor = ui.editor /\ ui'.confirmed = ui.confirmed /\ ui'.lastSent = ui.lastSent
        /\ ui'.outstanding = ui.outstanding
    BY <1>1, <2>1, Kept DEF Clients
  <2>3. Dirty'
    BY <2>2 DEF Dirty
  <2> QED BY <1>2, <2>1, <2>2, <2>3, Kept, BaseStep
<1>4. CASE ui.editor # ui.lastSent
  <2>1. /\ ui' = [ui EXCEPT !.jobs = Tail(@)]
        /\ job' = [step |-> "encoding", text |-> ui.editor, rest |-> Head(ui.jobs), as |-> 0]
    BY <1>4 DEF Start
  <2>2. ui' \in Clients /\ Alike(ui, ui')
    BY <1>1, <2>1, Kept DEF Clients, Alike
  <2>3. job' \in Jobs /\ job'.step # "none" /\ job'.as = 0 /\ job'.text = ui.editor
    BY <1>1, <2>1, Kept, Numbered DEF Clients, Jobs
  <2>4. Dirty'
    BY <2>2 DEF Base, Dirty, Alike
  <2> QED BY <1>2, <2>2, <2>3, <2>4, Kept, BaseStep DEF Alike
<1> QED BY <1>3, <1>4

\* What handing a text over changes.
LEMMA SentText ==
  ASSUME NEW c \in Clients, NEW t \in Text
  PROVE  LET d == SentAsFrame(c, t)  h == StoredByPut(c, t) IN
         /\ d \in Clients /\ h \in Clients
         /\ d.editor = c.editor /\ d.confirmed = c.confirmed /\ d.me = c.me /\ d.lock = c.lock
         /\ d.lastSent = t /\ (d.pending <=> c.pending /\ c.editor # t)
         /\ d.seq = c.seq + 1 /\ d.outstanding = c.outstanding \cup {<<c.seq + 1, t>>}
         /\ h.editor = c.editor /\ h.confirmed = t /\ h.me = c.me /\ h.lock = c.lock
         /\ h.lastSent = t /\ (h.pending <=> c.pending /\ c.editor # t)
         /\ h.seq = c.seq /\ h.outstanding = {}
<1>1. c.seq + 1 \in Nat /\ <<c.seq + 1, t>> \in Nat \X Text
  BY DEF Clients
<1>2. SentAsFrame(c, t) = [c EXCEPT !.lastSent = t, !.pending = c.pending /\ c.editor # t,
                                    !.seq = c.seq + 1,
                                    !.outstanding = c.outstanding \cup {<<c.seq + 1, t>>}]
  BY DEF SentAsFrame, HandedOver, Clients
<1>3. StoredByPut(c, t) = [c EXCEPT !.lastSent = t, !.pending = c.pending /\ c.editor # t,
                                    !.confirmed = t, !.outstanding = {}]
  BY DEF StoredByPut, HandedOver, Clients
<1>4. (c.pending /\ c.editor # t) \in BOOLEAN /\ c.outstanding \cup {<<c.seq + 1, t>>} \in SUBSET (Nat \X Text)
  BY <1>1 DEF Clients
<1>5. SentAsFrame(c, t) \in Clients
  BY <1>1, <1>2, <1>4 DEF Clients
<1>6. StoredByPut(c, t) \in Clients
  BY <1>3, <1>4 DEF Clients
<1> QED BY <1>2, <1>3, <1>5, <1>6 DEF Clients

LEMMA BaseSend == Base /\ Send => Base'
<1> SUFFICES ASSUME Base, Send PROVE Base'
  OBVIOUS
<1>1. UNCHANGED <<conn, conns, late, toClient, stored, holder, texts, refusals, paced>>
  BY DEF Send
<1>2. NoJob \in Jobs /\ NoJob.step = "none" /\ NoJob.text = 0 /\ NoJob.as = 0
  BY Numbered DEF NoJob, Jobs
<1>3. 0 \in 0..texts /\ job.text \in Text /\ job.text <= texts
  BY Kept DEF Jobs
<1>4. CASE /\ conn # "down"
           /\ toServer' = Append(toServer, Frame("edit", conns, ui.seq + 1, job.text))
           /\ ui' = SentAsFrame(ui, job.text)
           /\ job' = NoJob
  <2> DEFINE f == Frame("edit", conns, ui.seq + 1, job.text)
  <2>1. f \in Frames /\ f.from = conns /\ f.n = ui.seq + 1 /\ f.n # 0 /\ f.kind = "edit" /\ f.text = job.text
    BY <1>3, Kept, Numbered DEF Frame, Frames, Base, Ranges
  <2>2. toServer' = Append(toServer, f)
    BY <1>4
  <2> HIDE DEF f
  <2>3. toServer' \in Seq(Frames) /\ Items(toServer') = Items(toServer) \cup {f}
    BY <2>1, <2>2, Appending, Kept
  <2>4. /\ ui' \in Clients
        /\ ui'.editor = ui.editor /\ ui'.confirmed = ui.confirmed /\ ui'.me = ui.me
        /\ ui'.lastSent = job.text /\ (ui'.pending <=> ui.pending /\ ui.editor # job.text)
        /\ ui'.seq = ui.seq + 1 /\ ui'.outstanding = ui.outstanding \cup {<<ui.seq + 1, job.text>>}
    <3> DEFINE d == SentAsFrame(ui, job.text)
    <3>1. ui \in Clients
      BY Kept
    <3>2. /\ d \in Clients
          /\ d.editor = ui.editor /\ d.confirmed = ui.confirmed /\ d.me = ui.me
          /\ d.lastSent = job.text /\ (d.pending <=> ui.pending /\ ui.editor # job.text)
          /\ d.seq = ui.seq + 1 /\ d.outstanding = ui.outstanding \cup {<<ui.seq + 1, job.text>>}
      BY <1>3, <3>1, SentText
    <3> QED BY <1>4, <3>2
  <2>5. Dirty'
    BY <2>4 DEF Dirty
  <2>6. ui'.seq >= ui.seq /\ f.n <= ui'.seq
    BY <2>1, <2>4, Kept
  <2>7. \A o \in ui'.outstanding : o[2] <= texts
    BY <1>3, <2>4, Kept
  <2>8. ui'.lastSent \in 0..texts
    BY <2>4, Kept
  <2>9. \A g \in Items(toServer') : g \in Items(toServer) \/
           /\ g.from = conns /\ g.n <= ui'.seq /\ g.text <= texts'
           /\ g.kind = "edit" <=> g.n # 0
    BY <1>1, <1>3, <2>1, <2>3, <2>6
  <2>10. job' \in Jobs /\ job'.step = "none" /\ job' = NoJob /\ job'.text = 0 /\ job'.as = 0
    BY <1>2, <1>4
  <2>11. Items(late') \subseteq Items(late)
    BY <1>1
  <2>12. {ui'.editor, ui'.confirmed, job'.text, stored'} \subseteq 0..texts'
    BY <1>1, <1>3, <2>4, <2>10, Kept
  <2> QED BY <1>1, <1>4, <2>3, <2>4, <2>5, <2>6, <2>7, <2>8, <2>9, <2>10, <2>11, <2>12, Kept, BaseStep
<1>5. CASE /\ conn = "down"
           /\ job' = IF job.rest THEN [job EXCEPT !.step = "put", !.as = ui.me] ELSE NoJob
           /\ UNCHANGED <<ui, toServer>>
  <2>1. job' \in Jobs /\ (job'.step = "none" => job' = NoJob) /\ job'.as <= conns /\ job'.text \in 0..texts
    <3>1. CASE job.rest
      BY <1>5, <3>1, Kept DEF Jobs, Clients
    <3>2. CASE ~job.rest
      BY <1>2, <1>3, <1>5, <3>2, Kept
    <3> QED BY <3>1, <3>2
  <2>2. Dirty'
    BY <1>5 DEF Base, Dirty
  <2> QED BY <1>1, <1>5, <2>1, <2>2, Kept, BaseStep
<1> QED BY <1>4, <1>5 DEF Send

LEMMA BasePutEnds == Base /\ PutEnds => Base'
<1> SUFFICES ASSUME Base, PutEnds PROVE Base'
  OBVIOUS
<1>1. UNCHANGED <<conn, conns, toServer, late, toClient, stored, holder, texts, refusals, paced>>
  BY DEF PutEnds
<1>2. job' \in Jobs /\ job' = NoJob /\ job'.text = 0 /\ job'.as = 0
  BY Numbered DEF PutEnds, NoJob, Jobs
<1>3. 0 \in 0..texts /\ job.text \in Text /\ job.text \in 0..texts
  BY Kept DEF Jobs
<1>4. /\ ui' \in Clients /\ ui'.me = ui.me /\ ui'.seq = ui.seq /\ Dirty'
      /\ {ui'.editor, ui'.confirmed} \subseteq 0..texts
      /\ ui'.lastSent \in (0..texts) \cup {NoText}
      /\ \A o \in ui'.outstanding : o[2] <= texts
  <2>1. CASE ui' = ui
    BY <2>1, Kept DEF Base, Dirty
  <2>2. CASE ui' = StoredByPut(ui, job.text)
    <3>1. /\ ui' \in Clients
          /\ ui'.editor = ui.editor /\ ui'.confirmed = job.text /\ ui'.me = ui.me
          /\ ui'.lastSent = job.text /\ (ui'.pending <=> ui.pending /\ ui.editor # job.text)
          /\ ui'.seq = ui.seq /\ ui'.outstanding = {}
      <4>1. ui \in Clients
        BY Kept
      <4> QED BY <1>3, <2>2, <4>1, SentText
    <3>2. Dirty'
      BY <3>1 DEF Dirty
    <3> QED BY <1>3, <3>1, <3>2, Kept
  <2> QED BY <2>1, <2>2 DEF PutEnds
<1> QED BY <1>1, <1>2, <1>3, <1>4, Kept, BaseStep

\* A step of the server: the client has only its PUT's answer of it.
LEMMA BaseServer ==
  ASSUME Base, NEW r, Plain(r), Tell(r),
         \A e \in Items(r) : Right(e, ui.seq, texts'),
         UNCHANGED <<ui, conn, conns, paced>>,
         job' \in Jobs, job'.step = "none" => job' = NoJob, job'.as <= conns, job'.text = job.text,
         texts' \in Text, texts' >= texts, refusals' \in 0..MaxRefusals,
         stored' \in 0..texts', holder' \in (0..conns) \cup {Peer},
         toServer' \in Seq(Frames), Items(toServer') \subseteq Items(toServer),
         conn = "down" => toServer' = toServer,
         late' \in Seq(Frames), Items(late') \subseteq Items(late)
  PROVE  Base'
<1>1. toClient' \in Seq(Events) /\ Items(toClient') \subseteq Items(toClient) \cup Items(r)
  BY Told DEF Base
<1>2. texts \in Nat /\ 0..texts \subseteq 0..texts'
  BY Kept, Numbered
<1>3. \A o \in ui.outstanding : o[2] <= texts'
  <2> TAKE o \in ui.outstanding
  <2>1. o[2] \in Nat /\ o[2] <= texts
    <3>1. ui.outstanding \subseteq Nat \X Text
      BY Kept DEF Clients
    <3> QED BY <3>1, Kept, Numbered
  <2> QED BY <1>2, <2>1, Numbered
<1>4. Dirty'
  BY DEF Base, Dirty
<1>5. {ui'.editor, ui'.confirmed, job'.text, stored'} \subseteq 0..texts'
  BY <1>2, Kept
<1>6. \A e \in Items(toClient') : e \in Items(toClient) \/ Right(e, ui'.seq, texts')
  BY <1>1
<1> QED BY <1>1, <1>2, <1>3, <1>4, <1>5, <1>6, Kept, BaseStep

LEMMA BaseServe == Base /\ Serve => Base'
<1> SUFFICES ASSUME Base, Serve PROVE Base'
  OBVIOUS
<1>1. UNCHANGED <<ui, job, conn, conns, texts, paced>>
  BY DEF Serve
<1>2. \E f, own :
        /\ f \in Frames /\ own \in BOOLEAN /\ Answer(f, own)
        /\ f.from \in 0..conns /\ f.text \in 0..texts /\ f.n \in Nat
        /\ own => f.n <= ui.seq /\ (f.kind = "edit" => f.n > 0)
        /\ toServer' \in Seq(Frames) /\ Items(toServer') \subseteq Items(toServer)
        /\ conn = "down" => toServer' = toServer
        /\ late' \in Seq(Frames) /\ Items(late') \subseteq Items(late)
  <2>1. CASE /\ conn = "up" /\ toServer # <<>> /\ toServer' = Tail(toServer)
             /\ Answer(Head(toServer), TRUE) /\ late' = late
    <3> DEFINE f == Head(toServer)
    <3>1. f \in Frames /\ toServer' \in Seq(Frames) /\ Items(toServer) = {f} \cup Items(toServer')
      BY <2>1, Kept, Taking
    <3>2. f.from = conns /\ f.n <= ui.seq /\ (f.kind = "edit" => f.n # 0) /\ f.text <= texts
      BY <3>1 DEF Base, Given, Known
    <3>3. f.n \in Nat /\ f.text \in Nat
      BY <3>1, Numbered DEF Frames
    <3>4. f.from \in 0..conns /\ f.text \in 0..texts /\ (f.kind = "edit" => f.n > 0)
      BY <3>2, <3>3, Counted
    <3> HIDE DEF f
    <3>5. f \in Frames /\ TRUE \in BOOLEAN /\ Answer(f, TRUE)
      BY <2>1, <3>1 DEF f
    <3> QED BY <2>1, <3>1, <3>2, <3>3, <3>4, <3>5, Kept
  <2>2. CASE /\ late # <<>> /\ late' = Tail(late)
             /\ Answer(Head(late), FALSE) /\ toServer' = toServer
    <3> DEFINE f == Head(late)
    <3>1. f \in Frames /\ late' \in Seq(Frames) /\ Items(late) = {f} \cup Items(late')
      BY <2>2, Kept, Taking
    <3>2. f.from \in 1..conns /\ f.text <= texts
      BY <3>1 DEF Base, Given, Known
    <3>3. f.n \in Nat /\ f.text \in Nat
      BY <3>1, Numbered DEF Frames
    <3>4. f.from \in 0..conns /\ f.text \in 0..texts
      BY <3>2, <3>3, Counted
    <3> HIDE DEF f
    <3>5. f \in Frames /\ FALSE \in BOOLEAN /\ Answer(f, FALSE)
      BY <2>2, <3>1 DEF f
    <3> QED BY <2>2, <3>1, <3>2, <3>3, <3>4, <3>5, Kept
  <2> QED BY <2>1, <2>2 DEF Serve
<1>3. PICK f, own :
        /\ f \in Frames /\ own \in BOOLEAN /\ Answer(f, own)
        /\ f.from \in 0..conns /\ f.text \in 0..texts /\ f.n \in Nat
        /\ own => f.n <= ui.seq /\ (f.kind = "edit" => f.n > 0)
        /\ toServer' \in Seq(Frames) /\ Items(toServer') \subseteq Items(toServer)
        /\ conn = "down" => toServer' = toServer
        /\ late' \in Seq(Frames) /\ Items(late') \subseteq Items(late)
  BY <1>2
<1>4. PICK r, told :
           /\ Plain(r) /\ Tell(r) /\ Items(r) = told
           /\ \/ /\ holder \notin {0, f.from}
                 /\ stored' = stored /\ holder' = holder /\ refusals' = refusals
                 /\ told = IF own THEN {Event("denied", f.n, 0, holder)} ELSE {}
              \/ /\ holder \in {0, f.from} /\ holder' = f.from
                 /\ f.kind = "acquire" /\ stored' = stored /\ refusals' = refusals
                 /\ told \subseteq {Event("lock", 0, 0, f.from)}
              \/ /\ holder \in {0, f.from} /\ holder' = f.from
                 /\ f.kind = "edit" /\ stored' = f.text /\ refusals' = refusals
                 /\ told = Locks(f.from) \cup (IF own THEN {Event("ack", f.n, 0, 0)}
                                                 ELSE {Event("content", 0, f.text, 0)})
              \/ /\ holder \in {0, f.from} /\ holder' = f.from
                 /\ f.kind = "edit" /\ stored' = stored
                 /\ refusals < MaxRefusals /\ refusals' = refusals + 1
                 /\ told = Locks(f.from) \cup (IF own THEN {Event("rejected", f.n, 0, 0)} ELSE {})
  BY <1>3, Answered DEF Base
<1>5. \A e \in Items(r) : Right(e, ui.seq, texts)
  <2>1. 0 <= texts /\ 0 <= ui.seq /\ f.text <= texts
    BY <1>3, Counted
  <2>2. \A e \in Locks(f.from) \cup {Event("lock", 0, 0, f.from)} : Right(e, ui.seq, texts)
    BY <2>1 DEF Locks, Event, Right
  <2>3. own => Right(Event("denied", f.n, 0, holder), ui.seq, texts)
    BY <1>3, <2>1 DEF Event, Right
  <2>4. own /\ f.kind = "edit" => /\ Right(Event("ack", f.n, 0, 0), ui.seq, texts)
                                  /\ Right(Event("rejected", f.n, 0, 0), ui.seq, texts)
    BY <1>3, <2>1 DEF Event, Right
  <2>5. Right(Event("content", 0, f.text, 0), ui.seq, texts)
    BY <2>1 DEF Event, Right
  <2> QED BY <1>4, <2>2, <2>3, <2>4, <2>5
<1>6. stored' \in 0..texts /\ holder' \in (0..conns) \cup {Peer} /\ refusals' \in 0..MaxRefusals
  <2>1. refusals < MaxRefusals => refusals + 1 \in 0..MaxRefusals
    BY Kept, ClientConstants
  <2>2. stored \in 0..texts /\ holder \in (0..conns) \cup {Peer} /\ refusals \in 0..MaxRefusals
    BY Kept
  <2> QED BY <1>3, <1>4, <2>1, <2>2
<1>7. Plain(r) /\ Tell(r)
  BY <1>4
<1> QED BY <1>1, <1>3, <1>5, <1>6, <1>7, Kept, BaseServer

LEMMA BaseServePut == Base /\ ServePut => Base'
<1> SUFFICES ASSUME Base, ServePut PROVE Base'
  OBVIOUS
<1>1. UNCHANGED <<ui, conn, conns, toServer, late, texts, refusals, paced>>
  BY DEF ServePut
<1>2. CASE holder \in {0, job.as}
  <2> DEFINE c == Event("content", 0, job.text, 0)
  <2>1. job' = [job EXCEPT !.step = "stored"] /\ stored' = job.text /\ holder' = job.as
        /\ Tell(<<c>> \o Announced(job.as))
    BY <1>2 DEF ServePut
  <2>2. job.as \in Id /\ job.as \in Who /\ job.as \in 0..conns /\ job.text \in Text /\ job.text \in 0..texts
    <3>1. job.as \in Id /\ job.text \in Text /\ job.as <= conns /\ job.text \in 0..texts
      BY Kept DEF Jobs
    <3>2. job.as \in Nat /\ conns \in Nat
      BY <3>1, Kept, Numbered
    <3> QED BY <3>1, <3>2 DEF Who
  <2>3. c \in Events /\ c.kind = "content" /\ c.text = job.text
    BY <2>2, Eventful, Numbered DEF Who
  <2>4. \A e \in {c} \cup Locks(job.as) : Right(e, ui.seq, texts)
    <3>1. Right(c, ui.seq, texts)
      BY <2>2, Kept DEF Event, Right
    <3>2. \A e \in Locks(job.as) : Right(e, ui.seq, texts)
      BY Kept DEF Locks, Event, Right
    <3> QED BY <3>1, <3>2
  <2> HIDE DEF c
  <2>5. /\ Plain(<<c>> \o Announced(job.as))
        /\ Items(<<c>> \o Announced(job.as)) = {c} \cup Locks(job.as)
    BY <2>2, <2>3, Saying
  <2>6. job' \in Jobs /\ job'.step # "none" /\ job'.as = job.as /\ job'.text = job.text
    BY <2>1, Kept DEF Jobs
  <2>7. \A e \in Items(<<c>> \o Announced(job.as)) : Right(e, ui.seq, texts')
    BY <1>1, <2>4, <2>5
  <2>8. stored' \in 0..texts' /\ holder' \in (0..conns) \cup {Peer}
    BY <1>1, <2>1, <2>2
  <2> QED BY <1>1, <2>1, <2>5, <2>6, <2>7, <2>8, Kept, BaseServer
<1>3. CASE holder \notin {0, job.as}
  <2>1. job' = [job EXCEPT !.step = "refused"] /\ UNCHANGED <<stored, holder, toClient>>
    BY <1>3 DEF ServePut
  <2>2. job' \in Jobs /\ job'.step # "none" /\ job'.as = job.as /\ job'.text = job.text
    BY <2>1, Kept DEF Jobs
  <2>3. Dirty'
    BY <1>1 DEF Base, Dirty
  <2> QED BY <1>1, <2>1, <2>2, <2>3, Kept, BaseStep
<1> QED BY <1>2, <1>3

LEMMA BasePeerEdits == Base /\ PeerEdits => Base'
<1> SUFFICES ASSUME Base, PeerEdits PROVE Base'
  OBVIOUS
<1> DEFINE c == Event("content", 0, texts + 1, 0)
<1>1. /\ UNCHANGED <<ui, job, conn, conns, toServer, late, refusals, paced>>
      /\ texts' = texts + 1 /\ stored' = texts + 1 /\ holder' = Peer
      /\ Tell(<<c>> \o Announced(Peer))
  BY DEF PeerEdits
<1>2. texts + 1 \in Text /\ texts + 1 \in 0..(texts + 1) /\ texts + 1 >= texts /\ 0 <= texts + 1
  <2>1. texts \in Nat /\ texts + 1 \in Text
    BY TypedText DEF PeerEdits, Base, Ranges, Text
  <2> QED BY <2>1
<1>3. c \in Events /\ c.kind = "content" /\ c.text = texts + 1 /\ Peer \in Who
  BY <1>2, Eventful, Numbered DEF Who
<1>4. \A e \in {c} \cup Locks(Peer) : Right(e, ui.seq, texts + 1)
  <2>1. Right(c, ui.seq, texts + 1)
    BY <1>2, Kept DEF Event, Right
  <2>2. \A e \in Locks(Peer) : Right(e, ui.seq, texts + 1)
    BY <1>2 DEF Locks, Event, Right
  <2> QED BY <2>1, <2>2
<1> HIDE DEF c
<1>5. /\ Plain(<<c>> \o Announced(Peer))
      /\ Items(<<c>> \o Announced(Peer)) = {c} \cup Locks(Peer)
  BY <1>3, Saying
<1> QED BY <1>1, <1>2, <1>4, <1>5, Kept, BaseServer

LEMMA BaseLockFreed == Base /\ LockFreed => Base'
<1> SUFFICES ASSUME Base, LockFreed PROVE Base'
  OBVIOUS
<1>1. UNCHANGED <<ui, job, conn, conns, toServer, late, stored, texts, refusals, paced>>
      /\ holder' = 0 /\ Tell(Announced(0))
  BY DEF LockFreed
<1>2. Plain(Announced(0)) /\ Items(Announced(0)) = Locks(0)
  BY Announcing, Numbered DEF Who
<1>3. \A e \in Locks(0) : Right(e, ui.seq, texts)
  BY Kept DEF Locks, Event, Right
<1>4. 0 \in (0..conns) \cup {Peer}
  BY Kept
<1> QED BY <1>1, <1>2, <1>3, <1>4, Kept, BaseServer

LEMMA BaseConnect == Base /\ Connect => Base'
<1> SUFFICES ASSUME Base, Connect PROVE Base'
  OBVIOUS
<1>1. /\ conn = "down" /\ conn' = "open" /\ conns' = conns + 1 /\ conns < MaxConn
      /\ UNCHANGED <<ui, job, toServer, late, toClient, stored, holder, texts, refusals, paced>>
  BY DEF Connect
<1>2. conns \in Nat /\ conns + 1 \in Id
  BY <1>1, Kept, ClientConstants DEF Id
<1>3. Ranges'
  BY <1>1, <1>2 DEF Base, Ranges
<1>4. \A e \in Items(toClient) : e.kind = "snapshot" => e.n \in Nat /\ e.n <= conns + 1
  <2>1. Items(toClient) \subseteq Events
    BY Kept, Within
  <2> TAKE e \in Items(toClient)
  <2>2. e.n \in Nat /\ (e.kind = "snapshot" => e.n <= conns)
    BY <2>1 DEF Events, Base, Given
  <2> QED BY <1>2, <2>2
<1>5. /\ ui.me <= conns + 1 /\ job.as <= conns + 1 /\ holder \in (0..(conns + 1)) \cup {Peer}
      /\ conns + 1 # 0
  <2>1. ui.me <= conns /\ job.as <= conns /\ holder \in (0..conns) \cup {Peer}
    BY Kept
  <2> QED BY <2>1, Counted
<1>6. Items(toServer) = {}
  BY <1>1 DEF Base, Given, Items
<1>7. \A f \in Items(late) : f.from \in 1..(conns + 1) /\ f.from # conns + 1
  BY <1>2 DEF Base, Given
<1>8. Given'
  BY <1>1, <1>4, <1>5, <1>6, <1>7 DEF Base, Given
<1>9. Known' /\ Dirty'
  BY <1>1 DEF Base, Known, Dirty
<1> QED BY <1>3, <1>8, <1>9 DEF Base

LEMMA BaseHello == Base /\ Hello => Base'
<1> SUFFICES ASSUME Base, Hello PROVE Base'
  OBVIOUS
<1> DEFINE e == Event("snapshot", conns, stored, holder)
<1>1. /\ conn = "open" /\ conn' = "up" /\ toClient' = Append(toClient, e)
      /\ UNCHANGED <<ui, job, conns, toServer, late, stored, holder, texts, refusals, paced>>
  BY DEF Hello
<1>2. e \in Events /\ e.kind = "snapshot" /\ e.n = conns /\ e.text = stored
  BY Eventful, Numbered DEF Base, Ranges
<1> HIDE DEF e
<1>3. toClient' \in Seq(Events) /\ Items(toClient') = Items(toClient) \cup {e}
  BY <1>1, <1>2, Kept, Appending
<1>4. stored <= texts
  BY Kept
<1>5. Ranges'
  BY <1>1, <1>3 DEF Base, Ranges
<1>6. Given'
  BY <1>1, <1>2, <1>3, Counted DEF Base, Given
<1>7. Known' /\ Dirty'
  BY <1>1, <1>2, <1>3, <1>4 DEF Base, Known, Dirty
<1> QED BY <1>5, <1>6, <1>7 DEF Base

LEMMA BaseBreak == Base /\ Break => Base'
<1> SUFFICES ASSUME Base, Break PROVE Base'
  OBVIOUS
<1> DEFINE e == Event("lost", 0, 0, 0)
<1>1. /\ conn # "down" /\ conn' = "down" /\ toServer' = <<>>
      /\ UNCHANGED <<ui, job, conns, stored, holder, texts, refusals, paced>>
  BY DEF Break
<1>2. PICK k \in 0..Len(toServer) : late' = late \o SubSeq(toServer, 1, k)
  BY DEF Break
<1>3. PICK l \in 0..Len(toClient) : toClient' = Append(SubSeq(toClient, 1, l), e)
  BY DEF Break
<1>4. e \in Events /\ e.kind = "lost" /\ e.text = 0
  BY Eventful, Numbered DEF Who
<1> HIDE DEF e
<1>5. /\ SubSeq(toServer, 1, k) \in Seq(Frames)
      /\ Items(SubSeq(toServer, 1, k)) \subseteq Items(toServer)
      /\ SubSeq(toClient, 1, l) \in Seq(Events)
      /\ Items(SubSeq(toClient, 1, l)) \subseteq Items(toClient)
  BY Kept, Cutting
<1>6. late' \in Seq(Frames) /\ Items(late') \subseteq Items(late) \cup Items(toServer)
  <2> DEFINE s == SubSeq(toServer, 1, k)
  <2>1. s \in Seq(Frames) /\ Items(s) \subseteq Items(toServer) /\ late' = late \o s /\ late \in Seq(Frames)
    BY <1>2, <1>5, Kept
  <2> HIDE DEF s
  <2> QED BY <2>1, Joining
<1>7. toClient' \in Seq(Events) /\ Items(toClient') \subseteq Items(toClient) \cup {e}
  <2> DEFINE s == SubSeq(toClient, 1, l)
  <2>1. s \in Seq(Events) /\ Items(s) \subseteq Items(toClient) /\ toClient' = Append(s, e)
    BY <1>3, <1>5
  <2> HIDE DEF s
  <2> QED BY <1>4, <2>1, Appending
<1>8. toServer' \in Seq(Frames) /\ Items(toServer') = {}
  BY <1>1, EmptySeq DEF Items
<1>9. Ranges'
  BY <1>1, <1>6, <1>7, <1>8 DEF Base, Ranges
<1>10. Given'
  <2>1. \A f \in Items(late') : f.from \in 1..conns
    <3>1. conns \in 1..conns
      BY <1>1, Kept DEF Base, Given
    <3> QED BY <1>6, <3>1 DEF Base, Given
  <2> QED BY <1>1, <1>4, <1>7, <1>8, <2>1 DEF Base, Given
<1>11. Known' /\ Dirty'
  <2>1. 0 <= texts
    BY Kept
  <2>2. \A f \in Items(toServer') \cup Items(late') : f.text <= texts
    BY <1>6, <1>8 DEF Base, Known
  <2>3. \A f \in Items(toClient') : f.text <= texts
    BY <1>4, <1>7, <2>1 DEF Base, Known
  <2> QED BY <1>1, <2>2, <2>3 DEF Base, Known, Dirty
<1> QED BY <1>9, <1>10, <1>11 DEF Base

\* What receiving makes of the client, whatever was received.
LEMMA Received ==
  ASSUME Base, Receive
  PROVE  /\ Head(toClient) \in Events /\ toClient' \in Seq(Events) /\ toClient' = Tail(toClient)
         /\ Items(toClient) = {Head(toClient)} \cup Items(toClient')
         /\ UNCHANGED <<job, conn, conns, toServer, late, stored, holder, texts, refusals, paced>>
         /\ LET e == Head(toClient) IN
            \/ e.kind = "snapshot" /\ ui' = ApplySnapshot(ui, e)
            \/ e.kind = "content" /\ ui' = ApplyRemote(ui, e.text)
            \/ e.kind = "lock" /\ ui' = ApplyLock(ui, e.who)
            \/ e.kind = "denied" /\ ui' = ApplyLock(Refused(ui, e.n), e.who)
            \/ e.kind = "ack" /\ ui' = Acked(ui, e.n)
            \/ e.kind = "rejected" /\ ui' = Refused(ui, e.n)
            \/ e.kind = "lost" /\ ui' = Lost(ui)
<1>1. Head(toClient) \in Events /\ Tail(toClient) \in Seq(Events)
      /\ Items(toClient) = {Head(toClient)} \cup Items(Tail(toClient))
  BY Kept, Taking DEF Receive
<1> QED BY <1>1 DEF Receive, Events

LEMMA BaseReceive == Base /\ Receive => Base'
<1> SUFFICES ASSUME Base, Receive PROVE Base'
  OBVIOUS
<1> DEFINE e == Head(toClient)
<1>1. /\ e \in Events /\ toClient' \in Seq(Events)
      /\ Items(toClient) = {e} \cup Items(toClient')
      /\ UNCHANGED <<job, conn, conns, toServer, late, stored, holder, texts, refusals, paced>>
      /\ \/ e.kind = "snapshot" /\ ui' = ApplySnapshot(ui, e)
         \/ e.kind = "content" /\ ui' = ApplyRemote(ui, e.text)
         \/ e.kind = "lock" /\ ui' = ApplyLock(ui, e.who)
         \/ e.kind = "denied" /\ ui' = ApplyLock(Refused(ui, e.n), e.who)
         \/ e.kind = "ack" /\ ui' = Acked(ui, e.n)
         \/ e.kind = "rejected" /\ ui' = Refused(ui, e.n)
         \/ e.kind = "lost" /\ ui' = Lost(ui)
  BY Received
<1> HIDE DEF e
<1>2. e.text \in Text /\ e.text \in 0..texts /\ e.who \in Who /\ e.n \in Nat
  <2>1. e.text <= texts /\ e.text \in Text /\ e.text \in Nat /\ e.who \in Who /\ e.n \in Nat
    BY <1>1, Numbered DEF Base, Known, Events
  <2> QED BY <2>1, Kept
<1>3. ui \in Clients /\ ui.confirmed \in 0..texts /\ ui.editor \in 0..texts
      /\ ui.lastSent \in (0..texts) \cup {NoText} /\ Dirty
      /\ \A o \in ui.outstanding : o[2] <= texts
  BY Kept DEF Base
<1>4. NoText \notin 0..texts
  BY Kept, ClientConstants DEF Text, NoText
<1> DEFINE Good(d) == /\ d \in Clients /\ d.me <= conns /\ d.seq = ui.seq
                      /\ d.editor \in 0..texts /\ d.confirmed \in 0..texts
                      /\ d.lastSent \in (0..texts) \cup {NoText}
                      /\ \A o \in d.outstanding : o[2] <= texts
                      /\ d.pending => d.editor # d.lastSent
<1>5. Good(ui)
  BY <1>3, Kept DEF Dirty
<1>6. \A c \in Clients : Good(c) => Good(ApplyLock(c, e.who))
  <2> SUFFICES ASSUME NEW c \in Clients, Good(c) PROVE Good(ApplyLock(c, e.who))
    OBVIOUS
  <2> DEFINE d == ApplyLock(c, e.who)
  <2>1. /\ d \in Clients
        /\ d.me = c.me /\ d.seq = c.seq /\ d.confirmed = c.confirmed
        /\ Unmoved(c, d) \/ (e.who = Peer /\ c.pending /\ RolledBack(c, d))
    BY <1>2, LockApplied
  <2> HIDE DEF d
  <2>2. Good(d)
    BY <2>1 DEF Unmoved, RolledBack
  <2> QED BY <2>2 DEF d
<1>7. Good(Refused(ui, e.n))
  <2> DEFINE d == Refused(ui, e.n)
  <2>1. /\ d \in Clients
        /\ d.editor = ui.editor /\ d.confirmed = ui.confirmed /\ d.seq = ui.seq /\ d.me = ui.me
        /\ \/ d = ui /\ \A o \in ui.outstanding : o[1] # e.n
           \/ /\ d.outstanding = {o \in ui.outstanding : o[1] > e.n}
              /\ d.lastSent = NoText /\ d.pending
    BY <1>2, <1>3, RefusalApplies
  <2> HIDE DEF d
  <2>2. Good(d)
    BY <1>3, <1>4, <1>5, <2>1
  <2> QED BY <2>2 DEF d
<1>8. Good(ui')
  <2>1. CASE e.kind = "snapshot" /\ ui' = ApplySnapshot(ui, e)
    <3>1. e.n \in Id /\ e.n <= conns
      <4>1. e.n <= conns
        BY <1>1, <2>1 DEF Base, Given
      <4>2. conns \in 0..MaxConn /\ MaxConn \in Nat
        BY ClientConstants DEF Base, Ranges, Id
      <4> QED BY <1>2, <4>1, <4>2 DEF Id
    <3>2. /\ ui' \in Clients
          /\ ui'.me = e.n /\ ui'.seq = ui.seq /\ ui'.confirmed = e.text
          /\ \/ /\ ui.pending /\ ui'.pending /\ ui'.editor = ui.editor /\ ui'.lastSent = ui.lastSent
                /\ ui'.outstanding = ui.outstanding
             \/ /\ ui'.editor = e.text /\ ui'.lastSent = e.text /\ ~ui'.pending
                /\ ui'.outstanding = ui.outstanding
                /\ ui'.editor # ui.editor => ~ui.pending
             \/ /\ e.who = Peer /\ ui'.editor = e.text /\ ui'.lastSent = e.text /\ ~ui'.pending
                /\ ui'.outstanding = {} /\ ui'.lock = "theirs"
      BY <1>1, <1>3, <2>1, <3>1, SnapshotApplies
    <3> QED BY <1>2, <1>5, <3>1, <3>2
  <2>2. CASE e.kind = "content" /\ ui' = ApplyRemote(ui, e.text)
    <3>1. /\ ui' \in Clients
          /\ ui'.me = ui.me /\ ui'.seq = ui.seq /\ ui'.outstanding = ui.outstanding
          /\ ui'.confirmed = e.text
          /\ \/ ui.pending /\ ui'.pending /\ ui'.editor = ui.editor /\ ui'.lastSent = ui.lastSent
             \/ /\ ui'.editor = e.text /\ ui'.lastSent = e.text /\ ~ui'.pending
                /\ ui'.editor # ui.editor => ~ui.pending
      BY <1>2, <1>3, <2>2, RemoteApplies
    <3> QED BY <1>2, <1>5, <3>1
  <2>3. CASE ui' = ApplyLock(ui, e.who)
    BY <1>3, <1>5, <1>6, <2>3
  <2>4. CASE ui' = ApplyLock(Refused(ui, e.n), e.who)
    BY <1>6, <1>7, <2>4
  <2>5. CASE e.kind = "ack" /\ ui' = Acked(ui, e.n)
    <3>1. /\ ui' \in Clients
          /\ ui'.editor = ui.editor /\ ui'.lastSent = ui.lastSent /\ ui'.pending = ui.pending
          /\ ui'.seq = ui.seq /\ ui'.me = ui.me
          /\ \/ /\ ui'.outstanding = ui.outstanding /\ ui'.confirmed = ui.confirmed
                /\ \A o \in ui.outstanding : o[1] # e.n
             \/ /\ ui'.outstanding = {o \in ui.outstanding : o[1] > e.n}
                /\ \E o \in ui.outstanding : o[1] = e.n /\ ui'.confirmed = o[2]
      BY <1>2, <1>3, <2>5, AckApplies
    <3>2. \A o \in ui.outstanding : o[2] \in 0..texts
      <4>1. \A o \in ui.outstanding : o[2] \in Nat /\ o[2] <= texts
        BY <1>3, Numbered DEF Clients
      <4> QED BY <4>1, Kept
    <3> QED BY <1>5, <3>1, <3>2
  <2>6. CASE ui' = Refused(ui, e.n)
    BY <1>7, <2>6
  <2>7. CASE ui' = Lost(ui)
    <3>1. /\ ui' \in Clients
          /\ ui'.editor = ui.editor /\ ui'.confirmed = ui.confirmed /\ ui'.seq = ui.seq
          /\ ui'.me = ui.me
          /\ ui'.outstanding = {}
          /\ ui' = ui \/ (ui'.lastSent = NoText /\ ui'.pending)
      BY <1>3, <2>7, LossApplies
    <3> QED BY <1>4, <1>5, <3>1
  <2> QED BY <1>1, <2>1, <2>2, <2>3, <2>4, <2>5, <2>6, <2>7
<1>9. Dirty'
  BY <1>8 DEF Dirty
<1>10. ui'.seq >= ui.seq /\ Items(toClient') \subseteq Items(toClient)
  BY <1>1, <1>8, Kept
<1> HIDE DEF Good
<1>11. /\ ui' \in Clients /\ ui'.me <= conns
       /\ {ui'.editor, ui'.confirmed, job'.text, stored'} \subseteq 0..texts
       /\ ui'.lastSent \in (0..texts) \cup {NoText}
       /\ \A o \in ui'.outstanding : o[2] <= texts
  BY <1>1, <1>8, Kept DEF Good
<1> QED BY <1>1, <1>9, <1>10, <1>11, Kept, BaseStep

LEMMA BaseInvariant == Spec => []Base
<1>1. Init => Base
  BY BaseInit
<1>2. Base /\ [Next]_vars => Base'
  <2> SUFFICES ASSUME Base, [Next]_vars PROVE Base'
    OBVIOUS
  <2>1. CASE UNCHANGED vars
    BY <2>1 DEF vars, Base, Ranges, Given, Known, Dirty
  <2> QED BY <2>1, BaseTypeText, BaseInsertMarkers, BaseDebounce, BaseStart, BaseSend, BasePutEnds,
             BaseServe, BaseServePut, BasePeerEdits, BaseLockFreed, BaseConnect, BaseHello,
             BaseBreak, BaseReceive DEF Next
<1> QED BY <1>1, <1>2, PTL DEF Spec

\* A client, its connection and what is on its way stay well-formed, for any numbers of
\* texts, connections and refusals.
THEOREM TypesHold == Spec => []TypeOK
<1>1. Base => TypeOK
  <2> SUFFICES ASSUME Base PROVE TypeOK
    OBVIOUS
  <2>1. conn # "up" => \A i \in 1..Len(toServer) : toServer[i].from = conns
    BY DEF Base, Given, Items
  <2> QED BY <2>1 DEF Base, Ranges, Given, TypeOK, Clients, Jobs
<1> QED BY <1>1, BaseInvariant, PTL

-----------------------------------------------------------------------------
(* The editor: what holds at an even pace *)

\* The client has its connection's snapshot.
Synced == conn = "up" /\ ui.me = conns

Of(kinds) == {e \in Events : e.kind \in kinds}
Answers == {e \in Of({"ack", "denied", "rejected"}) : e.n > 0}
Edits == {f \in Frames : f.kind = "edit"}
Own == {e \in Of({"snapshot"}) : e.n = conns}
Stale == {e \in Of({"snapshot", "content"}) : e.text # stored}

\* Where the client is: with edits on their way it has its connection's snapshot, which
\* is then ahead of all else; without it, edits unanswered mean that a loss is still to
\* be told, ahead of any snapshot.
Place ==
  /\ conn = "open" => ui.me # conns /\ Items(toClient) \cap Own = {}
  /\ ~Synced => Items(toServer) \cap Edits = {}
  /\ Synced => Items(toClient) \cap Of({"snapshot", "lost"}) = {}
  /\ conn = "up" /\ ~Synced => Items(toClient) \cap Own # {}
  /\ ~Synced => ui.outstanding = {} \/ Items(toClient) \cap Of({"lost"}) # {}
  /\ ui.outstanding = {} \/ Ahead(toClient, Of({"snapshot"}), Of({"lost"}))

\* One transmission at a time, and one answer owed.
Sending ==
  /\ job.step = "encoding" /\ conn # "down" => Synced /\ ui.pending
  /\ job.step \in {"put", "stored", "refused"} => conn = "down"
  /\ job.step # "none" => ui.outstanding = {}
  /\ \A o, p \in ui.outstanding : o = p

FrameOrder == {p \in Frames \X Frames : p[1] \in Edits /\ p[2] \in Edits => p[1].n # p[2].n}

EventOrder == {p \in Events \X Events :
  /\ p[1].kind = "content" => p[2].kind # "ack"
  /\ p[1] \in Answers /\ p[2] \in Answers => p[1].n # p[2].n}

\* What comes after the connection's snapshot before the client has it.
Opening == {p \in Events \X Events :
  p[1] \in Own => p[2].kind \in {"content", "lock"} \/ (p[2].kind = "denied" /\ p[2].n = 0)}

\* No edit is answered twice, and none acknowledged after somebody else's text.
Order ==
  /\ Pairwise(toServer, FrameOrder)
  /\ Pairwise(toClient, EventOrder)
  /\ conn = "up" => Pairwise(toClient, Opening)
  /\ \A e \in Items(toClient) \cap Answers, f \in Items(toServer) \cap Edits : e.n # f.n

\* What was sent last is what the editor shows or has confirmed; if not what the answer
\* is owed for, the answer is no acknowledgement.
Sent ==
  /\ Synced /\ ~ui.pending => ui.editor = ui.lastSent
  /\ ui.outstanding = {} /\ ui.editor = ui.lastSent => ui.confirmed = ui.lastSent
  /\ \A o \in ui.outstanding : ui.lastSent # o[2] =>
        /\ \A e \in Items(toClient) : e.kind = "ack" => e.n # o[1]
        /\ \A f \in Items(toServer) \cap Edits : f.n = o[1] => holder \notin {0, conns}

\* Whose text or lock is on its way holds the lock.
Locking ==
  /\ Items(toClient) \cap Of({"content"}) # {} => holder \notin {0, conns}
  /\ \A e \in Items(toClient) : e.who = Peer => holder = Peer

\* Every edit on its way is owed an answer, unless it will be denied; what is owed an
\* answer gets one; and an acknowledgement is of what is stored.
Answering ==
  /\ \A f \in Items(toServer) \cap Edits :
        <<f.n, f.text>> \in ui.outstanding \/ holder \notin {0, conns}
  /\ Synced => \A o \in ui.outstanding :
        \/ \E f \in Items(toServer) \cap Edits : f.n = o[1]
        \/ \E e \in Items(toClient) \cap Answers : e.n = o[1]
  /\ Synced => \A e \in Items(toClient) : e.kind = "ack" =>
        <<e.n, stored>> \in ui.outstanding /\ holder = conns

\* A text that is not the one stored is followed by another.
Telling ==
  /\ conn = "up" => Later(toClient, Stale, Of({"snapshot", "content"}))
  /\ Synced /\ Items(toClient) \cap Of({"content"}) = {} =>
       ui.confirmed = stored \/ Items(toClient) \cap Of({"ack"}) # {}

Even == Place /\ Sending /\ Order /\ Sent /\ Locking /\ Answering /\ Telling

LEMMA EvenInit == Init => Even
<1> SUFFICES ASSUME Init PROVE Even
  OBVIOUS
<1>1. Items(toClient) = {} /\ Items(toServer) = {}
  BY DEF Init, Items
<1>2. Place /\ Sending /\ Sent /\ Locking /\ Answering /\ Telling
  BY <1>1 DEF Init, Place, Sending, Sent, Locking, Answering, Telling, Synced, NoJob
<1>3. Order
  BY <1>1 DEF Init, Order, Pairwise
<1> QED BY <1>2, <1>3 DEF Even

-----------------------------------------------------------------------------
(* Steps of the client *)

\* A step that neither receives nor sends an edit, by what is left to show.
LEMMA EvenWithin ==
  ASSUME Base, Even,
         UNCHANGED <<conn, conns, toClient, stored, holder>>,
         ui'.me = ui.me, ui'.outstanding = ui.outstanding,
         ui'.confirmed = ui.confirmed \/ conn = "down",
         Items(toServer') \cap Edits = Items(toServer) \cap Edits, Pairwise(toServer', FrameOrder),
         Sending', Sent'
  PROVE  Even'
<1>1. /\ Synced' <=> Synced
      /\ Own' = Own /\ Stale' = Stale /\ Opening' = Opening
  BY DEF Synced, Own, Stale, Opening
<1>2. Place'
  BY <1>1 DEF Even, Place
<1>3. Order'
  BY <1>1 DEF Even, Order
<1>4. Locking' /\ Answering'
  BY <1>1 DEF Even, Locking, Answering
<1>5. Telling'
  BY <1>1 DEF Even, Telling, Synced
<1> QED BY <1>2, <1>3, <1>4, <1>5 DEF Even

LEMMA EvenTypeText == Base /\ Even /\ TypeText => Even'
<1> SUFFICES ASSUME Base, Even, TypeText PROVE Even'
  OBVIOUS
<1> DEFINE d == Typed(ui, texts + 1)
<1>1. /\ d \in Clients /\ d.confirmed = ui.confirmed /\ d.lastSent = ui.lastSent
      /\ d.pending /\ d.seq = ui.seq /\ d.outstanding = ui.outstanding /\ d.me = ui.me
      /\ d.editor # d.lastSent
  BY TypedText DEF TypeText
<1>2. ui' = [d EXCEPT !.debounce = TRUE]
      /\ UNCHANGED <<job, conn, conns, late, toClient, stored, holder, refusals, paced>>
  BY DEF TypeText
<1> HIDE DEF d
<1>3. ui' \in Clients /\ Alike(d, ui')
  BY <1>1, <1>2 DEF Clients, Alike
<1>4. Items(toServer') \cap Edits = Items(toServer) \cap Edits /\ Pairwise(toServer', FrameOrder)
  <2> DEFINE f == Frame("acquire", conns, 0, 0)
  <2>1. f \in Frames /\ f \notin Edits /\ toServer \in Seq(Frames)
    BY Numbered DEF Frame, Frames, Base, Ranges, Edits
  <2>2. toServer' = toServer \/ toServer' = Append(toServer, f)
    BY DEF TypeText
  <2> HIDE DEF f
  <2>3. Items(Append(toServer, f)) = Items(toServer) \cup {f}
    BY <2>1, Appending
  <2>4. Pairwise(toServer, FrameOrder)
    BY DEF Even, Order
  <2>5. Pairwise(Append(toServer, f), FrameOrder)
    <3>1. \A g \in Items(toServer) : <<g, f>> \in FrameOrder
      BY <2>1, Within DEF FrameOrder
    <3> QED BY <2>1, <2>4, <3>1, AppendingPairs
  <2> QED BY <2>1, <2>2, <2>3, <2>4, <2>5
<1>5. Sending'
  BY <1>1, <1>2, <1>3 DEF Even, Sending, Alike, Synced
<1>6. Sent'
  BY <1>1, <1>2, <1>3, <1>4 DEF Even, Sent, Alike, Synced
<1> QED BY <1>1, <1>2, <1>3, <1>4, <1>5, <1>6, EvenWithin DEF Alike

LEMMA EvenInsertMarkers == Base /\ Even /\ InsertMarkers => Even'
<1> SUFFICES ASSUME Base, Even, InsertMarkers PROVE Even'
  OBVIOUS
<1> DEFINE d == Typed(ui, texts + 1)
<1>1. /\ d \in Clients /\ d.confirmed = ui.confirmed /\ d.lastSent = ui.lastSent
      /\ d.pending /\ d.seq = ui.seq /\ d.outstanding = ui.outstanding /\ d.me = ui.me
      /\ d.editor # d.lastSent
  BY TypedText DEF InsertMarkers
<1>2. ui' = Flush(d, TRUE)
      /\ UNCHANGED <<job, conn, conns, toServer, late, toClient, stored, holder, refusals, paced>>
  BY DEF InsertMarkers
<1> HIDE DEF d
<1>3. ui' \in Clients /\ Alike(d, ui')
  BY <1>1, <1>2, Flushing
<1>4. Items(toServer') \cap Edits = Items(toServer) \cap Edits /\ Pairwise(toServer', FrameOrder)
  BY <1>2 DEF Even, Order
<1>5. Sending'
  BY <1>1, <1>2, <1>3 DEF Even, Sending, Alike, Synced
<1>6. Sent'
  <2>1. /\ ui'.pending /\ ui'.editor # ui'.lastSent /\ ui'.lastSent = ui.lastSent
        /\ ui'.outstanding = ui.outstanding
    BY <1>1, <1>3 DEF Alike
  <2> QED BY <1>2, <1>4, <2>1 DEF Even, Sent
<1> QED BY <1>1, <1>2, <1>3, <1>4, <1>5, <1>6, EvenWithin DEF Alike

LEMMA EvenDebounce == Base /\ Even /\ Debounce => Even'
<1> SUFFICES ASSUME Base, Even, Debounce PROVE Even'
  OBVIOUS
<1>1. ui' \in Clients /\ Alike(ui, ui')
  BY FlushingNow, Kept DEF Debounce
<1>2. UNCHANGED <<job, conn, conns, toServer, late, toClient, stored, holder, texts, refusals, paced>>
  BY DEF Debounce
<1>4. Items(toServer') \cap Edits = Items(toServer) \cap Edits /\ Pairwise(toServer', FrameOrder)
  BY <1>2 DEF Even, Order
<1>5. Sending'
  BY <1>1, <1>2 DEF Even, Sending, Alike, Synced
<1>6. Sent'
  BY <1>1, <1>2, <1>4 DEF Even, Sent, Alike, Synced
<1> QED BY <1>1, <1>2, <1>4, <1>5, <1>6, EvenWithin DEF Alike

LEMMA EvenStart == Base /\ Even /\ paced /\ Start => Even'
<1> SUFFICES ASSUME Base, Even, paced, Start PROVE Even'
  OBVIOUS
<1>1. UNCHANGED <<conn, conns, toServer, late, toClient, stored, holder, texts, refusals, paced>>
      /\ job = NoJob /\ Calm
  BY DEF Start
<1>2. ui' \in Clients /\ ui'.me = ui.me /\ ui'.outstanding = ui.outstanding
      /\ ui'.confirmed = ui.confirmed /\ ui'.editor = ui.editor /\ ui'.lastSent = ui.lastSent
      /\ \/ ui.editor = ui.lastSent /\ job' = job
         \/ ui.editor # ui.lastSent /\ ui'.pending = ui.pending /\ job'.step = "encoding"
  <2>1. Tail(ui.jobs) \in Seq(BOOLEAN) /\ ui \in Clients
    BY Taking, Kept DEF Start, Clients
  <2>2. CASE ui.editor = ui.lastSent
    <3>1. ui' = [ui EXCEPT !.jobs = Tail(@), !.pending = FALSE] /\ job' = job
      BY <2>2 DEF Start
    <3> QED BY <2>1, <2>2, <3>1 DEF Clients
  <2>3. CASE ui.editor # ui.lastSent
    <3>1. ui' = [ui EXCEPT !.jobs = Tail(@)] /\ job'.step = "encoding"
      BY <2>3 DEF Start
    <3> QED BY <2>1, <2>3, <3>1 DEF Clients
  <2> QED BY <2>2, <2>3
<1>3. Items(toServer') \cap Edits = Items(toServer) \cap Edits /\ Pairwise(toServer', FrameOrder)
  BY <1>1 DEF Even, Order
<1>4. Synced' <=> Synced
  BY <1>1, <1>2 DEF Synced
<1>5. Sending'
  <2>1. ui.outstanding = {} /\ NoJob.step = "none"
    BY <1>1 DEF Calm, NoJob
  <2>2. conn # "down" => Synced
    BY <1>1 DEF Calm, Even, Place, Synced, Base, Ranges
  <2>3. conn # "down" /\ ui.editor # ui.lastSent => ui.pending
    BY <2>2 DEF Even, Sent
  <2> QED BY <1>1, <1>2, <1>4, <2>1, <2>2, <2>3 DEF Sending
<1>6. Sent'
  BY <1>1, <1>2, <1>3, <1>4 DEF Even, Sent
<1> QED BY <1>1, <1>2, <1>3, <1>5, <1>6, EvenWithin

LEMMA EvenPutEnds == Base /\ Even /\ PutEnds => Even'
<1> SUFFICES ASSUME Base, Even, PutEnds PROVE Even'
  OBVIOUS
<1>1. UNCHANGED <<conn, conns, toServer, late, toClient, stored, holder, texts, refusals, paced>>
      /\ job' = NoJob
  BY DEF PutEnds
<1>2. conn = "down" /\ ui.outstanding = {}
  BY DEF PutEnds, Even, Sending
<1>3. ui' = ui \/
        /\ ui'.me = ui.me /\ ui'.outstanding = {} /\ ui'.confirmed = job.text /\ ui'.lastSent = job.text
  <2>1. ui \in Clients /\ job.text \in Text
    BY Kept DEF Jobs
  <2>2. ui' = ui \/ ui' = StoredByPut(ui, job.text)
    BY DEF PutEnds
  <2>3. LET h == StoredByPut(ui, job.text) IN
        h.me = ui.me /\ h.outstanding = {} /\ h.confirmed = job.text /\ h.lastSent = job.text
    BY <2>1, SentText
  <2> QED BY <2>2, <2>3
<1>4. Items(toServer') \cap Edits = Items(toServer) \cap Edits /\ Pairwise(toServer', FrameOrder)
  BY <1>1 DEF Even, Order
<1>5. Sending'
  BY <1>1, <1>2, <1>3 DEF Sending, NoJob
<1>6. Sent'
  BY <1>1, <1>2, <1>3 DEF Even, Sent, Synced
<1> QED BY <1>1, <1>2, <1>3, <1>4, <1>5, <1>6, EvenWithin

LEMMA EvenSend == Base /\ Even /\ Send => Even'
<1> SUFFICES ASSUME Base, Even, Send PROVE Even'
  OBVIOUS
<1>1. UNCHANGED <<conn, conns, late, toClient, stored, holder, texts, refusals, paced>>
      /\ job.step = "encoding"
  BY DEF Send
<1>2. ui.outstanding = {}
  BY <1>1 DEF Even, Sending
<1>3. CASE /\ conn # "down"
           /\ toServer' = Append(toServer, Frame("edit", conns, ui.seq + 1, job.text))
           /\ ui' = SentAsFrame(ui, job.text)
           /\ job' = NoJob
  <2> DEFINE f == Frame("edit", conns, ui.seq + 1, job.text)
  <2>1. f \in Edits /\ f \in Frames /\ f.n = ui.seq + 1 /\ f.text = job.text
    <3>1. conns \in Id /\ ui.seq + 1 \in Nat /\ job.text \in Text
      BY Kept DEF Jobs, Base, Ranges
    <3> QED BY <3>1 DEF Frame, Frames, Edits
  <2>2. toServer' = Append(toServer, f) /\ toServer \in Seq(Frames)
    BY <1>3, Kept
  <2> HIDE DEF f
  <2>3. Items(toServer') = Items(toServer) \cup {f}
    BY <2>1, <2>2, Appending
  <2>4. /\ ui'.editor = ui.editor /\ ui'.confirmed = ui.confirmed /\ ui'.me = ui.me
        /\ ui'.lastSent = job.text /\ (ui'.pending <=> ui.pending /\ ui.editor # job.text)
        /\ ui'.outstanding = {<<ui.seq + 1, job.text>>}
    <3> DEFINE d == SentAsFrame(ui, job.text)
    <3>1. ui \in Clients /\ job.text \in Text
      BY Kept DEF Jobs
    <3>2. /\ d.editor = ui.editor /\ d.confirmed = ui.confirmed /\ d.me = ui.me
          /\ d.lastSent = job.text /\ (d.pending <=> ui.pending /\ ui.editor # job.text)
          /\ d.outstanding = ui.outstanding \cup {<<ui.seq + 1, job.text>>}
      BY <3>1, SentText
    <3> QED BY <1>2, <1>3, <3>2
  <2>5. Synced /\ ui.pending
    BY <1>1, <1>3 DEF Even, Sending
  <2>6. /\ Synced' <=> Synced
        /\ Own' = Own /\ Stale' = Stale /\ Opening' = Opening
    BY <1>1, <2>4 DEF Synced, Own, Stale, Opening
  <2>7. Items(toClient) \cap Of({"snapshot", "lost"}) = {}
    BY <2>5 DEF Even, Place
  <2>8. Place'
    <3>1. Ahead(toClient, Of({"snapshot"}), Of({"lost"}))
      BY <2>7 DEF Ahead, Items, Of
    <3> QED BY <1>1, <2>5, <2>6, <2>7, <3>1 DEF Place, Synced
  <2>9. Sending'
    BY <1>3, <2>4 DEF Sending, NoJob
  <2>10. Order'
    <3>1. \A g \in Items(toServer) : g \in Frames /\ g.n <= ui.seq /\ g.n \in Nat
      BY Kept, Within DEF Base, Given, Frames
    <3>2. \A g \in Items(toServer) : g.n # f.n
      BY <2>1, <3>1, Kept
    <3>3. Pairwise(toServer', FrameOrder)
      <4>1. \A g \in Items(toServer) : <<g, f>> \in FrameOrder
        BY <2>1, <3>1, <3>2 DEF FrameOrder
      <4>2. Pairwise(toServer, FrameOrder)
        BY DEF Even, Order
      <4> QED BY <2>1, <2>2, <4>1, <4>2, AppendingPairs
    <3>4. \A e \in Items(toClient) \cap Answers : e.n # f.n
      <4>1. \A e \in Items(toClient) \cap Answers : e.n \in Nat /\ e.n <= ui.seq
        BY DEF Answers, Of, Events, Base, Given
      <4> QED BY <2>1, <4>1, Kept
    <3> QED BY <1>1, <2>3, <2>6, <3>3, <3>4 DEF Even, Order
  <2>11. Sent'
    <3>1. ~ui'.pending => ui'.editor = ui'.lastSent
      BY <2>4, <2>5
    <3>2. ui'.outstanding # {} /\ \A o \in ui'.outstanding : o[2] = ui'.lastSent
      BY <2>4
    <3> QED BY <3>1, <3>2 DEF Sent
  <2>12. Locking'
    BY <1>1 DEF Even, Locking
  <2>13. Answering'
    <3>1. \A e \in Items(toClient) : e.kind # "ack"
      BY <1>2, <2>5 DEF Even, Answering
    <3>2. \A g \in Items(toServer) \cap Edits : holder \notin {0, conns}
      BY <1>2 DEF Even, Answering
    <3> QED BY <1>1, <2>1, <2>3, <2>4, <3>1, <3>2 DEF Answering
  <2>14. Telling'
    BY <1>1, <2>4, <2>6 DEF Even, Telling
  <2> QED BY <2>8, <2>9, <2>10, <2>11, <2>12, <2>13, <2>14 DEF Even
<1>4. CASE /\ conn = "down"
           /\ job' = IF job.rest THEN [job EXCEPT !.step = "put", !.as = ui.me] ELSE NoJob
           /\ UNCHANGED <<ui, toServer>>
  <2>1. Items(toServer') \cap Edits = Items(toServer) \cap Edits /\ Pairwise(toServer', FrameOrder)
    BY <1>4 DEF Even, Order
  <2>2. Sending'
    <3>1. job'.step \in {"put", "none"}
      BY <1>4, Kept DEF NoJob, Jobs
    <3> QED BY <1>1, <1>2, <1>4, <3>1 DEF Sending
  <2>3. Sent'
    BY <1>1, <1>4 DEF Even, Sent, Synced
  <2> QED BY <1>1, <1>4, <2>1, <2>2, <2>3, EvenWithin
<1> QED BY <1>3, <1>4 DEF Send

-----------------------------------------------------------------------------
(* Steps of the server *)

\* What the server says next, to a client that is where it was.
LEMMA EvenSaid ==
  ASSUME Base, Even, NEW r, Plain(r), Tell(r), UNCHANGED <<ui, conn, conns>>,
         \A y \in Items(r) : y.kind \notin {"snapshot", "lost"},
         Items(toServer') \subseteq Items(toServer), Pairwise(toServer', FrameOrder),
         conn = "up" =>
           /\ \A x \in Items(toClient), y \in Items(r) :
                <<x, y>> \in EventOrder /\ <<x, y>> \in Opening
           /\ \A x, y \in Items(r) : x # y => <<x, y>> \in EventOrder
           /\ \A y \in Items(r) \cap Answers, f \in Items(toServer') \cap Edits : y.n # f.n
  PROVE  /\ Place' /\ Order'
         /\ Synced' <=> Synced
<1>1. /\ toClient \in Seq(Events) /\ r \in Seq(Events) /\ Items(r) \subseteq Events
  BY Within, Kept DEF Plain
<1>2. /\ conn = "up" => toClient' = toClient \o r /\ Items(toClient') = Items(toClient) \cup Items(r)
      /\ conn # "up" => toClient' = toClient
  BY Told DEF Base
<1>3. /\ Synced' <=> Synced
      /\ Own' = Own /\ Opening' = Opening
  BY DEF Synced, Own, Opening
<1>4. Items(r) \cap Of({"snapshot"}) = {} /\ Items(r) \cap Of({"snapshot", "lost"}) = {}
      /\ Items(r) \cap Own = {}
  BY DEF Of, Own
<1>5. Place'
  <2>1. ui.outstanding = {} \/ Ahead(toClient', Of({"snapshot"}), Of({"lost"}))
    <3>1. ui.outstanding = {} \/ Ahead(toClient, Of({"snapshot"}), Of({"lost"}))
      BY DEF Even, Place
    <3> QED BY <1>1, <1>2, <1>4, <3>1, JoiningAhead
  <2>2. Items(toClient) \subseteq Items(toClient')
    BY <1>2
  <2>3. conn = "open" => Items(toClient') \cap Own = {}
    BY <1>2 DEF Even, Place
  <2>4. Synced => Items(toClient') \cap Of({"snapshot", "lost"}) = {}
    BY <1>2, <1>4 DEF Even, Place
  <2> QED BY <1>3, <2>1, <2>2, <2>3, <2>4 DEF Even, Place
<1>6. Pairwise(toClient', EventOrder) /\ (conn = "up" => Pairwise(toClient', Opening))
  <2>1. Pairwise(toClient, EventOrder) /\ (conn = "up" => Pairwise(toClient, Opening))
    BY DEF Even, Order
  <2>2. CASE conn = "up"
    <3>1. Pairwise(r, EventOrder)
      BY <2>2 DEF Plain
    <3>2. Pairwise(r, Opening)
      <4>1. \A x, y \in Items(r) : <<x, y>> \in Opening
        BY <1>1, <1>4 DEF Opening
      <4> QED BY <4>1 DEF Plain
    <3>3. Pairwise(toClient \o r, EventOrder)
      BY <1>1, <2>1, <2>2, <3>1, JoiningPairs
    <3>4. Pairwise(toClient \o r, Opening)
      BY <1>1, <2>1, <2>2, <3>2, JoiningPairs
    <3> QED BY <1>2, <2>2, <3>3, <3>4
  <2> QED BY <1>2, <2>1, <2>2
<1>7. \A e \in Items(toClient') \cap Answers, f \in Items(toServer') \cap Edits : e.n # f.n
  <2>1. \A e \in Items(toClient) \cap Answers, f \in Items(toServer') \cap Edits : e.n # f.n
    BY DEF Even, Order
  <2> QED BY <1>2, <2>1
<1>8. Order'
  BY <1>3, <1>6, <1>7 DEF Order
<1> QED BY <1>3, <1>5, <1>8

\* Somebody else's text or lock.
LEMMA EvenByOthers ==
  ASSUME Base, Even, NEW r, Plain(r), Tell(r), UNCHANGED <<ui, conn, conns, toServer>>, Sending',
         conn # "down" => holder # conns /\ holder' \notin {0, conns},
         holder \notin {0, conns} => holder' \notin {0, conns},
         holder = Peer => holder' = Peer,
         \A e \in Items(r) : /\ e.kind \in {"lock", "content"}
                             /\ e.kind = "content" => e.text = stored'
                             /\ e.who = Peer => holder' = Peer,
         stored' = stored \/ \E e \in Items(r) : e.kind = "content"
  PROVE  Even'
<1>1. /\ toClient \in Seq(Events) /\ r \in Seq(Events) /\ Items(r) \subseteq Events
      /\ Items(toClient) \subseteq Events
  BY Within, Kept DEF Plain
<1>2. /\ conn = "up" => toClient' = toClient \o r /\ Items(toClient') = Items(toClient) \cup Items(r)
      /\ conn # "up" => toClient' = toClient
      /\ Items(toClient') \subseteq Items(toClient) \cup Items(r)
  BY Told DEF Base
<1>3. Place' /\ Order' /\ (Synced' <=> Synced)
  <2>1. \A x \in Events, y \in Items(r) : <<x, y>> \in EventOrder /\ <<x, y>> \in Opening
    BY <1>1 DEF EventOrder, Opening, Answers, Of
  <2>2. Items(r) \cap Answers = {}
    BY DEF Answers, Of
  <2>3. Pairwise(toServer', FrameOrder)
    BY DEF Even, Order
  <2> QED BY <1>1, <2>1, <2>2, <2>3, EvenSaid
<1>4. Sent'
  <2>1. conn = "down" => Items(toServer) = {}
    BY DEF Base, Given, Items
  <2> QED BY <1>2, <1>3, <2>1 DEF Even, Sent
<1>5. Locking'
  <2>1. Items(toClient') \cap Of({"content"}) # {} => holder' \notin {0, conns}
    <3>1. CASE conn = "down"
      BY <1>2, <3>1 DEF Even, Locking
    <3> QED BY <3>1
  <2>2. \A e \in Items(toClient') : e.who = Peer => holder' = Peer
    BY <1>2 DEF Even, Locking
  <2> QED BY <2>1, <2>2 DEF Locking
<1>6. Answering'
  <2>1. conn = "down" => Items(toServer) = {}
    BY DEF Base, Given, Items
  <2>2. Synced => \A e \in Items(toClient') : e.kind # "ack"
    <3>1. Synced => holder # conns
      BY DEF Synced
    <3>2. Synced => \A e \in Items(toClient) : e.kind # "ack"
      BY <3>1 DEF Even, Answering
    <3> QED BY <1>2, <3>2
  <2>3. \A f \in Items(toServer') \cap Edits :
        <<f.n, f.text>> \in ui.outstanding \/ holder' \notin {0, conns}
    BY <2>1
  <2>4. Synced => \A o \in ui.outstanding :
        \/ \E f \in Items(toServer') \cap Edits : f.n = o[1]
        \/ \E e \in Items(toClient') \cap Answers : e.n = o[1]
    BY <1>2 DEF Even, Answering
  <2> QED BY <1>3, <2>2, <2>3, <2>4 DEF Answering
<1>7. Telling'
  <2> DEFINE told == Of({"snapshot", "content"})
  <2>1. CASE conn = "up"
    <3>1. Items(r) \cap Stale' = {}
      BY DEF Stale, Of
    <3>2. Later(toClient, Stale', told) \/ Items(r) \cap told # {}
      <4>1. CASE stored' = stored
        <5>1. Stale' = Stale
          BY <4>1 DEF Stale
        <5> QED BY <2>1, <5>1 DEF Even, Telling
      <4>2. CASE \E e \in Items(r) : e.kind = "content"
        BY <1>1, <4>2 DEF Of
      <4> QED BY <4>1, <4>2
    <3>3. Later(toClient', Stale', told)
      BY <1>1, <1>2, <2>1, <3>1, <3>2, JoiningLater
    <3>4. Synced /\ Items(toClient') \cap Of({"content"}) = {} =>
            ui.confirmed = stored' \/ Items(toClient') \cap Of({"ack"}) # {}
      <4>1. CASE stored' = stored
        BY <1>2, <2>1, <4>1 DEF Even, Telling
      <4>2. CASE \E e \in Items(r) : e.kind = "content"
        BY <1>1, <1>2, <2>1, <4>2 DEF Of
      <4> QED BY <4>1, <4>2
    <3> QED BY <1>3, <3>3, <3>4 DEF Telling
  <2>2. CASE conn # "up"
    BY <2>2 DEF Telling, Synced
  <2> QED BY <2>1, <2>2
<1> QED BY <1>3, <1>4, <1>5, <1>6, <1>7 DEF Even

\* Frames that store nothing are answered, and the lock goes at most to their sender.
LEMMA EvenUnstored ==
  ASSUME Base, Even, NEW r, Plain(r), Tell(r), UNCHANGED <<ui, conn, conns, stored>>, Sending',
         holder' = holder \/ (holder \in {0, conns} /\ holder' = conns),
         Items(toServer') \subseteq Items(toServer), Pairwise(toServer', FrameOrder),
         \A e \in Items(r) : /\ e.kind \in {"lock", "denied", "rejected"}
                             /\ e.who = Peer => holder' = Peer,
         conn = "up" =>
           /\ \A x \in Items(toClient), y \in Items(r) :
                <<x, y>> \in EventOrder /\ <<x, y>> \in Opening
           /\ \A x, y \in Items(r) : x # y => <<x, y>> \in EventOrder
           /\ \A y \in Items(r) \cap Answers, f \in Items(toServer') \cap Edits : y.n # f.n,
         \A f \in Items(toServer) \cap Edits :
           \/ f \in Items(toServer')
           \/ conn = "up" /\ \E e \in Items(r) \cap Answers : e.n = f.n
  PROVE  Even'
<1>1. /\ toClient \in Seq(Events) /\ r \in Seq(Events) /\ Items(r) \subseteq Events
  BY Within, Kept DEF Plain
<1>2. /\ conn = "up" => toClient' = toClient \o r /\ Items(toClient') = Items(toClient) \cup Items(r)
      /\ conn # "up" => toClient' = toClient
      /\ Items(toClient') \subseteq Items(toClient) \cup Items(r)
      /\ Items(toClient) \subseteq Items(toClient')
  BY Told DEF Base
<1>3. Place' /\ Order' /\ (Synced' <=> Synced)
  BY EvenSaid
<1>4. /\ holder \notin {0, conns} => holder' = holder
      /\ holder = conns => holder' = conns
      /\ holder = Peer => holder' = Peer
  BY Kept, Numbered, ClientConstants
<1>5. Sent'
  BY <1>2, <1>3, <1>4 DEF Even, Sent
<1>6. Locking'
  BY <1>2, <1>4 DEF Even, Locking, Of
<1>7. Answering'
  <2>1. \A f \in Items(toServer') \cap Edits :
        <<f.n, f.text>> \in ui.outstanding \/ holder' \notin {0, conns}
    BY <1>4 DEF Even, Answering
  <2>2. Synced => \A o \in ui.outstanding :
        \/ \E f \in Items(toServer') \cap Edits : f.n = o[1]
        \/ \E e \in Items(toClient') \cap Answers : e.n = o[1]
    BY <1>2 DEF Even, Answering
  <2>3. Synced => \A e \in Items(toClient') : e.kind = "ack" =>
        <<e.n, stored>> \in ui.outstanding /\ holder' = conns
    BY <1>2, <1>4 DEF Even, Answering
  <2> QED BY <1>3, <2>1, <2>2, <2>3 DEF Answering
<1>8. Telling'
  <2>1. Stale' = Stale /\ Items(r) \cap Stale = {}
    BY DEF Stale, Of
  <2>2. conn = "up" => Later(toClient', Stale, Of({"snapshot", "content"}))
    <3>1. conn = "up" => Later(toClient, Stale, Of({"snapshot", "content"}))
      BY DEF Even, Telling
    <3>2. conn = "up" => Later(toClient \o r, Stale, Of({"snapshot", "content"}))
      BY <1>1, <2>1, <3>1, JoiningLater
    <3> QED BY <1>2, <3>2
  <2>3. Synced /\ Items(toClient') \cap Of({"content"}) = {} =>
          ui.confirmed = stored \/ Items(toClient') \cap Of({"ack"}) # {}
    BY <1>2 DEF Even, Telling
  <2> QED BY <1>3, <2>1, <2>2, <2>3 DEF Telling
<1> QED BY <1>3, <1>5, <1>6, <1>7, <1>8 DEF Even

LEMMA EvenServeOwn ==
  ASSUME Base, Even, conn = "up", toServer # <<>>, toServer' = Tail(toServer),
         Answer(Head(toServer), TRUE), UNCHANGED <<ui, job, conn, conns, late, texts, paced>>
  PROVE  Even'
<1> DEFINE f == Head(toServer)
<1>1. f \in Frames /\ toServer' \in Seq(Frames) /\ Items(toServer) = {f} \cup Items(toServer')
  BY Kept, Taking
<1>2. Pairwise(toServer', FrameOrder) /\ \A g \in Items(toServer') : <<f, g>> \in FrameOrder
  BY Kept, TakingPairs DEF Even, Order
<1>3. Answer(f, TRUE)
  OBVIOUS
<1>4. Items(toServer') \subseteq Frames
  BY <1>1, Within
<1> HIDE DEF f
<1>5. /\ f.from = conns /\ f.n \in Nat /\ (f.kind = "edit" <=> f.n # 0) /\ f.text \in Text
      /\ conns \in Who /\ conns # Peer /\ conns # 0
  BY <1>1, Kept, ClientConstants DEF Frames, Base, Given, Ranges, Who
<1>6. f.n # 0 => f \in Edits /\ Synced
  BY <1>1, <1>5 DEF Edits, Even, Place
<1>7. Synced => Items(toClient) \cap Own = {}
  BY DEF Even, Place, Own, Of
<1>8. \A g \in Items(toServer') \cap Edits : f.n # 0 => f.n # g.n
  BY <1>2, <1>6 DEF FrameOrder
<1>9. \A x \in Items(toClient) \cap Answers : f.n # 0 => x.n # f.n
  BY <1>1, <1>6 DEF Even, Order
<1>10. Sending'
  BY DEF Even, Sending, Synced
<1>11. Items(toClient) \subseteq Events /\ toClient \in Seq(Events)
  BY Kept, Within
<1>12. PICK r, told :
           /\ Plain(r) /\ Tell(r) /\ Items(r) = told
           /\ \/ /\ holder \notin {0, f.from}
                 /\ stored' = stored /\ holder' = holder /\ refusals' = refusals
                 /\ told = IF TRUE THEN {Event("denied", f.n, 0, holder)} ELSE {}
              \/ /\ holder \in {0, f.from} /\ holder' = f.from
                 /\ f.kind = "acquire" /\ stored' = stored /\ refusals' = refusals
                 /\ told \subseteq {Event("lock", 0, 0, f.from)}
              \/ /\ holder \in {0, f.from} /\ holder' = f.from
                 /\ f.kind = "edit" /\ stored' = f.text /\ refusals' = refusals
                 /\ told = Locks(f.from) \cup (IF TRUE THEN {Event("ack", f.n, 0, 0)}
                                                 ELSE {Event("content", 0, f.text, 0)})
              \/ /\ holder \in {0, f.from} /\ holder' = f.from
                 /\ f.kind = "edit" /\ stored' = stored
                 /\ refusals < MaxRefusals /\ refusals' = refusals + 1
                 /\ told = Locks(f.from) \cup (IF TRUE THEN {Event("rejected", f.n, 0, 0)} ELSE {})
  BY <1>1, <1>3, Answered DEF Base
<1>13. Plain(r) /\ Tell(r) /\ Items(r) = told /\ told \subseteq Events
  BY <1>12, Within DEF Plain
<1>14. \A e \in Locks(conns) \cup {Event("lock", 0, 0, conns)} :
          e.kind = "lock" /\ e.n = 0 /\ e.who = conns
  BY DEF Locks, Event
<1>15. CASE /\ holder \notin {0, conns} /\ stored' = stored /\ holder' = holder
            /\ told = {Event("denied", f.n, 0, holder)}
  <2>1. \A e \in told : e.kind = "denied" /\ e.n = f.n /\ e.who = holder
    BY <1>15 DEF Event
  <2>2. \A x \in Items(toClient), y \in told : <<x, y>> \in EventOrder /\ <<x, y>> \in Opening
    <3> TAKE x \in Items(toClient), y \in told
    <3>1. <<x, y>> \in EventOrder
      BY <1>9, <1>11, <1>13, <2>1 DEF EventOrder, Answers
    <3>2. <<x, y>> \in Opening
      BY <1>6, <1>7, <1>11, <1>13, <2>1 DEF Opening
    <3> QED BY <3>1, <3>2
  <2>3. \A x, y \in told : x = y
    BY <1>15
  <2>4. \A y \in told \cap Answers, g \in Items(toServer') \cap Edits : y.n # g.n
    BY <1>8, <2>1 DEF Answers
  <2>5. f.n # 0 => \E e \in told \cap Answers : e.n = f.n
    BY <1>5, <1>13, <1>15, <2>1 DEF Answers, Of
  <2>6. \A g \in Items(toServer) \cap Edits :
           g \in Items(toServer') \/ (conn = "up" /\ \E e \in told \cap Answers : e.n = g.n)
    BY <1>1, <1>5, <2>5 DEF Edits
  <2> QED BY <1>1, <1>2, <1>10, <1>13, <1>15, <2>1, <2>2, <2>3, <2>4, <2>6, EvenUnstored
<1>16. CASE /\ holder \in {0, conns} /\ holder' = conns /\ f.kind = "acquire" /\ stored' = stored
            /\ told \subseteq {Event("lock", 0, 0, conns)}
  <2>1. \A e \in told : e.kind = "lock" /\ e.who = conns /\ e \notin Answers
    BY <1>14, <1>16 DEF Answers, Of
  <2>2. \A x \in Items(toClient), y \in told : <<x, y>> \in EventOrder /\ <<x, y>> \in Opening
    BY <1>11, <1>13, <2>1 DEF EventOrder, Opening
  <2>3. \A x, y \in told : x = y
    BY <1>16
  <2>4. \A g \in Items(toServer) \cap Edits : g \in Items(toServer')
    BY <1>1, <1>16 DEF Edits
  <2> QED BY <1>1, <1>2, <1>5, <1>10, <1>13, <1>16, <2>1, <2>2, <2>3, <2>4, EvenUnstored
<1>17. CASE /\ holder \in {0, conns} /\ holder' = conns /\ f.kind = "edit" /\ stored' = stored
            /\ told = Locks(conns) \cup {Event("rejected", f.n, 0, 0)}
  <2> DEFINE j == Event("rejected", f.n, 0, 0)
  <2>1. j.kind = "rejected" /\ j.n = f.n /\ j.who = 0 /\ j \in Answers /\ told = Locks(conns) \cup {j}
    BY <1>5, <1>13, <1>17 DEF Event, Answers, Of
  <2>2. Synced
    BY <1>5, <1>6, <1>17
  <2> HIDE DEF j
  <2>3. \A e \in told : e.kind \in {"lock", "rejected"} /\ e.who # Peer
    BY <1>5, <1>14, <2>1, ClientConstants
  <2>4. \A e \in Locks(conns) : e \notin Answers
    BY <1>14 DEF Answers, Of
  <2>5. \A x \in Items(toClient), y \in told : <<x, y>> \in EventOrder /\ <<x, y>> \in Opening
    <3> TAKE x \in Items(toClient), y \in told
    <3>1. <<x, y>> \in EventOrder
      BY <1>5, <1>9, <1>11, <1>13, <1>17, <2>1, <2>3, <2>4 DEF EventOrder
    <3>2. <<x, y>> \in Opening
      BY <1>7, <1>11, <1>13, <2>2 DEF Opening
    <3> QED BY <3>1, <3>2
  <2>6. \A x, y \in told : x # y => <<x, y>> \in EventOrder
    BY <1>13, <1>14, <2>1, <2>3, <2>4 DEF EventOrder, Locks
  <2>7. \A y \in told \cap Answers, g \in Items(toServer') \cap Edits : y.n # g.n
    BY <1>5, <1>8, <1>17, <2>1, <2>4
  <2>8. \A g \in Items(toServer) \cap Edits :
           g \in Items(toServer') \/ (conn = "up" /\ \E e \in told \cap Answers : e.n = g.n)
    BY <1>1, <2>1
  <2> QED BY <1>1, <1>2, <1>10, <1>13, <1>17, <2>3, <2>5, <2>6, <2>7, <2>8, EvenUnstored
<1>18. CASE /\ holder \in {0, conns} /\ holder' = conns /\ f.kind = "edit" /\ stored' = f.text
            /\ told = Locks(conns) \cup {Event("ack", f.n, 0, 0)}
  <2> DEFINE a == Event("ack", f.n, 0, 0)
  <2>1. a.kind = "ack" /\ a.n = f.n /\ a.who = 0 /\ a \in Answers /\ told = Locks(conns) \cup {a} /\ a \in Events
    BY <1>5, <1>13, <1>18 DEF Event, Answers, Of
  <2>2. Synced /\ f \in Edits /\ f.n # 0
    BY <1>5, <1>6, <1>18
  <2> HIDE DEF a
  <2>3. \A e \in told : e.kind \in {"lock", "ack"} /\ e.who # Peer /\ (e.kind = "ack" => e = a)
    BY <1>5, <1>14, <2>1, ClientConstants
  <2>4. \A e \in Locks(conns) : e \notin Answers
    BY <1>14 DEF Answers, Of
  <2>5. \A x \in Items(toClient) : x.kind \notin {"content", "snapshot", "lost"}
    BY <1>11, <1>18, <2>2 DEF Even, Place, Locking, Of
  <2>6. \A x \in Items(toClient), y \in told : <<x, y>> \in EventOrder /\ <<x, y>> \in Opening
    <3> TAKE x \in Items(toClient), y \in told
    <3>1. <<x, y>> \in EventOrder
      BY <1>9, <1>11, <1>13, <2>1, <2>2, <2>4, <2>5 DEF EventOrder
    <3>2. <<x, y>> \in Opening
      BY <1>7, <1>11, <1>13, <2>2 DEF Opening
    <3> QED BY <3>1, <3>2
  <2>7. \A x, y \in told : x # y => <<x, y>> \in EventOrder
    BY <1>13, <1>14, <2>1, <2>3, <2>4 DEF EventOrder, Locks
  <2>8. \A y \in told \cap Answers, g \in Items(toServer') \cap Edits : y.n # g.n
    BY <1>8, <2>1, <2>2, <2>4
  <2>9. Place' /\ Order' /\ (Synced' <=> Synced)
    BY <1>1, <1>2, <1>13, <2>3, <2>6, <2>7, <2>8, EvenSaid
  <2>10. toClient' \in Seq(Events) /\ Items(toClient') = Items(toClient) \cup told
    BY <1>13, Told DEF Base
  <2>11. <<f.n, f.text>> \in ui.outstanding
    BY <1>1, <1>18, <2>2 DEF Even, Answering
  <2>12. \A e \in Items(toClient) : e.kind # "ack"
    <3> SUFFICES ASSUME NEW e \in Items(toClient), e.kind = "ack" PROVE FALSE
      OBVIOUS
    <3>1. <<e.n, stored>> \in ui.outstanding
      BY <2>2 DEF Even, Answering
    <3>2. <<e.n, stored>> = <<f.n, f.text>>
      BY <2>11, <3>1 DEF Even, Sending
    <3>3. e \in Answers
      BY <1>11, Numbered DEF Base, Given, Answers, Of
    <3> QED BY <1>9, <2>2, <3>2, <3>3
  <2>13. Sent'
    <3>1. \A o \in ui.outstanding : ui.lastSent # o[2] =>
             \A g \in Items(toServer) \cap Edits : g.n # o[1]
      BY <1>18 DEF Even, Sent
    <3>2. \A o \in ui.outstanding : ui.lastSent # o[2] =>
             \A e \in Items(toClient') : e.kind = "ack" => e.n # o[1]
      BY <1>1, <2>1, <2>2, <2>3, <2>10, <2>12, <3>1
    <3> QED BY <1>1, <2>9, <3>1, <3>2 DEF Even, Sent
  <2>14. Locking'
    <3>1. Items(toClient') \cap Of({"content"}) = {}
      BY <2>3, <2>5, <2>10 DEF Of
    <3>2. \A e \in Items(toClient') : e.who # Peer
      BY <1>5, <1>18, <2>3, <2>10, ClientConstants DEF Even, Locking
    <3> QED BY <3>1, <3>2 DEF Locking
  <2>15. Answering'
    <3>1. \A g \in Items(toServer') \cap Edits : <<g.n, g.text>> \in ui.outstanding
      BY <1>1, <1>18 DEF Even, Answering
    <3>2. \A o \in ui.outstanding :
            \/ \E g \in Items(toServer') \cap Edits : g.n = o[1]
            \/ \E e \in Items(toClient') \cap Answers : e.n = o[1]
      BY <1>1, <2>1, <2>2, <2>10 DEF Even, Answering
    <3>3. \A e \in Items(toClient') : e.kind = "ack" =>
            <<e.n, stored'>> \in ui.outstanding /\ holder' = conns
      BY <1>18, <2>1, <2>3, <2>10, <2>11, <2>12
    <3> QED BY <3>1, <3>2, <3>3 DEF Answering
  <2>16. Telling'
    <3>1. Items(toClient') \cap Stale' = {}
      BY <2>3, <2>5, <2>10 DEF Stale, Of
    <3>2. Later(toClient', Stale', Of({"snapshot", "content"}))
      BY <3>1 DEF Later, Items
    <3>3. Items(toClient') \cap Of({"ack"}) # {}
      BY <2>1, <2>10 DEF Of
    <3> QED BY <3>2, <3>3 DEF Telling
  <2> QED BY <1>10, <2>9, <2>13, <2>14, <2>15, <2>16 DEF Even
<1> QED BY <1>5, <1>12, <1>15, <1>16, <1>17, <1>18

LEMMA EvenServeLate ==
  ASSUME Base, Even, late # <<>>, late' = Tail(late), Answer(Head(late), FALSE),
         UNCHANGED <<ui, job, conn, conns, toServer, texts, paced>>
  PROVE  Even'
<1> DEFINE f == Head(late)
<1>1. f \in Frames /\ f \in Items(late)
  BY Kept, Taking
<1>2. Answer(f, FALSE)
  OBVIOUS
<1> HIDE DEF f
<1>3. /\ f.from \in 1..conns /\ (conn # "down" => f.from # conns) /\ f.from # 0 /\ f.from # Peer
      /\ conn # "down" => conns # 0
  BY <1>1, ClientConstants DEF Base, Given
<1>4. Sending'
  BY DEF Even, Sending, Synced
<1>5. PICK r, told :
           /\ Plain(r) /\ Tell(r) /\ Items(r) = told
           /\ \/ /\ holder \notin {0, f.from}
                 /\ stored' = stored /\ holder' = holder /\ refusals' = refusals
                 /\ told = IF FALSE THEN {Event("denied", f.n, 0, holder)} ELSE {}
              \/ /\ holder \in {0, f.from} /\ holder' = f.from
                 /\ f.kind = "acquire" /\ stored' = stored /\ refusals' = refusals
                 /\ told \subseteq {Event("lock", 0, 0, f.from)}
              \/ /\ holder \in {0, f.from} /\ holder' = f.from
                 /\ f.kind = "edit" /\ stored' = f.text /\ refusals' = refusals
                 /\ told = Locks(f.from) \cup (IF FALSE THEN {Event("ack", f.n, 0, 0)}
                                                 ELSE {Event("content", 0, f.text, 0)})
              \/ /\ holder \in {0, f.from} /\ holder' = f.from
                 /\ f.kind = "edit" /\ stored' = stored
                 /\ refusals < MaxRefusals /\ refusals' = refusals + 1
                 /\ told = Locks(f.from) \cup (IF FALSE THEN {Event("rejected", f.n, 0, 0)} ELSE {})
  BY <1>1, <1>2, Answered DEF Base
<1>6. Plain(r) /\ Tell(r) /\ Items(r) = told
  BY <1>5
<1>7. CASE holder \notin {0, f.from} /\ stored' = stored /\ holder' = holder /\ told = {}
  <2>1. Pairwise(toServer', FrameOrder)
    BY DEF Even, Order
  <2> QED BY <1>4, <1>6, <1>7, <2>1, EvenUnstored
<1>8. CASE /\ holder \in {0, f.from} /\ holder' = f.from
           /\ \/ stored' = stored /\ told \subseteq {Event("lock", 0, 0, f.from)}
              \/ /\ stored' = f.text
                 /\ told = Locks(f.from) \cup {Event("content", 0, f.text, 0)}
  <2> DEFINE l == Event("lock", 0, 0, f.from)  c == Event("content", 0, f.text, 0)
  <2>1. /\ l.kind = "lock" /\ l.who = f.from /\ c.kind = "content" /\ c.text = f.text /\ c.who = 0
        /\ Locks(f.from) \subseteq {l}
    BY DEF Event, Locks
  <2>2. /\ told \subseteq {l, c} /\ (c \in told => stored' = f.text)
        /\ stored' = stored \/ c \in told
    <3>1. l # c
      BY <2>1
    <3> QED BY <1>8, <2>1, <3>1
  <2> HIDE DEF l, c
  <2>3. \A e \in told : /\ e.kind \in {"lock", "content"}
                        /\ e.kind = "content" => e.text = stored'
                        /\ e.who = Peer => holder' = Peer
    BY <1>3, <2>1, <2>2, ClientConstants
  <2>4. stored' = stored \/ \E e \in told : e.kind = "content"
    BY <2>1, <2>2
  <2>5. conn # "down" => holder # conns /\ holder' \notin {0, conns}
    BY <1>3, <1>8
  <2>6. (holder \notin {0, conns} => holder' \notin {0, conns}) /\ (holder = Peer => holder' = Peer)
    BY <1>3, <1>8, ClientConstants
  <2> QED BY <1>4, <1>6, <2>3, <2>4, <2>5, <2>6, EvenByOthers
<1>9. Locks(f.from) \subseteq {Event("lock", 0, 0, f.from)}
  BY DEF Locks
<1> QED BY <1>5, <1>7, <1>8, <1>9

LEMMA EvenServe == Base /\ Even /\ Serve => Even'
BY EvenServeOwn, EvenServeLate DEF Serve

LEMMA EvenServePut == Base /\ Even /\ ServePut => Even'
<1> SUFFICES ASSUME Base, Even, ServePut PROVE Even'
  OBVIOUS
<1>1. /\ UNCHANGED <<ui, conn, conns, toServer, late, texts, refusals, paced>>
      /\ conn = "down" /\ ui.outstanding = {} /\ job \in Jobs
  BY Kept DEF ServePut, Even, Sending
<1>2. CASE holder \in {0, job.as}
  <2> DEFINE c == Event("content", 0, job.text, 0)
  <2>1. job' = [job EXCEPT !.step = "stored"] /\ stored' = job.text /\ holder' = job.as
        /\ Tell(<<c>> \o Announced(job.as))
    BY <1>2 DEF ServePut
  <2>2. job.as \in Who /\ job.as # Peer /\ job.text \in Text /\ Peer # 0
    BY <1>1, ClientConstants DEF Jobs, Who, Id
  <2>3. c \in Events /\ c.kind = "content" /\ c.text = job.text /\ c.who = 0
    <3>1. 0 \in Who /\ 0 \in Nat
      BY Numbered DEF Who
    <3> QED BY <2>2, <3>1, Eventful
  <2>4. \A e \in Locks(job.as) : e.kind = "lock" /\ e.who = job.as
    BY DEF Locks, Event
  <2> HIDE DEF c
  <2>5. /\ Plain(<<c>> \o Announced(job.as))
        /\ Items(<<c>> \o Announced(job.as)) = {c} \cup Locks(job.as)
    BY <2>2, <2>3, Saying
  <2>6. Sending'
    <3>1. job'.step = "stored"
      BY <1>1, <2>1 DEF Jobs
    <3> QED BY <1>1, <3>1 DEF Sending
  <2>7. \A e \in {c} \cup Locks(job.as) : /\ e.kind \in {"lock", "content"}
                                          /\ e.kind = "content" => e.text = stored'
                                          /\ e.who = Peer => holder' = Peer
    BY <2>1, <2>2, <2>3, <2>4
  <2>8. (holder \notin {0, conns} => holder' \notin {0, conns}) /\ (holder = Peer => holder' = Peer)
    BY <1>2, <2>1, <2>2
  <2> QED BY <1>1, <2>1, <2>3, <2>5, <2>6, <2>7, <2>8, EvenByOthers
<1>3. CASE holder \notin {0, job.as}
  <2>1. job' = [job EXCEPT !.step = "refused"] /\ UNCHANGED <<stored, holder, toClient>>
    BY <1>3 DEF ServePut
  <2>2. Sending'
    <3>1. job'.step = "refused"
      BY <1>1, <2>1 DEF Jobs
    <3> QED BY <1>1, <3>1 DEF Sending
  <2>3. Sent' /\ Pairwise(toServer', FrameOrder)
    BY <1>1, <2>1 DEF Even, Sent, Order, Synced
  <2> QED BY <1>1, <2>1, <2>2, <2>3, EvenWithin
<1> QED BY <1>2, <1>3

LEMMA EvenPeerEdits == Base /\ Even /\ PeerEdits => Even'
<1> SUFFICES ASSUME Base, Even, PeerEdits PROVE Even'
  OBVIOUS
<1> DEFINE c == Event("content", 0, texts + 1, 0)
<1>1. /\ UNCHANGED <<ui, job, conn, conns, toServer, late, refusals, paced>>
      /\ stored' = texts + 1 /\ holder \in {0, Peer} /\ holder' = Peer
      /\ Tell(<<c>> \o Announced(Peer))
  BY DEF PeerEdits
<1>2. texts + 1 \in Text
  BY TypedText DEF PeerEdits
<1>3. c \in Events /\ c.kind = "content" /\ c.text = texts + 1 /\ Peer \in Who
  <2>1. 0 \in Who /\ Peer \in Who /\ 0 \in Nat
    BY Numbered DEF Who
  <2> QED BY <1>2, <2>1, Eventful
<1>4. \A e \in Locks(Peer) : e.kind = "lock"
  BY DEF Locks, Event
<1> HIDE DEF c
<1>5. /\ Plain(<<c>> \o Announced(Peer))
      /\ Items(<<c>> \o Announced(Peer)) = {c} \cup Locks(Peer)
  BY <1>3, Saying
<1>6. Sending'
  BY <1>1 DEF Even, Sending, Synced
<1>7. Peer # 0 /\ Peer # conns /\ (conn # "down" => conns # 0)
  BY Kept, ClientConstants DEF Base, Given
<1>8. \A e \in {c} \cup Locks(Peer) : /\ e.kind \in {"lock", "content"}
                                      /\ e.kind = "content" => e.text = stored'
                                      /\ e.who = Peer => holder' = Peer
  BY <1>1, <1>3, <1>4
<1> QED BY <1>1, <1>3, <1>5, <1>6, <1>7, <1>8, EvenByOthers

LEMMA EvenLockFreed == Base /\ Even /\ paced /\ LockFreed => Even'
<1> SUFFICES ASSUME Base, Even, paced, LockFreed PROVE Even'
  OBVIOUS
<1>1. /\ UNCHANGED <<ui, job, conn, conns, toServer, late, stored, texts, refusals, paced>>
      /\ holder' = 0 /\ Tell(Announced(0))
      /\ toServer = <<>> /\ toClient = <<>>
  BY DEF LockFreed
<1>2. Plain(Announced(0)) /\ Items(Announced(0)) = Locks(0)
  BY Announcing, Numbered DEF Who
<1>3. \A e \in Locks(0) : e.kind = "lock" /\ e.n = 0 /\ e.who = 0 /\ e \notin Answers
  BY DEF Locks, Event, Answers, Of
<1>4. \A x, y \in Locks(0) : x = y
  BY DEF Locks
<1>5. Items(toServer) = {} /\ Items(toClient) = {}
  BY <1>1 DEF Items
<1>6. Place' /\ Order' /\ (Synced' <=> Synced)
  <2>1. Pairwise(toServer', FrameOrder) /\ Items(toServer') = {}
    BY <1>1, <1>5 DEF Even, Order
  <2> QED BY <1>1, <1>2, <1>3, <1>4, <1>5, <2>1, EvenSaid
<1>7. Items(toClient') \subseteq Locks(0) /\ toClient' \in Seq(Events)
  BY <1>1, <1>2, <1>5, Told DEF Base
<1>8. Sending'
  BY <1>1 DEF Even, Sending, Synced
<1>9. Sent'
  BY <1>1, <1>3, <1>5, <1>6, <1>7 DEF Even, Sent
<1>10. Locking'
  BY <1>3, <1>7, ClientConstants DEF Locking, Of
<1>11. Answering'
  BY <1>1, <1>3, <1>5, <1>6, <1>7 DEF Even, Answering
<1>12. Telling'
  <2>1. Items(toClient') \cap Stale' = {}
    BY <1>3, <1>7 DEF Stale, Of
  <2>2. Later(toClient', Stale', Of({"snapshot", "content"}))
    BY <2>1 DEF Later, Items
  <2>3. Synced => ui.confirmed = stored
    BY <1>5 DEF Even, Telling
  <2> QED BY <1>1, <1>6, <2>2, <2>3 DEF Telling
<1> QED BY <1>6, <1>8, <1>9, <1>10, <1>11, <1>12 DEF Even
-----------------------------------------------------------------------------
(* Steps of the connection *)

LEMMA EvenConnect == Base /\ Even /\ paced /\ Connect => Even'
<1> SUFFICES ASSUME Base, Even, paced, Connect PROVE Even'
  OBVIOUS
<1>1. /\ conn = "down" /\ conn' = "open" /\ conns' = conns + 1 /\ conns < MaxConn /\ job = NoJob
      /\ UNCHANGED <<ui, job, toServer, late, toClient, stored, holder, texts, refusals, paced>>
  BY DEF Connect
<1>2. conns \in Nat /\ ui.me <= conns /\ ui.me \in Nat /\ holder \in (0..conns) \cup {Peer}
  BY Kept, Numbered DEF Clients
<1>3. ui.me # conns' /\ holder # conns'
  BY <1>1, <1>2, ClientConstants
<1>4. ~Synced /\ ~Synced'
  BY <1>1 DEF Synced
<1>5. Items(toServer) = {}
  BY <1>1 DEF Base, Given, Items
<1>6. \A e \in Items(toClient) : e.kind = "snapshot" => e.n # conns'
  <2>1. Items(toClient) \subseteq Events
    BY Kept, Within
  <2> TAKE e \in Items(toClient)
  <2>2. e.n \in Nat /\ (e.kind = "snapshot" => e.n <= conns)
    BY <2>1 DEF Events, Base, Given
  <2> QED BY <1>1, <1>2, <2>2
<1>7. Place'
  <2>1. Items(toClient) \cap Own' = {}
    BY <1>6 DEF Own, Of
  <2> QED BY <1>1, <1>3, <1>4, <1>5, <2>1 DEF Even, Place
<1>8. Sending'
  BY <1>1 DEF Even, Sending, NoJob
<1>9. Order'
  BY <1>1, <1>5 DEF Even, Order
<1>10. Sent'
  BY <1>1, <1>4, <1>5 DEF Even, Sent
<1>11. Locking'
  BY <1>1, <1>3 DEF Even, Locking
<1>12. Answering'
  BY <1>1, <1>4, <1>5 DEF Answering
<1>13. Telling'
  BY <1>1, <1>4 DEF Telling
<1> QED BY <1>7, <1>8, <1>9, <1>10, <1>11, <1>12, <1>13 DEF Even

LEMMA EvenHello == Base /\ Even /\ Hello => Even'
<1> SUFFICES ASSUME Base, Even, Hello PROVE Even'
  OBVIOUS
<1> DEFINE e == Event("snapshot", conns, stored, holder)
<1>1. /\ conn = "open" /\ conn' = "up" /\ toClient' = Append(toClient, e)
      /\ UNCHANGED <<ui, job, conns, toServer, late, stored, holder, texts, refusals, paced>>
  BY DEF Hello
<1>2. e \in Events /\ e.kind = "snapshot" /\ e.n = conns /\ e.text = stored /\ e.who = holder
  BY Eventful, Numbered DEF Base, Ranges
<1> HIDE DEF e
<1>3. toClient' \in Seq(Events) /\ Items(toClient') = Items(toClient) \cup {e} /\ toClient \in Seq(Events)
  BY <1>1, <1>2, Kept, Appending
<1>4. ~Synced /\ ~Synced' /\ Own' = Own /\ Stale' = Stale /\ Opening' = Opening
  BY <1>1 DEF Even, Place, Synced, Own, Stale, Opening
<1>5. Place'
  <2>1. ui.outstanding = {} \/ Ahead(toClient', Of({"snapshot"}), Of({"lost"}))
    <3>1. CASE ui.outstanding # {}
      <4>1. Ahead(toClient, Of({"snapshot"}), Of({"lost"})) /\ Items(toClient) \cap Of({"lost"}) # {}
        BY <1>4, <3>1 DEF Even, Place
      <4> QED BY <1>1, <1>2, <1>3, <4>1, AppendingAhead
    <3> QED BY <3>1
  <2>2. e \in Own
    BY <1>2 DEF Own, Of
  <2>3. Items(toServer) \cap Edits = {}
    BY <1>4 DEF Even, Place
  <2>4. ui.outstanding = {} \/ Items(toClient') \cap Of({"lost"}) # {}
    BY <1>3, <1>4 DEF Even, Place
  <2> QED BY <1>1, <1>3, <1>4, <2>1, <2>2, <2>3, <2>4 DEF Place
<1>6. Sending'
  BY <1>1, <1>4 DEF Even, Sending
<1>7. Order'
  <2>1. e \notin Answers
    BY <1>2 DEF Answers, Of
  <2>2. \A x \in Items(toClient) : x \in Events /\ x \notin Own
    BY <1>1, <1>3, Within DEF Even, Place
  <2>3. Pairwise(toClient', EventOrder)
    <3>1. \A x \in Items(toClient) : <<x, e>> \in EventOrder
      BY <1>2, <2>1, <2>2 DEF EventOrder
    <3>2. Pairwise(toClient, EventOrder)
      BY DEF Even, Order
    <3> QED BY <1>1, <1>2, <1>3, <3>1, <3>2, AppendingPairs
  <2>4. Pairwise(toClient', Opening)
    <3>1. \A x \in Items(toClient), y \in Events : <<x, y>> \in Opening
      BY <2>2 DEF Opening
    <3>2. Pairwise(toClient, Opening)
      BY <1>3, <3>1, ElementOfSeq DEF Pairwise, Items
    <3> QED BY <1>1, <1>2, <1>3, <3>1, <3>2, AppendingPairs
  <2> QED BY <1>1, <1>3, <1>4, <2>1, <2>3, <2>4 DEF Even, Order
<1>8. Sent'
  BY <1>1, <1>2, <1>3, <1>4 DEF Even, Sent
<1>9. Locking'
  BY <1>1, <1>2, <1>3 DEF Even, Locking, Of
<1>10. Answering'
  BY <1>1, <1>4 DEF Even, Answering
<1>11. Telling'
  <2> DEFINE told == Of({"snapshot", "content"})
  <2>1. e \notin Stale /\ e \in told
    BY <1>2 DEF Stale, Of
  <2> HIDE DEF told
  <2>2. Later(toClient', Stale, told)
    BY <1>1, <1>2, <1>3, <2>1, AppendingLater
  <2> QED BY <1>4, <2>2 DEF Telling, told
<1> QED BY <1>5, <1>6, <1>7, <1>8, <1>9, <1>10, <1>11 DEF Even

LEMMA EvenBreak == Base /\ Even /\ Break => Even'
<1> SUFFICES ASSUME Base, Even, Break PROVE Even'
  OBVIOUS
<1> DEFINE e == Event("lost", 0, 0, 0)
<1>1. /\ conn # "down" /\ conn' = "down" /\ toServer' = <<>>
      /\ UNCHANGED <<ui, job, conns, stored, holder, texts, refusals, paced>>
  BY DEF Break
<1>2. PICK l \in 0..Len(toClient) : toClient' = Append(SubSeq(toClient, 1, l), e)
  BY DEF Break
<1>3. e \in Events /\ e.kind = "lost" /\ e.who = 0 /\ e.n = 0
  BY Eventful, Numbered DEF Who
<1> HIDE DEF e
<1> DEFINE s == SubSeq(toClient, 1, l)
<1>4. s \in Seq(Events) /\ Items(s) \subseteq Items(toClient) /\ toClient' = Append(s, e)
  BY <1>2, Kept, Cutting
<1>5. Pairwise(s, EventOrder)
  BY Kept, CuttingPairs DEF Even, Order
<1>6. ui.outstanding = {} \/ Ahead(s, Of({"snapshot"}), Of({"lost"}))
  BY Kept, CuttingAhead DEF Even, Place
<1> HIDE DEF s
<1>7. Items(toClient') = Items(s) \cup {e} /\ Items(s) \subseteq Events
  BY <1>3, <1>4, Appending, Within
<1>8. Items(toServer') = {}
  BY <1>1 DEF Items
<1>9. ~Synced'
  BY <1>1 DEF Synced
<1>10. e \in Of({"lost"}) /\ e \notin Of({"snapshot"}) /\ e \notin Answers
  BY <1>3 DEF Of, Answers
<1>11. Place'
  <2>1. ui.outstanding = {} \/ Ahead(toClient', Of({"snapshot"}), Of({"lost"}))
    BY <1>3, <1>4, <1>6, <1>10, AppendingAhead
  <2> QED BY <1>1, <1>7, <1>8, <1>9, <1>10, <2>1 DEF Place
<1>12. Sending'
  BY <1>1 DEF Even, Sending
<1>13. Order'
  <2>1. Pairwise(toClient', EventOrder)
    <3>1. \A x \in Items(s) : <<x, e>> \in EventOrder
      BY <1>3, <1>7, <1>10 DEF EventOrder
    <3> QED BY <1>3, <1>4, <1>5, <3>1, AppendingPairs
  <2>2. Pairwise(toServer', FrameOrder)
    BY <1>1 DEF Pairwise
  <2> QED BY <1>1, <1>8, <2>1, <2>2 DEF Order
<1>14. Sent'
  BY <1>1, <1>3, <1>4, <1>7, <1>8, <1>9 DEF Even, Sent
<1>15. Locking'
  BY <1>1, <1>3, <1>4, <1>7, ClientConstants DEF Even, Locking, Of
<1>16. Answering' /\ Telling'
  BY <1>1, <1>8, <1>9 DEF Answering, Telling
<1> QED BY <1>11, <1>12, <1>13, <1>14, <1>15, <1>16 DEF Even

-----------------------------------------------------------------------------
(* Steps of the client: what it receives *)

\* What is left on the way when the first event was received.
LEMMA HeardFirst ==
  ASSUME Base, Even, Receive
  PROVE  LET e == Head(toClient) IN
         /\ Order' /\ Locking'
         /\ Own' = Own /\ Stale' = Stale
         /\ \A y \in Items(toClient') : <<e, y>> \in EventOrder /\ (conn = "up" => <<e, y>> \in Opening)
         /\ conn = "up" => /\ Later(toClient', Stale, Of({"snapshot", "content"}))
                           /\ e \in Stale => Items(toClient') \cap Of({"snapshot", "content"}) # {}
         /\ \/ ui.outstanding = {}
            \/ /\ e \notin Of({"snapshot"})
               /\ e \notin Of({"lost"}) => Ahead(toClient', Of({"snapshot"}), Of({"lost"}))
<1> DEFINE e == Head(toClient)
<1>1. /\ toClient' = Tail(toClient) /\ Items(toClient) = {e} \cup Items(toClient')
      /\ toClient \in Seq(Events) /\ toClient # <<>>
      /\ UNCHANGED <<job, conn, conns, toServer, late, stored, holder, texts, refusals, paced>>
  BY Received, Kept DEF Receive
<1>2. Own' = Own /\ Stale' = Stale /\ Opening' = Opening
  BY <1>1 DEF Own, Stale, Opening
<1>3. Pairwise(toClient', EventOrder) /\ \A y \in Items(toClient') : <<e, y>> \in EventOrder
  BY <1>1, TakingPairs DEF Even, Order
<1>4. conn = "up" => Pairwise(toClient', Opening) /\ \A y \in Items(toClient') : <<e, y>> \in Opening
  BY <1>1, TakingPairs DEF Even, Order
<1>5. conn = "up" => /\ Later(toClient', Stale, Of({"snapshot", "content"}))
                     /\ e \in Stale => Items(toClient') \cap Of({"snapshot", "content"}) # {}
  BY <1>1, TakingLater DEF Even, Telling
<1>6. \/ ui.outstanding = {}
      \/ /\ e \notin Of({"snapshot"})
         /\ e \notin Of({"lost"}) => Ahead(toClient', Of({"snapshot"}), Of({"lost"}))
  BY <1>1, TakingAhead DEF Even, Place
<1>7. Order'
  BY <1>1, <1>2, <1>3, <1>4 DEF Even, Order
<1>8. Locking'
  BY <1>1 DEF Even, Locking
<1> QED BY <1>2, <1>3, <1>4, <1>5, <1>6, <1>7, <1>8

\* Anything but a snapshot leaves the client where it is.
LEMMA EvenHeard ==
  ASSUME Base, Even, paced, Receive, Head(toClient).kind # "snapshot",
         ui'.me = ui.me, ui'.outstanding \subseteq ui.outstanding,
         Head(toClient).kind = "lost" => ui'.outstanding = {},
         Sent', Answering',
         Synced /\ Items(toClient') \cap Of({"content"}) = {} =>
           ui'.confirmed = stored \/ Items(toClient') \cap Of({"ack"}) # {}
  PROVE  Even'
<1> DEFINE e == Head(toClient)
<1>1. /\ e \in Events /\ Items(toClient) = {e} \cup Items(toClient')
      /\ UNCHANGED <<job, conn, conns, toServer, late, stored, holder, texts, refusals, paced>>
  BY Received
<1>2. /\ Order' /\ Locking' /\ Own' = Own /\ Stale' = Stale
      /\ conn = "up" => Later(toClient', Stale, Of({"snapshot", "content"}))
      /\ \/ ui.outstanding = {}
         \/ e \notin Of({"lost"}) => Ahead(toClient', Of({"snapshot"}), Of({"lost"}))
  BY HeardFirst
<1>3. Synced' <=> Synced
  BY <1>1 DEF Synced
<1>4. job.step # "encoding"
  BY DEF Receive
<1>5. e \notin Own /\ e \notin Of({"snapshot"}) /\ (e \in Of({"lost"}) => ui'.outstanding = {})
  BY DEF Own, Of
<1> HIDE DEF e
<1>6. Place'
  <2>1. ui'.outstanding = {} \/ Ahead(toClient', Of({"snapshot"}), Of({"lost"}))
    BY <1>2, <1>5
  <2>2. ~Synced => ui'.outstanding = {} \/ Items(toClient') \cap Of({"lost"}) # {}
    BY <1>1, <1>5 DEF Even, Place
  <2>3. conn = "up" /\ ~Synced => Items(toClient') \cap Own # {}
    BY <1>1, <1>5 DEF Even, Place
  <2>4. Items(toClient') \subseteq Items(toClient)
    BY <1>1
  <2>5. /\ conn = "open" => ui'.me # conns /\ Items(toClient') \cap Own = {}
        /\ ~Synced => Items(toServer) \cap Edits = {}
        /\ Synced => Items(toClient') \cap Of({"snapshot", "lost"}) = {}
    BY <2>4 DEF Even, Place
  <2> QED BY <1>1, <1>2, <1>3, <2>1, <2>2, <2>3, <2>5 DEF Place
<1>7. Sending'
  BY <1>1, <1>4 DEF Even, Sending
<1>8. Telling'
  BY <1>1, <1>2, <1>3 DEF Telling
<1> QED BY <1>2, <1>6, <1>7, <1>8 DEF Even

LEMMA EvenSnapshot ==
  ASSUME Base, Base', Even, paced, Receive, Head(toClient).kind = "snapshot"
  PROVE  Even'
<1> DEFINE e == Head(toClient)
<1>1. /\ e \in Events /\ Items(toClient) = {e} \cup Items(toClient')
      /\ UNCHANGED <<job, conn, conns, toServer, late, stored, holder, texts, refusals, paced>>
      /\ ui' = ApplySnapshot(ui, e) /\ Items(toClient') \subseteq Events
  <2>1. /\ e \in Events /\ toClient' \in Seq(Events) /\ Items(toClient) = {e} \cup Items(toClient')
        /\ UNCHANGED <<job, conn, conns, toServer, late, stored, holder, texts, refusals, paced>>
        /\ \/ e.kind = "snapshot" /\ ui' = ApplySnapshot(ui, e)
           \/ e.kind # "snapshot"
    BY Received
  <2> QED BY <2>1, Within
<1>2. /\ Order' /\ Locking' /\ Own' = Own /\ Stale' = Stale
      /\ conn = "up" => /\ Later(toClient', Stale, Of({"snapshot", "content"}))
                        /\ e \in Stale => Items(toClient') \cap Of({"snapshot", "content"}) # {}
                        /\ \A y \in Items(toClient') : <<e, y>> \in Opening
      /\ ui.outstanding = {} \/ e \notin Of({"snapshot"})
  BY HeardFirst
<1>3. job.step # "encoding" /\ e.kind = "snapshot"
  BY DEF Receive
<1> HIDE DEF e
<1>4. e \in Of({"snapshot"}) /\ (e \in Own <=> e.n = conns) /\ e \in Items(toClient)
  BY <1>1, <1>3 DEF Of, Own
<1>5. ui.outstanding = {} /\ ~Synced
  BY <1>2, <1>4 DEF Even, Place, Of
<1>6. e.n \in Id
  <2>1. e.n \in Nat /\ e.n <= conns
    BY <1>1, <1>3, <1>4 DEF Base, Given, Events
  <2>2. conns \in 0..MaxConn /\ MaxConn \in Nat
    BY ClientConstants DEF Base, Ranges, Id
  <2> QED BY <2>1, <2>2 DEF Id
<1>7. /\ ui'.me = e.n /\ ui'.confirmed = e.text /\ ui'.outstanding = {}
      /\ ui'.pending \/ (~ui'.pending /\ ui'.editor = e.text /\ ui'.lastSent = e.text)
  <2>1. ui \in Clients
    BY Kept
  <2>2. /\ ui'.me = e.n /\ ui'.confirmed = e.text
        /\ \/ /\ ui.pending /\ ui'.pending /\ ui'.editor = ui.editor /\ ui'.lastSent = ui.lastSent
              /\ ui'.outstanding = ui.outstanding
           \/ /\ ui'.editor = e.text /\ ui'.lastSent = e.text /\ ~ui'.pending
              /\ ui'.outstanding = ui.outstanding
              /\ ui'.editor # ui.editor => ~ui.pending
           \/ /\ e.who = Peer /\ ui'.editor = e.text /\ ui'.lastSent = e.text /\ ~ui'.pending
              /\ ui'.outstanding = {} /\ ui'.lock = "theirs"
    BY <1>1, <1>6, <2>1, SnapshotApplies
  <2> QED BY <1>5, <2>2
<1>8. Synced' => /\ conn = "up"
                 /\ \A y \in Items(toClient') : y.kind \in {"content", "lock", "denied"}
  <2>1. Synced' => conn = "up" /\ e \in Own
    BY <1>1, <1>4, <1>7 DEF Synced
  <2> QED BY <1>1, <1>2, <2>1 DEF Opening
<1>9. ~Synced' => conn # "up" \/ e \notin Own
  BY <1>1, <1>4, <1>7 DEF Synced
<1>10. Place'
  <2>1. conn = "open" => ui'.me # conns /\ Items(toClient') \cap Own = {}
    BY <1>1, <1>4, <1>7 DEF Even, Place
  <2>2. Items(toServer) \cap Edits = {}
    BY <1>5 DEF Even, Place
  <2>3. Synced' => Items(toClient') \cap Of({"snapshot", "lost"}) = {}
    BY <1>8 DEF Of
  <2>4. conn = "up" /\ ~Synced' => Items(toClient') \cap Own # {}
    BY <1>1, <1>5, <1>9 DEF Even, Place
  <2> QED BY <1>1, <1>2, <1>7, <2>1, <2>2, <2>3, <2>4 DEF Place
<1>11. Sending'
  BY <1>1, <1>3, <1>7 DEF Even, Sending
<1>12. Sent'
  BY <1>7 DEF Sent, Base, Dirty
<1>13. Answering'
  <2>1. Items(toServer) \cap Edits = {}
    BY <1>5 DEF Even, Place
  <2>2. Synced' => \A y \in Items(toClient') : y.kind # "ack"
    BY <1>8
  <2> QED BY <1>1, <1>7, <2>1, <2>2 DEF Answering
<1>14. Telling'
  <2>1. Synced' /\ Items(toClient') \cap Of({"content"}) = {} => ui'.confirmed = stored
    <3>1. Synced' /\ Items(toClient') \cap Of({"content"}) = {} => e \notin Stale
      BY <1>1, <1>2, <1>8 DEF Of
    <3> QED BY <1>1, <1>3, <1>7, <3>1 DEF Stale, Of
  <2> QED BY <1>1, <1>2, <2>1 DEF Telling
<1> QED BY <1>2, <1>10, <1>11, <1>12, <1>13, <1>14 DEF Even

LEMMA EvenContent ==
  ASSUME Base, Base', Even, paced, Receive, Head(toClient).kind = "content"
  PROVE  Even'
<1> DEFINE e == Head(toClient)
<1>1. /\ e \in Events /\ e \in Items(toClient) /\ Items(toClient') \subseteq Items(toClient)
      /\ toClient' \in Seq(Events)
      /\ UNCHANGED <<job, conn, conns, toServer, late, stored, holder, texts, refusals, paced>>
      /\ ui' = ApplyRemote(ui, e.text) /\ e.kind = "content"
  BY Received
<1>2. /\ Stale' = Stale
      /\ \A y \in Items(toClient') : <<e, y>> \in EventOrder
      /\ conn = "up" /\ e \in Stale => Items(toClient') \cap Of({"snapshot", "content"}) # {}
  BY HeardFirst
<1> HIDE DEF e
<1>3. /\ ui'.me = ui.me /\ ui'.outstanding = ui.outstanding /\ ui'.confirmed = e.text
      /\ \/ ui.pending /\ ui'.pending /\ ui'.editor = ui.editor /\ ui'.lastSent = ui.lastSent
         \/ ui'.editor = e.text /\ ui'.lastSent = e.text /\ ~ui'.pending
  <2>1. ui \in Clients /\ e.text \in Text
    BY <1>1, Kept DEF Events
  <2> QED BY <1>1, <2>1, RemoteApplies
<1>4. Synced' <=> Synced
  BY <1>1, <1>3 DEF Synced
<1>5. holder \notin {0, conns} /\ \A y \in Items(toClient') : y.kind # "ack"
  <2>1. e \in Items(toClient) \cap Of({"content"})
    BY <1>1 DEF Of
  <2>2. \A y \in Items(toClient') : y.kind # "ack"
    BY <1>1, <1>2 DEF EventOrder
  <2> QED BY <2>1, <2>2 DEF Even, Locking
<1>6. Sent'
  <2>1. Dirty'
    BY DEF Base
  <2> QED BY <1>1, <1>3, <1>4, <1>5, <2>1 DEF Even, Sent, Dirty
<1>7. Answering'
  <2>1. Synced => \A o \in ui.outstanding :
          \/ \E f \in Items(toServer) \cap Edits : f.n = o[1]
          \/ \E y \in Items(toClient') \cap Answers : y.n = o[1]
    <3>1. Items(toClient) = {e} \cup Items(toClient')
      BY Received DEF e
    <3>2. e \notin Answers
      BY <1>1 DEF Answers, Of
    <3> QED BY <3>1, <3>2 DEF Even, Answering
  <2> QED BY <1>1, <1>3, <1>4, <1>5, <2>1 DEF Even, Answering
<1>8. Synced /\ Items(toClient') \cap Of({"content"}) = {} => ui'.confirmed = stored
  <2>1. Synced => Items(toClient') \cap Of({"snapshot", "content"}) \subseteq Of({"content"})
    <3>1. Synced => Items(toClient) \cap Of({"snapshot", "lost"}) = {}
      BY DEF Even, Place
    <3> QED BY <1>1, <3>1 DEF Of
  <2>2. e.text # stored => e \in Stale
    BY <1>1 DEF Stale, Of
  <2> QED BY <1>2, <1>3, <2>1, <2>2 DEF Synced
<1> QED BY <1>1, <1>3, <1>6, <1>7, <1>8, EvenHeard DEF e

\* The lock's news: no matter, or the peer's, and all that was not confirmed is undone.
LEMMA EvenLock ==
  ASSUME Base, Base', Even, paced, Receive, NEW c \in Clients,
         Head(toClient).kind \in {"lock", "denied"},
         ui' = ApplyLock(c, Head(toClient).who),
         c.me = ui.me, c.confirmed = ui.confirmed, c.outstanding \subseteq ui.outstanding,
         Synced /\ ~c.pending => c.editor = c.lastSent,
         c.outstanding = {} /\ c.editor = c.lastSent => c.confirmed = c.lastSent,
         \A o \in c.outstanding : c.lastSent # o[2] =>
           /\ \A y \in Items(toClient') : y.kind = "ack" => y.n # o[1]
           /\ \A f \in Items(toServer) \cap Edits : f.n = o[1] => holder \notin {0, conns},
         \A f \in Items(toServer) \cap Edits :
           <<f.n, f.text>> \in c.outstanding \/ holder \notin {0, conns},
         Synced => \A o \in c.outstanding :
           \/ \E f \in Items(toServer) \cap Edits : f.n = o[1]
           \/ \E y \in Items(toClient') \cap Answers : y.n = o[1],
         Synced => \A y \in Items(toClient') : y.kind = "ack" => <<y.n, stored>> \in c.outstanding
  PROVE  Even'
<1> DEFINE e == Head(toClient)
<1>1. /\ e \in Events /\ e \in Items(toClient) /\ Items(toClient') \subseteq Items(toClient)
      /\ Items(toClient) = {e} \cup Items(toClient')
      /\ UNCHANGED <<job, conn, conns, toServer, late, stored, holder, texts, refusals, paced>>
      /\ ui' = ApplyLock(c, e.who) /\ e.kind \in {"lock", "denied"}
  BY Received
<1> HIDE DEF e
<1>2. /\ ui'.me = ui.me /\ ui'.confirmed = ui.confirmed
      /\ Unmoved(c, ui') \/ (e.who = Peer /\ RolledBack(c, ui'))
  <2>1. e.who \in Who
    BY <1>1 DEF Events
  <2>2. LET d == ApplyLock(c, e.who) IN
         /\ d \in Clients
         /\ d.me = c.me /\ d.seq = c.seq /\ d.confirmed = c.confirmed
         /\ Unmoved(c, d) \/ (e.who = Peer /\ c.pending /\ RolledBack(c, d))
    BY ONLY <2>1, c \in Clients, LockApplied
  <2> QED BY <1>1, <2>2
<1>3. Synced' <=> Synced
  BY <1>1, <1>2 DEF Synced
<1>4. Synced => \A y \in Items(toClient') : y.kind = "ack" => holder = conns
  BY <1>1 DEF Even, Answering
<1>5. e.who = Peer => /\ holder \notin {0, conns}
                      /\ Synced => \A y \in Items(toClient') : y.kind # "ack"
  <2>1. Peer \notin {0, conns}
    BY Kept, ClientConstants
  <2>2. e.who = Peer => holder = Peer
    BY <1>1 DEF Even, Locking
  <2> QED BY <1>4, <2>1, <2>2
<1>6. Sent' /\ ui'.outstanding \subseteq ui.outstanding
  <2>1. CASE Unmoved(c, ui')
    BY <1>1, <1>2, <1>3, <2>1 DEF Sent, Unmoved
  <2>2. CASE e.who = Peer /\ RolledBack(c, ui')
    BY <1>2, <2>2 DEF Sent, RolledBack
  <2> QED BY <1>2, <2>1, <2>2
<1>7. Answering'
  <2>1. CASE Unmoved(c, ui')
    BY <1>1, <1>2, <1>3, <1>4, <2>1 DEF Answering, Unmoved
  <2>2. CASE e.who = Peer /\ RolledBack(c, ui')
    BY <1>1, <1>3, <1>5, <2>2 DEF Answering, RolledBack
  <2> QED BY <1>2, <2>1, <2>2
<1>8. Synced /\ Items(toClient') \cap Of({"content"}) = {} =>
        ui'.confirmed = stored \/ Items(toClient') \cap Of({"ack"}) # {}
  <2>1. e \notin Of({"content", "ack"})
    BY <1>1 DEF Of
  <2> QED BY <1>1, <1>2, <2>1 DEF Even, Telling, Of
<1> QED BY <1>1, <1>2, <1>6, <1>7, <1>8, EvenHeard DEF e

\* A refusal gives up the one edit that waits, or was for none that does.
LEMMA Refusing ==
  ASSUME Base, Even, Receive, Head(toClient).kind \in {"denied", "rejected"},
         NEW c, c = Refused(ui, Head(toClient).n)
  PROVE  /\ c \in Clients
         /\ c.me = ui.me /\ c.confirmed = ui.confirmed /\ c.outstanding \subseteq ui.outstanding
         /\ Synced /\ ~c.pending => c.editor = c.lastSent
         /\ c.outstanding = {} /\ c.editor = c.lastSent => c.confirmed = c.lastSent
         /\ \A o \in c.outstanding : c.lastSent # o[2] =>
              /\ \A y \in Items(toClient') : y.kind = "ack" => y.n # o[1]
              /\ \A f \in Items(toServer) \cap Edits : f.n = o[1] => holder \notin {0, conns}
         /\ \A f \in Items(toServer) \cap Edits :
              <<f.n, f.text>> \in c.outstanding \/ holder \notin {0, conns}
         /\ Synced => \A o \in c.outstanding :
              \/ \E f \in Items(toServer) \cap Edits : f.n = o[1]
              \/ \E y \in Items(toClient') \cap Answers : y.n = o[1]
         /\ Synced => \A y \in Items(toClient') : y.kind = "ack" => <<y.n, stored>> \in c.outstanding
<1> DEFINE e == Head(toClient)
<1>1. /\ e \in Events /\ e \in Items(toClient) /\ Items(toClient') \subseteq Items(toClient)
      /\ Items(toClient) = {e} \cup Items(toClient')
      /\ e.kind \in {"denied", "rejected"} /\ c = Refused(ui, e.n) /\ e.n \in Nat
      /\ Items(toClient') \subseteq Events
  <2>1. e \in Events /\ toClient' \in Seq(Events) /\ Items(toClient) = {e} \cup Items(toClient')
    BY Received
  <2>2. Items(toClient') \subseteq Events
    BY ONLY <2>1, Within, Zenon
  <2> QED BY <2>1, <2>2 DEF Events
<1>2. \A y \in Items(toClient') : <<e, y>> \in EventOrder
  BY HeardFirst
<1> HIDE DEF e
<1>3. /\ c \in Clients
      /\ c.editor = ui.editor /\ c.confirmed = ui.confirmed /\ c.seq = ui.seq /\ c.me = ui.me
      /\ \/ c = ui /\ \A o \in ui.outstanding : o[1] # e.n
         \/ /\ c.outstanding = {o \in ui.outstanding : o[1] > e.n}
            /\ \E o \in ui.outstanding : o[1] = e.n
            /\ c.lastSent = NoText /\ c.pending
  <2>1. ui \in Clients /\ e.n \in Nat /\ c = Refused(ui, e.n)
    BY <1>1, Kept
  <2> QED BY ONLY <2>1, RefusalApplies
<1>4. e.n > 0 => e \in Answers
  BY <1>1 DEF Answers, Of
<1>5. CASE c = ui /\ \A o \in ui.outstanding : o[1] # e.n
  <2>1. Synced => \A o \in ui.outstanding :
          \/ \E f \in Items(toServer) \cap Edits : f.n = o[1]
          \/ \E y \in Items(toClient') \cap Answers : y.n = o[1]
    BY <1>1, <1>5 DEF Even, Answering
  <2> QED BY <1>1, <1>3, <1>5, <2>1 DEF Even, Sent, Answering
<1>6. CASE /\ c.outstanding = {o \in ui.outstanding : o[1] > e.n}
           /\ \E o \in ui.outstanding : o[1] = e.n
           /\ c.lastSent = NoText /\ c.pending
  <2>1. PICK o \in ui.outstanding : o[1] = e.n
    BY <1>6
  <2>2. ui.outstanding = {o}
    BY <2>1 DEF Even, Sending
  <2>3. c.outstanding = {}
    BY <1>1, <1>6, <2>1, <2>2
  <2>4. c.editor # c.lastSent
    BY <1>3, <1>6, Numbered DEF Clients
  <2>5. \A f \in Items(toServer) \cap Edits : holder \notin {0, conns}
    <3> SUFFICES ASSUME NEW f \in Items(toServer) \cap Edits, holder \in {0, conns} PROVE FALSE
      OBVIOUS
    <3>1. <<f.n, f.text>> = o
      BY <2>2 DEF Even, Answering
    <3>2. f.n # 0 /\ f.n = e.n
      BY <2>1, <3>1 DEF Base, Given, Edits
    <3> QED BY <1>1, <1>4, <3>2 DEF Even, Order
  <2>6. Synced => \A y \in Items(toClient') : y.kind # "ack"
    <3> SUFFICES ASSUME Synced, NEW y \in Items(toClient'), y.kind = "ack" PROVE FALSE
      OBVIOUS
    <3>1. <<y.n, stored>> = o
      BY <1>1, <2>2 DEF Even, Answering
    <3>2. y.n > 0 /\ y.n = e.n /\ y \in Events
      BY <1>1, <2>1, <3>1 DEF Base, Given
    <3>3. y \in Answers
      BY <3>2 DEF Answers, Of
    <3> QED BY <1>2, <1>4, <3>2, <3>3 DEF EventOrder
  <2> QED BY <1>3, <1>6, <2>3, <2>4, <2>5, <2>6
<1> QED BY <1>3, <1>5, <1>6

LEMMA EvenDenied ==
  ASSUME Base, Base', Even, paced, Receive, Head(toClient).kind \in {"denied", "rejected", "lock"}
  PROVE  Even'
<1> DEFINE e == Head(toClient)
<1>1. /\ e \in Events /\ Items(toClient) = {e} \cup Items(toClient')
      /\ Items(toClient') \subseteq Items(toClient)
      /\ UNCHANGED <<job, conn, conns, toServer, late, stored, holder, texts, refusals, paced>>
      /\ \/ e.kind = "denied" /\ ui' = ApplyLock(Refused(ui, e.n), e.who)
         \/ e.kind = "rejected" /\ ui' = Refused(ui, e.n)
         \/ e.kind = "lock" /\ ui' = ApplyLock(ui, e.who)
  BY Received
<1>2. CASE e.kind = "denied" /\ ui' = ApplyLock(Refused(ui, e.n), e.who)
  <2> DEFINE c == Refused(ui, e.n)
  <2>1. c = Refused(ui, e.n)
    OBVIOUS
  <2>2. ui' = ApplyLock(c, e.who)
    BY <1>2
  <2> HIDE DEF c
  <2> QED BY <1>2, <2>1, <2>2, Refusing, EvenLock
<1>3. CASE e.kind = "rejected" /\ ui' = Refused(ui, e.n)
  <2>1. /\ ui'.me = ui.me /\ ui'.confirmed = ui.confirmed
        /\ ui'.outstanding \subseteq ui.outstanding
        /\ Synced /\ ~ui'.pending => ui'.editor = ui'.lastSent
        /\ ui'.outstanding = {} /\ ui'.editor = ui'.lastSent => ui'.confirmed = ui'.lastSent
        /\ \A o \in ui'.outstanding : ui'.lastSent # o[2] =>
             /\ \A y \in Items(toClient') : y.kind = "ack" => y.n # o[1]
             /\ \A f \in Items(toServer) \cap Edits : f.n = o[1] => holder \notin {0, conns}
        /\ \A f \in Items(toServer) \cap Edits :
             <<f.n, f.text>> \in ui'.outstanding \/ holder \notin {0, conns}
        /\ Synced => \A o \in ui'.outstanding :
             \/ \E f \in Items(toServer) \cap Edits : f.n = o[1]
             \/ \E y \in Items(toClient') \cap Answers : y.n = o[1]
        /\ Synced => \A y \in Items(toClient') : y.kind = "ack" => <<y.n, stored>> \in ui'.outstanding
    BY <1>3, Refusing
  <2> HIDE DEF e
  <2>2. Synced' <=> Synced
    BY <1>1, <2>1 DEF Synced
  <2>3. Sent'
    BY <1>1, <2>1, <2>2 DEF Sent
  <2>4. Answering'
    BY <1>1, <2>1, <2>2 DEF Even, Answering
  <2>5. Synced /\ Items(toClient') \cap Of({"content"}) = {} =>
          ui'.confirmed = stored \/ Items(toClient') \cap Of({"ack"}) # {}
    <3>1. e \notin Of({"content", "ack"})
      BY <1>3 DEF Of
    <3> QED BY <1>1, <2>1, <3>1 DEF Even, Telling, Of
  <2> QED BY <1>1, <1>3, <2>1, <2>3, <2>4, <2>5, EvenHeard DEF e
<1>4. CASE e.kind = "lock" /\ ui' = ApplyLock(ui, e.who)
  <2>1. ui \in Clients
    BY Kept
  <2>2. \A y \in Items(toClient') : y \in Items(toClient)
    BY <1>1
  <2>3. Synced => \A o \in ui.outstanding :
          \/ \E f \in Items(toServer) \cap Edits : f.n = o[1]
          \/ \E y \in Items(toClient') \cap Answers : y.n = o[1]
    <3>1. e \notin Answers
      BY <1>4 DEF Answers, Of
    <3> QED BY <1>1, <3>1 DEF Even, Answering
  <2>4. /\ Synced /\ ~ui.pending => ui.editor = ui.lastSent
        /\ ui.outstanding = {} /\ ui.editor = ui.lastSent => ui.confirmed = ui.lastSent
        /\ \A o \in ui.outstanding : ui.lastSent # o[2] =>
             /\ \A y \in Items(toClient') : y.kind = "ack" => y.n # o[1]
             /\ \A f \in Items(toServer) \cap Edits : f.n = o[1] => holder \notin {0, conns}
        /\ \A f \in Items(toServer) \cap Edits :
             <<f.n, f.text>> \in ui.outstanding \/ holder \notin {0, conns}
        /\ Synced => \A y \in Items(toClient') : y.kind = "ack" => <<y.n, stored>> \in ui.outstanding
    BY <2>2 DEF Even, Sent, Answering
  <2> QED BY <1>4, <2>1, <2>3, <2>4, EvenLock
<1> QED BY <1>1, <1>2, <1>3, <1>4

\* An acknowledgement is of the one edit that waits, and of the text that is stored.
LEMMA EvenAck ==
  ASSUME Base, Base', Even, paced, Receive, Head(toClient).kind = "ack"
  PROVE  Even'
<1> DEFINE e == Head(toClient)
<1>1. /\ e \in Events /\ e \in Items(toClient) /\ e.n \in Nat
      /\ Items(toClient) = {e} \cup Items(toClient')
      /\ Items(toClient') \subseteq Items(toClient) /\ Items(toClient') \subseteq Events
      /\ UNCHANGED <<job, conn, conns, toServer, late, stored, holder, texts, refusals, paced>>
      /\ ui' = Acked(ui, e.n) /\ e.kind = "ack"
  <2>1. /\ e \in Events /\ toClient' \in Seq(Events) /\ Items(toClient) = {e} \cup Items(toClient')
        /\ UNCHANGED <<job, conn, conns, toServer, late, stored, holder, texts, refusals, paced>>
        /\ ui' = Acked(ui, e.n) /\ e.kind = "ack"
    BY Received
  <2>2. Items(toClient') \subseteq Events
    BY ONLY <2>1, Within, Zenon
  <2> QED BY <2>1, <2>2 DEF Events
<1>2. \A y \in Items(toClient') : <<e, y>> \in EventOrder
  BY HeardFirst
<1> HIDE DEF e
<1>3. /\ ui'.editor = ui.editor /\ ui'.lastSent = ui.lastSent /\ ui'.pending = ui.pending
      /\ ui'.me = ui.me
      /\ \/ /\ ui'.outstanding = ui.outstanding /\ ui'.confirmed = ui.confirmed
            /\ \A o \in ui.outstanding : o[1] # e.n
         \/ /\ ui'.outstanding = {o \in ui.outstanding : o[1] > e.n}
            /\ \E o \in ui.outstanding : o[1] = e.n /\ ui'.confirmed = o[2]
  <2>1. ui \in Clients
    BY Kept
  <2> QED BY <1>1, <2>1, AckApplies
<1>4. Synced' <=> Synced
  BY <1>1, <1>3 DEF Synced
<1>5. e \in Answers
  <2>1. e.n > 0
    BY <1>1 DEF Base, Given
  <2> QED BY <1>1, <2>1 DEF Answers, Of
<1>6. CASE /\ ui'.outstanding = ui.outstanding /\ ui'.confirmed = ui.confirmed
           /\ \A o \in ui.outstanding : o[1] # e.n
  <2>1. ~Synced
    BY <1>1, <1>6 DEF Even, Answering
  <2>2. Sent'
    BY <1>1, <1>3, <1>4, <1>6, <2>1 DEF Even, Sent
  <2>3. Answering'
    BY <1>1, <1>3, <1>4, <1>6, <2>1 DEF Even, Answering
  <2> QED BY <1>1, <1>3, <1>6, <2>1, <2>2, <2>3, EvenHeard DEF e
<1>7. CASE /\ ui'.outstanding = {o \in ui.outstanding : o[1] > e.n}
           /\ \E o \in ui.outstanding : o[1] = e.n /\ ui'.confirmed = o[2]
  <2>1. PICK o \in ui.outstanding : o[1] = e.n /\ ui'.confirmed = o[2]
    BY <1>7
  <2>2. ui.outstanding = {o}
    BY <2>1 DEF Even, Sending
  <2>3. ui'.outstanding = {}
    BY <1>1, <1>7, <2>1, <2>2
  <2>4. ui.lastSent = o[2]
    BY <1>1, <2>1 DEF Even, Sent
  <2>5. \A f \in Items(toServer) \cap Edits : holder \notin {0, conns}
    <3> SUFFICES ASSUME NEW f \in Items(toServer) \cap Edits, holder \in {0, conns} PROVE FALSE
      OBVIOUS
    <3>1. <<f.n, f.text>> = o
      BY <2>2 DEF Even, Answering
    <3> QED BY <1>1, <1>5, <2>1, <3>1 DEF Even, Order
  <2>6. Synced => \A y \in Items(toClient') : y.kind # "ack"
    <3> SUFFICES ASSUME Synced, NEW y \in Items(toClient'), y.kind = "ack" PROVE FALSE
      OBVIOUS
    <3>1. <<y.n, stored>> = o
      BY <1>1, <2>2 DEF Even, Answering
    <3>2. y.n > 0 /\ y.n = e.n /\ y \in Events
      BY <1>1, <2>1, <3>1 DEF Base, Given
    <3>3. y \in Answers
      BY <3>2 DEF Answers, Of
    <3> QED BY <1>2, <1>5, <3>2, <3>3 DEF EventOrder
  <2>7. Synced => ui'.confirmed = stored
    <3>1. Synced => <<e.n, stored>> = o
      BY <1>1, <2>2 DEF Even, Answering
    <3> QED BY <2>1, <3>1
  <2>8. Sent'
    BY <1>1, <1>3, <1>4, <2>1, <2>3, <2>4 DEF Even, Sent
  <2>9. Answering'
    BY <1>1, <1>4, <2>3, <2>5, <2>6 DEF Answering
  <2> QED BY <1>1, <1>3, <2>3, <2>7, <2>8, <2>9, EvenHeard DEF e
<1> QED BY <1>3, <1>6, <1>7

LEMMA EvenLost ==
  ASSUME Base, Base', Even, paced, Receive, Head(toClient).kind = "lost"
  PROVE  Even'
<1> DEFINE e == Head(toClient)
<1>1. /\ e \in Events /\ e \in Items(toClient)
      /\ UNCHANGED <<job, conn, conns, toServer, late, stored, holder, texts, refusals, paced>>
      /\ ui' = Lost(ui) /\ e.kind = "lost"
  BY Received
<1> HIDE DEF e
<1>2. /\ ui'.editor = ui.editor /\ ui'.confirmed = ui.confirmed /\ ui'.me = ui.me
      /\ ui'.outstanding = {}
      /\ ui' = ui \/ (ui'.lastSent = NoText /\ ui'.pending)
  <2>1. ui \in Clients
    BY Kept
  <2> QED BY <1>1, <2>1, LossApplies
<1>3. ~Synced /\ (Synced' <=> Synced) /\ Items(toServer) \cap Edits = {}
  <2>1. ~Synced
    BY <1>1 DEF Even, Place, Of
  <2> QED BY <1>1, <1>2, <2>1 DEF Synced, Even, Place
<1>4. Sent'
  <2>1. ui.editor # NoText
    BY Kept, Numbered DEF Clients
  <2> QED BY <1>2, <1>3, <2>1 DEF Even, Sent
<1>5. Answering'
  BY <1>1, <1>2, <1>3 DEF Answering
<1> QED BY <1>1, <1>2, <1>3, <1>4, <1>5, EvenHeard DEF e

LEMMA EvenReceive == Base /\ Base' /\ Even /\ paced /\ Receive => Even'
<1> SUFFICES ASSUME Base, Base', Even, paced, Receive PROVE Even'
  OBVIOUS
<1>1. Head(toClient).kind \in {"snapshot", "content", "lock", "denied", "ack", "rejected", "lost"}
  BY Received DEF Events
<1> QED BY <1>1, EvenSnapshot, EvenContent, EvenDenied, EvenAck, EvenLost

-----------------------------------------------------------------------------
(* The editor's theorems *)

LEMMA EvenNext == Base /\ Base' /\ Even /\ paced /\ Next => Even'
BY EvenTypeText, EvenInsertMarkers, EvenDebounce, EvenStart, EvenSend, EvenPutEnds, EvenServe,
   EvenServePut, EvenPeerEdits, EvenLockFreed, EvenConnect, EvenHello, EvenBreak, EvenReceive
   DEF Next

LEMMA EvenInvariance == Spec => [](paced => Even)
<1>1. Init => (paced => Even)
  BY EvenInit
<1>2. Base /\ Base' /\ (paced => Even) /\ [Next]_vars => (paced => Even)'
  <2> SUFFICES ASSUME Base, Base', paced => Even, [Next]_vars, paced' PROVE Even'
    OBVIOUS
  <2>1. CASE UNCHANGED vars
    <3>1. Even
      BY <2>1 DEF vars
    <3>2. Synced' = Synced /\ Own' = Own /\ Stale' = Stale /\ Opening' = Opening
      BY <2>1 DEF vars, Synced, Own, Stale, Opening
    <3>3. Place' /\ Sending' /\ Order' /\ Sent'
      BY <2>1, <3>1, <3>2 DEF vars, Even, Place, Sending, Order, Sent
    <3>4. Locking' /\ Answering' /\ Telling'
      BY <2>1, <3>1, <3>2 DEF vars, Even, Locking, Answering, Telling
    <3> QED BY <3>3, <3>4 DEF Even
  <2>2. CASE Next
    <3>1. paced
      BY <2>2 DEF Next, TypeText, InsertMarkers, Debounce, Start, Send, PutEnds, Serve, ServePut,
                  PeerEdits, LockFreed, Connect, Hello, Break, Receive
    <3> QED BY <2>2, <3>1, EvenNext
  <2> QED BY <2>1, <2>2
<1> QED BY <1>1, <1>2, BaseInvariant, PTL DEF Spec

\* At an even pace a client that waits for nothing shows what the server stored, and
\* would roll back to it.
THEOREM QuietConverged == Spec => []Converged
<1>1. Base /\ (paced => Even) => Converged
  <2> SUFFICES ASSUME Base, Even, Quiet PROVE ui.editor = stored /\ ui.confirmed = stored
    BY DEF Converged, InStep
  <2>1. Items(toClient) = {} /\ Items(toServer) = {}
    BY DEF Quiet, Items
  <2>2. Synced
    BY <2>1 DEF Even, Place, Quiet, Synced
  <2>3. ui.outstanding = {}
    BY <2>1, <2>2 DEF Even, Answering
  <2>4. ui.confirmed = stored
    BY <2>1, <2>2 DEF Even, Telling
  <2>5. ui.editor = ui.lastSent /\ ui.confirmed = ui.lastSent
    BY <2>2, <2>3 DEF Even, Sent, Quiet
  <2> QED BY <2>4, <2>5
<1> QED BY <1>1, BaseInvariant, EvenInvariance, PTL

\* At an even pace no text that waits to be sent makes way for another, nor one that was
\* sent and is neither confirmed nor owed an answer, unless a peer's lock undoes it.
THEOREM NoTextDropped == Spec => NothingDropped
<1> DEFINE Keeps == paced /\ ui'.editor # ui.editor /\ texts' = texts /\ ui'.lock # "theirs"
                      => /\ ~ui.pending
                         /\ \/ ui.editor # ui.lastSent
                            \/ ui.editor = ui.confirmed
                            \/ ui.outstanding # {}
<1>1. Base /\ (paced => Even) /\ [Next]_vars => [Keeps]_vars
  <2> SUFFICES ASSUME Base, Even, Next, paced, ui'.editor # ui.editor, texts' = texts,
                      ui'.lock # "theirs"
               PROVE  /\ ~ui.pending
                      /\ \/ ui.editor # ui.lastSent
                         \/ ui.editor = ui.confirmed
                         \/ ui.outstanding # {}
    BY DEF vars
  <2>1. ui.outstanding = {} /\ ui.editor = ui.lastSent => ui.editor = ui.confirmed
    BY DEF Even, Sent
  <2>2. ui \in Clients /\ texts \in Nat
    BY Kept
  <2>3. ~TypeText /\ ~InsertMarkers
    <3>1. texts + 1 # texts
      BY <2>2
    <3> QED BY <3>1 DEF TypeText, InsertMarkers
  <2>4. ~Debounce
    <3>1. Alike(ui, Flush(ui, FALSE))
      BY ONLY <2>2, FlushingNow, Zenon
    <3> QED BY <3>1 DEF Debounce, Alike
  <2>5. ~Start
    BY <2>2 DEF Start, Clients
  <2>6. ~Send /\ ~PutEnds
    BY <2>2 DEF Send, PutEnds, SentAsFrame, StoredByPut, HandedOver, Clients
  <2>7. ~(Serve \/ ServePut \/ PeerEdits \/ LockFreed \/ Connect \/ Hello \/ Break)
    BY DEF Serve, ServePut, PeerEdits, LockFreed, Connect, Hello, Break
  <2>8. Receive
    BY <2>3, <2>4, <2>5, <2>6, <2>7 DEF Next
  <2> DEFINE e == Head(toClient)
  <2>9. /\ e \in Events
        /\ \/ e.kind = "snapshot" /\ e \in Items(toClient) /\ ui' = ApplySnapshot(ui, e)
           \/ ui' = ApplyRemote(ui, e.text)
           \/ ui' = ApplyLock(ui, e.who)
           \/ ui' = ApplyLock(Refused(ui, e.n), e.who)
           \/ ui' = Acked(ui, e.n)
           \/ ui' = Refused(ui, e.n)
           \/ ui' = Lost(ui)
    BY <2>8, Received
  <2> HIDE DEF e
  <2>10. e.n \in Nat /\ e.text \in Text /\ e.who \in Who
    BY <2>9 DEF Events
  <2>11. ~ui.pending
    <3>1. CASE e.kind = "snapshot" /\ e \in Items(toClient) /\ ui' = ApplySnapshot(ui, e)
      <4>1. e.n \in Id
        <5>1. e.n <= conns
          BY <3>1 DEF Base, Given
        <5>2. conns \in 0..MaxConn /\ MaxConn \in Nat
          BY ClientConstants DEF Base, Ranges, Id
        <5> QED BY <2>10, <5>1, <5>2 DEF Id
      <4>2. /\ \/ ui'.editor = ui.editor
               \/ ui'.editor # ui.editor => ~ui.pending
               \/ ui'.lock = "theirs"
        BY <2>2, <2>9, <3>1, <4>1, SnapshotApplies
      <4> QED BY <4>2
    <3>2. CASE ui' = ApplyRemote(ui, e.text)
      BY <2>2, <2>10, <3>2, RemoteApplies
    <3>3. ASSUME NEW c \in Clients, c.editor = ui.editor, ui' = ApplyLock(c, e.who) PROVE FALSE
      <4>1. Unmoved(c, ui') \/ RolledBack(c, ui')
        BY <2>10, <3>3, LockApplied
      <4> QED BY <3>3, <4>1 DEF Unmoved, RolledBack
    <3>4. Refused(ui, e.n) \in Clients /\ Refused(ui, e.n).editor = ui.editor
      BY <2>2, <2>10, RefusalApplies
    <3>5. ui' # Acked(ui, e.n)
      BY <2>2, <2>10, AckApplies
    <3>6. ui' # Lost(ui)
      BY <2>2, LossApplies
    <3> QED BY <2>2, <2>9, <3>1, <3>2, <3>3, <3>4, <3>5, <3>6
  <2> QED BY <2>1, <2>11
<1> QED BY <1>1, BaseInvariant, EvenInvariance, PTL DEF Spec, NothingDropped
=============================================================================
