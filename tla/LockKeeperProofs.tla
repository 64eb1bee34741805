-------------------------- MODULE LockKeeperProofs --------------------------
(***************************************************************************)
(* That the heartbeats keep the lock of a page that is not suspended, and  *)
(* that page and room agree on it, for any lifetime of the lock that       *)
(* leaves room for a late answer, the longest pause between two heartbeats *)
(* and a late heartbeat (BeatsInTime).                                     *)
(***************************************************************************)
EXTENDS LockKeeper, SequenceTheorems, TLAPS

-----------------------------------------------------------------------------
(* The invariant *)

\* What the page will take the holder for, once it has heard everything.
LastHeard ==
  IF reply # <<>> THEN reply[1].holder
  ELSE IF down # <<>> THEN down[Len(down)].holder
  ELSE state

\* The room is told of every lock that is held.
Told ==
  /\ left > 0 => told = "mine"
  /\ other => told = "theirs"

\* Nothing overtakes the news that the page has the lock, or has it no more.
Heard == told = "mine" <=> LastHeard = "mine"

Beating == state = "mine" => beat.on

\* An answer is queued long before what it says of the lock is out of date.
Recent ==
  reply # <<>> =>
    /\ reply[1].age <= Delay
    /\ reply[1].holder = "mine" => reply[1].age + left >= TTL

\* A message under way, whatever it is, comes in time; or what is heard last sets a
\* heartbeat going in time; or it was heard and the heartbeat is due in time.
Wait(age) == LargestOf(0, Delay - age)
Hope ==
  \/ \E i \in DOMAIN up : Delay - up[i].age < left
  \/ reply # <<>> /\ Wait(reply[1].age) + LongestBeat + Late + Delay < left
  \/ /\ reply = <<>> /\ down # <<>>
     /\ Wait(down[Len(down)].age) + LongestBeat + Late + Delay < left
  \/ reply = <<>> /\ down = <<>> /\ beat.due + Late + Delay < left

Kept == ~slept => NoneLapsed /\ (left > 0 => Hope)

IInv == TypeOK /\ Told /\ Heard /\ Beating /\ Recent /\ Kept

-----------------------------------------------------------------------------
(* Constants and types *)

LEMMA Constants ==
  /\ TTL \in Nat /\ TTL > 0 /\ MinBeat \in Nat /\ MinBeat > 0 /\ MaxBeat \in Nat /\ MaxBeat > 0
  /\ IdleRelease \in Nat /\ IdleRelease > 0 /\ Delay \in Nat /\ Late \in Nat /\ Skew \in Nat
  /\ LongestBeat \in Nat /\ LongestBeat > 0
  /\ LongestBeat + Late + 2 * Delay < TTL
BY KeeperConstants, BeatsInTime DEF KeeperConstants, BeatsInTime, LongestBeat, LargestOf, SmallestOf

LEMMA NextBeatInTime ==
  ASSUME NEW n \in 0..(TTL + Skew)
  PROVE  NextBeat(n) \in 1..LongestBeat
BY Constants DEF NextBeat, LongestBeat, LargestOf, SmallestOf

LEMMA WaitsLess ==
  ASSUME NEW age \in Nat
  PROVE  /\ Wait(age) \in Nat
         /\ age < Delay => Wait(age) = Delay - age /\ Wait(age + 1) = Wait(age) - 1
BY Constants DEF Wait, LargestOf

LEMMA TimerTypes ==
  ASSUME NEW longest \in Nat, NEW n \in (-Late)..longest
  PROVE  In(n) \in Timer(longest) /\ In(n).on /\ In(n).due = n /\ Stopped \in Timer(longest)
BY DEF In, Timer, Stopped

LEMMA MessageTypes ==
  ASSUME NEW holder \in Holder
  PROVE  /\ Message(holder) \in LockMessage /\ Message(holder).holder = holder /\ Message(holder).age = 0
BY Constants DEF Message, LockMessage

LEMMA OlderTypes ==
  ASSUME NEW s \in Seq(LockMessage)
  PROVE  /\ Older(s) \in Seq(LockMessage) /\ Len(Older(s)) = Len(s)
         /\ \A i \in 1..Len(s) : /\ Older(s)[i].holder = s[i].holder
                                 /\ Older(s)[i].age = SmallestOf(s[i].age + 1, Oldest(s[i]))
<1>1. ASSUME NEW i \in 1..Len(s)
      PROVE  [s[i] EXCEPT !.age = SmallestOf(@ + 1, Oldest(s[i]))] \in LockMessage
  <2>1. s[i] \in LockMessage
    OBVIOUS
  <2>2. SmallestOf(s[i].age + 1, Oldest(s[i])) \in 0..(TTL + Skew)
    BY <2>1, Constants DEF LockMessage, SmallestOf, Oldest
  <2> QED BY <2>1, <2>2 DEF LockMessage
<1>2. \A i \in 1..Len(s) : s[i] \in LockMessage
  OBVIOUS
<1>3. Older(s) = [i \in 1..Len(s) |-> [s[i] EXCEPT !.age = SmallestOf(@ + 1, Oldest(s[i]))]]
  BY DEF Older
<1>4. Older(s) \in Seq(LockMessage) /\ Len(Older(s)) = Len(s)
  BY <1>1, <1>3
<1> QED BY <1>2, <1>3, <1>4 DEF LockMessage

LEMMA Appended ==
  ASSUME NEW S, NEW s \in Seq(S), NEW m \in S
  PROVE  /\ Append(s, m) \in Seq(S) /\ Append(s, m) # <<>> /\ Len(Append(s, m)) = Len(s) + 1
         /\ Append(s, m)[Len(Append(s, m))] = m
         /\ \A i \in DOMAIN s : i \in DOMAIN Append(s, m) /\ Append(s, m)[i] = s[i]
<1>1. Append(s, m) \in Seq(S) /\ Len(Append(s, m)) = Len(s) + 1 /\ Append(s, m)[Len(s) + 1] = m
  OBVIOUS
<1>2. \A i \in DOMAIN s : i \in DOMAIN Append(s, m) /\ Append(s, m)[i] = s[i]
  OBVIOUS
<1>3. Append(s, m) # <<>>
  BY <1>1
<1> QED BY <1>1, <1>2, <1>3

LEMMA Shortened ==
  ASSUME NEW S, NEW s \in Seq(S), s # <<>>
  PROVE  /\ Head(s) \in S /\ Head(s) = s[1] /\ Tail(s) \in Seq(S) /\ Len(Tail(s)) = Len(s) - 1
         /\ Tail(s) = <<>> => Head(s) = s[Len(s)]
         /\ Tail(s) # <<>> => Tail(s)[Len(Tail(s))] = s[Len(s)]
<1>1. Len(s) \in Nat \ {0} /\ Head(s) = s[1] /\ Head(s) \in S
  OBVIOUS
<1>2. Tail(s) \in Seq(S) /\ Len(Tail(s)) = Len(s) - 1
  OBVIOUS
<1>3. \A i \in 1..(Len(s) - 1) : Tail(s)[i] = s[i + 1]
  OBVIOUS
<1>4. Tail(s) = <<>> => Len(s) = 1
  BY <1>1, <1>2
<1>5. Tail(s) # <<>> => Len(Tail(s)) > 0
  BY <1>2
<1>6. Len(s) - 1 \in Nat /\ (Len(s) - 1) + 1 = Len(s)
  BY <1>1
<1> QED BY <1>1, <1>2, <1>3, <1>4, <1>5, <1>6

LEMMA OneLong ==
  ASSUME NEW S, NEW s \in Seq(S), Len(s) = 1
  PROVE  s = <<s[1]>> /\ s[1] \in S /\ s # <<>>
<1>1. s[1] \in S
  BY ElementOfSeq
<1>2. <<s[1]>> \in Seq(S) /\ Len(<<s[1]>>) = 1 /\ <<s[1]>>[1] = s[1]
  BY <1>1
<1>3. s = <<s[1]>>
  BY <1>2, SeqEqual
<1>4. s # <<>>
  BY EmptySeq
<1> QED BY <1>1, <1>3, <1>4

LEMMA AnnounceDoes ==
  ASSUME TypeOK, NEW holder \in Holder, Announce(holder)
  PROVE  /\ told' = holder /\ down' \in Seq(LockMessage)
         /\ \/ told = holder /\ down' = down
            \/ told # holder /\ down' # <<>> /\ down'[Len(down')] = Message(holder)
<1>1. Message(holder) \in LockMessage /\ down \in Seq(LockMessage)
  BY MessageTypes DEF TypeOK
<1>2. told' = holder /\ down' = IF told = holder THEN down ELSE Append(down, Message(holder))
  BY DEF Announce
<1> HIDE DEF Message
<1> QED BY <1>1, <1>2, Appended

-----------------------------------------------------------------------------
(* The server's steps *)

LEMMA Starts == Init => IInv
<1> SUFFICES ASSUME Init PROVE IInv
  OBVIOUS
<1>1. Stopped \in Timer(LongestBeat) /\ Stopped \in Timer(IdleRelease)
  BY DEF Timer
<1>2. TypeOK
  <2>1. skew \in (-Skew)..Skew
    BY DEF Init
  <2>2. up \in Seq([kind : {"acquire", "edit", "heartbeat", "release"}, age : 0..Delay])
    BY DEF Init
  <2>3. down \in Seq(LockMessage)
    BY DEF Init
  <2>4. 0 \in 0..TTL /\ 0 \in 0..(TTL + Skew)
    BY Constants
  <2> QED BY <1>1, <2>1, <2>2, <2>3, <2>4 DEF Init, TypeOK, Holder
<1>3. Told /\ Heard /\ Beating /\ Recent /\ Kept
  BY DEF Init, Told, Heard, LastHeard, Beating, Recent, Kept, NoneLapsed
<1> QED BY <1>2, <1>3 DEF IInv

LEMMA AcquireKept ==
  ASSUME IInv, Acquire
  PROVE  IInv'
<1>1. /\ up # <<>> /\ NoneLapsed /\ reply = <<>> /\ up' = Tail(up)
      /\ UNCHANGED <<other, skew, awake, state, shown, beat, idle, uploading, dirty>>
  BY DEF Acquire, Take, client, timers, user
<1>2. up' \in Seq([kind : {"acquire", "edit", "heartbeat", "release"}, age : 0..Delay])
  BY <1>1, Shortened DEF IInv, TypeOK
<1>3. CASE other
  <2>1. reply' = <<Message("theirs")>> /\ UNCHANGED <<left, told, slept, down>>
    BY <1>3 DEF Acquire
  <2>2. Message("theirs") \in LockMessage /\ Message("theirs").holder = "theirs" /\ Message("theirs").age = 0
    BY MessageTypes DEF Holder
  <2> HIDE DEF Message
  <2>3. reply' # <<>> /\ reply'[1] = Message("theirs")
    BY <2>1
  <2>4. left = 0 /\ told = "theirs"
    BY <1>3 DEF IInv, TypeOK, Told
  <2>5. TypeOK'
    BY <1>1, <1>2, <2>1, <2>2 DEF IInv, TypeOK
  <2>6. Told' /\ Heard' /\ Beating' /\ Recent' /\ Kept'
    BY <1>1, <2>1, <2>2, <2>3, <2>4, Constants DEF IInv, Told, Heard, LastHeard, Beating, Recent, Kept, NoneLapsed
  <2> QED BY <2>5, <2>6 DEF IInv
<1>4. CASE ~other
  <2>1. /\ left' = TTL /\ slept' = ~awake /\ Announce("mine")
        /\ reply' = IF told = "mine" /\ Head(up).kind = "acquire" THEN <<Message("mine")>> ELSE <<>>
    BY <1>4 DEF Acquire
  <2>2. Message("mine") \in LockMessage /\ Message("mine").holder = "mine" /\ Message("mine").age = 0
    BY MessageTypes DEF Holder
  <2>3. /\ told' = "mine" /\ down' \in Seq(LockMessage)
        /\ \/ told = "mine" /\ down' = down
           \/ told # "mine" /\ down' # <<>> /\ down'[Len(down')] = Message("mine")
    BY <2>1, AnnounceDoes DEF IInv, Holder
  <2> HIDE DEF Message
  <2>4. \/ reply' = <<>> /\ (told = "mine" => down' = down)
        \/ reply' # <<>> /\ reply'[1] = Message("mine") /\ reply' = <<Message("mine")>>
    BY <2>1, <2>3
  <2>5. TypeOK'
    BY <1>1, <1>2, <1>4, <2>1, <2>2, <2>3, <2>4, Constants DEF IInv, TypeOK, Holder
  <2>6. Told' /\ Beating' /\ Recent'
    BY <1>1, <1>4, <2>1, <2>2, <2>3, <2>4, Constants DEF IInv, Told, Beating, Recent
  <2>7. LastHeard' = "mine"
    BY <1>1, <2>2, <2>3, <2>4 DEF IInv, Heard, LastHeard
  <2>8. Hope'
    <3>1. CASE reply' # <<>>
      BY <2>1, <2>2, <2>4, <3>1, Constants DEF Hope, Wait, LargestOf
    <3>2. CASE reply' = <<>> /\ down' # <<>>
      <4>1. down'[Len(down')] \in LockMessage
        BY <2>3, <3>2
      <4>2. Wait(down'[Len(down')].age) <= Delay /\ Wait(down'[Len(down')].age) \in Nat
        BY <4>1, Constants DEF Wait, LargestOf, LockMessage
      <4> QED BY <2>1, <3>2, <4>2, Constants DEF Hope
    <3>3. CASE reply' = <<>> /\ down' = <<>>
      <4>1. state' = "mine"
        BY <2>7, <3>3 DEF LastHeard
      <4>2. beat'.on /\ beat' \in Timer(LongestBeat)
        BY <2>5, <2>6, <4>1 DEF TypeOK, Beating
      <4>3. beat'.due \in (-Late)..LongestBeat
        BY <4>2 DEF Timer, In, Stopped
      <4> QED BY <2>1, <3>3, <4>3, Constants DEF Hope
    <3> QED BY <3>1, <3>2, <3>3
  <2> QED BY <2>1, <2>3, <2>5, <2>6, <2>7, <2>8, Constants DEF IInv, Heard, Kept, NoneLapsed
<1> QED BY <1>3, <1>4

LEMMA HeartbeatKept ==
  ASSUME IInv, Heartbeat
  PROVE  IInv'
<1>1. /\ up # <<>> /\ NoneLapsed /\ reply = <<>> /\ up' = Tail(up)
      /\ UNCHANGED <<other, told, skew, awake, state, shown, beat, idle, uploading, dirty, down>>
      /\ left' = IF left > 0 THEN TTL ELSE 0
      /\ slept' = IF left > 0 THEN ~awake ELSE slept
      /\ reply' = <<Message(Current)>>
  BY DEF Heartbeat, Take, client, timers, user
<1>2. up' \in Seq([kind : {"acquire", "edit", "heartbeat", "release"}, age : 0..Delay])
  BY <1>1, Shortened DEF IInv, TypeOK
<1>3. Current \in Holder /\ (Current = "mine" <=> left > 0) /\ (told = "mine" <=> left > 0)
  BY <1>1 DEF Current, Holder, IInv, Told, TypeOK, NoneLapsed
<1>4. Message(Current) \in LockMessage /\ Message(Current).holder = Current /\ Message(Current).age = 0
  BY <1>3, MessageTypes
<1> HIDE DEF Message, Current
<1>5. reply' # <<>> /\ reply'[1] = Message(Current)
  BY <1>1
<1>6. TypeOK'
  BY <1>1, <1>2, <1>4, Constants DEF IInv, TypeOK
<1>7. Told' /\ Heard' /\ Beating' /\ Recent'
  BY <1>1, <1>3, <1>4, <1>5, Constants DEF IInv, TypeOK, Told, Heard, LastHeard, Beating, Recent
<1>8. Kept'
  BY <1>1, <1>3, <1>4, <1>5, Constants DEF IInv, TypeOK, Kept, NoneLapsed, Hope, Wait, LargestOf
<1> QED BY <1>6, <1>7, <1>8 DEF IInv

\* Release, Expire, PeerTakes and PeerGoes: the page has the lock no more, or never had it.
LEMMA AnnounceKept ==
  ASSUME IInv, NEW holder \in Holder \ {"mine"}, Announce(holder),
         left' = 0, other' = (holder = "theirs"),
         UNCHANGED <<reply, skew, awake, slept, state, shown, beat, idle, uploading, dirty>>,
         up' \in Seq([kind : {"acquire", "edit", "heartbeat", "release"}, age : 0..Delay]),
         reply # <<>> => left = 0
  PROVE  IInv'
<1>1. Message(holder).holder = holder
  BY MessageTypes
<1>2. /\ told' = holder /\ down' \in Seq(LockMessage)
      /\ \/ told = holder /\ down' = down
         \/ told # holder /\ down' # <<>> /\ down'[Len(down')] = Message(holder)
  BY AnnounceDoes DEF IInv
<1>3. reply # <<>> => reply[1].holder # "mine"
  <2> SUFFICES ASSUME reply # <<>> PROVE reply[1].holder # "mine"
    OBVIOUS
  <2>1. left = 0 /\ reply[1].age <= Delay /\ reply[1].age \in Nat
    BY Constants DEF IInv, Recent, TypeOK, LockMessage
  <2> QED BY <2>1, Constants DEF IInv, Recent
<1> HIDE DEF Message
<1>4. TypeOK'
  BY <1>2, Constants DEF IInv, TypeOK, Holder
<1>5. LastHeard' # "mine"
  <2>1. CASE reply # <<>>
    BY <1>3, <2>1 DEF LastHeard
  <2>2. CASE reply = <<>> /\ told = holder
    BY <1>2, <2>2 DEF LastHeard, IInv, Heard
  <2>3. CASE reply = <<>> /\ told # holder
    BY <1>1, <1>2, <2>3 DEF LastHeard
  <2> QED BY <2>1, <2>2, <2>3
<1>6. told' # "mine" /\ ~(left' > 0)
  BY <1>2
<1>7. Told'
  BY <1>2, <1>6 DEF Told
<1>8. Recent'
  BY <1>3 DEF IInv, Recent
<1>9. Heard' /\ Beating' /\ Kept'
  BY <1>5, <1>6 DEF IInv, Heard, Beating, Kept, NoneLapsed
<1> QED BY <1>4, <1>7, <1>8, <1>9 DEF IInv

LEMMA OthersKept ==
  ASSUME IInv, Release \/ Expire \/ PeerTakes \/ PeerGoes
  PROVE  IInv'
<1>1. CASE Release
  <2>1. /\ up # <<>> /\ up' = Tail(up) /\ reply = <<>> /\ left' = 0
        /\ Announce(IF other THEN "theirs" ELSE "free")
        /\ UNCHANGED <<other, reply, skew, awake, slept, state, shown, beat, idle, uploading, dirty>>
    BY <1>1 DEF Release, Take, page, client, timers, user
  <2>2. up' \in Seq([kind : {"acquire", "edit", "heartbeat", "release"}, age : 0..Delay])
    BY <2>1, Shortened DEF IInv, TypeOK
  <2>3. PICK holder \in Holder \ {"mine"} : Announce(holder) /\ other' = (holder = "theirs")
    BY <2>1 DEF Holder, IInv, TypeOK
  <2> QED BY <2>1, <2>2, <2>3, AnnounceKept
<1>2. CASE Expire
  <2>1. /\ left = 0 /\ told = "mine" /\ Announce("free") /\ left' = 0
        /\ UNCHANGED <<other, reply, skew, awake, slept, state, shown, beat, idle, uploading, dirty, up>>
    BY <1>2 DEF Expire, NoneLapsed, page, client, timers, user
  <2>2. ~other
    BY <2>1 DEF IInv, Told, TypeOK
  <2>3. up' \in Seq([kind : {"acquire", "edit", "heartbeat", "release"}, age : 0..Delay])
    BY <2>1 DEF IInv, TypeOK
  <2> QED BY <2>1, <2>2, <2>3, AnnounceKept DEF Holder, IInv, TypeOK
<1>3. CASE PeerTakes
  <2>1. /\ left = 0 /\ other' = TRUE /\ Announce("theirs") /\ left' = 0
        /\ UNCHANGED <<reply, skew, awake, slept, state, shown, beat, idle, uploading, dirty, up>>
    BY <1>3 DEF PeerTakes, page, client, timers, user
  <2>2. up' \in Seq([kind : {"acquire", "edit", "heartbeat", "release"}, age : 0..Delay])
    BY <2>1 DEF IInv, TypeOK
  <2> QED BY <2>1, <2>2, AnnounceKept DEF Holder
<1>4. CASE PeerGoes
  <2>1. /\ other /\ other' = FALSE /\ Announce("free") /\ left' = left
        /\ UNCHANGED <<reply, skew, awake, slept, state, shown, beat, idle, uploading, dirty, up>>
    BY <1>4 DEF PeerGoes, page, client, timers, user
  <2>2. left = 0 /\ up' \in Seq([kind : {"acquire", "edit", "heartbeat", "release"}, age : 0..Delay])
    BY <2>1 DEF IInv, TypeOK
  <2> QED BY <2>1, <2>2, AnnounceKept DEF Holder
<1> QED BY <1>1, <1>2, <1>3, <1>4

LEMMA AnswerKept ==
  ASSUME IInv, Answer
  PROVE  IInv'
<1>1. /\ reply # <<>> /\ down' = down \o reply /\ reply' = <<>>
      /\ UNCHANGED <<left, other, told, skew, awake, slept, state, shown, beat, idle, uploading, dirty, up>>
  BY DEF Answer, page, client, timers, user
<1>2. PICK m \in LockMessage : reply = <<m>>
  BY <1>1 DEF IInv, TypeOK
<1>3. /\ reply[1] = m /\ down' = Append(down, m) /\ down' \in Seq(LockMessage)
      /\ down' # <<>> /\ down'[Len(down')] = m
  BY <1>1, <1>2, Appended DEF IInv, TypeOK
<1>4. TypeOK'
  BY <1>1, <1>3 DEF IInv, TypeOK
<1>5. Told' /\ Heard' /\ Beating' /\ Recent' /\ Kept'
  BY <1>1, <1>3 DEF IInv, Told, Heard, LastHeard, Beating, Recent, Kept, NoneLapsed, Hope
<1> QED BY <1>4, <1>5 DEF IInv

-----------------------------------------------------------------------------
(* The page's steps *)

LEMMA HearKept ==
  ASSUME IInv, Hear
  PROVE  IInv'
<1> DEFINE m == Head(down)
<1>1. /\ down # <<>> /\ down' = Tail(down) /\ state' = m.holder
      /\ shown' = IF state' = "mine" THEN LargestOf(0, TTL - m.age + skew) ELSE 0
      /\ IF state' = "mine"
         THEN /\ beat' = In(NextBeat(shown'))
              /\ idle' = IF state = "mine" THEN idle ELSE In(IdleRelease)
         ELSE beat' = Stopped /\ idle' = Stopped
      /\ dirty' = (dirty /\ state' # "theirs")
      /\ UNCHANGED <<left, other, told, reply, skew, awake, slept, uploading, up>>
  BY DEF Hear, server, page
<1>2. /\ m \in LockMessage /\ down' \in Seq(LockMessage)
      /\ down' = <<>> => m = down[Len(down)]
      /\ down' # <<>> => down'[Len(down')] = down[Len(down)]
  BY <1>1, Shortened DEF IInv, TypeOK
<1> HIDE DEF m
<1>3. state' \in Holder /\ m.age \in 0..(TTL + Skew)
  BY <1>1, <1>2 DEF LockMessage
<1>4. shown' \in 0..(TTL + Skew)
  BY <1>1, <1>3, Constants DEF LargestOf, IInv, TypeOK
<1>5. /\ beat' \in Timer(LongestBeat)
      /\ state' = "mine" => beat'.on /\ beat'.due \in 1..LongestBeat
  <2>1. NextBeat(shown') \in 1..LongestBeat /\ NextBeat(shown') \in (-Late)..LongestBeat
    BY <1>4, NextBeatInTime, Constants
  <2> QED BY <1>1, <2>1, TimerTypes, Constants
<1>6. idle' \in Timer(IdleRelease)
  <2>1. IdleRelease \in (-Late)..IdleRelease
    BY Constants
  <2> QED BY <1>1, <2>1, TimerTypes, Constants DEF IInv, TypeOK
<1>7. TypeOK'
  BY <1>1, <1>2, <1>3, <1>4, <1>5, <1>6 DEF IInv, TypeOK
<1>8. Told' /\ Beating' /\ Recent'
  BY <1>1, <1>5 DEF IInv, Told, Beating, Recent
<1>9. LastHeard' = LastHeard
  BY <1>1, <1>2 DEF LastHeard
<1>10. ASSUME left > 0, Hope
       PROVE  Hope'
  <2>1. CASE reply = <<>> /\ down' = <<>> /\ Wait(down[Len(down)].age) + LongestBeat + Late + Delay < left
    <3>1. state' = "mine"
      BY <1>9, <1>10, <1>1, <2>1 DEF IInv, Told, Heard, LastHeard
    <3>2. beat'.due \in 1..LongestBeat
      BY <1>5, <3>1
    <3>3. Wait(down[Len(down)].age) \in Nat
      <4>1. down[Len(down)].age \in Nat
        BY <1>2, <1>3, <2>1
      <4> QED BY <4>1, WaitsLess
    <3>4. left \in Nat
      BY DEF IInv, TypeOK
    <3>5. beat'.due + Late + Delay < left'
      BY <1>1, <2>1, <3>2, <3>3, <3>4, Constants
    <3> QED BY <1>1, <2>1, <3>5 DEF Hope
  <2>2. CASE \E i \in DOMAIN up : Delay - up[i].age < left
    BY <1>1, <2>2 DEF Hope
  <2>3. CASE reply # <<>> /\ Wait(reply[1].age) + LongestBeat + Late + Delay < left
    BY <1>1, <2>3 DEF Hope
  <2>4. CASE reply = <<>> /\ down' # <<>> /\ Wait(down[Len(down)].age) + LongestBeat + Late + Delay < left
    BY <1>1, <1>2, <2>4 DEF Hope
  <2> QED BY <1>1, <1>10, <2>1, <2>2, <2>3, <2>4 DEF Hope
<1>11. Heard' /\ Kept'
  BY <1>1, <1>9, <1>10 DEF IInv, Heard, Kept, NoneLapsed
<1> QED BY <1>7, <1>8, <1>11 DEF IInv

\* Whatever the page does by itself sends at most one message and stops no heartbeat
\* that the lock depends on.
LEMMA ActsKept ==
  ASSUME IInv, UNCHANGED <<server, skew, page, state, shown, down>>,
         beat' \in Timer(LongestBeat), idle' \in Timer(IdleRelease), uploading' \in BOOLEAN, dirty' \in BOOLEAN,
         state = "mine" => beat'.on,
         NEW kind \in {"acquire", "edit", "heartbeat", "release"}, up' \in {up, Send(kind)},
         beat' = beat \/ (up' = Send(kind) /\ beat.due \in (-Late)..LongestBeat)
  PROVE  IInv'
<1>1. UNCHANGED <<left, other, told, reply, skew, awake, slept, state, shown, down>>
  BY DEF server, page
<1>2. /\ up' \in Seq([kind : {"acquire", "edit", "heartbeat", "release"}, age : 0..Delay])
      /\ \A i \in DOMAIN up : i \in DOMAIN up' /\ up'[i] = up[i]
      /\ up' = Send(kind) => Len(up') \in DOMAIN up' /\ up'[Len(up')].age = 0
  <2> DEFINE m == [kind |-> kind, age |-> 0]
             S == [kind : {"acquire", "edit", "heartbeat", "release"}, age : 0..Delay]
  <2>1. m \in S /\ m.age = 0
    BY Constants
  <2>2. up \in Seq(S) /\ Send(kind) = Append(up, m)
    BY DEF IInv, TypeOK, Send
  <2> HIDE DEF m, S
  <2>3. /\ Append(up, m) \in Seq(S) /\ Len(Append(up, m)) = Len(up) + 1
        /\ Append(up, m)[Len(Append(up, m))] = m
        /\ \A i \in DOMAIN up : i \in DOMAIN Append(up, m) /\ Append(up, m)[i] = up[i]
    BY <2>1, <2>2, Appended
  <2>4. Len(Append(up, m)) \in DOMAIN Append(up, m)
    BY <2>2, <2>3
  <2> QED BY <2>1, <2>2, <2>3, <2>4 DEF S
<1>3. TypeOK'
  BY <1>1, <1>2 DEF IInv, TypeOK
<1>4. Told' /\ Heard' /\ Beating' /\ Recent'
  BY <1>1 DEF IInv, Told, Heard, LastHeard, Beating, Recent
<1>5. ASSUME Hope PROVE Hope'
  <2>1. CASE \E i \in DOMAIN up : Delay - up[i].age < left
    BY <1>1, <1>2, <2>1 DEF Hope
  <2>2. CASE /\ reply = <<>> /\ down = <<>> /\ beat.due + Late + Delay < left
             /\ up' = Send(kind) /\ beat.due \in (-Late)..LongestBeat
    <3>1. left \in Nat
      BY DEF IInv, TypeOK
    <3>2. Delay < left
      BY <2>2, <3>1, Constants
    <3>3. Delay - up'[Len(up')].age < left' /\ Len(up') \in DOMAIN up'
      BY <1>1, <1>2, <2>2, <3>1, <3>2, Constants
    <3> QED BY <3>3 DEF Hope
  <2> QED BY <1>1, <1>5, <2>1, <2>2 DEF Hope
<1>6. Kept'
  BY <1>1, <1>5 DEF IInv, Kept, NoneLapsed
<1> QED BY <1>3, <1>4, <1>6 DEF IInv

LEMMA PageKept ==
  ASSUME IInv, Input \/ Flush \/ StartUpload \/ EndUpload \/ BeatFires \/ IdleFires
  PROVE  IInv'
<1>1. /\ beat \in Timer(LongestBeat) /\ idle \in Timer(IdleRelease) /\ uploading \in BOOLEAN /\ dirty \in BOOLEAN
      /\ state = "mine" => beat.on
      /\ In(IdleRelease) \in Timer(IdleRelease) /\ Stopped \in Timer(IdleRelease)
  <2>1. IdleRelease \in (-Late)..IdleRelease
    BY Constants
  <2> QED BY <2>1, TimerTypes, Constants DEF IInv, TypeOK, Beating
<1>2. CASE Input
  <2>1. up' \in {up, Send("acquire")} /\ idle' \in Timer(IdleRelease)
    BY <1>1, <1>2 DEF Input, Request, Countdown
  <2> QED BY <1>1, <1>2, <2>1, ActsKept DEF Input
<1>3. CASE Flush
  BY <1>1, <1>3, ActsKept DEF Flush, timers
<1>4. CASE StartUpload
  <2>1. up' \in {up, Send("acquire")} /\ idle' \in Timer(IdleRelease)
    BY <1>1, <1>4 DEF StartUpload, Request, Countdown
  <2> QED BY <1>1, <1>4, <2>1, ActsKept DEF StartUpload
<1>5. CASE EndUpload
  <2>1. up' = up /\ beat' = beat /\ idle' \in Timer(IdleRelease) /\ dirty' \in BOOLEAN /\ uploading' \in BOOLEAN
    BY <1>1, <1>5 DEF EndUpload, Countdown
  <2>2. UNCHANGED <<server, skew, page, state, shown, down>>
    BY <1>5 DEF EndUpload
  <2> QED BY <1>1, <2>1, <2>2, ActsKept
<1>6. CASE BeatFires
  <2>1. NextBeat(shown) \in 1..LongestBeat /\ NextBeat(shown) \in (-Late)..LongestBeat
    BY NextBeatInTime, Constants DEF IInv, TypeOK
  <2>2. beat' \in Timer(LongestBeat) /\ beat'.on
    BY <1>6, <2>1, TimerTypes, Constants DEF BeatFires
  <2>3. beat.on /\ beat.due \in (-Late)..LongestBeat
    BY <1>1, <1>6 DEF BeatFires, Due, Timer, In, Stopped
  <2>4. UNCHANGED <<server, skew, page, state, shown, idle, uploading, dirty, down>> /\ up' = Send("heartbeat")
    BY <1>6 DEF BeatFires, user
  <2> QED BY <1>1, <2>2, <2>3, <2>4, ActsKept
<1>7. CASE IdleFires
  <2>1. up' \in {up, Send("release")} /\ idle' \in Timer(IdleRelease)
    BY <1>1, <1>7 DEF IdleFires
  <2>2. UNCHANGED <<server, skew, page, state, shown, beat, uploading, dirty, down>>
    BY <1>7 DEF IdleFires, user
  <2> QED BY <1>1, <2>1, <2>2, ActsKept
<1> QED BY <1>2, <1>3, <1>4, <1>5, <1>6, <1>7

\* The page is suspended and goes on.
LEMMA SleepKept ==
  ASSUME IInv, Sleep \/ Wake
  PROVE  IInv'
<1>1. /\ UNCHANGED <<left, other, told, reply, skew, state, shown, beat, idle, uploading, dirty, up, down>>
      /\ awake' \in BOOLEAN /\ slept' \in BOOLEAN /\ (awake' \/ slept') /\ (slept => slept')
  BY DEF IInv, TypeOK, Sleep, Wake, server, client, timers, user
<1>2. TypeOK'
  BY <1>1 DEF IInv, TypeOK
<1>3. Told' /\ Heard' /\ Beating' /\ Recent' /\ Kept'
  BY <1>1 DEF IInv, Told, Heard, LastHeard, Beating, Recent, Kept, NoneLapsed, Hope
<1> QED BY <1>2, <1>3 DEF IInv

-----------------------------------------------------------------------------
(* Time *)

LEMMA SoonerTypes ==
  ASSUME NEW longest \in Nat, NEW timer \in Timer(longest)
  PROVE  /\ Sooner(timer) \in Timer(longest)
         /\ timer.on => Sooner(timer).on /\ Sooner(timer).due = LargestOf(timer.due - 1, -Late)
<1>1. CASE timer = Stopped
  BY <1>1 DEF Sooner, Stopped, Timer
<1>2. ASSUME NEW n \in (-Late)..longest, timer = In(n)
      PROVE  /\ Sooner(timer) \in Timer(longest)
             /\ Sooner(timer).on /\ Sooner(timer).due = LargestOf(timer.due - 1, -Late)
  <2>1. timer.on /\ timer.due = n
    BY <1>2 DEF In
  <2>2. LargestOf(n - 1, -Late) \in (-Late)..longest
    BY Constants DEF LargestOf
  <2>3. Sooner(timer) = In(LargestOf(n - 1, -Late))
    BY <2>1 DEF Sooner
  <2> QED BY <2>1, <2>2, <2>3, TimerTypes
<1> QED BY <1>1, <1>2 DEF Timer, Stopped

LEMMA TickKept ==
  ASSUME IInv, Tick
  PROVE  IInv'
<1> DEFINE S == [kind : {"acquire", "edit", "heartbeat", "release"}, age : 0..Delay]
<1>1. /\ InTime(up) /\ InTime(reply)
      /\ awake => InTime(down) /\ OnTime(beat)
      /\ left' = LargestOf(0, left - 1) /\ shown' = LargestOf(0, shown - 1)
      /\ beat' = Sooner(beat) /\ idle' = Sooner(idle)
      /\ up' = [i \in DOMAIN up |-> [up[i] EXCEPT !.age = @ + 1]]
      /\ down' = Older(down) /\ reply' = Older(reply)
      /\ UNCHANGED <<other, told, skew, awake, slept, state, uploading, dirty>>
  BY DEF Tick, UpToDate, page, user
<1>2. /\ left \in 0..TTL /\ left' \in 0..TTL /\ shown' \in 0..(TTL + Skew)
      /\ left > 0 => left' = left - 1
      /\ left = 0 => left' = 0
  <2>1. left \in 0..TTL /\ shown \in 0..(TTL + Skew)
    BY DEF IInv, TypeOK
  <2>2. left' = LargestOf(0, left - 1) /\ shown' = LargestOf(0, shown - 1)
    BY <1>1
  <2> QED BY <2>1, <2>2, Constants DEF LargestOf
<1>3. /\ up \in Seq(S) /\ DOMAIN up = 1..Len(up)
      /\ \A i \in 1..Len(up) : up[i] \in S /\ up[i].age \in 0..Delay /\ up[i].age < Delay
  <2>1. up \in Seq(S)
    BY DEF IInv, TypeOK
  <2>2. DOMAIN up = 1..Len(up) /\ \A i \in 1..Len(up) : up[i] \in S
    <3> HIDE DEF S
    <3> QED BY <2>1
  <2>3. \A i \in 1..Len(up) : up[i].age < Delay
    BY <1>1, <2>2 DEF InTime
  <2> QED BY <2>1, <2>2, <2>3
<1>4. /\ up' \in Seq(S) /\ Len(up') = Len(up)
      /\ \A i \in 1..Len(up) : up'[i].age = up[i].age + 1
  <2>1. ASSUME NEW i \in 1..Len(up)
        PROVE  [up[i] EXCEPT !.age = @ + 1] \in S /\ [up[i] EXCEPT !.age = @ + 1].age = up[i].age + 1
    <3>1. up[i] \in S /\ up[i].age \in 0..Delay /\ up[i].age < Delay
      BY <1>3
    <3>2. up[i].age + 1 \in 0..Delay
      BY <3>1, Constants
    <3> QED BY <3>1, <3>2
  <2> DEFINE aged(i) == [up[i] EXCEPT !.age = @ + 1]
  <2>2. up' = [i \in 1..Len(up) |-> aged(i)]
    BY <1>1, <1>3
  <2>3. Len(up) \in Nat /\ \A i \in 1..Len(up) : aged(i) \in S /\ aged(i).age = up[i].age + 1
    BY <1>3, <2>1
  <2> HIDE DEF S, aged
  <2>4. up' \in Seq(S) /\ Len(up') = Len(up) /\ \A i \in 1..Len(up) : up'[i] = aged(i)
    BY <2>2, <2>3
  <2> QED BY <2>3, <2>4
<1>5. /\ down \in Seq(LockMessage) /\ down' \in Seq(LockMessage) /\ Len(down') = Len(down)
      /\ \A i \in 1..Len(down) : /\ down'[i].holder = down[i].holder
                               /\ down'[i].age = SmallestOf(down[i].age + 1, Oldest(down[i]))
  BY <1>1, OlderTypes DEF IInv, TypeOK
<1>6. down = <<>> <=> down' = <<>>
  BY <1>5
<1>7. /\ reply \in {<<>>} \cup {<<m>> : m \in LockMessage} /\ reply' \in {<<>>} \cup {<<m>> : m \in LockMessage}
      /\ reply = <<>> <=> reply' = <<>>
      /\ reply # <<>> => /\ reply'[1].holder = reply[1].holder
                         /\ reply'[1].age = reply[1].age + 1
                         /\ reply[1].age \in Nat /\ reply[1].age < Delay
  <2>1. CASE reply = <<>>
    <3>1. reply' = <<>>
      BY <1>1, <2>1 DEF Older
    <3> QED BY <2>1, <3>1
  <2>2. CASE reply # <<>>
    <3>1. PICK m \in LockMessage : reply = <<m>>
      BY <2>2 DEF IInv, TypeOK
    <3>2. /\ reply \in Seq(LockMessage) /\ Len(reply) = 1 /\ reply[1] = m
          /\ m.age \in Nat /\ m.age < Delay
      BY <1>1, <3>1 DEF InTime, LockMessage
    <3>3. /\ reply' \in Seq(LockMessage) /\ Len(reply') = 1
          /\ reply'[1].holder = m.holder /\ reply'[1].age = SmallestOf(m.age + 1, Oldest(m))
      BY <1>1, <3>2, OlderTypes
    <3>4. reply' = <<reply'[1]>> /\ reply'[1] \in LockMessage /\ reply' # <<>>
      BY <3>3, OneLong
    <3>5. SmallestOf(m.age + 1, Oldest(m)) = m.age + 1
      BY <3>2, Constants DEF SmallestOf, Oldest
    <3> QED BY <2>2, <3>1, <3>2, <3>3, <3>4, <3>5
  <2> QED BY <2>1, <2>2
<1>8. /\ beat' \in Timer(LongestBeat) /\ idle' \in Timer(IdleRelease)
      /\ beat.on => beat'.on /\ beat'.due = LargestOf(beat.due - 1, -Late)
  BY <1>1, SoonerTypes, Constants DEF IInv, TypeOK
<1>9. TypeOK'
  BY <1>1, <1>2, <1>4, <1>5, <1>7, <1>8 DEF IInv, TypeOK
<1>10. LastHeard' = LastHeard
  <2>1. down # <<>> => Len(down) \in 1..Len(down)
    BY <1>5
  <2> QED BY <1>1, <1>5, <1>6, <1>7, <2>1 DEF LastHeard
<1>11. Told' /\ Heard' /\ Beating'
  BY <1>1, <1>2, <1>8, <1>10 DEF IInv, Told, Heard, Beating
<1>12. Recent'
  BY <1>2, <1>7, Constants DEF IInv, Recent
<1>13. ASSUME ~slept, left > 0, Hope
       PROVE  left' > 0 /\ Hope'
  <2>1. awake /\ told = "mine" /\ LastHeard = "mine"
    BY <1>13 DEF IInv, TypeOK, Told, Heard
  <2>6. left \in Int /\ left > 0 /\ left' = left - 1 /\ Delay \in Int /\ LongestBeat \in Nat /\ Late \in Nat
    BY <1>2, <1>13, Constants
  <2>2. CASE \E i \in DOMAIN up : Delay - up[i].age < left
    <3>1. PICK i \in 1..Len(up) : Delay - up[i].age < left
      BY <1>3, <2>2
    <3>2. up[i].age \in Nat /\ up[i].age < Delay
      BY <1>3, Constants
    <3>3. Delay - up'[i].age < left' /\ left' > 0
      <4>1. up'[i].age = up[i].age + 1
        BY <1>4
      <4> QED BY <2>6, <3>1, <3>2, <4>1
    <3>4. i \in DOMAIN up'
      <4> HIDE DEF S
      <4> QED BY <1>4
    <3> QED BY <3>3, <3>4 DEF Hope
  <2>3. CASE reply # <<>> /\ Wait(reply[1].age) + LongestBeat + Late + Delay < left
    <3>1. /\ reply[1].age \in Nat /\ Wait(reply[1].age) = Delay - reply[1].age
          /\ Wait(reply'[1].age) = Wait(reply[1].age) - 1 /\ Delay - reply[1].age > 0
      <4>1. reply[1].age \in Nat /\ reply[1].age < Delay /\ reply'[1].age = reply[1].age + 1
        BY <1>7, <2>3
      <4> QED BY <2>6, <4>1, WaitsLess
    <3>2. Wait(reply'[1].age) + LongestBeat + Late + Delay < left' /\ left' > 0
      BY <2>3, <2>6, <3>1
    <3> QED BY <1>7, <2>3, <3>2 DEF Hope
  <2>4. CASE reply = <<>> /\ down # <<>> /\ Wait(down[Len(down)].age) + LongestBeat + Late + Delay < left
    <3>1. Len(down) \in 1..Len(down) /\ Len(down) \in DOMAIN down
      BY <1>5, <2>4
    <3>2. down[Len(down)].holder = "mine"
      BY <2>1, <2>4 DEF LastHeard
    <3>3. down[Len(down)].age \in Nat /\ down[Len(down)].age < Delay
      <4>1. down[Len(down)] \in LockMessage
        BY <1>5, <3>1
      <4>2. down[Len(down)].age < Delay
        BY <1>1, <2>1, <3>1 DEF InTime
      <4> QED BY <4>1, <4>2, Constants DEF LockMessage
    <3>4. down'[Len(down')].age = down[Len(down)].age + 1
      BY <1>5, <3>1, <3>2, <3>3, Constants DEF SmallestOf, Oldest
    <3>5. /\ Wait(down[Len(down)].age) = Delay - down[Len(down)].age
          /\ Wait(down'[Len(down')].age) = Wait(down[Len(down)].age) - 1
      BY <3>3, <3>4, WaitsLess
    <3>6. Wait(down'[Len(down')].age) + LongestBeat + Late + Delay < left' /\ left' > 0
      BY <2>4, <2>6, <3>3, <3>5
    <3> QED BY <1>6, <1>7, <2>4, <3>6 DEF Hope
  <2>5. CASE reply = <<>> /\ down = <<>> /\ beat.due + Late + Delay < left
    <3>1. beat.on
      BY <2>1, <2>5 DEF IInv, Beating, LastHeard
    <3>2. beat.due \in (-Late)..LongestBeat /\ beat.due > -Late
      BY <1>1, <2>1, <3>1 DEF IInv, TypeOK, Timer, In, Stopped, OnTime
    <3>3. beat'.due = beat.due - 1
      BY <1>8, <3>1, <3>2, Constants DEF LargestOf
    <3>4. beat'.due + Late + Delay < left' /\ left' > 0
      BY <1>2, <1>13, <2>5, <3>2, <3>3, Constants
    <3> QED BY <1>6, <1>7, <2>5, <3>4 DEF Hope
  <2> QED BY <1>13, <2>2, <2>3, <2>4, <2>5 DEF Hope
<1>14. Kept'
  <2>1. left = 0 \/ left > 0
    BY <1>2
  <2> QED BY <1>1, <1>2, <1>13, <2>1 DEF IInv, Kept, NoneLapsed
<1> QED BY <1>9, <1>11, <1>12, <1>14 DEF IInv

-----------------------------------------------------------------------------

LEMMA Steps == IInv /\ [Next]_vars => IInv'
<1> SUFFICES ASSUME IInv, [Next]_vars PROVE IInv'
  OBVIOUS
<1>1. CASE UNCHANGED vars
  BY <1>1 DEF vars, server, page, client, timers, user, IInv, TypeOK, Told, Heard, LastHeard, Beating, Recent,
              Kept, NoneLapsed, Hope
<1>2. CASE Next
  BY <1>2, AcquireKept, HeartbeatKept, OthersKept, AnswerKept, HearKept, PageKept, SleepKept, TickKept
     DEF Next, Serve
<1> QED BY <1>1, <1>2

THEOREM Invariant == Spec => []IInv
BY Starts, Steps, PTL DEF Spec

(* The state of the lock, of the page and of the connection has its type:  *)
(* in particular no heartbeat is ever further off than the longest pause,  *)
(* and a lock is not held by two (nextHeartbeatDelayMs, acquire).          *)
THEOREM KeeperTypes == Spec => []TypeOK
<1>1. IInv => TypeOK
  BY DEF IInv
<1> QED BY <1>1, Invariant, PTL

(* The lock of a page that runs never lapses, whatever the lifetime of the *)
(* lock, the clocks and the pace of the heartbeats, as long as BeatsInTime *)
(* holds of them (nextHeartbeatDelayMs, scheduleHeartbeat, Heartbeat).     *)
THEOREM LockKept == Spec => []NeverLapses
<1>1. IInv => NeverLapses
  BY DEF IInv, Kept, NeverLapses
<1> QED BY <1>1, Invariant, PTL

(* Once nothing is under way the page and the room agree on whether the    *)
(* page is the holder (applyLockSnapshot, announceLocked).                 *)
THEOREM PageInStep == Spec => []HolderInStep
<1>1. IInv => HolderInStep
  BY DEF IInv, Heard, LastHeard, HolderInStep
<1> QED BY <1>1, Invariant, PTL
=============================================================================
