-------------------------- MODULE SessionKeyProofs --------------------------
(* Theorems about SessionKey, for any keys and any number of texts and loads. *)
EXTENDS SessionKey, TLAPS

-----------------------------------------------------------------------------
(* What settles, shows and locks *)

\* The two keys a page can have: its link's and the device's.
Few(keys) == keys \in Seq(Candidate) /\ Len(keys) <= 2

\* Nothing a password has been the source of is taken for a link's.
Honest(keys) == \A i \in DOMAIN keys : keys[i].link => keys[i].key \notin PassKey

Keys(offers) == {offers[i].key : i \in DOMAIN offers}

\* Reading leaves the histories alone, but for what is read.
SameHistory(p, q) == q.had = p.had /\ q.hasty = p.hasty /\ q.crossed = p.crossed
SamePast(p, q) == SameHistory(p, q) /\ q.met = p.met

LEMMA NothingOffered == Few(<<>>) /\ Honest(<<>>)
<1>1. <<>> \in Seq(Candidate) /\ Len(<<>>) = 0
  OBVIOUS
<1> QED BY <1>1 DEF Few, Honest

LEMMA OneOffered ==
  ASSUME NEW k \in Candidate, k.link => k.key \notin PassKey
  PROVE  <<k>> \in Seq(Candidate) /\ Len(<<k>>) = 1 /\ Honest(<<k>>)
<1>1. <<k>> \in Seq(Candidate) /\ Len(<<k>>) = 1
  OBVIOUS
<1> QED BY <1>1 DEF Honest

LEMMA BestWorks ==
  ASSUME NEW c \in Content, NEW keys, Few(keys), Working(c, keys) # {}
  PROVE  \E i \in Working(c, keys) : Best(c, keys) = keys[i] /\ i \in DOMAIN keys /\ keys[i] \in Candidate
<1> DEFINE fit == Working(c, keys)
<1>1. fit \subseteq DOMAIN keys /\ DOMAIN keys \subseteq {1, 2}
  BY DEF Working, Few
<1>2. \E i \in fit : \A j \in fit : i <= j
  BY <1>1
<1>3. Best(c, keys) = keys[CHOOSE i \in fit : \A j \in fit : i <= j]
  BY DEF Best
<1> HIDE DEF fit
<1>4. PICK i \in fit : Best(c, keys) = keys[i]
  BY <1>2, <1>3
<1> QED BY <1>1, <1>4 DEF Few, fit

\* Everything but the key and the address.
SameButKey(p, q) ==
  /\ q.mode = p.mode /\ q.text = p.text /\ q.dirty = p.dirty
  /\ q.offered = p.offered /\ q.sealed = p.sealed /\ q.known = p.known

LEMMA SettledPage ==
  ASSUME NEW p \in Page, p.address \notin PassKey,
         NEW c \in Content, NEW keys, Few(keys), Honest(keys)
  PROVE  LET q == Settled(p, c, keys) IN
         /\ q \in Page /\ q.address \notin PassKey
         /\ SameButKey(p, q) /\ SamePast(p, q)
         /\ keys = <<>> => q.key = p.key
         /\ keys # <<>> /\ Sealed(c) => q.key \in {NoKey, c.key}
         /\ Sealed(c) /\ c.key \in Keys(keys) => q.key = c.key
<1> USE DEF SameButKey, SamePast, SameHistory
<1>1. CASE keys = <<>> \/ Working(c, keys) = {}
  <2>1. Sealed(c) => c.key \notin Keys(keys)
    BY <1>1 DEF Working, Keys
  <2> DEFINE none == [p EXCEPT !.key = NoKey]
  <2>2. none \in Page /\ none.key = NoKey /\ none.address = p.address /\ SameButKey(p, none) /\ SamePast(p, none)
    BY DEF Page
  <2>3. Settled(p, c, keys) = IF keys = <<>> THEN p ELSE none
    BY <1>1 DEF Settled
  <2>4. Keys(<<>>) = {}
    BY DEF Keys
  <2> HIDE DEF none, Keys, Sealed
  <2>5. CASE keys = <<>>
    BY <2>1, <2>3, <2>4, <2>5
  <2>6. CASE keys # <<>>
    BY <2>1, <2>2, <2>3, <2>6
  <2> QED BY <2>5, <2>6
<1>2. CASE keys # <<>> /\ Working(c, keys) # {}
  <2> DEFINE best == Best(c, keys)
             half == [p EXCEPT !.key = best.key]
             address == IF ~best.pinned THEN p.address ELSE IF best.link THEN best.key ELSE NoKey
  <2>1. best \in Candidate /\ (best.link => best.key \notin PassKey) /\ (Sealed(c) => best.key = c.key)
    <3>1. PICK i \in Working(c, keys) : Best(c, keys) = keys[i] /\ i \in DOMAIN keys /\ keys[i] \in Candidate
      BY <1>2, BestWorks
    <3>2. Sealed(c) => keys[i].key = c.key
      BY <3>1 DEF Working
    <3> QED BY <3>1, <3>2 DEF Honest
  <2>2. address \in Key \cup {NoKey} /\ address \notin PassKey
    BY <2>1, KeyConstants DEF Candidate, Page, Key
  <2>3. /\ half \in Page /\ half.address = p.address /\ half.key = best.key
        /\ SameButKey(p, half) /\ SamePast(p, half)
    BY <2>1 DEF Page, Candidate
  <2>4. Settled(p, c, keys) = [half EXCEPT !.address = address]
    BY <1>2, <2>3 DEF Settled
  <2> HIDE DEF half, address, best
  <2>5. LET q == Settled(p, c, keys) IN
        q \in Page /\ q.address = address /\ q.key = half.key /\ SameButKey(half, q) /\ SamePast(half, q)
    BY <2>2, <2>3, <2>4 DEF Page
  <2> QED BY <1>2, <2>1, <2>2, <2>3, <2>5
<1> QED BY <1>1, <1>2

LEMMA RememberedKey ==
  ASSUME device \in [key : Key \cup {NoKey}, link : BOOLEAN], device.link => device.key \notin PassKey,
         NEW c \in Content, NEW keys, Few(keys), Honest(keys)
  PROVE  LET d == Remembered(c, keys) IN
         d \in [key : Key \cup {NoKey}, link : BOOLEAN] /\ (d.link => d.key \notin PassKey)
<1>1. CASE Working(c, keys) # {}
  <2>1. Best(c, keys) \in Candidate /\ (Best(c, keys).link => Best(c, keys).key \notin PassKey)
    BY <1>1, BestWorks DEF Honest
  <2> QED BY <1>1, <2>1 DEF Remembered, Candidate
<1>2. CASE Working(c, keys) = {}
  BY <1>2 DEF Remembered
<1> QED BY <1>1, <1>2

LEMMA LockedPage ==
  ASSUME NEW p \in Page, NEW c \in Content
  PROVE  LET q == Locked(p, c) IN
         /\ q \in Page /\ q.mode = "locked" /\ q.key = NoKey /\ q.sealed = c.key /\ q.known = c.key
         /\ q.address = p.address /\ q.offered = p.offered /\ SamePast(p, q)
         /\ IF p.mode = "locked" THEN q.text = p.text /\ q.dirty = p.dirty ELSE q.text = 0 /\ ~q.dirty
<1> USE DEF SamePast, SameHistory
<1> DEFINE a == [p EXCEPT !.sealed = c.key]
           b == [a EXCEPT !.known = c.key]
           d == [b EXCEPT !.key = NoKey]
           e == [d EXCEPT !.mode = "locked"]
           f == [e EXCEPT !.dirty = FALSE]
<1>1. /\ a \in Page /\ a.address = p.address /\ a.offered = p.offered /\ SamePast(p, a)
      /\ a.sealed = c.key /\ a.mode = p.mode /\ a.text = p.text /\ a.dirty = p.dirty
  BY DEF Page, Content
<1>2. /\ b \in Page /\ b.known = c.key /\ b.address = p.address /\ b.offered = p.offered /\ SamePast(p, b)
      /\ b.sealed = c.key /\ b.mode = p.mode /\ b.text = p.text /\ b.dirty = p.dirty
  <2> HIDE DEF a
  <2> QED BY <1>1 DEF Page, Content
<1>3. /\ d \in Page /\ d.key = NoKey /\ d.known = c.key /\ d.address = p.address /\ d.offered = p.offered
      /\ SamePast(p, d) /\ d.sealed = c.key /\ d.mode = p.mode /\ d.text = p.text /\ d.dirty = p.dirty
  <2> HIDE DEF b
  <2> QED BY <1>2 DEF Page
<1>4. /\ e \in Page /\ e.mode = "locked" /\ e.key = NoKey /\ e.known = c.key /\ e.address = p.address
      /\ e.offered = p.offered /\ SamePast(p, e) /\ e.sealed = c.key
  <2> HIDE DEF d
  <2>0. d \in Page
    BY <1>3
  <2>1. e \in Page /\ e.mode = "locked"
    BY <2>0 DEF Page
  <2>2. e.key = d.key /\ e.known = d.known /\ e.address = d.address /\ e.offered = d.offered /\ e.sealed = d.sealed
    BY <2>0 DEF Page
  <2>3. SamePast(d, e)
    BY <2>0 DEF Page
  <2> QED BY <1>3, <2>1, <2>2, <2>3
<1>5. /\ f \in Page /\ f.mode = "locked" /\ f.key = NoKey /\ f.known = c.key /\ f.address = p.address
      /\ f.offered = p.offered /\ SamePast(p, f) /\ f.sealed = c.key /\ ~f.dirty
  <2> HIDE DEF e
  <2>0. e \in Page
    BY <1>4
  <2>1. f \in Page /\ ~f.dirty
    BY <2>0 DEF Page
  <2>2. /\ f.mode = e.mode /\ f.key = e.key /\ f.known = e.known /\ f.address = e.address
        /\ f.offered = e.offered /\ f.sealed = e.sealed
    BY <2>0 DEF Page
  <2>3. SamePast(e, f)
    BY <2>0 DEF Page
  <2> QED BY <1>4, <2>1, <2>2, <2>3
<1>6. Locked(p, c) = IF p.mode = "locked" THEN d ELSE [f EXCEPT !.text = 0]
  BY DEF Locked
<1> DEFINE g == [f EXCEPT !.text = 0]
<1> HIDE DEF d, f
<1>7. /\ g \in Page /\ g.mode = "locked" /\ g.key = NoKey /\ g.known = c.key /\ g.address = p.address
      /\ g.offered = p.offered /\ SamePast(p, g) /\ g.sealed = c.key /\ ~g.dirty /\ g.text = 0
  <2>1. 0 \in 0..MaxText
    BY KeyConstants
  <2> HIDE DEF a, b, e
  <2>2. f \in Page
    BY <1>5
  <2>3. g \in Page /\ g.text = 0
    BY <2>1, <2>2 DEF Page
  <2>4. /\ g.mode = f.mode /\ g.key = f.key /\ g.known = f.known /\ g.address = f.address
        /\ g.offered = f.offered /\ g.sealed = f.sealed /\ g.dirty = f.dirty
    BY <2>2 DEF Page
  <2>5. SamePast(f, g)
    BY <2>2 DEF Page
  <2> QED BY <1>5, <2>3, <2>4, <2>5
<1> HIDE DEF g
<1>8. CASE p.mode = "locked"
  BY <1>3, <1>6, <1>8
<1>9. CASE p.mode # "locked"
  BY <1>6, <1>7, <1>9 DEF g
<1> QED BY <1>8, <1>9

LEMMA AppliedPage ==
  ASSUME NEW p \in Page, NEW text \in 0..MaxText
  PROVE  LET q == Applied(p, text) IN
         /\ q \in Page /\ q.mode = p.mode /\ q.key = p.key /\ q.sealed = p.sealed /\ q.known = p.known
         /\ q.address = p.address /\ q.offered = p.offered /\ SamePast(p, q)
         /\ IF p.dirty THEN q.text = p.text /\ (q.dirty <=> p.text # text) ELSE q.text = text /\ ~q.dirty
<1> DEFINE shown == [p EXCEPT !.text = text]
           pending == p.text # text
           kept == [p EXCEPT !.dirty = pending]
<1>1. Applied(p, text) = IF ~p.dirty THEN shown ELSE kept
  BY DEF Applied
<1>2. /\ shown \in Page /\ shown.mode = p.mode /\ shown.key = p.key /\ shown.sealed = p.sealed
      /\ shown.known = p.known /\ shown.address = p.address /\ shown.offered = p.offered
      /\ SamePast(p, shown) /\ shown.text = text /\ shown.dirty = p.dirty
  BY DEF Page, SamePast, SameHistory
<1>3. pending \in BOOLEAN
  OBVIOUS
<1> HIDE DEF pending
<1>4. /\ kept \in Page /\ kept.mode = p.mode /\ kept.key = p.key /\ kept.sealed = p.sealed
      /\ kept.known = p.known /\ kept.address = p.address /\ kept.offered = p.offered
      /\ SamePast(p, kept) /\ kept.text = p.text /\ kept.dirty = pending
  BY <1>3 DEF Page, SamePast, SameHistory
<1> HIDE DEF shown, kept
<1>5. CASE p.dirty
  BY <1>1, <1>4, <1>5 DEF pending
<1>6. CASE ~p.dirty
  BY <1>1, <1>2, <1>6
<1> QED BY <1>5, <1>6

\* The page shows `text`, unless something else is still to be sent.
Shows(p, text) ==
  IF p.dirty THEN page'.text = p.text /\ (page'.dirty <=> p.text # text)
  ELSE page'.text = text /\ ~page'.dirty

\* What it shows stays, or is taken from it.
Keeps(p) == page'.text = p.text /\ page'.dirty = p.dirty

Blanks(p) == IF p.mode = "locked" THEN Keeps(p) ELSE page'.text = 0 /\ ~page'.dirty

\* A content is applied, or locks the page, or is to be opened with the page's key.
LEMMA IncomingDoes ==
  ASSUME reading \in [Reader -> Reading],
         NEW r \in Reader, NEW p \in Page, NEW c \in Content, Incoming(r, p, c)
  PROVE  /\ page' \in Page
         /\ page'.address = p.address /\ page'.offered = p.offered /\ SamePast(p, page')
         /\ reading' \in [Reader -> Reading]
         /\ \A q \in Reader \ {r} : reading'[q] = reading[q]
         /\ \/ /\ ~Sealed(c) /\ page'.mode = p.mode /\ page'.key = p.key /\ reading'[r] = Idle
               /\ page'.known = NoKey /\ Shows(p, c.text)
            \/ /\ Sealed(c) /\ p.key = NoKey /\ page'.mode = "locked" /\ page'.key = NoKey /\ reading'[r] = Idle
               /\ page'.sealed = c.key /\ page'.known = c.key /\ Blanks(p)
            \/ Sealed(c) /\ p.key # NoKey /\ page' = p /\ reading'[r] = Opening(c, p.key)
<1>1. Idle \in Reading /\ Opening(c, p.key) \in Reading
  BY KeyConstants DEF Idle, Opening, Reading, Empty, Content, Page
<1> DEFINE n == [p EXCEPT !.known = NoKey]
<1>2. c.text \in 0..MaxText
  BY DEF Content
<1>3. \/ ~Sealed(c) /\ page' = Applied(n, c.text) /\ reading' = [reading EXCEPT ![r] = Idle]
      \/ Sealed(c) /\ p.key = NoKey /\ page' = Locked(p, c) /\ reading' = [reading EXCEPT ![r] = Idle]
      \/ Sealed(c) /\ p.key # NoKey /\ page' = p /\ reading' = [reading EXCEPT ![r] = Opening(c, p.key)]
  BY DEF Incoming
<1>4. /\ n \in Page /\ n.known = NoKey /\ n.mode = p.mode /\ n.key = p.key /\ n.address = p.address
      /\ n.offered = p.offered /\ SamePast(p, n) /\ n.text = p.text /\ n.dirty = p.dirty
  BY DEF Page, SamePast, SameHistory
<1> HIDE DEF n, Idle, Opening, Locked, Applied, Sealed
<1>5. CASE ~Sealed(c) /\ page' = Applied(n, c.text) /\ reading' = [reading EXCEPT ![r] = Idle]
  BY <1>1, <1>2, <1>4, <1>5, AppliedPage DEF Shows, SamePast, SameHistory
<1>6. CASE Sealed(c) /\ p.key = NoKey /\ page' = Locked(p, c) /\ reading' = [reading EXCEPT ![r] = Idle]
  BY <1>1, <1>6, LockedPage DEF Blanks, Keeps
<1>7. CASE Sealed(c) /\ p.key # NoKey /\ page' = p /\ reading' = [reading EXCEPT ![r] = Opening(c, p.key)]
  BY <1>1, <1>7 DEF SamePast, SameHistory
<1> QED BY <1>3, <1>5, <1>6, <1>7

\* The keys `tried` say which one the page has from now on.
KeyTried(p, c, tried) ==
  /\ tried = <<>> => page'.key = p.key
  /\ tried # <<>> /\ Sealed(c) => page'.key \in {NoKey, c.key}
  /\ Sealed(c) /\ c.key \in Keys(tried) => page'.key = c.key

\* The first content settles the key, and what is left of the page is of one piece.
Decided(r, p, c) ==
  \/ /\ ~Sealed(c) /\ page'.mode \in {"plain", "e2e"} /\ reading'[r] = Idle
     /\ page'.known = NoKey /\ Shows(p, c.text)
  \/ /\ Sealed(c) /\ page'.mode = "locked" /\ page'.key = NoKey /\ reading'[r] = Idle
     /\ page'.sealed = c.key /\ page'.known = c.key /\ Keeps(p)
  \/ /\ Sealed(c) /\ page'.mode = "e2e" /\ page'.key # NoKey /\ reading'[r] = Opening(c, page'.key)
     /\ page'.known = p.known /\ Keeps(p)

LEMMA DecideDoes ==
  ASSUME reading \in [Reader -> Reading],
         device \in [key : Key \cup {NoKey}, link : BOOLEAN], device.link => device.key \notin PassKey,
         NEW r \in Reader, NEW p \in Page, p.address \notin PassKey,
         NEW c \in Content, NEW keys, Few(keys), Honest(keys),
         Decide(r, p, c, keys)
  PROVE  /\ page' \in Page /\ page'.address \notin PassKey
         /\ page'.offered = p.offered /\ SamePast(p, page')
         /\ KeyTried(p, c, keys)
         /\ device' \in [key : Key \cup {NoKey}, link : BOOLEAN] /\ (device'.link => device'.key \notin PassKey)
         /\ reading' \in [Reader -> Reading]
         /\ \A q \in Reader \ {r} : reading'[q] = reading[q]
         /\ Decided(r, p, c)
<1> DEFINE q == Settled(p, c, keys)
           mode == InitialMode(c, q.key # NoKey)
           m == [q EXCEPT !.mode = mode]
<1>1. /\ q \in Page /\ q.address \notin PassKey
      /\ SameButKey(p, q) /\ SamePast(p, q)
      /\ keys = <<>> => q.key = p.key
      /\ keys # <<>> /\ Sealed(c) => q.key \in {NoKey, c.key}
      /\ Sealed(c) /\ c.key \in Keys(keys) => q.key = c.key
  BY SettledPage
<1>2. device' = Remembered(c, keys) /\ Incoming(r, m, c)
  BY DEF Decide
<1>3. /\ mode \in {"plain", "e2e", "locked"}
      /\ Sealed(c) => mode = IF q.key # NoKey THEN "e2e" ELSE "locked"
      /\ ~Sealed(c) => mode # "locked"
  BY DEF InitialMode
<1> HIDE DEF q, mode
<1>4. /\ m \in Page /\ m.mode = mode /\ m.key = q.key /\ m.address = q.address /\ m.offered = p.offered
      /\ SamePast(p, m) /\ m.text = p.text /\ m.dirty = p.dirty /\ m.known = p.known
  BY <1>1, <1>3 DEF Page, SamePast, SameHistory, SameButKey
<1> HIDE DEF m
<1>5. device' \in [key : Key \cup {NoKey}, link : BOOLEAN] /\ (device'.link => device'.key \notin PassKey)
  BY <1>2, RememberedKey
<1> HIDE DEF Idle, Opening, Sealed, Keys
<1>6. /\ page' \in Page
      /\ page'.address = m.address /\ page'.offered = m.offered /\ SamePast(m, page')
      /\ reading' \in [Reader -> Reading]
      /\ \A o \in Reader \ {r} : reading'[o] = reading[o]
      /\ \/ /\ ~Sealed(c) /\ page'.mode = m.mode /\ page'.key = m.key /\ reading'[r] = Idle
            /\ page'.known = NoKey /\ Shows(m, c.text)
         \/ /\ Sealed(c) /\ m.key = NoKey /\ page'.mode = "locked" /\ page'.key = NoKey /\ reading'[r] = Idle
            /\ page'.sealed = c.key /\ page'.known = c.key /\ Blanks(m)
         \/ Sealed(c) /\ m.key # NoKey /\ page' = m /\ reading'[r] = Opening(c, m.key)
  BY <1>2, <1>4, IncomingDoes
<1>7. SamePast(p, page')
  BY <1>4, <1>6 DEF SamePast, SameHistory
<1>8. Shows(m, c.text) => Shows(p, c.text)
  BY <1>4 DEF Shows
<1>9. Sealed(c) /\ m.key = NoKey /\ Blanks(m) => Keeps(p)
  BY <1>3, <1>4 DEF Blanks, Keeps
<1>10. KeyTried(p, c, keys)
  BY <1>1, <1>4, <1>6 DEF KeyTried
<1>11. Decided(r, p, c)
  BY <1>3, <1>4, <1>6, <1>8, <1>9 DEF Decided, Keeps
<1> QED BY <1>1, <1>4, <1>5, <1>6, <1>7, <1>10, <1>11

-----------------------------------------------------------------------------
(* The invariant *)

Offers ==
  /\ Few(page.offered) /\ Honest(page.offered)
  /\ \A r \in Reader : Few(reading[r].keys) /\ Honest(reading[r].keys)

\* Only links put a key into the address or let the device do so.
Sources == page.address \notin PassKey /\ (device.link => device.key \notin PassKey)

\* The bootstrap is over before a page that is not hasty has a socket.
Order ==
  /\ boot # "reading" => reading["boot"].step = "idle"
  /\ boot = "closed" => ~up
  /\ ~up => inbox = <<>> /\ reading["socket"].step = "idle" /\ ~page.hasty
  /\ up /\ ~page.hasty => boot \in {"meta", "done"}

\* Until then, or until the first content is settled, nothing is known ...
Unsettled ==
  /\ page.mode = "pending" => page.known = NoKey /\ sending = Silent
  /\ ~page.hasty =>
       /\ boot \in {"closed", "keys", "fetch", "answered"} => page.mode = "pending"
       /\ \A r \in Reader : reading[r].step = "settling" => page.mode = "pending"

\* ... and then the key stays, in what is being read and in what is being sent,
\* and is the one of what was read last, or is dropped.
OneKey ==
  /\ page.mode = "locked" => page.key = NoKey
  /\ ~page.hasty =>
       /\ page.mode = "locked" => ~page.dirty
       /\ \A r \in Reader : reading[r].step = "opening" => reading[r].with = page.key
       /\ sending.step = "sealing" =>
            /\ page.mode \in {"e2e", "locked"}
            /\ page.mode = "e2e" => sending.content.key = page.key
       /\ Editable /\ page.known # NoKey => page.mode = "e2e" /\ page.key = page.known

\* What was given the page to read; what takes an await to read is encrypted.
Gathered ==
  /\ page.mode # "pending" => page.met # {}
  /\ boot = "answered" => reading["boot"].content.key \in page.met
  /\ \A r \in Reader :
       reading[r].step # "idle" => Sealed(reading[r].content) /\ reading[r].content.key \in page.met

\* The keys it loaded with are there to be tried until they are tried.
Untried ==
  ~page.hasty /\ page.mode = "pending" =>
    /\ \A r \in Reader : reading[r].step = "settling" => reading[r].keys = page.had
    /\ (\A r \in Reader : reading[r].step # "settling") => page.offered = page.had

\* And then the one that opens all it was given is its key.
HasKey ==
  ~page.hasty /\ page.mode # "pending" =>
    \A k \in Keys(page.had) : page.met = {k} => page.mode = "e2e" /\ page.key = k

\* What was sent to it last is what is stored.
Latest ==
  up /\ ~page.crossed =>
    /\ inbox # <<>> => inbox[Len(inbox)] = stored
    /\ inbox = <<>> /\ reading["socket"].step # "idle" => reading["socket"].content = stored

\* So a page that has read all of it shows what is stored.
Mirrors ==
  ~page.hasty /\ up /\ ~page.crossed /\ Caught =>
    IF Sealed(stored) /\ page.mode = "locked" THEN page.sealed = stored.key
    ELSE /\ ~page.dirty => page.text = stored.text
         /\ Sealed(stored) => page.mode = "e2e" /\ page.key = stored.key

IInv ==
  TypeOK /\ Offers /\ Sources /\ Order /\ Unsettled /\ OneKey /\ Gathered /\ Untried /\ HasKey /\ Latest /\ Mirrors

LEMMA FreshPage ==
  ASSUME NEW link \in LinkKey \cup {NoKey}
  PROVE  LET p == Fresh(link) IN
         /\ p \in Page /\ p.mode = "pending" /\ p.key = NoKey /\ p.text = 0 /\ ~p.dirty /\ ~p.hasty
         /\ ~p.crossed /\ p.offered = <<>> /\ p.had = <<>> /\ p.address = link /\ p.known = NoKey
         /\ p.met = {} /\ p.address \notin PassKey
<1>1. <<>> \in Seq(Candidate)
  OBVIOUS
<1>2. 0 \in 0..MaxText
  BY KeyConstants
<1> QED BY <1>1, <1>2, KeyConstants DEF Fresh, Page, Key

LEMMA Awaiting ==
  ASSUME NEW c, NEW k, NEW keys
  PROVE  /\ Idle.step = "idle" /\ Idle.content = Empty /\ Idle.keys = <<>>
         /\ Opening(c, k).step = "opening" /\ Opening(c, k).content = c /\ Opening(c, k).with = k
         /\ Opening(c, k).keys = <<>>
         /\ Settling(c, keys).step = "settling" /\ Settling(c, keys).content = c /\ Settling(c, keys).keys = keys
BY DEF Idle, Empty, Opening, Settling

LEMMA Nothings == Empty \in Content /\ Idle \in Reading /\ Silent \in Transmission /\ Silent.step = "idle"
<1>1. 0 \in 0..MaxText
  BY KeyConstants
<1>2. Empty \in Content
  BY <1>1 DEF Empty, Content
<1>3. <<>> \in Seq(Candidate)
  OBVIOUS
<1> QED BY <1>2, <1>3 DEF Idle, Reading, Silent, Transmission

LEMMA Starts == Init => IInv
<1> SUFFICES ASSUME Init PROVE IInv
  OBVIOUS
<1>1. page = Fresh(NoKey) /\ NoKey \in LinkKey \cup {NoKey}
  BY DEF Init
<1>2. /\ stored = Empty /\ seed = NoKey /\ copy = {} /\ boot = "closed" /\ inbox = <<>> /\ up = FALSE
      /\ sending = Silent /\ texts = 0 /\ loads = 0
      /\ device = [key |-> NoKey, link |-> FALSE]
  BY DEF Init
<1>3. reading \in [Reader -> Reading] /\ \A r \in Reader : reading[r] = Idle
  BY Nothings DEF Init
<1>4. <<>> \in Seq(Content)
  OBVIOUS
<1>5. texts \in 0..MaxText /\ loads \in 0..MaxLoads
  BY <1>2, KeyConstants
<1> HIDE DEF Fresh, Idle, Empty, Silent
<1>6. TypeOK
  BY <1>1, <1>2, <1>3, <1>4, <1>5, FreshPage, Awaiting, Nothings DEF TypeOK
<1>7. Offers /\ Sources
  BY <1>1, <1>2, <1>3, FreshPage, Awaiting, NothingOffered, KeyConstants DEF Offers, Sources, Key
<1>8. Order /\ Unsettled /\ OneKey
  BY <1>1, <1>2, <1>3, FreshPage, Awaiting, Nothings DEF Order, Unsettled, OneKey, Reader, Editable
<1>9. Gathered /\ Untried /\ HasKey /\ Latest /\ Mirrors
  BY <1>1, <1>2, <1>3, FreshPage, Awaiting DEF Gathered, Untried, HasKey, Latest, Mirrors, Reader
<1> QED BY <1>6, <1>7, <1>8, <1>9 DEF IInv

-----------------------------------------------------------------------------
(* Reading *)

\* The content is the first, or the keys were awaited.
Tries(r) ==
  reading[r].step = "settling" \/ (reading[r].step = "idle" /\ (page.mode = "pending" \/ r = "boot"))

Tried(r) == IF reading[r].step = "settling" THEN reading[r].keys ELSE page.offered

\* The keys were tried on `c`.
Settles(r, c) ==
  /\ Tries(r) /\ KeyTried(page, c, Tried(r))
  /\ page'.offered = IF reading[r].step = "settling" THEN page.offered ELSE <<>>
  /\ reading[r].step = "settling" \/ page.offered = <<>> \/ ~Sealed(c)
  /\ Decided(r, page, c)

\* They are to be tried on it.
Awaits(r, c) ==
  /\ Tries(r) /\ reading[r].step = "idle" /\ page.offered # <<>> /\ Sealed(c)
  /\ page'.offered = <<>> /\ reading'[r] = Settling(c, page.offered)
  /\ page'.mode = page.mode /\ page'.key = page.key /\ page'.known = page.known /\ Keeps(page)

\* It came later, and is applied, or locks the page, or is to be opened.
Takes(r, c) ==
  /\ r = "socket" /\ reading[r].step = "idle" /\ page.mode # "pending" /\ page'.offered = page.offered
  /\ \/ /\ ~Sealed(c) /\ page'.mode = page.mode /\ page'.key = page.key /\ reading'[r] = Idle
        /\ page'.known = NoKey /\ Shows(page, c.text)
     \/ /\ Sealed(c) /\ page.key = NoKey /\ page'.mode = "locked" /\ page'.key = NoKey /\ reading'[r] = Idle
        /\ page'.sealed = c.key /\ page'.known = c.key /\ Blanks(page)
     \/ /\ Sealed(c) /\ page.key # NoKey /\ page'.mode = page.mode /\ page'.key = page.key
        /\ page'.known = page.known /\ Keeps(page) /\ reading'[r] = Opening(c, page.key)

\* It was opened, or was not.
Opens(r, c) ==
  /\ reading[r].step = "opening" /\ reading'[r] = Idle /\ page'.offered = page.offered
  /\ \/ /\ reading[r].with = c.key /\ page'.mode = "e2e" /\ page'.key = page.key
        /\ page'.known = c.key /\ Shows(page, c.text)
     \/ /\ reading[r].with # c.key /\ page'.mode = "locked" /\ page'.key = NoKey
        /\ page'.sealed = c.key /\ page'.known = c.key /\ Blanks(page)

Took(r, c) ==
  /\ page' \in Page /\ page'.address \notin PassKey /\ SameHistory(page, page')
  /\ page'.met = page.met \cup {c.key}
  /\ device' \in [key : Key \cup {NoKey}, link : BOOLEAN] /\ (device'.link => device'.key \notin PassKey)
  /\ reading' \in [Reader -> Reading]
  /\ \A q \in Reader \ {r} : reading'[q] = reading[q]
  /\ Settles(r, c) \/ Awaits(r, c) \/ Takes(r, c) \/ Opens(r, c)

\* Where `c` comes from.
Came(r, c) ==
  /\ r = "boot" => /\ boot \in {"answered", "reading"} /\ boot' = "reading" /\ inbox' = inbox
                   /\ reading[r].step = "idle" => boot = "answered"
  /\ r = "socket" => up /\ boot' = boot
  /\ reading[r].step # "idle" => c = reading[r].content
  /\ inbox' \in Seq(Content)
  /\ r = "socket" /\ ~page.crossed =>
       /\ inbox' # <<>> => inbox'[Len(inbox')] = stored
       /\ inbox' = <<>> => c = stored
  /\ UNCHANGED <<stored, seed, copy, up, sending, texts, loads>>

Read(r, c) == c \in Content /\ Took(r, c) /\ Came(r, c)

\* What the reader has afterwards.
LEMMA ReaderThen ==
  ASSUME NEW r \in Reader, NEW c \in Content, Read(r, c)
  PROVE  /\ \/ reading'[r].step = "idle"
            \/ reading'[r].step \in {"settling", "opening"} /\ reading'[r].content = c /\ Sealed(c)
         /\ \A q \in Reader \ {r} : reading'[q] = reading[q]
         /\ reading'[r].keys \in {<<>>, page.offered}
         /\ reading'[r].step = "settling" => Awaits(r, c) /\ reading'[r].keys = page.offered
         /\ reading'[r].step = "opening" =>
              /\ Settles(r, c) \/ Takes(r, c)
              /\ page'.key # NoKey /\ reading'[r].with = page'.key /\ page'.mode # "pending"
<1>1. Took(r, c)
  BY DEF Read
<1> HIDE DEF Idle, Opening, Settling, Empty, Sealed
<1>2. CASE Settles(r, c)
  BY <1>1, <1>2, Awaiting DEF Took, Settles, Decided
<1>3. CASE Awaits(r, c)
  BY <1>1, <1>3, Awaiting DEF Took, Awaits
<1>4. CASE Takes(r, c)
  BY <1>1, <1>4, Awaiting DEF Took, Takes
<1>5. CASE Opens(r, c)
  BY <1>1, <1>5, Awaiting DEF Took, Opens
<1> QED BY <1>1, <1>2, <1>3, <1>4, <1>5 DEF Took

\* The two readers take turns on a page that is not hasty.
LEMMA Alone ==
  ASSUME IInv, ~page.hasty, NEW r \in Reader, NEW c \in Content, Read(r, c)
  PROVE  /\ \A q \in Reader \ {r} : reading[q].step = "idle"
         /\ r = "boot" => ~up /\ ~up'
         /\ Tries(r) => page.mode = "pending"
BY DEF IInv, Order, Unsettled, Reader, Read, Took, Came, Settles, Awaits, Takes, Opens, Tries

LEMMA ReadTypes ==
  ASSUME IInv, NEW r \in Reader, NEW c \in Content, Read(r, c)
  PROVE  TypeOK' /\ Offers' /\ Sources' /\ Order'
<1>1. Took(r, c) /\ Came(r, c)
  BY DEF Read
<1> HIDE DEF Idle, Opening, Settling, Empty, Sealed
<1>2. page'.mode = "pending" => page'.key = NoKey /\ page'.text = 0 /\ ~page'.dirty
  BY <1>1 DEF Took, Settles, Awaits, Takes, Opens, Decided, Keeps, IInv, TypeOK
<1>3. \A q \in Reader : reading'[q].step = "opening" => reading'[q].with \in Key
  <2>1. page'.key \in Key \cup {NoKey}
    BY <1>1 DEF Took, Page
  <2>2. reading'[r].step = "opening" => reading'[r].with \in Key
    BY <2>1, ReaderThen
  <2> QED BY <2>2, ReaderThen DEF IInv, TypeOK
<1>4. boot' \in {"closed", "keys", "fetch", "answered", "reading", "meta", "done"}
  BY <1>1 DEF Came, Reader, IInv, TypeOK
<1>5. TypeOK'
  BY <1>1, <1>2, <1>3, <1>4 DEF Took, Came, IInv, TypeOK
<1>6. page'.offered \in {page.offered, <<>>}
  BY <1>1 DEF Took, Settles, Awaits, Takes, Opens
<1>7. Offers'
  BY <1>6, ReaderThen, NothingOffered DEF IInv, Offers
<1>8. Sources'
  BY <1>1 DEF Took, Sources
<1>9. Order'
  BY <1>1, ReaderThen DEF Took, SameHistory, Came, Reader, IInv, Order
<1> QED BY <1>5, <1>7, <1>8, <1>9

LEMMA ReadUnsettled ==
  ASSUME IInv, NEW r \in Reader, NEW c \in Content, Read(r, c)
  PROVE  Unsettled'
<1>1. Took(r, c) /\ Came(r, c)
  BY DEF Read
<1> HIDE DEF Idle, Opening, Settling, Empty, Sealed
<1>2. page'.mode = "pending" => page.mode = "pending" /\ page'.known = page.known
  BY <1>1 DEF Took, Settles, Awaits, Takes, Opens, Decided
<1>3. page'.mode = "pending" => page'.known = NoKey /\ sending' = Silent
  BY <1>1, <1>2 DEF Came, IInv, Unsettled
<1>4. SUFFICES ASSUME ~page'.hasty
               PROVE  /\ boot' \in {"closed", "keys", "fetch", "answered"} => page'.mode = "pending"
                      /\ \A q \in Reader : reading'[q].step = "settling" => page'.mode = "pending"
  BY <1>3 DEF Unsettled
<1>5. ~page.hasty
  BY <1>1, <1>4 DEF Took, SameHistory
<1>6. boot' \notin {"closed", "keys", "fetch", "answered"}
  BY <1>1, <1>5 DEF Came, IInv, Order, Reader
<1>7. \A q \in Reader \ {r} : reading'[q].step = "idle"
  BY <1>1, <1>5, Alone DEF Took
<1>8. reading'[r].step = "settling" => page'.mode = "pending"
  BY <1>5, Alone, ReaderThen DEF Awaits
<1> QED BY <1>6, <1>7, <1>8

\* The contents under decryption are under the page's key.
LEMMA OwnKey ==
  ASSUME IInv, ~page.hasty, NEW r \in Reader, NEW c \in Content, Read(r, c), Opens(r, c)
  PROVE  reading[r].with = page.key /\ page.key # NoKey /\ page.mode \in {"plain", "e2e"}
<1>1. reading[r].step = "opening" /\ reading[r].with \in Key
  BY DEF Opens, IInv, TypeOK
<1>2. reading[r].with = page.key /\ page.key # NoKey
  BY <1>1, KeyConstants DEF IInv, OneKey
<1>3. page.mode \in {"pending", "plain", "e2e", "locked"}
  BY DEF IInv, TypeOK, Page
<1> QED BY <1>2, <1>3 DEF IInv, OneKey, TypeOK

LEMMA ReadOneKey ==
  ASSUME IInv, NEW r \in Reader, NEW c \in Content, Read(r, c)
  PROVE  OneKey'
<1>1. Took(r, c) /\ Came(r, c)
  BY DEF Read
<1> HIDE DEF Idle, Opening, Settling, Empty, Sealed
<1>2. page'.mode = "locked" => page'.key = NoKey
  BY <1>1 DEF Took, Settles, Awaits, Takes, Opens, Decided, IInv, OneKey
<1>3. SUFFICES ASSUME ~page'.hasty
      PROVE  /\ page'.mode = "locked" => ~page'.dirty
             /\ \A q \in Reader : reading'[q].step = "opening" => reading'[q].with = page'.key
             /\ sending'.step = "sealing" =>
                  /\ page'.mode \in {"e2e", "locked"}
                  /\ page'.mode = "e2e" => sending'.content.key = page'.key
             /\ Editable' /\ page'.known # NoKey => page'.mode = "e2e" /\ page'.key = page'.known
  BY <1>2 DEF OneKey
<1>4. ~page.hasty /\ sending' = sending
  BY <1>1, <1>3 DEF Took, SameHistory, Came
<1>5. \A q \in Reader : reading'[q].step = "opening" => reading'[q].with = page'.key
  BY <1>4, Alone, ReaderThen
<1>6. page.mode = "pending" => sending.step = "idle" /\ page.known = NoKey /\ ~page.dirty
  BY Nothings DEF IInv, Unsettled, TypeOK
<1>7. CASE Settles(r, c)
  <2>1. page.mode = "pending"
    BY <1>4, <1>7, Alone DEF Settles
  <2>2. page'.mode = "locked" => ~page'.dirty
    BY <1>6, <1>7, <2>1 DEF Settles, Decided, Keeps
  <2>3. Editable' => page'.known = NoKey
    BY <1>6, <1>7, <2>1 DEF Settles, Decided, Editable
  <2> QED BY <1>4, <1>5, <1>6, <2>1, <2>2, <2>3
<1>8. CASE Awaits(r, c)
  BY <1>4, <1>5, <1>8 DEF Awaits, Keeps, Editable, IInv, OneKey
<1>9. CASE Takes(r, c)
  <2>1. page'.mode = "locked" => ~page'.dirty
    BY <1>4, <1>9 DEF Takes, Shows, Keeps, Blanks, IInv, OneKey
  <2>2. sending.step = "sealing" =>
          page'.mode \in {"e2e", "locked"} /\ (page'.mode = "e2e" => sending.content.key = page'.key)
    BY <1>4, <1>9 DEF Takes, IInv, OneKey
  <2>3. Editable' /\ page'.known # NoKey => page'.mode = "e2e" /\ page'.key = page'.known
    BY <1>4, <1>9 DEF Takes, Editable, IInv, OneKey
  <2> QED BY <1>4, <1>5, <2>1, <2>2, <2>3
<1>10. CASE Opens(r, c)
  <2>1. reading[r].with = page.key /\ page.mode \in {"plain", "e2e"}
    BY <1>4, <1>10, OwnKey
  <2>2. page'.mode = "locked" => ~page'.dirty
    BY <1>10, <2>1 DEF Opens, Blanks
  <2>3. sending.step = "sealing" =>
          page'.mode \in {"e2e", "locked"} /\ (page'.mode = "e2e" => sending.content.key = page'.key)
    BY <1>4, <1>10, <2>1 DEF Opens, IInv, OneKey
  <2>4. Editable' /\ page'.known # NoKey => page'.mode = "e2e" /\ page'.key = page'.known
    BY <1>10, <2>1 DEF Opens, Editable
  <2> QED BY <1>4, <1>5, <2>2, <2>3, <2>4
<1> QED BY <1>1, <1>7, <1>8, <1>9, <1>10 DEF Took

LEMMA ReadGathered ==
  ASSUME IInv, NEW r \in Reader, NEW c \in Content, Read(r, c)
  PROVE  Gathered'
<1>1. Took(r, c) /\ Came(r, c)
  BY DEF Read
<1>2. page'.met = page.met \cup {c.key}
  BY <1>1 DEF Took
<1> HIDE DEF Idle, Opening, Settling, Empty, Sealed
<1>3. boot' # "answered" \/ (boot' = boot /\ r = "socket" /\ reading'["boot"] = reading["boot"])
  BY <1>1 DEF Came, Took, Reader
<1>4. \A q \in Reader :
        reading'[q].step # "idle" => Sealed(reading'[q].content) /\ reading'[q].content.key \in page'.met
  BY <1>2, ReaderThen DEF IInv, Gathered
<1> QED BY <1>2, <1>3, <1>4 DEF IInv, Gathered

LEMMA ReadUntried ==
  ASSUME IInv, NEW r \in Reader, NEW c \in Content, Read(r, c)
  PROVE  Untried'
<1>1. Took(r, c) /\ Came(r, c)
  BY DEF Read
<1> HIDE DEF Idle, Opening, Settling, Empty, Sealed
<1>2. SUFFICES ASSUME ~page'.hasty, page'.mode = "pending"
      PROVE  /\ \A q \in Reader : reading'[q].step = "settling" => reading'[q].keys = page'.had
             /\ (\A q \in Reader : reading'[q].step # "settling") => page'.offered = page'.had
  BY DEF Untried
<1>3. ~page.hasty /\ page'.had = page.had
  BY <1>1, <1>2 DEF Took, SameHistory
<1>4. Awaits(r, c)
  <2>1. ~Settles(r, c) /\ ~Takes(r, c) /\ ~Opens(r, c)
    BY <1>2 DEF Settles, Decided, Takes, Opens
  <2> QED BY <1>1, <2>1 DEF Took
<1>5. \A q \in Reader \ {r} : reading[q].step = "idle" /\ reading'[q].step = "idle"
  BY <1>1, <1>3, Alone DEF Took
<1>6. reading[r].step = "idle" /\ page.mode = "pending"
  BY <1>2, <1>4 DEF Awaits
<1>7. page.offered = page.had
  BY <1>3, <1>5, <1>6 DEF IInv, Untried
<1>8. reading'[r].step = "settling" /\ reading'[r].keys = page.offered
  BY <1>4, Awaiting DEF Awaits
<1> QED BY <1>3, <1>5, <1>7, <1>8

LEMMA ReadHasKey ==
  ASSUME IInv, NEW r \in Reader, NEW c \in Content, Read(r, c)
  PROVE  HasKey'
<1>1. Took(r, c) /\ Came(r, c)
  BY DEF Read
<1> HIDE DEF Idle, Opening, Settling, Empty, Sealed
<1>2. SUFFICES ASSUME ~page'.hasty, page'.mode # "pending", NEW k \in Keys(page'.had), page'.met = {k}
               PROVE  page'.mode = "e2e" /\ page'.key = k
  BY DEF HasKey
<1>3. ~page.hasty /\ page'.had = page.had /\ page'.met = page.met \cup {c.key} /\ c.key = k
  BY <1>1, <1>2 DEF Took, SameHistory
<1>4. page.mode # "pending" => page.mode = "e2e" /\ page.key = k
  BY <1>2, <1>3 DEF IInv, HasKey, Gathered
<1>5. Settles(r, c) \/ Awaits(r, c) =>
        page.mode = "pending" /\ Tried(r) = page.had /\ (Settles(r, c) /\ Sealed(c) => KeyTried(page, c, page.had))
  <2>1. SUFFICES ASSUME Settles(r, c) \/ Awaits(r, c)
                 PROVE  page.mode = "pending" /\ Tried(r) = page.had
    BY DEF Settles
  <2>2. page.mode = "pending" /\ \A q \in Reader \ {r} : reading[q].step = "idle"
    BY <1>3, <2>1, Alone DEF Settles, Awaits
  <2>3. reading[r].step \in {"settling", "idle"}
    BY <2>1 DEF Settles, Awaits, Tries
  <2> QED BY <1>3, <2>2, <2>3 DEF IInv, Untried, Tried
<1>6. k # NoKey => Sealed(c)
  BY <1>3 DEF Sealed
<1>7. k # NoKey
  <2>1. page'.had \in Seq(Candidate)
    BY <1>1 DEF Took, Page
  <2>2. PICK i \in DOMAIN page'.had : k = page'.had[i].key
    BY <1>2 DEF Keys
  <2>3. page'.had[i] \in Candidate
    BY <2>1, <2>2
  <2> QED BY <2>2, <2>3, KeyConstants DEF Candidate
<1>8. CASE Settles(r, c)
  <2>1. page'.key = k /\ k # NoKey
    BY <1>2, <1>3, <1>5, <1>6, <1>7, <1>8 DEF KeyTried
  <2> QED BY <1>6, <1>7, <1>8, <2>1 DEF Settles, Decided
<1>9. ~Awaits(r, c)
  BY <1>2, <1>5 DEF Awaits
<1>10. CASE Takes(r, c)
  BY <1>4, <1>6, <1>7, <1>10 DEF Takes
<1>11. CASE Opens(r, c)
  BY <1>3, <1>4, <1>11, OwnKey DEF Opens
<1> QED BY <1>1, <1>8, <1>9, <1>10, <1>11 DEF Took

LEMMA ReadMirrors ==
  ASSUME IInv, NEW r \in Reader, NEW c \in Content, Read(r, c)
  PROVE  Latest' /\ Mirrors'
<1>1. Took(r, c) /\ Came(r, c)
  BY DEF Read
<1> HIDE DEF Idle, Opening, Settling, Empty, Sealed
<1>2. stored' = stored /\ up' = up /\ page'.crossed = page.crossed /\ page'.hasty = page.hasty
  BY <1>1 DEF Came, Took, SameHistory
<1>3. Latest'
  BY <1>1, <1>2, ReaderThen DEF Came, Took, Reader, IInv, Latest
<1>4. Mirrors'
  <2>1. SUFFICES ASSUME ~page.hasty, up, ~page.crossed, inbox' = <<>>, reading'["socket"].step = "idle"
                 PROVE  IF Sealed(stored) /\ page'.mode = "locked" THEN page'.sealed = stored.key
                        ELSE /\ ~page'.dirty => page'.text = stored.text
                             /\ Sealed(stored) => page'.mode = "e2e" /\ page'.key = stored.key
    BY <1>2 DEF Mirrors, Caught, Sealed
  <2>2. r = "socket"
    BY <2>1, Alone DEF Reader
  <2>3. c = stored
    BY <1>1, <2>1, <2>2 DEF Came
  <2>4. CASE Settles(r, c)
    BY <2>1, <2>2, <2>3, <2>4, Awaiting DEF Settles, Decided, Shows
  <2>5. CASE Awaits(r, c)
    BY <2>1, <2>2, <2>5, Awaiting DEF Awaits
  <2>6. CASE Takes(r, c)
    BY <2>1, <2>2, <2>3, <2>6, Awaiting DEF Takes, Shows
  <2>7. CASE Opens(r, c)
    <3>1. Sealed(c)
      BY <1>1, <2>7 DEF Opens, Came, IInv, Gathered
    <3>2. CASE reading[r].with = c.key
      BY <2>1, <2>3, <2>7, <3>2, OwnKey DEF Opens, Shows
    <3>3. CASE reading[r].with # c.key
      BY <2>3, <2>7, <3>1, <3>3 DEF Opens
    <3> QED BY <3>2, <3>3
  <2> QED BY <1>1, <2>4, <2>5, <2>6, <2>7 DEF Took
<1> QED BY <1>3, <1>4

LEMMA ReadKept ==
  ASSUME IInv, NEW r \in Reader, NEW c \in Content, Read(r, c)
  PROVE  IInv'
BY ReadTypes, ReadUnsettled, ReadOneKey, ReadGathered, ReadUntried, ReadHasKey, ReadMirrors DEF IInv

\* The page, given `c` to read.
Gets(p, c) ==
  /\ p \in Page /\ SameHistory(page, p) /\ p.met = page.met \cup {c.key}
  /\ p.mode = page.mode /\ p.key = page.key /\ p.text = page.text /\ p.dirty = page.dirty
  /\ p.offered = page.offered /\ p.address = page.address /\ p.known = page.known

LEMMA GivenPage ==
  ASSUME page \in Page, NEW c \in Content
  PROVE  Gets(Given(page, c), c)
<1>1. c.key \in Key \cup {NoKey}
  BY DEF Content
<1>2. Given(page, c) = [page EXCEPT !.met = page.met \cup {c.key}] /\ page.met \cup {c.key} \in SUBSET (Key \cup {NoKey})
  BY <1>1 DEF Given, Page
<1> QED BY <1>2 DEF Gets, Page, SameHistory

LEMMA SamePastMet ==
  ASSUME NEW p, NEW q, SamePast(p, q)
  PROVE  SameHistory(p, q) /\ q.met = p.met
BY DEF SamePast

LEMMA FirstTakes ==
  ASSUME IInv, NEW r \in Reader, NEW c \in Content, NEW p, Gets(p, c), First(r, p, c),
         reading[r].step = "idle", page.mode = "pending" \/ r = "boot"
  PROVE  Took(r, c)
<1> DEFINE q == [p EXCEPT !.offered = <<>>]
<1>1. /\ q \in Page /\ q.offered = <<>> /\ q.mode = page.mode /\ q.key = page.key /\ q.known = page.known
      /\ q.text = page.text /\ q.dirty = page.dirty /\ q.address = page.address
      /\ SameHistory(page, q) /\ q.met = page.met \cup {c.key}
  <2>1. <<>> \in Seq(Candidate)
    OBVIOUS
  <2> QED BY <2>1 DEF Gets, Page, SameHistory
<1>2. Few(page.offered) /\ Honest(page.offered) /\ q.address \notin PassKey /\ p.offered = page.offered
  BY <1>1 DEF IInv, Offers, Sources, Gets
<1>3. Settling(c, page.offered) \in Reading
  BY <1>2, KeyConstants DEF Settling, Reading, Few
<1>4. Tries(r) /\ Tried(r) = page.offered
  BY DEF Tries, Tried
<1>5. /\ reading \in [Reader -> Reading]
      /\ device \in [key : Key \cup {NoKey}, link : BOOLEAN] /\ (device.link => device.key \notin PassKey)
  BY DEF IInv, TypeOK, Sources
<1> HIDE DEF q, Idle, Opening, Settling, Sealed
<1>6. CASE page.offered # <<>> /\ Sealed(c)
  <2>1. page' = q /\ reading' = [reading EXCEPT ![r] = Settling(c, page.offered)] /\ device' = device
    BY <1>2, <1>6 DEF First, q
  <2>2. /\ reading' \in [Reader -> Reading] /\ reading'[r] = Settling(c, page.offered)
        /\ \A o \in Reader \ {r} : reading'[o] = reading[o]
    BY <1>3, <1>5, <2>1
  <2>3. Awaits(r, c)
    BY <1>1, <1>4, <1>6, <2>1, <2>2 DEF Awaits, Keeps
  <2> QED BY <1>1, <1>2, <1>5, <2>1, <2>2, <2>3 DEF Took
<1>7. CASE ~(page.offered # <<>> /\ Sealed(c))
  <2>1. Decide(r, q, c, page.offered)
    BY <1>2, <1>7 DEF First, q
  <2>2. /\ page' \in Page /\ page'.address \notin PassKey
        /\ page'.offered = q.offered /\ SamePast(q, page')
        /\ KeyTried(q, c, page.offered)
        /\ device' \in [key : Key \cup {NoKey}, link : BOOLEAN] /\ (device'.link => device'.key \notin PassKey)
        /\ reading' \in [Reader -> Reading]
        /\ \A o \in Reader \ {r} : reading'[o] = reading[o]
        /\ Decided(r, q, c)
    BY <1>1, <1>2, <1>5, <2>1, DecideDoes
  <2>3. KeyTried(page, c, page.offered) /\ Decided(r, page, c)
    BY <1>1, <2>2 DEF KeyTried, Decided, Shows, Keeps
  <2>4. Settles(r, c)
    BY <1>1, <1>4, <1>7, <2>2, <2>3 DEF Settles
  <2>5. SameHistory(page, page') /\ page'.met = page.met \cup {c.key}
    BY <1>1, <2>2, SamePastMet DEF SameHistory
  <2> QED BY <2>2, <2>4, <2>5 DEF Took
<1> QED BY <1>6, <1>7

LEMMA AnsweredKept ==
  ASSUME IInv, Answered
  PROVE  IInv'
<1> DEFINE c == reading["boot"].content
<1>1. /\ boot = "answered" /\ boot' = "reading" /\ First("boot", page, c)
      /\ UNCHANGED <<stored, seed, copy, inbox, up, sending, texts, loads>>
  BY DEF Answered
<1>2. c \in Content /\ reading["boot"].step = "idle" /\ page \in Page /\ inbox \in Seq(Content)
  BY <1>1 DEF IInv, TypeOK, Reading, Order, Reader
<1>3. c.key \in page.met
  BY <1>1 DEF IInv, Gathered
<1> HIDE DEF c
<1>4. Gets(page, c)
  BY <1>2, <1>3 DEF Gets, SameHistory
<1>5. Took("boot", c)
  BY <1>1, <1>2, <1>4, FirstTakes DEF Reader
<1>6. Came("boot", c)
  BY <1>1, <1>2 DEF Came
<1> QED BY <1>2, <1>5, <1>6, ReadKept DEF Read, Reader

LEMMA ReceiveKept ==
  ASSUME IInv, Receive
  PROVE  IInv'
<1> DEFINE c == Head(inbox)
<1>1. /\ inbox \in Seq(Content) /\ inbox # <<>> /\ inbox' = Tail(inbox) /\ reading["socket"].step = "idle"
      /\ UNCHANGED <<stored, seed, copy, boot, up, sending, texts, loads>>
  BY DEF Receive, IInv, TypeOK
<1>2. Len(inbox) \in Nat \ {0} /\ c = inbox[1] /\ c \in Content
  BY <1>1
<1>3. /\ inbox' \in Seq(Content) /\ Len(inbox') = Len(inbox) - 1
      /\ \A i \in 1..(Len(inbox) - 1) : inbox'[i] = inbox[i + 1]
  BY <1>1
<1>4. (inbox' # <<>> => inbox'[Len(inbox')] = inbox[Len(inbox)]) /\ (inbox' = <<>> => c = inbox[Len(inbox)])
  <2>1. inbox' # <<>> => Len(inbox') > 0
    BY <1>3
  <2>2. inbox' = <<>> => Len(inbox') = 0
    BY <1>3
  <2>3. (Len(inbox) - 1) + 1 = Len(inbox)
    BY <1>2
  <2> QED BY <1>2, <1>3, <2>1, <2>2, <2>3
<1>5. up
  BY <1>1 DEF IInv, Order
<1>6. page \in Page /\ reading \in [Reader -> Reading] /\ Gets(Given(page, c), c)
  BY <1>2, GivenPage DEF IInv, TypeOK
<1>7. Took("socket", c)
  <2>1. CASE page.mode = "pending"
    <3>1. First("socket", Given(page, c), c)
      BY <2>1 DEF Receive
    <3> HIDE DEF c
    <3> QED BY <1>1, <1>2, <1>6, <2>1, <3>1, FirstTakes DEF Reader
  <2>2. CASE page.mode # "pending"
    <3> DEFINE p == Given(page, c)
    <3>1. Incoming("socket", p, c) /\ device' = device
      BY <2>2 DEF Receive
    <3>2. Gets(p, c)
      BY <1>6
    <3> HIDE DEF p, c, Idle, Opening, Sealed
    <3>3. /\ page' \in Page
          /\ page'.address = p.address /\ page'.offered = p.offered /\ SamePast(p, page')
          /\ reading' \in [Reader -> Reading]
          /\ \A q \in Reader \ {"socket"} : reading'[q] = reading[q]
          /\ \/ /\ ~Sealed(c) /\ page'.mode = p.mode /\ page'.key = p.key /\ reading'["socket"] = Idle
                /\ page'.known = NoKey /\ Shows(p, c.text)
             \/ /\ Sealed(c) /\ p.key = NoKey /\ page'.mode = "locked" /\ page'.key = NoKey
                /\ reading'["socket"] = Idle
                /\ page'.sealed = c.key /\ page'.known = c.key /\ Blanks(p)
             \/ Sealed(c) /\ p.key # NoKey /\ page' = p /\ reading'["socket"] = Opening(c, p.key)
      BY <1>2, <1>6, <3>1, <3>2, IncomingDoes DEF Gets, Reader
    <3>4. Takes("socket", c)
      BY <1>1, <2>2, <3>2, <3>3 DEF Takes, Gets, Keeps, Shows, Blanks
    <3>5. SameHistory(page, page') /\ page'.met = page.met \cup {c.key}
      BY <3>2, <3>3, SamePastMet DEF Gets, SameHistory
    <3>6. page'.address \notin PassKey /\ device' \in [key : Key \cup {NoKey}, link : BOOLEAN]
          /\ (device'.link => device'.key \notin PassKey)
      BY <3>1, <3>2, <3>3 DEF Gets, IInv, TypeOK, Sources
    <3> QED BY <3>3, <3>4, <3>5, <3>6 DEF Took
  <2> QED BY <2>1, <2>2
<1> HIDE DEF c
<1>8. Came("socket", c)
  <2>1. ~page.crossed => inbox[Len(inbox)] = stored
    BY <1>1, <1>5 DEF IInv, Latest
  <2> QED BY <1>1, <1>3, <1>4, <1>5, <2>1 DEF Came
<1> QED BY <1>2, <1>7, <1>8, ReadKept DEF Read, Reader

LEMMA SettleTakes ==
  ASSUME IInv, NEW r \in Reader, Settle(r)
  PROVE  Took(r, reading[r].content)
<1> DEFINE c == reading[r].content
           keys == reading[r].keys
<1>1. Decide(r, page, c, keys) /\ reading[r].step = "settling"
  BY DEF Settle
<1>2. Few(keys) /\ Honest(keys) /\ page.address \notin PassKey /\ page \in Page /\ c \in Content /\ c.key \in page.met
  BY <1>1 DEF IInv, TypeOK, Offers, Sources, Reading, Gathered
<1>3. /\ reading \in [Reader -> Reading]
      /\ device \in [key : Key \cup {NoKey}, link : BOOLEAN] /\ (device.link => device.key \notin PassKey)
  BY DEF IInv, TypeOK, Sources
<1>4. Tries(r) /\ Tried(r) = keys
  BY <1>1 DEF Tries, Tried
<1> HIDE DEF c, keys, Idle, Opening, Sealed
<1>5. /\ page' \in Page /\ page'.address \notin PassKey
      /\ page'.offered = page.offered /\ SamePast(page, page')
      /\ KeyTried(page, c, keys)
      /\ device' \in [key : Key \cup {NoKey}, link : BOOLEAN] /\ (device'.link => device'.key \notin PassKey)
      /\ reading' \in [Reader -> Reading]
      /\ \A o \in Reader \ {r} : reading'[o] = reading[o]
      /\ Decided(r, page, c)
  BY <1>1, <1>2, <1>3, DecideDoes
<1>6. Settles(r, c)
  BY <1>1, <1>4, <1>5 DEF Settles
<1>7. SameHistory(page, page') /\ page'.met = page.met \cup {c.key}
  BY <1>2, <1>5, SamePastMet
<1> QED BY <1>5, <1>6, <1>7 DEF Took, c

LEMMA OpenedTakes ==
  ASSUME IInv, NEW r \in Reader, Opened(r)
  PROVE  Took(r, reading[r].content)
<1> DEFINE c == reading[r].content
           a == [page EXCEPT !.mode = "e2e"]
           p == [a EXCEPT !.known = c.key]
<1>1. /\ reading[r].step = "opening" /\ device' = device
      /\ page' = IF reading[r].with = c.key THEN Applied(p, c.text) ELSE Locked(page, c)
      /\ reading' = [reading EXCEPT ![r] = Idle]
  BY DEF Opened
<1>2. c \in Content /\ c.text \in 0..MaxText /\ c.key \in Key \cup {NoKey} /\ page \in Page /\ c.key \in page.met
  BY <1>1 DEF IInv, TypeOK, Reading, Content, Gathered
<1>3. /\ a \in Page /\ a.mode = "e2e" /\ a.key = page.key /\ a.offered = page.offered
      /\ a.address = page.address /\ SamePast(page, a) /\ a.text = page.text /\ a.dirty = page.dirty
  BY <1>2 DEF Page, SamePast, SameHistory
<1>4. /\ p \in Page /\ p.mode = "e2e" /\ p.key = page.key /\ p.offered = page.offered /\ p.known = c.key
      /\ p.address = page.address /\ SamePast(page, p) /\ p.text = page.text /\ p.dirty = page.dirty
  <2> HIDE DEF a, c
  <2> QED BY <1>2, <1>3 DEF Page, SamePast, SameHistory
<1>5. /\ reading' \in [Reader -> Reading] /\ reading'[r] = Idle
      /\ \A q \in Reader \ {r} : reading'[q] = reading[q]
      /\ device' \in [key : Key \cup {NoKey}, link : BOOLEAN] /\ (device'.link => device'.key \notin PassKey)
      /\ page.address \notin PassKey
  BY <1>1, Nothings DEF IInv, TypeOK, Sources
<1> HIDE DEF c, p, Idle, Applied, Locked
<1>6. CASE reading[r].with = c.key
  <2>1. page' = Applied(p, c.text)
    BY <1>1, <1>6
  <2>2. /\ page' \in Page /\ page'.mode = "e2e" /\ page'.key = page.key /\ page'.known = c.key
        /\ page'.offered = page.offered /\ page'.address = page.address /\ SamePast(p, page')
        /\ Shows(page, c.text)
    BY <1>2, <1>4, <2>1, AppliedPage DEF Shows
  <2>3. SameHistory(page, page') /\ page'.met = page.met \cup {c.key}
    BY <1>2, <1>4, <2>2, SamePastMet DEF SameHistory
  <2>4. Opens(r, c)
    BY <1>1, <1>5, <1>6, <2>2 DEF Opens
  <2> QED BY <1>5, <2>2, <2>3, <2>4 DEF Took, c
<1>7. CASE reading[r].with # c.key
  <2>1. page' = Locked(page, c)
    BY <1>1, <1>7
  <2>2. /\ page' \in Page /\ page'.mode = "locked" /\ page'.key = NoKey /\ page'.sealed = c.key
        /\ page'.known = c.key /\ page'.offered = page.offered /\ page'.address = page.address
        /\ SamePast(page, page') /\ Blanks(page)
    BY <1>2, <2>1, LockedPage DEF Blanks, Keeps
  <2>3. SameHistory(page, page') /\ page'.met = page.met \cup {c.key}
    BY <1>2, <2>2, SamePastMet
  <2>4. Opens(r, c)
    BY <1>1, <1>5, <1>7, <2>2 DEF Opens
  <2> QED BY <1>5, <2>2, <2>3, <2>4 DEF Took, c
<1> QED BY <1>6, <1>7

LEMMA AwaitKept ==
  ASSUME IInv, NEW r \in Reader, Settle(r) \/ Opened(r)
  PROVE  IInv'
<1> DEFINE c == reading[r].content
<1>1. /\ UNCHANGED <<stored, seed, copy, boot, inbox, up, sending, texts, loads>>
      /\ reading[r].step # "idle"
  BY DEF Settle, Opened
<1>2. /\ c \in Content /\ (r = "boot" => boot = "reading") /\ (r = "socket" => up)
      /\ inbox \in Seq(Content)
      /\ r = "socket" /\ ~page.crossed =>
           (inbox # <<>> => inbox[Len(inbox)] = stored) /\ (inbox = <<>> => c = stored)
  BY <1>1 DEF IInv, TypeOK, Reading, Order, Latest
<1>3. Took(r, c)
  BY SettleTakes, OpenedTakes
<1>4. Came(r, c)
  BY <1>1, <1>2 DEF Came
<1> HIDE DEF c
<1> QED BY <1>2, <1>3, <1>4, ReadKept DEF Read

-----------------------------------------------------------------------------
(* The bootstrap *)

\* The page is loaded, or left.
LEMMA LoadKept ==
  ASSUME IInv, (\E link \in LinkKey \cup {NoKey} : Open(link)) \/ (\E k \in PassKey : Unlock(k)) \/ Close
  PROVE  IInv'
<1>1. PICK link \in LinkKey \cup {NoKey} : page' = Fresh(link)
  BY DEF Open, Unlock, Close
<1>2. device' = device \/ (\E k \in PassKey : device' = [key |-> k, link |-> FALSE])
  BY DEF Open, Unlock, Close
<1>3. /\ device' \in [key : Key \cup {NoKey}, link : BOOLEAN]
      /\ device'.link => device'.key \notin PassKey
  <2>1. CASE device' = device
    BY <2>1 DEF IInv, TypeOK, Sources
  <2>2. ASSUME NEW k \in PassKey, device' = [key |-> k, link |-> FALSE]
        PROVE  device' \in [key : Key \cup {NoKey}, link : BOOLEAN] /\ ~device'.link
    BY <2>2 DEF Key
  <2> QED BY <1>2, <2>1, <2>2
<1>4. loads' \in 0..MaxLoads
  <2>1. loads' = loads \/ (loads' = loads + 1 /\ loads < MaxLoads)
    BY DEF Open, Unlock, Close
  <2> QED BY <2>1, KeyConstants DEF IInv, TypeOK
<1>5. boot' \in {"keys", "closed"} /\ UNCHANGED <<stored, seed, copy, texts>>
  BY DEF Open, Unlock, Close
<1>6. reading' = [r \in Reader |-> Idle] /\ inbox' = <<>> /\ up' = FALSE /\ sending' = Silent
  BY DEF Open, Unlock, Close, Unloaded
<1>7. reading' \in [Reader -> Reading] /\ \A r \in Reader : reading'[r] = Idle
  BY <1>6, Nothings
<1>8. <<>> \in Seq(Content)
  OBVIOUS
<1> HIDE DEF Fresh, Idle, Empty, Silent
<1>9. TypeOK'
  BY <1>1, <1>3, <1>4, <1>5, <1>6, <1>7, <1>8, FreshPage, Awaiting, Nothings DEF IInv, TypeOK
<1>10. Offers' /\ Sources'
  BY <1>1, <1>3, <1>7, FreshPage, Awaiting, NothingOffered DEF Offers, Sources
<1>11. Order' /\ Unsettled' /\ OneKey'
  BY <1>1, <1>5, <1>6, <1>7, FreshPage, Awaiting, Nothings DEF Order, Unsettled, OneKey, Reader, Editable
<1>12. Gathered' /\ Untried' /\ HasKey' /\ Latest' /\ Mirrors'
  BY <1>1, <1>5, <1>6, <1>7, FreshPage, Awaiting DEF Gathered, Untried, HasKey, Latest, Mirrors, Reader
<1> QED BY <1>9, <1>10, <1>11, <1>12 DEF IInv

LEMMA ImportKept ==
  ASSUME IInv, ImportKeys
  PROVE  IInv'
<1> DEFINE one == IF page.address = NoKey THEN <<>>
                  ELSE <<[key |-> page.address, pinned |-> FALSE, link |-> TRUE]>>
           two == IF device.key \in {NoKey, page.address} THEN <<>>
                  ELSE <<[key |-> device.key, pinned |-> TRUE, link |-> device.link]>>
           half == [page EXCEPT !.offered = one \o two]
<1>1. page' = [half EXCEPT !.had = one \o two]
  BY DEF ImportKeys
<1>2. one \in Seq(Candidate) /\ Len(one) <= 1 /\ Honest(one)
  <2>1. CASE page.address = NoKey
    BY <2>1, NothingOffered DEF Few
  <2>2. CASE page.address # NoKey
    <3>1. [key |-> page.address, pinned |-> FALSE, link |-> TRUE] \in Candidate
      BY <2>2 DEF IInv, TypeOK, Page, Candidate
    <3>2. one = <<[key |-> page.address, pinned |-> FALSE, link |-> TRUE]>>
      BY <2>2
    <3>3. page.address \notin PassKey
      BY DEF IInv, Sources
    <3> QED BY <3>1, <3>2, <3>3, OneOffered
  <2> QED BY <2>1, <2>2
<1>3. two \in Seq(Candidate) /\ Len(two) <= 1 /\ Honest(two)
  <2>1. CASE device.key \in {NoKey, page.address}
    BY <2>1, NothingOffered DEF Few
  <2>2. CASE device.key \notin {NoKey, page.address}
    <3>1. [key |-> device.key, pinned |-> TRUE, link |-> device.link] \in Candidate
      BY <2>2 DEF IInv, TypeOK, Candidate
    <3>2. two = <<[key |-> device.key, pinned |-> TRUE, link |-> device.link]>>
      BY <2>2
    <3>3. device.link => device.key \notin PassKey
      BY DEF IInv, Sources
    <3> QED BY <3>1, <3>2, <3>3, OneOffered
  <2> QED BY <2>1, <2>2
<1> HIDE DEF one, two
<1>4. one \o two \in Seq(Candidate) /\ Len(one \o two) <= 2 /\ Honest(one \o two)
  BY <1>2, <1>3 DEF Honest
<1>5. /\ half \in Page /\ half.offered = one \o two
      /\ half.mode = page.mode /\ half.key = page.key /\ half.text = page.text /\ half.dirty = page.dirty
      /\ half.address = page.address /\ half.hasty = page.hasty /\ half.known = page.known
      /\ half.crossed = page.crossed /\ half.sealed = page.sealed /\ half.met = page.met
  BY <1>4 DEF IInv, TypeOK, Page
<1> HIDE DEF half
<1>6. /\ page' \in Page /\ page'.offered = one \o two /\ page'.had = one \o two
      /\ page'.mode = page.mode /\ page'.key = page.key /\ page'.text = page.text /\ page'.dirty = page.dirty
      /\ page'.address = page.address /\ page'.hasty = page.hasty /\ page'.known = page.known
      /\ page'.crossed = page.crossed /\ page'.sealed = page.sealed /\ page'.met = page.met
  BY <1>1, <1>4, <1>5 DEF Page
<1>7. UNCHANGED <<stored, seed, copy, device, reading, inbox, up, sending, texts, loads>>
      /\ boot = "keys" /\ boot' = "fetch"
  BY DEF ImportKeys
<1>8. TypeOK' /\ Offers' /\ Sources'
  BY <1>4, <1>6, <1>7 DEF IInv, TypeOK, Offers, Few, Sources
<1>9. Order' /\ Unsettled' /\ OneKey' /\ Gathered'
  BY <1>6, <1>7 DEF IInv, Order, Unsettled, OneKey, Gathered, Editable
<1>10. Untried' /\ HasKey'
  <2>1. ~page'.hasty => ~up /\ page.mode = "pending" /\ \A r \in Reader : reading[r].step = "idle"
    BY <1>6, <1>7 DEF IInv, Order, Unsettled, Reader
  <2> QED BY <1>6, <1>7, <2>1 DEF Untried, HasKey
<1>11. Latest' /\ Mirrors'
  BY <1>6, <1>7 DEF IInv, Latest, Mirrors, Caught
<1> QED BY <1>8, <1>9, <1>10, <1>11 DEF IInv

\* What the page is given while it waits for the bootstrap's answer.
LEMMA FetchGives ==
  ASSUME IInv, NEW c \in Content, NEW p \in Page,
         Gets(p, c) /\ p.sealed = page.sealed,
         boot = "fetch", boot' = "answered", page' = p,
         reading' = [reading EXCEPT !["boot"].content = c], copy' \in SUBSET Content,
         UNCHANGED <<stored, seed, device, inbox, up, sending, texts, loads>>
  PROVE  IInv'
<1>1. /\ reading' \in [Reader -> Reading] /\ reading'["socket"] = reading["socket"]
      /\ \A r \in Reader : /\ reading'[r].step = reading[r].step /\ reading'[r].keys = reading[r].keys
                           /\ reading'[r].with = reading[r].with
      /\ reading'["boot"].content = c /\ reading["boot"].step = "idle"
  BY DEF IInv, TypeOK, Reading, Reader, Order
<1>2. TypeOK' /\ Offers' /\ Sources'
  BY <1>1 DEF Gets, IInv, TypeOK, Offers, Sources
<1>3. Order' /\ Unsettled' /\ OneKey'
  BY <1>1 DEF Gets, SameHistory, IInv, Order, Unsettled, OneKey, Editable
<1>4. page'.met = page.met \cup {c.key}
  BY DEF Gets
<1> HIDE DEF Sealed
<1>5. Gathered'
  BY <1>1, <1>4 DEF IInv, Gathered, Reader
<1>6. Untried' /\ HasKey'
  <2>1. ~page'.hasty => page'.mode = "pending"
    BY DEF Gets, SameHistory, IInv, Unsettled
  <2> QED BY <1>1, <2>1 DEF Gets, SameHistory, IInv, Untried, HasKey
<1>7. Latest'
  BY <1>1 DEF Gets, SameHistory, IInv, Latest
<1>8. Mirrors'
  <2>1. ~page'.hasty => ~up
    BY DEF Gets, SameHistory, IInv, Order
  <2> QED BY <2>1 DEF Mirrors
<1> QED BY <1>2, <1>3, <1>5, <1>6, <1>7, <1>8 DEF IInv

LEMMA FetchKept ==
  ASSUME IInv, Fetch
  PROVE  IInv'
<1>1. boot = "fetch" /\ UNCHANGED <<stored, seed, device, inbox, up, sending, texts, loads>>
  BY DEF Fetch
<1>2. page \in Page /\ stored \in Content /\ copy \in SUBSET Content
  BY DEF IInv, TypeOK
<1>3. \A c \in Content : Given(page, c) \in Page /\ Given(page, c).sealed = page.sealed
  <2> TAKE c \in Content
  <2>1. c.key \in Key \cup {NoKey}
    BY DEF Content
  <2>2. Given(page, c) = [page EXCEPT !.met = page.met \cup {c.key}]
        /\ page.met \cup {c.key} \in SUBSET (Key \cup {NoKey})
    BY <1>2, <2>1 DEF Given, Page
  <2> QED BY <1>2, <2>2 DEF Page
<1>4. \/ /\ boot' = "answered" /\ reading' = [reading EXCEPT !["boot"].content = stored]
         /\ page' = Given(page, stored) /\ copy' \in {copy, {stored}}
      \/ /\ boot' = "answered" /\ copy' = copy
         /\ \E c \in copy :
              /\ reading' = [reading EXCEPT !["boot"].content = c]
              /\ page' = Given(page, c)
      \/ boot' = "meta" /\ UNCHANGED <<reading, page, copy>>
  BY DEF Fetch
<1>5. CASE /\ boot' = "answered" /\ reading' = [reading EXCEPT !["boot"].content = stored]
           /\ page' = Given(page, stored) /\ copy' \in {copy, {stored}}
  BY <1>1, <1>2, <1>3, <1>5, GivenPage, FetchGives
<1>6. ASSUME NEW c \in copy, boot' = "answered", copy' = copy,
             reading' = [reading EXCEPT !["boot"].content = c],
             page' = Given(page, c)
      PROVE  IInv'
  <2>1. c \in Content
    BY <1>2
  <2> QED BY <1>1, <1>2, <1>3, <1>6, <2>1, GivenPage, FetchGives
<1>7. CASE boot' = "meta" /\ UNCHANGED <<reading, page, copy>>
  <2>1. TypeOK' /\ Offers' /\ Sources'
    BY <1>1, <1>7 DEF IInv, TypeOK, Offers, Sources
  <2>2. Order' /\ Unsettled' /\ OneKey' /\ Gathered' /\ Untried' /\ HasKey' /\ Latest' /\ Mirrors'
    BY <1>1, <1>7 DEF IInv, Order, Unsettled, OneKey, Gathered, Untried, HasKey, Latest, Mirrors,
                      Editable, Caught
  <2> QED BY <2>1, <2>2 DEF IInv
<1> QED BY <1>4, <1>5, <1>6, <1>7

LEMMA MetaKept ==
  ASSUME IInv, LoadFileMeta
  PROVE  IInv'
<1>1. /\ boot = "reading" /\ boot' = "meta" /\ reading["boot"].step = "idle"
      /\ UNCHANGED <<stored, seed, copy, device, page, reading, inbox, up, sending, texts, loads>>
  BY DEF LoadFileMeta
<1>2. TypeOK' /\ Offers' /\ Sources'
  BY <1>1 DEF IInv, TypeOK, Offers, Sources
<1>3. Order' /\ Unsettled' /\ OneKey' /\ Gathered' /\ Untried' /\ HasKey' /\ Latest' /\ Mirrors'
  BY <1>1 DEF IInv, Order, Unsettled, OneKey, Gathered, Untried, HasKey, Latest, Mirrors, Editable, Caught
<1> QED BY <1>2, <1>3 DEF IInv

\* Connect and Online: the page has a socket.
LEMMA JoinKept ==
  ASSUME IInv, Connect \/ Online
  PROVE  IInv'
<1>1. /\ page' \in Page /\ page'.offered = page.offered /\ page'.mode = page.mode
      /\ page'.key = page.key /\ page'.address = page.address /\ page'.known = page.known
      /\ page'.text = page.text /\ page'.dirty = page.dirty /\ page'.sealed = page.sealed
      /\ page'.met = page.met /\ page'.had = page.had /\ page'.crossed = page.crossed
  <2>1. page \in Page
    BY DEF IInv, TypeOK
  <2>2. CASE Connect
    BY <2>1, <2>2 DEF Connect
  <2>3. CASE Online
    <3> DEFINE hasty == boot # "meta"
    <3>1. page' = [page EXCEPT !.hasty = hasty] /\ hasty \in BOOLEAN
      BY <2>3 DEF Online
    <3> HIDE DEF hasty
    <3> QED BY <2>1, <3>1 DEF Page
  <2> QED BY <2>2, <2>3
<1>2. UNCHANGED <<stored, seed, copy, device, reading, sending, texts, loads>> /\ Join
  BY DEF Connect, Online
<1>3. inbox' \in Seq(Content) /\ (up => inbox' = inbox) /\ (~up => inbox' = <<stored>>)
  <2>1. stored \in Content /\ inbox \in Seq(Content)
    BY DEF IInv, TypeOK
  <2>2. <<stored>> \in Seq(Content)
    BY <2>1
  <2> QED BY <1>2, <2>1, <2>2 DEF Join
<1>4. /\ boot' \in {"keys", "fetch", "answered", "reading", "meta", "done"}
      /\ boot' = "reading" <=> boot = "reading"
      /\ boot' \in {"keys", "fetch", "answered"} => boot' = boot
  BY DEF Connect, Online, IInv, TypeOK
<1>5. ~page'.hasty => ~page.hasty /\ boot' \in {"meta", "done"}
  <2>1. CASE Connect
    BY <2>1 DEF Connect, IInv, Order
  <2>2. CASE Online
    <3>1. boot' = boot /\ page'.hasty = (boot # "meta") /\ ~up
      BY <2>2 DEF Online, IInv, TypeOK, Page
    <3> QED BY <3>1 DEF IInv, Order
  <2> QED BY <2>1, <2>2
<1>6. up'
  BY <1>2 DEF Join
<1>7. ~up => inbox' # <<>> /\ Len(inbox') = 1 /\ inbox'[1] = stored
  <2>1. <<stored>> # <<>> /\ Len(<<stored>>) = 1 /\ <<stored>>[1] = stored
    OBVIOUS
  <2> QED BY <1>3, <2>1
<1> HIDE DEF Join
<1>8. TypeOK' /\ Offers' /\ Sources'
  BY <1>1, <1>2, <1>3, <1>4, <1>6 DEF IInv, TypeOK, Offers, Sources
<1>9. Order' /\ Unsettled' /\ OneKey'
  BY <1>1, <1>2, <1>4, <1>5, <1>6 DEF IInv, Order, Unsettled, OneKey, Editable
<1>10. Gathered'
  BY <1>1, <1>2, <1>4 DEF IInv, Gathered
<1>11. Untried' /\ HasKey'
  BY <1>1, <1>2, <1>5 DEF IInv, Untried, HasKey
<1>12. Latest' /\ Mirrors'
  BY <1>1, <1>2, <1>3, <1>5, <1>7 DEF IInv, Latest, Mirrors, Caught
<1> QED BY <1>8, <1>9, <1>10, <1>11, <1>12 DEF IInv

-----------------------------------------------------------------------------
(* Writing *)

\* What is shown changes, and what is to be sent, but not how it is read.
SameReading ==
  /\ page' \in Page /\ page'.mode = page.mode /\ page'.key = page.key /\ page'.offered = page.offered
  /\ page'.address = page.address /\ page'.sealed = page.sealed /\ page'.known = page.known
  /\ page'.met = page.met /\ page'.had = page.had /\ page'.hasty = page.hasty

LEMMA WrittenKept ==
  ASSUME IInv, SameReading,
         device' \in [key : Key \cup {NoKey}, link : BOOLEAN], device'.link => device'.key \notin PassKey,
         UNCHANGED <<boot, reading, up>>, ~up => inbox' = inbox,
         page.mode = "pending" => sending' = Silent
  PROVE  Offers' /\ Sources' /\ Order' /\ Unsettled' /\ Gathered' /\ Untried' /\ HasKey'
<1>1. Offers' /\ Sources'
  BY DEF SameReading, IInv, Offers, Sources
<1>2. Order' /\ Unsettled'
  BY DEF SameReading, IInv, Order, Unsettled
<1>3. page'.met = page.met
  BY DEF SameReading
<1>4. Gathered' /\ Untried' /\ HasKey'
  BY <1>3 DEF SameReading, IInv, Gathered, Untried, HasKey
<1> QED BY <1>1, <1>2, <1>4

LEMMA TypeKept ==
  ASSUME IInv, Type
  PROVE  IInv'
<1>1. /\ Editable /\ texts < MaxText /\ texts' = texts + 1
      /\ UNCHANGED <<stored, seed, copy, device, boot, reading, inbox, up, sending, loads>>
  BY DEF Type
<1>2. texts' \in 0..MaxText
  BY <1>1, KeyConstants DEF IInv, TypeOK
<1>3. SameReading /\ page'.dirty /\ page'.crossed = page.crossed
  <2> DEFINE half == [page EXCEPT !.text = texts + 1]
  <2>1. /\ half \in Page /\ half.mode = page.mode /\ half.key = page.key /\ half.offered = page.offered
        /\ half.address = page.address /\ half.sealed = page.sealed /\ half.known = page.known
        /\ half.met = page.met /\ half.had = page.had /\ half.hasty = page.hasty
        /\ half.crossed = page.crossed
    BY <1>1, <1>2 DEF IInv, TypeOK, Page
  <2>2. page' = [half EXCEPT !.dirty = TRUE]
    BY DEF Type
  <2> HIDE DEF half
  <2> QED BY <2>1, <2>2 DEF Page, SameReading
<1>4. TypeOK'
  BY <1>1, <1>2, <1>3 DEF SameReading, IInv, TypeOK, Editable
<1>5. Offers' /\ Sources' /\ Order' /\ Unsettled' /\ Gathered' /\ Untried' /\ HasKey'
  BY <1>1, <1>3, WrittenKept DEF Editable, IInv, TypeOK, Sources
<1>6. OneKey' /\ Latest' /\ Mirrors'
  BY <1>1, <1>3 DEF SameReading, Editable, IInv, OneKey, Latest, Mirrors, Caught
<1> QED BY <1>4, <1>5, <1>6 DEF IInv

\* Encrypt, PutStored and PutFails leave the page as it is.
LEMMA EncryptKept ==
  ASSUME IInv, Encrypt
  PROVE  IInv'
<1>1. /\ page.mode = "e2e" /\ page.key # NoKey
      /\ sending' = [step |-> "sealing", content |-> [key |-> page.key, text |-> page.text]]
      /\ UNCHANGED <<stored, seed, copy, device, page, boot, reading, inbox, up, texts, loads>>
  BY DEF Encrypt
<1>2. page \in Page
  BY DEF IInv, TypeOK
<1>3. sending' \in Transmission /\ sending'.step = "sealing" /\ sending'.content.key = page.key
  BY <1>1, <1>2 DEF Page, Content, Transmission
<1>4. SameReading
  BY <1>1, <1>2 DEF SameReading
<1>5. TypeOK'
  BY <1>1, <1>3 DEF IInv, TypeOK
<1>6. Offers' /\ Sources' /\ Order' /\ Unsettled' /\ Gathered' /\ Untried' /\ HasKey'
  BY <1>1, <1>4, WrittenKept DEF IInv, TypeOK, Sources
<1>7. OneKey' /\ Latest' /\ Mirrors'
  BY <1>1, <1>3 DEF Editable, IInv, OneKey, Latest, Mirrors, Caught
<1> QED BY <1>5, <1>6, <1>7 DEF IInv

\* A transmission is over, or is on its way; what it carried is a text of the page.
LEMMA CarriedKept ==
  ASSUME IInv, SameReading, page'.text = page.text, page'.dirty => page.dirty,
         stored' \in Content, sending' \in Transmission, sending'.step # "sealing",
         page.mode # "pending", inbox' \in Seq(Content),
         page.crossed => page'.crossed, up /\ page'.crossed = page.crossed => Latest' /\ Mirrors',
         ~up => inbox' = inbox,
         UNCHANGED <<seed, copy, device, boot, reading, up, texts, loads>>
  PROVE  IInv'
<1>1. TypeOK'
  BY DEF SameReading, IInv, TypeOK
<1>2. Offers' /\ Sources' /\ Order' /\ Unsettled' /\ Gathered' /\ Untried' /\ HasKey'
  BY WrittenKept DEF IInv, TypeOK, Sources
<1>3. OneKey'
  BY DEF SameReading, Editable, IInv, OneKey
<1>4. Latest' /\ Mirrors'
  <2>1. page.crossed \in BOOLEAN /\ page'.crossed \in BOOLEAN
    BY DEF SameReading, Page, IInv, TypeOK
  <2>2. CASE ~up
    BY <2>2 DEF Latest, Mirrors
  <2>3. CASE up /\ page'.crossed = page.crossed
    BY <2>3
  <2>4. CASE page'.crossed # page.crossed
    BY <2>1, <2>4 DEF Latest, Mirrors
  <2> QED BY <2>2, <2>3, <2>4
<1> QED BY <1>1, <1>2, <1>3, <1>4 DEF IInv

\* A text was sent: only that it is no longer pending changes, and that others
\* may have crossed it.
LEMMA SentPage ==
  ASSUME page \in Page, NEW text, NEW b \in BOOLEAN,
         page' = [Sent(page, text) EXCEPT !.crossed = @ \/ b]
  PROVE  /\ SameReading /\ page'.text = page.text /\ (page'.dirty => page.dirty)
         /\ page'.crossed = (page.crossed \/ b) /\ (page'.dirty <=> page.dirty /\ page.text # text)
<1> DEFINE p == Sent(page, text)
           pending == page.dirty /\ page.text # text
<1>1. p = [page EXCEPT !.dirty = pending] /\ pending \in BOOLEAN
  BY DEF Sent
<1> HIDE DEF pending
<1>2. /\ p \in Page /\ p.mode = page.mode /\ p.key = page.key /\ p.offered = page.offered
      /\ p.address = page.address /\ p.sealed = page.sealed /\ p.known = page.known
      /\ p.met = page.met /\ p.had = page.had /\ p.hasty = page.hasty
      /\ p.text = page.text /\ p.crossed = page.crossed /\ p.dirty = pending
  BY <1>1 DEF Page
<1> HIDE DEF p
<1> DEFINE x == p.crossed \/ b
<1>3. page' = [p EXCEPT !.crossed = x] /\ x \in BOOLEAN
  BY DEF p
<1>4. x = (page.crossed \/ b)
  BY <1>2
<1> HIDE DEF x
<1>5. /\ page' \in Page /\ page'.crossed = x
      /\ page'.mode = p.mode /\ page'.key = p.key /\ page'.offered = p.offered
      /\ page'.address = p.address /\ page'.sealed = p.sealed /\ page'.known = p.known
      /\ page'.met = p.met /\ page'.had = p.had /\ page'.hasty = p.hasty
      /\ page'.text = p.text /\ page'.dirty = p.dirty
  BY <1>2, <1>3 DEF Page
<1> QED BY <1>2, <1>4, <1>5 DEF SameReading, pending

\* Deliver and SendClear: a content that the page may send is handed over.
LEMMA HandedKept ==
  ASSUME IInv, NEW c \in Content, HandOver(c),
         Sealed(c) /\ ~page.hasty => page.mode = "e2e" /\ page.key = c.key,
         UNCHANGED <<seed, copy, device, boot, reading, inbox, up, texts, loads>>
  PROVE  IInv'
<1>1. Editable /\ page.mode # "pending" /\ page \in Page /\ inbox \in Seq(Content) /\ stored \in Content
  BY DEF HandOver, Editable, IInv, TypeOK
<1>2. CASE ~up
  <2>1. sending' = [step |-> "put", content |-> c] /\ UNCHANGED <<stored, page>>
    BY <1>2 DEF HandOver
  <2>2. sending' \in Transmission /\ sending'.step # "sealing" /\ SameReading
    BY <1>1, <2>1 DEF Transmission, SameReading
  <2> QED BY <1>1, <1>2, <2>1, <2>2, CarriedKept
<1>3. CASE up
  <2>1. /\ stored' = c /\ sending' = Silent
        /\ page' = [Sent(page, c.text) EXCEPT !.crossed = @ \/ Crosses(c)]
    BY <1>3 DEF HandOver
  <2>2. sending' \in Transmission /\ sending'.step # "sealing"
    BY <2>1, Nothings
  <2>3. /\ SameReading /\ page'.text = page.text /\ (page'.dirty => page.dirty)
        /\ page'.crossed = (page.crossed \/ Crosses(c)) /\ (page'.dirty <=> page.dirty /\ page.text # c.text)
    <3>1. Crosses(c) \in BOOLEAN
      BY DEF Crosses, Caught
    <3> HIDE DEF Crosses
    <3> QED BY <1>1, <2>1, <3>1, SentPage
  <2>4. ASSUME ~page'.crossed
        PROVE  Latest' /\ Mirrors'
    <3>1. Caught /\ (page.dirty \/ page.text = c.text)
      BY <2>3, <2>4 DEF Crosses
    <3>2. Latest'
      BY <3>1 DEF Latest, Caught
    <3>3. ~page'.dirty => page'.text = c.text
      BY <2>3, <3>1
    <3>4. Mirrors'
      BY <1>1, <2>1, <2>3, <3>3, KeyConstants DEF Mirrors, SameReading, Editable, Sealed, IInv, OneKey
    <3> QED BY <3>2, <3>4
  <2>5. up /\ page'.crossed = page.crossed => Latest' /\ Mirrors'
    <3>1. CASE page'.crossed
      BY <3>1 DEF Latest, Mirrors
    <3> QED BY <2>4, <3>1
  <2> QED BY <1>1, <1>3, <2>1, <2>2, <2>3, <2>5, CarriedKept
<1> QED BY <1>2, <1>3

LEMMA DeliverKept ==
  ASSUME IInv, Deliver \/ SendClear
  PROVE  IInv'
<1>1. UNCHANGED <<seed, copy, device, boot, reading, inbox, up, texts, loads>>
  BY DEF Deliver, SendClear
<1>2. page \in Page /\ sending \in Transmission
  BY DEF IInv, TypeOK
<1>3. CASE sending.step = "sealing" /\ HandOver(sending.content)
  <2>1. sending.content \in Content
    BY <1>2 DEF Transmission
  <2>2. ~page.hasty => page.mode = "e2e" /\ page.key = sending.content.key
    BY <1>3 DEF HandOver, Editable, IInv, OneKey
  <2> QED BY <1>1, <1>3, <2>1, <2>2, HandedKept
<1>4. CASE /\ sending.step = "sealing" /\ ~(Editable /\ up) /\ sending' = Silent
           /\ UNCHANGED <<stored, page>>
  <2>1. page.mode # "pending" /\ inbox \in Seq(Content) /\ stored \in Content /\ SameReading
    BY <1>2, <1>4, Nothings DEF IInv, TypeOK, Unsettled, SameReading
  <2>2. sending' \in Transmission /\ sending'.step # "sealing"
    BY <1>4, Nothings
  <2>3. up => Latest' /\ Mirrors'
    BY <1>1, <1>4 DEF IInv, Latest, Mirrors, Caught
  <2> QED BY <1>1, <1>4, <2>1, <2>2, <2>3, CarriedKept
<1>5. CASE SendClear
  <2> DEFINE c == [key |-> NoKey, text |-> page.text]
  <2>1. c \in Content /\ ~Sealed(c)
    BY <1>2 DEF Page, Content, Sealed
  <2>2. HandOver(c)
    BY <1>5 DEF SendClear
  <2> HIDE DEF c
  <2> QED BY <1>1, <2>1, <2>2, HandedKept
<1> QED BY <1>3, <1>4, <1>5 DEF Deliver

LEMMA PutKept ==
  ASSUME IInv, PutStored \/ PutAnswered \/ PutFails
  PROVE  IInv'
<1>1. UNCHANGED <<seed, copy, device, boot, reading, up, texts, loads>> /\ sending.step \in {"put", "stored"}
  BY DEF PutStored, PutAnswered, PutFails
<1>2. /\ page \in Page /\ sending \in Transmission /\ sending.content \in Content /\ stored \in Content
      /\ inbox \in Seq(Content)
  BY DEF IInv, TypeOK, Transmission
<1>3. page.mode # "pending" /\ (~up => inbox = <<>>)
  BY <1>1, Nothings DEF IInv, Unsettled, Order
<1>4. CASE PutStored
  <2>1. /\ stored' = sending.content /\ page' = page /\ sending' = [sending EXCEPT !.step = "stored"]
        /\ inbox' = IF up THEN Append(inbox, stored') ELSE inbox
    BY <1>4 DEF PutStored
  <2>2. sending' \in Transmission /\ sending'.step # "sealing" /\ SameReading
    BY <1>2, <2>1 DEF Transmission, SameReading
  <2>3. inbox' \in Seq(Content) /\ (up => inbox' # <<>> /\ inbox'[Len(inbox')] = stored')
    BY <1>2, <2>1
  <2>4. up => Latest' /\ Mirrors'
    BY <2>3 DEF Latest, Mirrors, Caught
  <2> QED BY <1>1, <1>2, <1>3, <2>1, <2>2, <2>3, <2>4, CarriedKept
<1>5. CASE PutAnswered
  <2>1. /\ page' = [Sent(page, sending.content.text) EXCEPT !.crossed = @ \/ up]
        /\ sending' = Silent /\ UNCHANGED <<stored, inbox>>
    BY <1>5 DEF PutAnswered
  <2>2. up \in BOOLEAN
    BY DEF IInv, TypeOK
  <2>3. /\ SameReading /\ page'.text = page.text /\ (page'.dirty => page.dirty)
        /\ page'.crossed = (page.crossed \/ up)
    BY <1>2, <2>1, <2>2, SentPage
  <2>4. sending' \in Transmission /\ sending'.step # "sealing"
    BY <2>1, Nothings
  <2>5. up => Latest' /\ Mirrors'
    BY <1>1, <2>3 DEF Latest, Mirrors
  <2> QED BY <1>1, <1>2, <1>3, <2>1, <2>3, <2>4, <2>5, CarriedKept
<1>6. CASE PutFails
  <2>1. sending' = Silent /\ UNCHANGED <<stored, page, inbox>> /\ SameReading
    BY <1>2, <1>6 DEF PutFails, SameReading
  <2>2. sending' \in Transmission /\ sending'.step # "sealing"
    BY <2>1, Nothings
  <2>3. up => Latest' /\ Mirrors'
    BY <1>1, <2>1 DEF IInv, Latest, Mirrors, Caught
  <2> QED BY <1>1, <1>2, <1>3, <2>1, <2>2, <2>3, CarriedKept
<1> QED BY <1>4, <1>5, <1>6

-----------------------------------------------------------------------------
(* The others *)

\* PeerWrites and Seed: what somebody else has stored is on its way to the page.
LEMMA HeardKept ==
  ASSUME IInv, Heard, stored' \in Content, texts' \in 0..MaxText, seed' \in Key \cup {NoKey},
         device' \in [key : Key \cup {NoKey}, link : BOOLEAN], device'.link => device'.key \notin PassKey,
         UNCHANGED <<copy, boot, reading, up, sending, loads>>
  PROVE  IInv'
<1>1. page \in Page /\ inbox \in Seq(Content) /\ (~up => inbox = <<>>)
  BY DEF IInv, TypeOK, Order
<1>2. inbox' = IF up THEN Append(inbox, stored') ELSE inbox
  BY DEF Heard
<1>3. inbox' \in Seq(Content) /\ (up => inbox' # <<>> /\ inbox'[Len(inbox')] = stored') /\ (~up => inbox' = inbox)
  BY <1>1, <1>2
<1>4. SameReading /\ page'.text = page.text /\ page'.dirty = page.dirty
  <2> DEFINE x == page.crossed /\ ~up
  <2>1. x \in BOOLEAN /\ page' = [page EXCEPT !.crossed = x]
    BY DEF Heard
  <2> HIDE DEF x
  <2> QED BY <1>1, <2>1 DEF Page, SameReading
<1>5. TypeOK'
  BY <1>3, <1>4 DEF SameReading, IInv, TypeOK
<1>6. Offers' /\ Sources' /\ Order' /\ Unsettled' /\ Gathered' /\ Untried' /\ HasKey'
  BY <1>3, <1>4, WrittenKept DEF IInv, Unsettled
<1>7. OneKey'
  BY <1>4 DEF SameReading, Editable, IInv, OneKey
<1>8. Latest' /\ Mirrors'
  BY <1>3 DEF Latest, Mirrors, Caught
<1> QED BY <1>5, <1>6, <1>7, <1>8 DEF IInv

LEMMA OthersKept ==
  ASSUME IInv, (\E k \in Key \cup {NoKey} : PeerWrites(k)) \/ Seed
  PROVE  IInv'
<1>1. device \in [key : Key \cup {NoKey}, link : BOOLEAN] /\ (device.link => device.key \notin PassKey)
  BY DEF IInv, TypeOK, Sources
<1>2. ASSUME NEW k \in Key \cup {NoKey}, PeerWrites(k)
      PROVE  IInv'
  <2>1. texts' = texts + 1 /\ texts < MaxText /\ stored' = [key |-> k, text |-> texts + 1] /\ Heard
        /\ UNCHANGED <<seed, copy, device, boot, reading, up, sending, loads>>
    BY <1>2 DEF PeerWrites
  <2>2. texts' \in 0..MaxText
    BY <2>1, KeyConstants DEF IInv, TypeOK
  <2>3. stored' \in Content /\ seed \in Key \cup {NoKey}
    BY <2>1, <2>2 DEF Content, IInv, TypeOK
  <2> QED BY <1>1, <2>1, <2>2, <2>3, HeardKept
<1>3. CASE Seed
  <2>1. /\ seed # NoKey /\ seed' = NoKey /\ stored' = [key |-> seed, text |-> 0] /\ Heard
        /\ UNCHANGED <<copy, boot, reading, up, sending, texts, loads>>
    BY <1>3 DEF Seed
  <2>2. seed \in Key /\ texts \in 0..MaxText
    BY <2>1 DEF IInv, TypeOK
  <2>3. 0 \in 0..MaxText
    BY KeyConstants
  <2>4. stored' \in Content
    BY <2>1, <2>2, <2>3 DEF Content
  <2>5. device' = device \/ device' = [key |-> seed, link |-> FALSE]
    BY <1>3 DEF Seed
  <2>6. device' \in [key : Key \cup {NoKey}, link : BOOLEAN] /\ (device'.link => device'.key \notin PassKey)
    <3>1. CASE device' = device
      BY <1>1, <3>1
    <3>2. CASE device' = [key |-> seed, link |-> FALSE]
      <4>1. device'.link = FALSE /\ device' \in [key : Key \cup {NoKey}, link : BOOLEAN]
        BY <2>2, <3>2
      <4> QED BY <4>1
    <3> QED BY <2>5, <3>1, <3>2
  <2> QED BY <2>1, <2>2, <2>4, <2>6, HeardKept
<1> QED BY <1>2, <1>3

\* Create, SeedFails and Refresh: nothing reaches the page.
LEMMA ElsewhereKept ==
  ASSUME IInv, (\E k \in Key \cup {NoKey} : Create(k)) \/ SeedFails \/ Refresh
  PROVE  IInv'
<1>1. UNCHANGED <<device, page, boot, reading, inbox, up, sending, texts, loads>>
  BY DEF Create, SeedFails, Refresh
<1>2. stored' \in Content /\ seed' \in Key \cup {NoKey} /\ copy' \in SUBSET Content
  <2> HIDE DEF Empty
  <2> QED BY Nothings DEF Create, SeedFails, Refresh, IInv, TypeOK
<1>3. up => stored' = stored
  BY DEF Create, SeedFails, Refresh, IInv, Order
<1>4. TypeOK'
  BY <1>1, <1>2 DEF IInv, TypeOK
<1>5. Offers' /\ Sources' /\ Order' /\ Unsettled' /\ OneKey' /\ Gathered' /\ Untried' /\ HasKey'
  BY <1>1 DEF IInv, Offers, Sources, Order, Unsettled, OneKey, Gathered, Untried, HasKey, Editable
<1>6. Latest' /\ Mirrors'
  BY <1>1, <1>3 DEF IInv, Latest, Mirrors, Caught
<1> QED BY <1>4, <1>5, <1>6 DEF IInv

LEMMA StutterKept ==
  ASSUME IInv, UNCHANGED vars
  PROVE  IInv'
<1>1. UNCHANGED <<stored, seed, copy, device, page, boot, reading, inbox, up, sending, texts, loads>>
  BY DEF vars
<1>2. TypeOK' /\ Offers' /\ Sources'
  BY <1>1 DEF IInv, TypeOK, Offers, Sources
<1>3. Order' /\ Unsettled' /\ OneKey' /\ Gathered' /\ Untried' /\ HasKey' /\ Latest' /\ Mirrors'
  BY <1>1 DEF IInv, Order, Unsettled, OneKey, Gathered, Untried, HasKey, Latest, Mirrors, Editable, Caught
<1> QED BY <1>2, <1>3 DEF IInv

LEMMA Steps == IInv /\ [Next]_vars => IInv'
<1> SUFFICES ASSUME IInv, [Next]_vars PROVE IInv'
  OBVIOUS
<1>1. CASE UNCHANGED vars
  BY <1>1, StutterKept
<1>2. CASE Next
  BY <1>2, LoadKept, ImportKept, FetchKept, AnsweredKept, MetaKept, JoinKept, AwaitKept, ReceiveKept,
     TypeKept, EncryptKept, DeliverKept, PutKept, OthersKept, ElsewhereKept DEF Next
<1> QED BY <1>1, <1>2

\* IInv holds in every state: what the page tried, has read, knows and shows fits
\* together, and with what is on its way to it.
THEOREM Invariant == Spec => []IInv
BY Starts, Steps, PTL DEF Spec

-----------------------------------------------------------------------------
(* What it says of the page *)

\* In every state every variable has its type.
THEOREM PageTypes == Spec => []TypeOK
<1>1. IInv => TypeOK
  BY DEF IInv
<1> QED BY <1>1, Invariant, PTL

\* Whatever links are opened, passwords entered and pages loaded again: no key of
\* a password is ever shown in the address.
THEOREM PasswordsStayOut == Spec => []PasswordKeptOut
<1>1. IInv => PasswordKeptOut
  BY DEF IInv, Sources, PasswordKeptOut
<1> QED BY <1>1, Invariant, PTL

\* A page that has read all it was sent shows what is stored or is locked by it,
\* unless texts crossed, whatever old copy it started from.
THEOREM PageShows == Spec => []ShownInStep
<1>1. IInv => ShownInStep
  BY DEF IInv, OneKey, Mirrors, ShownInStep, Quiet
<1> QED BY <1>1, Invariant, PTL

\* A page is never plain or locked that had the key of all it was given to read,
\* the old copy included.
THEOREM KeyIsFound == Spec => []OpensWithKey
<1>1. IInv => OpensWithKey
  <2>1. SUFFICES ASSUME IInv, ~page.hasty, NEW i \in DOMAIN page.had, page.met = {page.had[i].key}
                 PROVE  page.mode \notin {"plain", "locked"}
    BY DEF OpensWithKey
  <2>2. page.had[i].key \in Keys(page.had)
    BY DEF Keys
  <2>3. page.mode = "pending" \/ page.mode = "e2e"
    BY <2>1, <2>2 DEF IInv, HasKey
  <2> QED BY <2>3
<1> QED BY <1>1, Invariant, PTL

\* Only two steps hand something over.
LEMMA WhoHands ==
  ASSUME IInv, Next, NEW c \in Content, HandsOver(c)
  PROVE  Deliver \/ SendClear
<1>1. stored' # stored \/ sending' # sending
  BY DEF HandsOver
<1>2. sending.step # "put"
  BY DEF HandsOver
<1>3. stored' # stored \/ sending'.step = "put"
  BY DEF HandsOver
<1>4. ~((\E link \in LinkKey \cup {NoKey} : Open(link)) \/ (\E k \in PassKey : Unlock(k)) \/ Close)
  BY <1>3, Nothings DEF Open, Unlock, Close, Unloaded
<1>5. ~(ImportKeys \/ Fetch \/ Answered \/ LoadFileMeta \/ Connect \/ Online \/ Receive \/ Type)
  BY <1>1 DEF ImportKeys, Fetch, Answered, LoadFileMeta, Connect, Online, Receive, Type
<1>6. ~(\E r \in Reader : Settle(r) \/ Opened(r)) /\ ~SeedFails /\ ~Refresh
  BY <1>1 DEF Settle, Opened, SeedFails, Refresh
<1>7. ~Encrypt /\ ~PutStored /\ ~PutAnswered /\ ~PutFails
  BY <1>2, <1>3, Nothings DEF Encrypt, PutStored, PutAnswered, PutFails
<1>8. ~(\E k \in Key \cup {NoKey} : PeerWrites(k) \/ Create(k)) /\ ~Seed
  <2>1. sending' # sending \/ page'.dirty # page.dirty
    BY <1>2 DEF HandsOver
  <2>2. Heard => page'.dirty = page.dirty
    BY DEF Heard, IInv, TypeOK, Page
  <2> QED BY <2>1, <2>2 DEF PeerWrites, Create, Seed
<1> QED BY <1>4, <1>5, <1>6, <1>7, <1>8 DEF Next

\* For every page, however its sending and reading interleave: once it has read a
\* ciphertext it hands over only what is encrypted under the key of the last it
\* has read.
THEOREM KeysStay == Spec => KeyForGood
<1> DEFINE Stays ==
      \A c \in Content : HandsOver(c) /\ ~page.hasty /\ page.known # NoKey => c.key = page.known
<1>1. IInv /\ [Next]_vars => [Stays]_vars
  <2>1. SUFFICES ASSUME IInv, Next, NEW c \in Content, HandsOver(c), ~page.hasty, page.known # NoKey
                 PROVE  c.key = page.known
    OBVIOUS
  <2>2. Deliver \/ SendClear
    BY <2>1, WhoHands
  <2>3. CASE Deliver
    <3>1. Editable /\ sending.step = "sealing" /\ c = sending.content
      BY <2>1, <2>3, Nothings DEF Deliver, HandOver, HandsOver
    <3> QED BY <2>1, <3>1 DEF IInv, OneKey
  <2>4. CASE SendClear
    <3>1. Editable /\ ~(page.mode = "e2e" /\ page.key # NoKey)
      BY <2>4 DEF SendClear, HandOver
    <3> QED BY <2>1, <3>1 DEF IInv, OneKey
  <2> QED BY <2>2, <2>3, <2>4
<1> HIDE DEF Stays
<1>2. Spec => [][Stays]_vars
  BY <1>1, Invariant, PTL DEF Spec
<1> QED BY <1>2 DEF KeyForGood, Stays
=============================================================================
