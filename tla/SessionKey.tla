----------------------------- MODULE SessionKey -----------------------------
(***************************************************************************)
(* The key of an encrypted session in one browser                          *)
(* (cmd/server/static: app.js, e2e-state.js, pinning.js): which of the     *)
(* keys it has opens the session, when the editor is locked for want of    *)
(* one, what it remembers, and what it then writes.                        *)
(*                                                                         *)
(* The page loads (the bootstrap), is answered by the server or, by the    *)
(* service worker, with an old copy, is sent a snapshot and updates, and   *)
(* writes; reading a key, a ciphertext or the network is an await, at      *)
(* which the bootstrap, the queue of messages and the transmission         *)
(* interleave.  Others write what they like, at any time: the editor lock  *)
(* and the unreliable parts of the connection are in EditorClient.         *)
(***************************************************************************)
EXTENDS Naturals, Sequences

CONSTANTS
  LinkKey,    \* keys that are shared in links
  PassKey,    \* keys that are derived from a password
  NoKey,      \* null; for a content, that it is not encrypted
  MaxText,    \* bound: texts written during a behaviour
  MaxLoads    \* bound: loads of the page

Key == LinkKey \cup PassKey

ASSUME KeyConstants ==
  /\ LinkKey \cap PassKey = {}
  /\ NoKey \notin Key
  /\ MaxText \in Nat
  /\ MaxLoads \in Nat

VARIABLES
  stored,   \* the session's content: its key and the number of its text, 0
            \* being the empty one
  seed,     \* the key under which its creator is about to seed it
  copy,     \* the service worker's copy of a snapshot, if it has one
  device,   \* the key in localStorage, and whether it came in a link
  page,     \* the page, see Page
  boot,     \* where the bootstrap is
  reading,  \* an await of the bootstrap or of a message's handler: the
            \* settling or the decryption of a content, with a key
  inbox,    \* contents that were sent over the socket, in order
  up,       \* is there a socket?
  sending,  \* a text under encryption, or on its way in a PUT
  texts, loads

vars == <<stored, seed, copy, device, page, boot, reading, inbox, up, sending, texts, loads>>

Reader == {"boot", "socket"}
Content == [key : Key \cup {NoKey}, text : 0..MaxText]
Empty == [key |-> NoKey, text |-> 0]
Sealed(c) == c.key # NoKey
Idle == [step |-> "idle", content |-> Empty, keys |-> <<>>, with |-> NoKey]
Settling(c, keys) == [step |-> "settling", content |-> c, keys |-> keys, with |-> NoKey]
Opening(c, key) == [step |-> "opening", content |-> c, keys |-> <<>>, with |-> key]

\* A key the page may try: where it comes from decides what becomes of it.
Candidate == [key : Key, pinned : BOOLEAN, link : BOOLEAN]

\* Session mode and key; the editor's text, and whether it is still to be sent;
\* the keys to try yet; the key in the address; the key of lockedCiphertext.
\* Histories: the key of the content that was last read through; the keys of all
\* that it was given to read, old copies included; the keys it had at hand when it
\* loaded; was a text of its own sent or answered
\* while a message waited, and has none come since (crossed)?  Was a socket opened
\* before the bootstrap was over (hasty)?
Page ==
  [mode : {"pending", "plain", "e2e", "locked"}, key : Key \cup {NoKey},
   text : 0..MaxText, dirty : BOOLEAN, offered : Seq(Candidate),
   address : Key \cup {NoKey}, sealed : Key \cup {NoKey},
   known : Key \cup {NoKey}, met : SUBSET (Key \cup {NoKey}), had : Seq(Candidate),
   crossed : BOOLEAN, hasty : BOOLEAN]

Reading ==
  [step : {"idle", "settling", "opening"}, content : Content,
   keys : Seq(Candidate), with : Key \cup {NoKey}]

Transmission == [step : {"idle", "sealing", "put", "stored"}, content : Content]
Silent == [step |-> "idle", content |-> Empty]

TypeOK ==
  /\ stored \in Content
  /\ seed \in Key \cup {NoKey}
  /\ copy \in SUBSET Content
  /\ device \in [key : Key \cup {NoKey}, link : BOOLEAN]
  /\ page \in Page
  /\ page.mode = "pending" => page.key = NoKey /\ page.text = 0 /\ ~page.dirty
  /\ boot \in {"closed", "keys", "fetch", "answered", "reading", "meta", "done"}
  /\ reading \in [Reader -> Reading]
  /\ \A r \in Reader : reading[r].step = "opening" => reading[r].with \in Key
  /\ inbox \in Seq(Content)
  /\ up \in BOOLEAN
  /\ sending \in Transmission
  /\ texts \in 0..MaxText /\ loads \in 0..MaxLoads

Fresh(link) ==
  [mode |-> "pending", key |-> NoKey, text |-> 0, dirty |-> FALSE, offered |-> <<>>,
   address |-> link, sealed |-> NoKey, known |-> NoKey, met |-> {}, had |-> <<>>,
   crossed |-> FALSE, hasty |-> FALSE]

Init ==
  /\ stored = Empty
  /\ seed = NoKey
  /\ copy = {}
  /\ device = [key |-> NoKey, link |-> FALSE]
  /\ page = Fresh(NoKey)
  /\ boot = "closed"
  /\ reading = [r \in Reader |-> Idle]
  /\ inbox = <<>>
  /\ up = FALSE
  /\ sending = Silent
  /\ texts = 0
  /\ loads = 0

-----------------------------------------------------------------------------
(* What the page does with a content *)

\* decideInitialMode.
InitialMode(c, hasKey) ==
  CASE Sealed(c) /\ hasKey -> "e2e"
    [] Sealed(c) /\ ~hasKey -> "locked"
    [] c = Empty /\ hasKey -> "e2e"
    [] OTHER -> "plain"

\* Mutant of Working: the best key is the only one that is tried.
WorkingFirst(c, keys) == {i \in DOMAIN keys : i = 1 /\ (Sealed(c) => keys[i].key = c.key)}

\* pickWorkingKey: those that decrypt the content.  What is not encrypted cannot
\* prove a key wrong.
Working(c, keys) == {i \in DOMAIN keys : Sealed(c) => keys[i].key = c.key}

\* The keys are in order, best first.
Best(c, keys) == keys[CHOOSE i \in Working(c, keys) : \A j \in Working(c, keys) : i <= j]

Pinned(keys) == \E i \in DOMAIN keys : keys[i].pinned

\* Mutant of Settled: the address shows the key that works, wherever it is from.
SettledShown(p, c, keys) ==
  IF keys = <<>> THEN p
  ELSE IF Working(c, keys) = {} THEN [p EXCEPT !.key = NoKey]
  ELSE [p EXCEPT !.key = Best(c, keys).key, !.address = Best(c, keys).key]

\* settleKey: the page's key and its address ...
Settled(p, c, keys) ==
  LET best == Best(c, keys) IN
  IF keys = <<>> THEN p
  ELSE IF Working(c, keys) = {} THEN [p EXCEPT !.key = NoKey]
  ELSE [p EXCEPT !.key = best.key,
                 !.address = IF ~best.pinned THEN @
                             ELSE IF best.link THEN best.key ELSE NoKey]

\* ... and what the device remembers.
Remembered(c, keys) ==
  LET best == Best(c, keys) IN
  IF keys = <<>> THEN device
  ELSE IF Working(c, keys) # {}
       THEN IF Sealed(c) \/ ~Pinned(keys) THEN [key |-> best.key, link |-> best.link] ELSE device
  ELSE IF Sealed(c) /\ Pinned(keys) THEN [key |-> NoKey, link |-> FALSE] ELSE device

\* enterLockedMode: the editor is emptied, but not if it was locked before.
Locked(p, c) ==
  LET q == [p EXCEPT !.sealed = c.key, !.known = c.key, !.key = NoKey] IN
  IF p.mode = "locked" THEN q
  ELSE [q EXCEPT !.mode = "locked", !.dirty = FALSE, !.text = 0]

\* Mutant of Applied: a text that is not applied counts as applied.
AppliedOrNot(p, text) ==
  IF ~p.dirty THEN [p EXCEPT !.text = text] ELSE [p EXCEPT !.dirty = FALSE]

\* applyRemote, once the text is there.
Applied(p, text) ==
  IF ~p.dirty THEN [p EXCEPT !.text = text]
  ELSE [p EXCEPT !.dirty = p.text # text]

\* decryptIncoming, up to its await: `p` is the page so far.
Incoming(r, p, c) ==
  /\ page' = CASE ~Sealed(c) -> Applied([p EXCEPT !.known = NoKey], c.text)
              [] Sealed(c) /\ p.key = NoKey -> Locked(p, c)
              [] OTHER -> p
  /\ reading' = [reading EXCEPT ![r] =
       IF Sealed(c) /\ p.key # NoKey
       THEN Opening(c, p.key) ELSE Idle]

\* determineSessionMode, after settleKey.
Decide(r, p, c, keys) ==
  LET q == Settled(p, c, keys) IN
  /\ device' = Remembered(c, keys)
  /\ Incoming(r, [q EXCEPT !.mode = InitialMode(c, q.key # NoKey)], c)

\* It is given a content to read.
Given(p, c) == [p EXCEPT !.met = @ \cup {c.key}]

\* The first content: the keys are tried on it, which is an await if there are
\* any and it is encrypted.
First(r, p, c) ==
  LET q == [p EXCEPT !.offered = <<>>] IN
  IF p.offered # <<>> /\ Sealed(c)
  THEN /\ page' = q
       /\ reading' = [reading EXCEPT ![r] = Settling(c, p.offered)]
       /\ UNCHANGED device
  ELSE Decide(r, q, c, p.offered)

\* settleKey, once the keys were tried.
Settle(r) ==
  /\ reading[r].step = "settling"
  /\ Decide(r, page, reading[r].content, reading[r].keys)
  /\ UNCHANGED <<stored, seed, copy, boot, inbox, up, sending, texts, loads>>

\* decryptIncoming, once the content was decrypted, or was not: then the key is
\* a wrong one.
Opened(r) ==
  /\ reading[r].step = "opening"
  /\ LET c == reading[r].content IN
     page' = IF reading[r].with = c.key
             THEN Applied([page EXCEPT !.mode = "e2e", !.known = c.key], c.text) ELSE Locked(page, c)
  /\ reading' = [reading EXCEPT ![r] = Idle]
  /\ UNCHANGED <<stored, seed, copy, device, boot, inbox, up, sending, texts, loads>>

-----------------------------------------------------------------------------
(* The bootstrap *)

Unloaded ==
  /\ reading' = [r \in Reader |-> Idle]
  /\ inbox' = <<>>
  /\ up' = FALSE
  /\ sending' = Silent

\* A link to the session is opened, with a key in it or without.
Open(link) ==
  /\ boot = "closed"
  /\ loads < MaxLoads
  /\ loads' = loads + 1
  /\ boot' = "keys"
  /\ page' = Fresh(link)
  /\ Unloaded
  /\ UNCHANGED <<stored, seed, copy, device, texts>>

\* The link's key is imported, then the one the device has.
ImportKeys ==
  LET keys ==
        (IF page.address = NoKey THEN <<>>
         ELSE <<[key |-> page.address, pinned |-> FALSE, link |-> TRUE]>>)
        \o (IF device.key \in {NoKey, page.address} THEN <<>>
            ELSE <<[key |-> device.key, pinned |-> TRUE, link |-> device.link]>>)
  IN /\ boot = "keys"
     /\ boot' = "fetch"
     /\ page' = [page EXCEPT !.offered = keys, !.had = keys]
     /\ UNCHANGED <<stored, seed, copy, device, reading, inbox, up, sending, texts, loads>>

\* The GET, by way of the service worker (networkFirstSnapshot): the server
\* answers, and the answer may be kept; or it fails or hangs, and the copy is
\* the answer, however old; or there is none.
Fetch ==
  /\ boot = "fetch"
  /\ \/ /\ boot' = "answered"
        /\ reading' = [reading EXCEPT !["boot"].content = stored]
        /\ page' = Given(page, stored)
        /\ copy' \in {copy, {stored}}
     \/ /\ boot' = "answered"
        /\ \E c \in copy :
             /\ reading' = [reading EXCEPT !["boot"].content = c]
             /\ page' = Given(page, c)
        /\ UNCHANGED copy
     \/ boot' = "meta" /\ UNCHANGED <<reading, page, copy>>
  /\ UNCHANGED <<stored, seed, device, inbox, up, sending, texts, loads>>

\* The answer is there.
Answered ==
  /\ boot = "answered"
  /\ boot' = "reading"
  /\ First("boot", page, reading["boot"].content)
  /\ UNCHANGED <<stored, seed, copy, inbox, up, sending, texts, loads>>

\* It was applied: the list of files is fetched.
LoadFileMeta ==
  /\ boot = "reading" /\ reading["boot"].step = "idle"
  /\ boot' = "meta"
  /\ UNCHANGED <<stored, seed, copy, device, page, reading, inbox, up, sending, texts, loads>>

\* A socket is opened, and a snapshot sent over it.
Join == up' = TRUE /\ inbox' = IF up THEN inbox ELSE <<stored>>

\* The end of the bootstrap.
Connect ==
  /\ boot = "meta"
  /\ boot' = "done"
  /\ Join
  /\ UNCHANGED <<stored, seed, copy, device, page, reading, sending, texts, loads>>

\* onOnline: the browser is back online, wherever the bootstrap is.
Online ==
  /\ boot \notin {"closed", "done"} /\ ~up
  /\ Join
  /\ page' = [page EXCEPT !.hasty = boot # "meta"]
  /\ UNCHANGED <<stored, seed, copy, device, boot, reading, sending, texts, loads>>

-----------------------------------------------------------------------------
(* The open page *)

\* handleServerMessage, of a snapshot or an update, one after the other.
Receive ==
  /\ inbox # <<>> /\ reading["socket"].step = "idle"
  /\ inbox' = Tail(inbox)
  /\ LET c == Head(inbox) IN
     IF page.mode = "pending" THEN First("socket", Given(page, c), c)
     ELSE Incoming("socket", Given(page, c), c) /\ UNCHANGED device
  /\ UNCHANGED <<stored, seed, copy, boot, up, sending, texts, loads>>

\* isLockedForEditing does not hold.
Editable == page.mode \in {"plain", "e2e"}

Type ==
  /\ Editable
  /\ texts < MaxText
  /\ texts' = texts + 1
  /\ page' = [page EXCEPT !.text = texts + 1, !.dirty = TRUE]
  /\ UNCHANGED <<stored, seed, copy, device, boot, reading, inbox, up, sending, loads>>

\* encryptOutgoing, which is an await.
Encrypt ==
  /\ page.dirty /\ sending = Silent
  /\ page.mode = "e2e" /\ page.key # NoKey
  /\ sending' = [step |-> "sealing", content |-> [key |-> page.key, text |-> page.text]]
  /\ UNCHANGED <<stored, seed, copy, device, page, boot, reading, inbox, up, texts, loads>>

\* The text of a transmission that went through is no longer pending.
Sent(p, text) == [p EXCEPT !.dirty = @ /\ p.text # text]

\* Has all been read that came over the socket?
Caught == inbox = <<>> /\ reading["socket"].step = "idle"

\* Is there something it does not take into account, or was there since it was
\* taken from the editor?
Crosses(c) == ~Caught \/ (~page.dirty /\ page.text # c.text)

\* deliverEdit, where a transport takes the content: the socket, if there is
\* one, whatever has come over it that is still to be read (it is here that an
\* edit sent over it is stored); else, after an upload, a PUT.
HandOver(c) ==
  /\ Editable
  /\ \/ /\ up
        /\ stored' = c
        /\ page' = [Sent(page, c.text) EXCEPT !.crossed = @ \/ Crosses(c)]
        /\ sending' = Silent
     \/ /\ ~up
        /\ sending' = [step |-> "put", content |-> c]
        /\ UNCHANGED <<stored, page>>

\* Mutant of Deliver: the mode is not looked at again after the encryption.
DeliverAnyway ==
  /\ sending.step = "sealing"
  /\ \/ /\ up
        /\ stored' = sending.content
        /\ page' = [Sent(page, sending.content.text) EXCEPT !.crossed = @ \/ Crosses(sending.content)]
        /\ sending' = Silent
     \/ ~up /\ sending' = Silent /\ UNCHANGED <<stored, page>>
  /\ UNCHANGED <<seed, copy, device, boot, reading, inbox, up, texts, loads>>

\* deliverEdit, of a ciphertext: by now the page may be locked.
Deliver ==
  /\ sending.step = "sealing"
  /\ \/ HandOver(sending.content)
     \/ ~(Editable /\ up) /\ sending' = Silent /\ UNCHANGED <<stored, page>>
  /\ UNCHANGED <<seed, copy, device, boot, reading, inbox, up, texts, loads>>

\* encryptOutgoing and deliverEdit, of a text that is not to be encrypted.
SendClear ==
  /\ page.dirty /\ sending = Silent
  /\ ~(page.mode = "e2e" /\ page.key # NoKey)
  /\ HandOver([key |-> NoKey, text |-> page.text])
  /\ UNCHANGED <<seed, copy, device, boot, reading, inbox, up, texts, loads>>

\* The server stores a PUT, and tells every socket.  (One that is stored after
\* its page was closed is a PeerWrites.)
PutStored ==
  /\ sending.step = "put"
  /\ stored' = sending.content
  /\ inbox' = IF up THEN Append(inbox, stored') ELSE inbox
  /\ sending' = [sending EXCEPT !.step = "stored"]
  /\ UNCHANGED <<seed, copy, device, page, boot, reading, up, texts, loads>>

\* Its answer is a success, and arrives ...
PutAnswered ==
  /\ sending.step = "stored"
  /\ page' = [Sent(page, sending.content.text) EXCEPT !.crossed = @ \/ up]
  /\ sending' = Silent
  /\ UNCHANGED <<stored, seed, copy, device, boot, reading, inbox, up, texts, loads>>

\* ... or not: the text is still pending.
PutFails ==
  /\ sending.step \in {"put", "stored"}
  /\ sending' = Silent
  /\ UNCHANGED <<stored, seed, copy, device, page, boot, reading, inbox, up, texts, loads>>

\* The unlock form: a password that opens what the page is locked by is
\* remembered, and the page loaded again without a key in its address.
Unlock(k) ==
  /\ page.mode = "locked" /\ page.sealed = k
  /\ loads < MaxLoads
  /\ loads' = loads + 1
  /\ device' = [key |-> k, link |-> FALSE]
  /\ boot' = "keys"
  /\ page' = Fresh(NoKey)
  /\ Unloaded
  /\ UNCHANGED <<stored, seed, copy, texts>>

Close ==
  /\ boot # "closed"
  /\ boot' = "closed"
  /\ page' = Fresh(NoKey)
  /\ Unloaded
  /\ UNCHANGED <<stored, seed, copy, device, texts, loads>>

-----------------------------------------------------------------------------
(* The others *)

\* Somebody else's content is stored, and sent to the page.
Heard ==
  /\ inbox' = IF up THEN Append(inbox, stored') ELSE inbox
  /\ page' = [page EXCEPT !.crossed = @ /\ ~up]

\* A peer writes: a page like this one, with or without the key or with another,
\* or a client of the API.
PeerWrites(k) ==
  /\ texts < MaxText
  /\ texts' = texts + 1
  /\ stored' = [key |-> k, text |-> texts + 1]
  /\ Heard
  /\ UNCHANGED <<seed, copy, device, boot, reading, up, sending, loads>>

\* The session is deleted and created again under the same name, to be encrypted
\* under k or not: the POST of create.js.
Create(k) ==
  /\ boot = "closed" /\ seed = NoKey
  /\ stored' = Empty
  /\ seed' = k
  /\ UNCHANGED <<copy, device, page, boot, reading, inbox, up, sending, texts, loads>>

\* Its PUT of an encrypted empty text: a device on which the session is created
\* with a password remembers the key.
Seed ==
  /\ seed # NoKey
  /\ seed' = NoKey
  /\ stored' = [key |-> seed, text |-> 0]
  /\ Heard
  /\ \/ seed \in PassKey /\ device' = [key |-> seed, link |-> FALSE]
     \/ UNCHANGED device
  /\ UNCHANGED <<copy, boot, reading, up, sending, texts, loads>>

\* The PUT is refused, or never arrives.
SeedFails ==
  /\ seed # NoKey
  /\ seed' = NoKey
  /\ UNCHANGED <<stored, copy, device, page, boot, reading, inbox, up, sending, texts, loads>>

\* Another GET of this device is answered, be it in the background after a
\* timeout or before a reconnect: with the content, or with a 404 as long as the
\* name is free; or a new build of the service worker drops its copies.
Refresh ==
  /\ copy' \in {{stored}, {}}
  /\ UNCHANGED <<stored, seed, device, page, boot, reading, inbox, up, sending, texts, loads>>

Next ==
  \/ \E link \in LinkKey \cup {NoKey} : Open(link)
  \/ ImportKeys \/ Fetch \/ Answered \/ LoadFileMeta \/ Connect \/ Online
  \/ \E r \in Reader : Settle(r) \/ Opened(r)
  \/ Receive \/ Type \/ Encrypt \/ Deliver \/ SendClear
  \/ PutStored \/ PutAnswered \/ PutFails
  \/ \E k \in PassKey : Unlock(k)
  \/ Close
  \/ \E k \in Key \cup {NoKey} : PeerWrites(k) \/ Create(k)
  \/ Seed \/ SeedFails \/ Refresh

Spec == Init /\ [][Next]_vars

-----------------------------------------------------------------------------
(***************************************************************************)
(* Properties                                                              *)
(***************************************************************************)

(* A socket that opens before the bootstrap's answer was applied - the     *)
(* browser came back online - races it; the properties that mention        *)
(* page.hasty do not hold of such a page, as the README explains.          *)

\* The page hands a content to the socket, where it replaces what is stored, or
\* to a PUT.
HandsOver(c) ==
  \/ stored' # stored /\ stored' = c /\ sending.step # "put"
     /\ (sending' # sending \/ page'.dirty # page.dirty)
  \/ sending.step # "put" /\ sending' = [step |-> "put", content |-> c]

\* Once the page has read a ciphertext, all it hands over is encrypted under the
\* key of the last it has read, whatever it is still to read: neither what was
\* typed before, nor what was under encryption meanwhile, nor a key that opened an
\* older content goes out instead, nor anything from a page that cannot read it
\* (encryptOutgoing, deliverEdit, enterLockedMode).
KeyForGood ==
  [][ \A c \in Content :
        HandsOver(c) /\ ~page.hasty /\ page.known # NoKey => c.key = page.known ]_vars

\* All that was sent to it was read, and all that was written in it was sent.
Quiet == up /\ Caught /\ ~page.dirty

\* A page that has read all it was sent shows what is stored, with the key that
\* opens it, or is locked by it: an old copy that it started from, a key that
\* does not work or a PUT that took long leaves nothing behind.  Not so where the
\* texts of two crossed on the way.  A locked page has nothing to send, nor a key
\* (decryptIncoming, enterLockedMode, applyRemote).
ShownInStep ==
  ~page.hasty =>
    /\ page.mode = "locked" => page.key = NoKey /\ ~page.dirty
    /\ Quiet /\ ~page.crossed =>
         IF Sealed(stored) /\ page.mode = "locked" THEN page.sealed = stored.key
         ELSE /\ page.text = stored.text
              /\ Sealed(stored) => page.mode = "e2e" /\ page.key = stored.key

\* A page that had the key of all it was ever given to read can read it, whichever
\* of the link, a password and the device the key is from and however old the copy
\* it was answered with: it never locks for having tried another key first
\* (settleKey, pickWorkingKey).
OpensWithKey ==
  ~page.hasty =>
    \A i \in DOMAIN page.had :
      page.met = {page.had[i].key} => page.mode \notin {"plain", "locked"}

\* A key that is derived from a password is never in the address (settleKey,
\* showAddress), whatever links, passwords and reloads there were before.
PasswordKeptOut == page.address \notin PassKey
=============================================================================
