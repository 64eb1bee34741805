------------------------------- MODULE RealIP -------------------------------
(***************************************************************************)
(* Whose request it is (internal/handlers/realip.go), with the default     *)
(* X-Forwarded-For header: an address that is parsed and normalised is one *)
(* value, and whatever cannot be parsed is Junk.                           *)
(***************************************************************************)
EXTENDS Integers, Sequences, FiniteSetsExt

CONSTANTS
  Client,  \* addresses outside the trusted networks
  Proxy,   \* trusted reverse proxies
  Junk     \* an entry of the header that is no address

ASSUME Addresses == Client \cap Proxy = {} /\ Junk \notin Client \cup Proxy

Address == Client \cup Proxy

\* The positions at which forwardedClient stops on its way from the right.
Ends(hops) == {i \in 1..Len(hops) : i = 1 \/ hops[i] \notin Proxy}

\* Mutant of Sender: the header is read from the left.
SenderLeft(peer, hops) ==
  IF peer \in Proxy /\ hops # <<>> /\ hops[1] # Junk THEN hops[1] ELSE peer

\* The address a request counts for: RealIP and forwardedClient.  The header is
\* believed if the peer is trusted, and then up to the first untrusted entry.
Sender(peer, hops) ==
  IF peer \in Proxy /\ hops # <<>> /\ hops[Max(Ends(hops))] # Junk
  THEN hops[Max(Ends(hops))]
  ELSE peer

\* What arrives when `origin` sends a header that holds `own` and the
\* request passes the proxies of `path`: each appends its own peer.
Hops(origin, own, path) ==
  IF path = <<>> THEN own
  ELSE own \o <<origin>> \o SubSeq(path, 1, Len(path) - 1)

Peer(origin, path) == IF path = <<>> THEN origin ELSE path[Len(path)]
=============================================================================
