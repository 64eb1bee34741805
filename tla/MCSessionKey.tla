--------------------------- MODULE MCSessionKey ----------------------------
(* Model checking of SessionKey: every behaviour of a page that is loaded  *)
(* and written to a few times.                                             *)
EXTENDS SessionKey

\* Bound: loads and texts of a behaviour together.
Small == texts + loads <= 3

\* What the rest of a behaviour can depend on.  Of what a page was given to read
\* OpensWithKey asks but whether it was all under one key that the page had.
Relevant ==
  LET had == {page.had[i].key : i \in DOMAIN page.had}
      met == IF \E k \in had : page.met \subseteq {k} THEN page.met ELSE {NoKey}
  IN << stored, seed, copy, device, [page EXCEPT !.met = met, !.had = had], boot,
        reading, inbox, up, sending, texts, loads >>
=============================================================================
