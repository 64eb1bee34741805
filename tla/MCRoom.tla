------------------------------- MODULE MCRoom -------------------------------
(* Model checking of Room: the .cfg files choose how many connections and  *)
(* requests there are and what may happen to them.                         *)
EXTENDS Room, TLC

\* Connections, requests and lock entries are interchangeable.
Interchangeable ==
  Permutations(Conn) \cup Permutations(Put) \cup Permutations(Entry)

\* A message as far as the text and the lock of its receiver depend on it.
Gist(m) == IF m[1] \in {"content", "ack", "lock"} THEN m ELSE <<"reply">>

\* What the rest of a behaviour can depend on.  Left out: the last step's
\* events, the due time of a timer that does not run, the buffer of a
\* connection that will deliver nothing more, and what replies say.
Relevant ==
  << entry, holder, left, firing, announced, owing, [e \in armed |-> due[e]],
     members, stored, session, hub, pc, issued,
     [h \in Handler |-> <<task[h].step, task[h].edit, task[h].as, task[h].age>>],
     [c \in {d \in Conn : pc[d] \in {"joined", "read", "up"}} |->
        <<[i \in 1..Len(inbox[c]) |-> Gist(inbox[c][i])], c \in kicked,
          view[c]>>] >>
=============================================================================
