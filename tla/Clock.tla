------------------------------- MODULE Clock -------------------------------
(* The server's clock, in ticks (what time.Now() reads), and the client    *)
(* addresses by which the rate limiter and the lockout keep their entries. *)
(* Both read the clock before they wait for their mutex.                   *)
EXTENDS Integers

CONSTANTS
  Horizon,  \* bound: the last tick of a behaviour
  Delay,    \* bound: ticks between reading the clock and having the mutex
  Key       \* client addresses

ASSUME ClockConstants == Horizon \in Nat /\ Delay \in Nat

VARIABLE now

Tick == now < Horizon /\ now' = now + 1
=============================================================================
