----------------------------- MODULE MCListener -----------------------------
(* A small instance of PushListener for TLC.  Three clients are enough: one
   that the listener holds, one that stop() still closes, and a new one. *)
EXTENDS PushListener, TLC

CONSTANTS c1, c2, c3

TheClients == {c1, c2, c3}
ClientsAreAlike == Permutations(TheClients)
=============================================================================
