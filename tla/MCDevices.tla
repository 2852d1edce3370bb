----------------------------- MODULE MCDevices -----------------------------
(* A small instance of LockDevices for TLC: a lock with a name and one without,
   and one other entry. *)
EXTENDS LockDevices, TLC

CONSTANTS door, gate, button, text, home, cabin

PlatformsAreAlike == Permutations(Platforms)
=============================================================================
