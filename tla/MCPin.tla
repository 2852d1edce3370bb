------------------------------- MODULE MCPin -------------------------------
(* A small instance of PinEntities for TLC: two PINs that the lock has already. *)
EXTENDS PinEntities, TLC

CONSTANTS p1, p2
=============================================================================
