------------------------------ MODULE MCClient ------------------------------
(* A small instance of TuyaClient for TLC. *)
EXTENDS TuyaClient, TLC

CONSTANTS refresh, command, k1, k2
=============================================================================
