--------------------------- MODULE MCAttribution ---------------------------
(* Small instances of RemoteUnlockAttribution for TLC. *)
EXTENDS RemoteUnlockAttribution, TLC

CONSTANTS r1, r2

\* The requests differ in nothing but their name.
RequestsAreAlike == Permutations({r1, r2})
=============================================================================
