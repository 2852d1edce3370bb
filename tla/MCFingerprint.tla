---------------------------- MODULE MCFingerprint ----------------------------
(* A small instance of FingerprintMap for TLC: two slots and two names, all
   alike. *)
EXTENDS FingerprintMap, TLC

CONSTANTS s1, s2, n1, n2

TheSlots == {s1, s2}
TheNames == {n1, n2}
SlotsAndNamesAreAlike == Permutations(TheSlots) \cup Permutations(TheNames)
=============================================================================
