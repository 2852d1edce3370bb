------------------------- MODULE AttributionLedger -------------------------
(***************************************************************************)
(* What the file of attributions promises to everyone who reads the audit  *)
(* log: a row that was credited to a request keeps that credit until it is *)
(* older than MatchedTTL, and a request is credited with at most one row.  *)
(***************************************************************************)
EXTENDS Integers

CONSTANTS Requests, Locks, NoOne, MaxTime, MatchedTTL

Row == Locks \X (0 .. MaxTime)

VARIABLES
  now,     \* the clock
  ledger   \* the request credited with each row

Init == now = 0 /\ ledger = [k \in Row |-> NoOne]

Tick == now' = now + 1 /\ UNCHANGED ledger

\* Credits are added to rows that had none; only old rows are forgotten.
Revise ==
  /\ ledger' \in [Row -> Requests \cup {NoOne}]
  /\ \A k \in Row : ledger[k] # NoOne =>
       \/ ledger'[k] = ledger[k]
       \/ ledger'[k] = NoOne /\ now - k[2] > MatchedTTL
  /\ \A j, k \in Row : ledger'[j] # NoOne /\ ledger'[j] = ledger'[k] => j = k
  /\ UNCHANGED now

Spec == Init /\ [][Tick \/ Revise]_<<now, ledger>>
=============================================================================
