------------------------------- MODULE MCPush -------------------------------
(* A small instance of PushRefresh for TLC: two audited events, one status
   event between them, and the three attempts of the code. *)
EXTENDS PushRefresh

TheAudits == {1, 3}
TheOthers == {2}
=============================================================================
