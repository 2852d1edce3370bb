---------------------------- MODULE SerialCalls ----------------------------
(***************************************************************************)
(* What the REST client promises to the threads that share it: their calls *)
(* take effect at Tuya one after the other.  While one is under way no     *)
(* other call has an effect, and it has one at most, or two if it only     *)
(* reads.                                                                  *)
(***************************************************************************)
EXTENDS Naturals

CONSTANTS Threads, Nobody

VARIABLES
  caller,   \* the thread whose call is under way
  most,     \* how many effects that call may have
  effects   \* how many each thread's call has had

Init == caller = Nobody /\ most = 0 /\ effects = [t \in Threads |-> 0]

Begin ==
  /\ caller = Nobody
  /\ caller' \in Threads /\ most' \in 1 .. 2
  /\ UNCHANGED effects

Execute ==
  /\ caller # Nobody /\ effects[caller] < most
  /\ effects' = [effects EXCEPT ![caller] = @ + 1]
  /\ UNCHANGED <<caller, most>>

End ==
  /\ caller # Nobody
  /\ caller' = Nobody /\ most' = 0
  /\ effects' = [effects EXCEPT ![caller] = 0]

Next == Begin \/ Execute \/ End

Spec == Init /\ [][Next]_<<caller, most, effects>>
=============================================================================
