------------------------- MODULE PushRefresh_proofs -------------------------
(***************************************************************************)
(* Proofs about PushRefresh for every set of events and number of attempts.*)
(***************************************************************************)
EXTENDS PushRefresh, TLAPS

LEMMA InitTypes == Init => TypeOK
<1> SUFFICES ASSUME Init PROVE TypeOK
  OBVIOUS
<1>1. attempt \in 0 .. Attempts
  BY SomeAttempt DEF Init
<1> QED  BY <1>1 DEF Init, TypeOK

\* What one round of the task leaves behind.
LEMMA JudgeTypes ==
  ASSUME TypeOK, task # "none" => attempt \in 1 .. Attempts, NEW rows, Judge(rows)
  PROVE  /\ task' \in {"none", "sleeping"} /\ attempt' \in 0 .. Attempts
         /\ task' # "none" => attempt' >= 1
         /\ base' \subseteq Events /\ expects' \in BOOLEAN
         /\ expects' => task' # "none"
<1>1. task' \in {"none", "sleeping"} /\ (task' # "none" => attempt' >= 1)
  BY SomeAttempt DEF Judge, TypeOK
<1>2. attempt' \in 0 .. Attempts
  BY SomeAttempt DEF Judge, TypeOK
<1>3. base' \subseteq Events /\ (expects' => task' # "none")
  BY DEF Judge, TypeOK
<1>4. expects' \in BOOLEAN
  BY DEF Judge, TypeOK
<1> QED  BY <1>1, <1>2, <1>3, <1>4

\* A task is in one of its attempts, holds the refresh that it awaits, and is
\* alone in expecting a row; and once a fetch is answered, every event that is
\* still owed one came after it.
Inv ==
  /\ TypeOK
  /\ task # "none" => attempt \in 1 .. Attempts
  /\ ExpectationNeedsTask
  /\ TaskHoldsItsRefresh
  /\ refresh = "idle" <=> holder = "nobody"
  /\ refresh = "fetched" => owed \subseteq late
  /\ OnlyLateEventsAreForgotten

LEMMA InitInv == Init => Inv
BY InitTypes
   DEF Init, Inv, ExpectationNeedsTask, TaskHoldsItsRefresh, OnlyLateEventsAreForgotten

\* Handing a message, losing one, a row or an event: the loop sees none of it.
LEMMA CloudKeepsInv ==
  ASSUME Inv, NEW e \in Events, Happen(e) \/ Post(e) \/ Age(e) \/ Lose(e) \/ Hand(e)
  PROVE  Inv'
<1>1. UNCHANGED <<data, taskVars, refreshVars, watchVars, life>>
  BY DEF Happen, Post, Age, Lose, Hand
<1>2. /\ happened' \subseteq Events /\ posted' \subseteq Events /\ aged' \subseteq Events
      /\ wire' \subseteq Events /\ inbox' \subseteq Events
  BY DEF Inv, TypeOK, Happen, Post, Age, Lose, Hand, cloudVars
<1> QED
  BY <1>1, <1>2
     DEF Inv, TypeOK, ExpectationNeedsTask, TaskHoldsItsRefresh,
         OnlyLateEventsAreForgotten, FetchIsComing, taskVars, refreshVars, watchVars

LEMMA NextInv == Inv /\ [Next]_vars => Inv'
<1> SUFFICES ASSUME Inv, [Next]_vars PROVE Inv'
  OBVIOUS
<1> USE DEF Inv, ExpectationNeedsTask, TaskHoldsItsRefresh,
            OnlyLateEventsAreForgotten, FetchIsComing
<1> USE DEF cloudVars, taskVars, refreshVars, watchVars
<1>1. ASSUME NEW e \in Events, Happen(e) \/ Post(e) \/ Age(e) \/ Lose(e) \/ Hand(e)
      PROVE  Inv'
  BY <1>1, CloudKeepsInv
<1>2. ASSUME NEW e \in Events, Handle(e) PROVE Inv'
  BY <1>2, SomeAttempt DEF Handle, TypeOK
<1>3. CASE Wake
  <2>1. CASE (Deferred \/ Dropped) /\ Judge(data)
    <3>1. /\ UNCHANGED <<cloudVars, inbox, data, life, watchVars, refresh, holder,
                         answer, cooldown>>
          /\ task = "sleeping" /\ holder # "push"
      BY <1>3, <2>1 DEF Wake, Deferred, Dropped
    <3>2. again' \in BOOLEAN /\ (again' \/ refresh \in {"begun", "fetched"})
      BY <1>3, <2>1 DEF Wake, Deferred, Dropped, TypeOK
    <3>3. TypeOK' /\ (task' # "none" => attempt' \in 1 .. Attempts)
      BY <2>1, <3>1, <3>2, JudgeTypes DEF TypeOK
    <3>4. task' # "refreshing" /\ (expects' => task' # "none")
      BY <2>1, <3>1, JudgeTypes
    <3> QED  BY <3>1, <3>2, <3>3, <3>4
  <2>2. CASE Started("push") /\ task' = "refreshing" /\ UNCHANGED <<attempt, base, expects>>
    BY <1>3, <2>2 DEF Wake, Started, Begin, TypeOK
  <2> QED  BY <1>3, <2>1, <2>2 DEF Wake
<1>4. CASE OtherRequest
  BY <1>4 DEF OtherRequest, Deferred, Started, Begin, TypeOK
<1>5. CASE Poll
  BY <1>5 DEF Poll, Begin, TypeOK
<1>6. CASE CooldownEnds
  BY <1>6 DEF CooldownEnds, Begin, TypeOK
<1>7. CASE Fetch
  BY <1>7 DEF Fetch, TypeOK
<1>8. CASE Finish
  <2>0. cooldown' \in BOOLEAN
    BY <1>8 DEF Finish
  <2>1. /\ data' \subseteq Events /\ refresh' = "idle" /\ holder' = "nobody"
        /\ answer' = {} /\ refresh = "fetched"
        /\ UNCHANGED <<cloudVars, inbox, life, watchVars, again>>
    BY <1>8 DEF Finish, Published, TypeOK
  <2>2. CASE holder = "push"
    <3>1. task = "refreshing" /\ Judge(data')
      BY <1>8, <2>2 DEF Finish
    <3>2. TypeOK' /\ (task' # "none" => attempt' \in 1 .. Attempts)
      BY <2>0, <2>1, <3>1, JudgeTypes DEF TypeOK
    <3>3. task' # "refreshing" /\ (expects' => task' # "none")
      BY <3>1, JudgeTypes
    <3> QED  BY <1>8, <2>1, <3>2, <3>3 DEF Finish
  <2>3. CASE holder # "push"
    <3>1. UNCHANGED <<task, attempt, base, expects>>
      BY <1>8, <2>3 DEF Finish
    <3>2. TypeOK'
      BY <2>0, <2>1, <3>1 DEF TypeOK
    <3>3. ExpectationNeedsTask'
      BY <3>1
    <3> QED  BY <2>1, <2>3, <3>1, <3>2, <3>3
  <2> QED  BY <2>2, <2>3
<1>9. CASE CancelTask
  <2>1. expects' \in BOOLEAN /\ ~expects'
    BY <1>9 DEF CancelTask
  <2>2. /\ task' = "none" /\ attempt' = 0 /\ base' = {} /\ life' = "stopping"
        /\ UNCHANGED <<cloudVars, inbox, data, watchVars, again>>
    BY <1>9 DEF CancelTask
  <2>3. CASE task = "refreshing"
    <3>1. /\ refresh' = "idle" /\ holder' = "nobody" /\ answer' = {}
          /\ cooldown' = TRUE
      BY <1>9, <2>3 DEF CancelTask
    <3> QED  BY <2>1, <2>2, <3>1, SomeAttempt DEF TypeOK
  <2>4. CASE task # "refreshing"
    <3>1. UNCHANGED <<refresh, holder, answer, cooldown>>
      BY <1>9, <2>4 DEF CancelTask
    <3> QED  BY <2>1, <2>2, <2>4, <3>1, SomeAttempt DEF TypeOK
  <2> QED  BY <2>3, <2>4
<1>10. CASE ListenerStopped
  BY <1>10 DEF ListenerStopped, TypeOK
<1>11. CASE UNCHANGED vars
  BY <1>11 DEF vars, TypeOK
<1> QED
  BY <1>1, <1>2, <1>3, <1>4, <1>5, <1>6, <1>7, <1>8, <1>9, <1>10, <1>11 DEF Next

\* Whatever is coalesced, deferred or dropped, only an event that came between
\* a fetch and its publication can go without a refresh.
THEOREM OnlyLateEvents == Spec => []OnlyLateEventsAreForgotten
BY InitInv, NextInv, PTL DEF Spec, Inv

\* A status event never inherits the expectation of an audit row, and a task holds
\* exactly the refresh that it awaits.
THEOREM ExpectationHolds == Spec => []TaskOwnsItsState
BY InitInv, NextInv, PTL DEF Spec, Inv, TaskOwnsItsState

\* Every variable keeps its type, for every set of events and number of attempts.
THEOREM TypeCorrect == Spec => []TypeOK
BY InitInv, NextInv, PTL DEF Spec, Inv

-----------------------------------------------------------------------------
(* What is shown.                                                          *)

\* The answer of a refresh holds all that is shown and still in the window: rows leave
\* the log only by age, and while one refresh is in flight no other publishes.
ShownInv ==
  /\ data \subseteq posted
  /\ refresh = "fetched" => data \subseteq answer \cup aged /\ answer \subseteq posted

LEMMA ShownKept ==
  ShownInv /\ [Next]_vars => ShownInv' /\ data \subseteq data' \cup aged /\ aged \subseteq aged'
<1> SUFFICES ASSUME ShownInv, [Next]_vars
             PROVE  ShownInv' /\ data \subseteq data' \cup aged /\ aged \subseteq aged'
  OBVIOUS
<1> USE DEF ShownInv
<1> DEFINE Goal == ShownInv' /\ data \subseteq data' \cup aged /\ aged \subseteq aged'
<1>1. ASSUME NEW e \in Events,
             Happen(e) \/ Post(e) \/ Age(e) \/ Lose(e) \/ Hand(e) \/ Handle(e)
      PROVE  Goal
  BY <1>1 DEF Happen, Post, Age, Lose, Hand, Handle, cloudVars, refreshVars
<1>2. CASE Wake
  BY <1>2 DEF Wake, Deferred, Dropped, Started, Begin, cloudVars, refreshVars
<1>3. CASE OtherRequest \/ Poll \/ CooldownEnds
  BY <1>3 DEF OtherRequest, Poll, CooldownEnds, Deferred, Started, Begin, cloudVars
<1>4. CASE Fetch
  BY <1>4 DEF Fetch, cloudVars
<1>5. CASE Finish
  BY <1>5 DEF Finish, Published, cloudVars
<1>6. CASE CancelTask \/ ListenerStopped
  BY <1>6 DEF CancelTask, ListenerStopped, cloudVars, refreshVars
<1>7. CASE UNCHANGED vars
  BY <1>7 DEF vars, cloudVars, refreshVars
<1> QED  BY <1>1, <1>2, <1>3, <1>4, <1>5, <1>6, <1>7 DEF Next

\* An audit row that was shown is missing from what a later refresh shows only when
\* it has left the 30 days, or the 100 rows, that a refresh reads: whoever asked for
\* the refresh, and whether or not another was cancelled on its way
\* (coordinator.py:100-165, 528-553).
ShownRowsStay == [][data \ data' \subseteq aged]_vars

THEOREM ShownRowsStayHolds == Spec => ShownRowsStay
<1>1. Init => ShownInv
  BY DEF Init, ShownInv
<1>2. ShownInv /\ [Next]_vars => ShownInv' /\ [data \ data' \subseteq aged]_vars
  BY ShownKept
<1> QED  BY <1>1, <1>2, PTL DEF Spec, ShownRowsStay

-----------------------------------------------------------------------------
(* How a task comes to its end.                                            *)

\* The steps that a task in one of its attempts still has: a sleep and a refresh in
\* each attempt.
StepsLeft == 2 * (Attempts - attempt) + (IF task = "sleeping" THEN 2 ELSE 1)

\* The task's own steps: its sleep ends, or the refresh that it awaits.
TaskStep == Wake \/ (Finish /\ holder = "push")

\* A push task that goes on after a step of its own has fewer steps left, and no
\* event that is coalesced into it, no other refresh and no timer gives it one
\* back: it ends after at most 2 * Attempts steps (coordinator.py:127-144).
TaskAdvances ==
  [][/\ task # "none" /\ task' # "none" => StepsLeft' <= StepsLeft
     /\ TaskStep /\ task' # "none" => StepsLeft' < StepsLeft]_vars

LEMMA JudgedAdvances ==
  ASSUME Inv, NEW rows, Judge(rows), task # "none", task' # "none"
  PROVE  StepsLeft' < StepsLeft
<1>1. task' = "sleeping" /\ attempt' = attempt + 1
  BY DEF Judge
<1>2. attempt \in Nat /\ Attempts \in Nat
  BY SomeAttempt DEF Inv, TypeOK
<1>3. CASE task = "refreshing"
  BY <1>1, <1>2, <1>3 DEF StepsLeft
<1>4. CASE task = "sleeping"
  BY <1>1, <1>2, <1>4 DEF StepsLeft
<1> QED  BY <1>3, <1>4 DEF Inv, TypeOK

LEMMA TaskStepAdvances ==
  ASSUME Inv, Inv', TaskStep, task' # "none"
  PROVE  task # "none" /\ StepsLeft' < StepsLeft
<1>1. attempt \in Nat /\ attempt' \in Nat /\ Attempts \in Nat
  BY SomeAttempt DEF Inv, TypeOK
<1>2. CASE Wake
  <2>1. task = "sleeping"
    BY <1>2 DEF Wake
  <2>2. CASE Judge(data)
    BY <2>1, <2>2, JudgedAdvances
  <2>3. CASE task' = "refreshing" /\ attempt' = attempt
    BY <1>1, <2>1, <2>3 DEF StepsLeft
  <2> QED  BY <1>2, <2>1, <2>2, <2>3 DEF Wake
<1>3. CASE Finish /\ holder = "push"
  <2>1. Judge(data') /\ task = "refreshing"
    BY <1>3 DEF Finish, Inv, TaskHoldsItsRefresh
  <2> QED  BY <2>1, JudgedAdvances
<1> QED  BY <1>2, <1>3 DEF TaskStep

LEMMA OthersLeaveTheTask ==
  ASSUME Inv, [Next]_vars, ~TaskStep, task # "none", task' # "none"
  PROVE  UNCHANGED <<task, attempt>>
<1> USE DEF taskVars
<1>1. ASSUME NEW e \in Events, Happen(e) \/ Post(e) \/ Age(e) \/ Lose(e) \/ Hand(e) \/ Handle(e)
      PROVE  UNCHANGED <<task, attempt>>
  BY <1>1 DEF Happen, Post, Age, Lose, Hand, Handle
<1>2. CASE OtherRequest \/ Poll \/ CooldownEnds \/ Fetch \/ ListenerStopped
  BY <1>2 DEF OtherRequest, Poll, CooldownEnds, Fetch, ListenerStopped
<1>3. CASE Finish \/ CancelTask
  BY <1>3 DEF TaskStep, Finish, CancelTask
<1>4. CASE UNCHANGED vars
  BY <1>4 DEF vars
<1> QED  BY <1>1, <1>2, <1>3, <1>4 DEF Next, TaskStep

THEOREM TaskAdvancesHolds == Spec => TaskAdvances
<1> DEFINE Advance == /\ task # "none" /\ task' # "none" => StepsLeft' <= StepsLeft
                      /\ TaskStep /\ task' # "none" => StepsLeft' < StepsLeft
<1>1. ASSUME Inv, Inv', [Next]_vars PROVE Advance
  <2>1. attempt \in Nat /\ attempt' \in Nat /\ StepsLeft \in Int /\ StepsLeft' \in Int
    BY <1>1, SomeAttempt DEF Inv, TypeOK, StepsLeft
  <2>2. CASE TaskStep
    BY <1>1, <2>1, <2>2, TaskStepAdvances
  <2>3. CASE ~TaskStep
    <3>1. ASSUME task # "none", task' # "none" PROVE StepsLeft' = StepsLeft
      BY <1>1, <2>3, <3>1, OthersLeaveTheTask DEF StepsLeft
    <3> QED  BY <2>1, <2>3, <3>1
  <2> QED  BY <2>2, <2>3
<1> QED  BY <1>1, InitInv, NextInv, PTL DEF Spec, TaskAdvances
=============================================================================
