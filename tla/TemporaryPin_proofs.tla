------------------------- MODULE TemporaryPin_proofs -------------------------
(***************************************************************************)
(* Proofs about TemporaryPin, and about its composition with the entities  *)
(* in PinEntities, for every set of PINs and number of checks.             *)
(***************************************************************************)
EXTENDS PinEntities, TLAPS

\* A claim is Tuya's own word, already in the answer that the event loop has yet
\* to see.
Reported(p, word) == word \in Verdicts \ {"failed"} => word \in told[p]

Watched(p) ==
  /\ monitor[p] # "none" => creation[p] = "done"
  /\ monitor[p] = "none" => polls[p] = 0
  /\ monitor[p] = "sleeping" => polls[p] < Rounds
  /\ monitor[p] # "answered" => answer[p] = "none"
  /\ creation[p] \in {"none", "asked"} => cloud[p] = "absent"
  /\ creation[p] \in {"sent", "done"} => cloud[p] # "absent"
  /\ deletion[p] # "none" => cloud[p] # "absent"
  /\ deletion[p] = "sent" => cloud[p] = "deleted"

\* What may still announce a PIN: a monitor, or a creation that will start one.
Quiet(p) == monitor[p] = "none" /\ creation[p] \notin {"asked", "sent"}

PinInv(p) ==
  /\ Watched(p)
  /\ Reported(p, answer[p]) /\ Reported(p, note[p])
  /\ p \in gone => Quiet(p) /\ creation[p] # "none" /\ note[p] = "none"
  /\ life # "running" /\ p \notin late => Quiet(p)

Inv == TypeOK /\ \A p \in Pins : PinInv(p)

-----------------------------------------------------------------------------
(* The life of a PIN.                                                      *)

LEMMA InitInv == Init => Inv
<1> SUFFICES ASSUME Init PROVE Inv
  OBVIOUS
<1>1. TypeOK
  <2>1. /\ cloud \in [Pins -> Reports \cup {"absent", "deleted"}]
        /\ creation \in [Pins -> {"none", "asked", "sent", "done", "failed"}]
    BY DEF Init
  <2>2. polls \in [Pins -> 0 .. Rounds]
    BY SomeRound DEF Init
  <2> QED  BY <2>1, <2>2 DEF Init, TypeOK
<1>2. ASSUME NEW p \in Pins PROVE PinInv(p)
  BY SomeRound DEF Init, PinInv, Watched, Reported, Verdicts, Quiet
<1> QED  BY <1>1, <1>2 DEF Inv

\* A step that is about one PIN, in the functions and in the sets.
OnlyItsValues(p) ==
  /\ life' = life
  /\ \A q \in Pins \ {p} :
       /\ cloud'[q] = cloud[q] /\ creation'[q] = creation[q] /\ deletion'[q] = deletion[q]
       /\ monitor'[q] = monitor[q] /\ polls'[q] = polls[q] /\ answer'[q] = answer[q]
       /\ note'[q] = note[q] /\ told'[q] = told[q]

OnlyItsHistory(p) ==
  \A q \in Pins \ {p} : (q \in gone' => q \in gone) /\ (q \in late => q \in late')

\* The facts of a PIN are its own, but for the life of the coordinator.
LEMMA OnePinChanges ==
  ASSUME Inv, NEW p \in Pins, TypeOK', PinInv(p)', OnlyItsValues(p), OnlyItsHistory(p)
  PROVE  Inv'
<1>1. ASSUME NEW q \in Pins, q # p PROVE PinInv(q)'
  BY <1>1 DEF OnlyItsValues, OnlyItsHistory, Inv, PinInv, Watched, Reported, Quiet
<1> QED  BY <1>1 DEF Inv

LEMMA CreationKeepsInv ==
  ASSUME Inv, NEW p \in Pins, Create(p) \/ CloudCreates(p) \/ CreateFails(p) \/ Created(p)
  PROVE  Inv'
<1>1. CASE Create(p)
  <2>1. TypeOK'
    BY <1>1 DEF Inv, TypeOK, Create
  <2>2. PinInv(p)'
    BY <1>1 DEF Inv, TypeOK, Create, PinInv, Watched, Reported, Quiet
  <2>3. OnlyItsValues(p)
    BY <1>1 DEF OnlyItsValues, Create, Inv, TypeOK
  <2>4. OnlyItsHistory(p)
    BY <1>1 DEF OnlyItsHistory, Create
  <2> QED  BY <2>1, <2>2, <2>3, <2>4, OnePinChanges
<1>2. CASE CloudCreates(p)
  <2>1. TypeOK'
    BY <1>2 DEF Inv, TypeOK, CloudCreates, Reports, history
  <2>2. PinInv(p)'
    BY <1>2 DEF Inv, TypeOK, CloudCreates, PinInv, Watched, Reported, Quiet, history
  <2>3. OnlyItsValues(p)
    BY <1>2 DEF OnlyItsValues, CloudCreates, Inv, TypeOK, history
  <2>4. OnlyItsHistory(p)
    BY <1>2 DEF OnlyItsHistory, CloudCreates, history
  <2> QED  BY <2>1, <2>2, <2>3, <2>4, OnePinChanges
<1>3. CASE CreateFails(p)
  <2>1. TypeOK'
    BY <1>3 DEF Inv, TypeOK, CreateFails, history
  <2>2. PinInv(p)'
    BY <1>3 DEF Inv, TypeOK, CreateFails, PinInv, Watched, Reported, Quiet, history
  <2>3. OnlyItsValues(p)
    BY <1>3 DEF OnlyItsValues, CreateFails, Inv, TypeOK, history
  <2>4. OnlyItsHistory(p)
    BY <1>3 DEF OnlyItsHistory, CreateFails, history
  <2> QED  BY <2>1, <2>2, <2>3, <2>4, OnePinChanges
<1>4. CASE Created(p)
  <2>1. TypeOK'
    BY <1>4 DEF Inv, TypeOK, Created, history
  <2>2. monitor[p] = "none" /\ p \notin gone /\ polls[p] = 0 /\ 0 < Rounds
    BY <1>4, SomeRound DEF Inv, PinInv, Watched, Quiet, Created
  <2>3. Watched(p)'
    BY <1>4, <2>2 DEF Inv, TypeOK, Created, PinInv, Watched
  <2>4. Reported(p, answer[p])' /\ Reported(p, note[p])'
    BY <1>4 DEF Inv, TypeOK, Created, PinInv, Reported, Verdicts, history
  <2>5. PinInv(p)'
    BY <1>4, <2>2, <2>3, <2>4 DEF Inv, TypeOK, Created, PinInv, Quiet, history
  <2>6. OnlyItsValues(p)
    BY <1>4 DEF OnlyItsValues, Created, Inv, TypeOK, history
  <2>7. OnlyItsHistory(p)
    BY <1>4 DEF OnlyItsHistory, Created, history
  <2> QED  BY <2>1, <2>5, <2>6, <2>7, OnePinChanges
<1> QED  BY <1>1, <1>2, <1>3, <1>4

\* The monitor believes nothing that Tuya did not say.
LEMMA BelievedIsReported ==
  ASSUME NEW r \in Reports \cup {"deleted"}
  PROVE  /\ Believed(r) \in Verdicts \cup {"wait"}
         /\ Believed(r) \in Verdicts \ {"failed"} => Believed(r) = r
BY DEF Believed, Reports, Verdicts

LEMMA DeliveryKeepsInv ==
  ASSUME Inv, NEW p \in Pins, CloudReports(p) \/ Ask(p) \/ Conclude(p) \/ Dismiss(p)
  PROVE  Inv'
<1> USE DEF tasks, history
<1>1. CASE CloudReports(p)
  <2>1. PICK r \in Reports : /\ cloud' = [cloud EXCEPT ![p] = r]
                            /\ cloud[p] \in Reports
                            /\ UNCHANGED <<tasks, note, life, history>>
    BY <1>1 DEF CloudReports
  <2>2. TypeOK'
    BY <2>1 DEF Inv, TypeOK
  <2>3. PinInv(p)'
    <3>1. cloud'[p] = r /\ "absent" \notin Reports /\ "deleted" \notin Reports
      BY <2>1 DEF Inv, TypeOK, Reports
    <3>2. Watched(p)'
      BY <2>1, <3>1 DEF Inv, PinInv, Watched
    <3> QED  BY <2>1, <3>2 DEF Inv, PinInv, Reported, Quiet
  <2>4. OnlyItsValues(p)
    BY <2>1 DEF OnlyItsValues, Inv, TypeOK
  <2>5. OnlyItsHistory(p)
    BY <2>1 DEF OnlyItsHistory
  <2> QED  BY <2>2, <2>3, <2>4, <2>5, OnePinChanges
<1>2. CASE Ask(p)
  <2>1. /\ monitor[p] = "sleeping" /\ creation[p] = "done"
        /\ cloud[p] \in Reports \cup {"deleted"}
    <3>1. monitor[p] = "sleeping"
      BY <1>2 DEF Ask
    <3>2. PinInv(p) /\ cloud[p] \in Reports \cup {"absent", "deleted"}
      BY DEF Inv, TypeOK
    <3>3. creation[p] = "done" /\ cloud[p] # "absent"
      BY <3>1, <3>2 DEF PinInv, Watched
    <3> QED  BY <3>1, <3>2, <3>3
  <2>2. polls[p] + 1 \in 0 .. Rounds
    <3>1. polls[p] \in 0 .. Rounds /\ polls[p] < Rounds
      BY <2>1 DEF Inv, TypeOK, PinInv, Watched
    <3> QED  BY <3>1, SomeRound
  <2>3. PICK v \in Verdicts \cup {"wait", "malformed"}, T \in SUBSET (Reports \cup {"absent", "deleted"}) :
          /\ answer' = [answer EXCEPT ![p] = v] /\ told' = [told EXCEPT ![p] = T]
          /\ v \in Verdicts \ {"failed"} => v \in T
          /\ told[p] \subseteq T
    <3>1. CASE /\ answer' = [answer EXCEPT ![p] = Believed(cloud[p])]
               /\ told' = [told EXCEPT ![p] = @ \cup {cloud[p]}]
      <4>1. told[p] \cup {cloud[p]} \in SUBSET (Reports \cup {"absent", "deleted"})
        BY <2>1 DEF Inv, TypeOK
      <4> QED  BY <2>1, <3>1, <4>1, BelievedIsReported
    <3>2. ASSUME NEW a \in {"failed", "malformed"},
                 answer' = [answer EXCEPT ![p] = a], UNCHANGED told
          PROVE  \E v \in Verdicts \cup {"wait", "malformed"},
                    T \in SUBSET (Reports \cup {"absent", "deleted"}) :
                   /\ answer' = [answer EXCEPT ![p] = v] /\ told' = [told EXCEPT ![p] = T]
                   /\ v \in Verdicts \ {"failed"} => v \in T
                   /\ told[p] \subseteq T
      <4>1. /\ told' = [told EXCEPT ![p] = told[p]]
            /\ a \in Verdicts \cup {"malformed"} /\ a \notin Verdicts \ {"failed"}
        BY <3>2 DEF Inv, TypeOK, Verdicts
      <4>2. told[p] \in SUBSET (Reports \cup {"absent", "deleted"})
        BY DEF Inv, TypeOK
      <4> QED  BY <3>2, <4>1, <4>2
    <3> QED  BY <1>2, <3>1, <3>2 DEF Ask
  <2>4. TypeOK'
    BY <1>2, <2>2, <2>3 DEF Ask, Inv, TypeOK
  <2>5. Watched(p)'
    BY <1>2, <2>1 DEF Ask, Inv, TypeOK, PinInv, Watched
  <2>6. Reported(p, answer[p])' /\ Reported(p, note[p])'
    BY <1>2, <2>3 DEF Ask, Inv, TypeOK, PinInv, Reported
  <2>7. PinInv(p)'
    BY <1>2, <2>1, <2>5, <2>6 DEF Ask, Inv, TypeOK, PinInv, Quiet
  <2>8. OnlyItsValues(p)
    BY <1>2, <2>3 DEF OnlyItsValues, Ask, Inv, TypeOK
  <2>9. OnlyItsHistory(p)
    BY <1>2, <2>3 DEF OnlyItsHistory, Ask
  <2> QED  BY <2>4, <2>7, <2>8, <2>9, OnePinChanges
<1>3. CASE Conclude(p)
  <2>1. /\ monitor[p] = "answered" /\ answer' = [answer EXCEPT ![p] = "none"]
        /\ UNCHANGED <<cloud, creation, deletion, life, told, gone, late>>
    BY <1>3 DEF Conclude
  <2> 0 \in 0 .. Rounds
    BY SomeRound
  <2>2. CASE SleepAgain(p) /\ polls[p] # Rounds
    <3> USE DEF SleepAgain
    <3>1. TypeOK'
      BY <2>1, <2>2 DEF Inv, TypeOK
    <3>2. polls[p] < Rounds
      <4>1. polls[p] \in 0 .. Rounds
        BY DEF Inv, TypeOK
      <4> QED  BY <2>2, <4>1, SomeRound
    <3>3. Watched(p)'
      BY <2>1, <2>2, <3>2 DEF Inv, TypeOK, PinInv, Watched
    <3>4. Reported(p, answer[p])' /\ Reported(p, note[p])'
      BY <2>1, <2>2 DEF Inv, TypeOK, PinInv, Reported, Verdicts
    <3>5. PinInv(p)'
      BY <2>1, <2>2, <3>3, <3>4 DEF Inv, TypeOK, PinInv, Quiet
    <3>6. OnlyItsValues(p)
      BY <2>1, <2>2 DEF OnlyItsValues, Inv, TypeOK
    <3>7. OnlyItsHistory(p)
      BY <2>1, <2>2 DEF OnlyItsHistory
    <3> QED  BY <3>1, <3>5, <3>6, <3>7, OnePinChanges
  <2>3. ASSUME NEW word, Notify(p, word),
               (word = answer[p] /\ word \notin {"wait", "malformed"}) \/ word = "timed out"
        PROVE  Inv'
    <3>1. word \in Verdicts \cup {"none", "configuring", "timed out"}
      <4>1. answer[p] \in Verdicts \cup {"none", "wait", "malformed"}
        BY DEF Inv, TypeOK
      <4> QED  BY <2>3, <4>1
    <3>2. TypeOK'
      BY <2>1, <2>3, <3>1 DEF Inv, TypeOK, Notify, End
    <3>3. /\ monitor'[p] = "none" /\ polls'[p] = 0 /\ answer'[p] = "none"
          /\ note'[p] = word /\ creation'[p] = "done" /\ p \notin gone'
          /\ creation[p] = "done"
      <4>1. /\ monitor'[p] = "none" /\ polls'[p] = 0 /\ answer'[p] = "none"
            /\ note'[p] = word
        BY <2>1, <2>3 DEF Inv, TypeOK, Notify, End
      <4>2. PinInv(p) /\ UNCHANGED <<creation, gone>>
        BY <2>1 DEF Inv
      <4>3. creation[p] = "done" /\ p \notin gone
        BY <2>1, <4>2 DEF PinInv, Watched, Quiet
      <4> QED  BY <4>1, <4>2, <4>3
    <3>4. Watched(p)'
      BY <2>1, <3>3 DEF Inv, PinInv, Watched
    <3>5. Reported(p, answer[p])' /\ Reported(p, note[p])'
      BY <2>1, <2>3, <3>3 DEF Inv, PinInv, Reported, Verdicts
    <3>6. PinInv(p)'
      BY <3>3, <3>4, <3>5 DEF PinInv, Quiet
    <3>7. OnlyItsValues(p)
      BY <2>1, <2>3 DEF OnlyItsValues, Notify, End, Inv, TypeOK
    <3>8. OnlyItsHistory(p)
      BY <2>1, <2>3 DEF OnlyItsHistory, Notify, End
    <3> QED  BY <3>2, <3>6, <3>7, <3>8, OnePinChanges
  <2>4. CASE Break(p)
    <3>1. TypeOK'
      BY <2>1, <2>4 DEF Inv, TypeOK, Break, End
    <3>2. PinInv(p)'
      BY <2>1, <2>4
         DEF Inv, TypeOK, Break, End, PinInv, Watched, Reported, Quiet, Verdicts
    <3>3. OnlyItsValues(p)
      BY <2>1, <2>4 DEF OnlyItsValues, Break, End, Inv, TypeOK
    <3>4. OnlyItsHistory(p)
      BY <2>1, <2>4 DEF OnlyItsHistory, Break, End
    <3> QED  BY <3>1, <3>2, <3>3, <3>4, OnePinChanges
  <2> QED  BY <1>3, <2>2, <2>3, <2>4 DEF Conclude
<1>4. CASE Dismiss(p)
  <2>1. TypeOK'
    BY <1>4 DEF Inv, TypeOK, Dismiss
  <2>2. PinInv(p)'
    <3>1. /\ PinInv(p) /\ note'[p] = "none"
          /\ p \in gone' => p \in gone \/ Forgotten(p)
          /\ UNCHANGED <<cloud, creation, deletion, monitor, polls, answer, life, told, late>>
      BY <1>4 DEF Inv, TypeOK, Dismiss
    <3> QED  BY <3>1 DEF Forgotten, PinInv, Watched, Reported, Quiet, Verdicts
  <2>3. OnlyItsValues(p)
    BY <1>4 DEF OnlyItsValues, Dismiss, Inv, TypeOK
  <2>4. OnlyItsHistory(p)
    BY <1>4 DEF OnlyItsHistory, Dismiss
  <2> QED  BY <2>1, <2>2, <2>3, <2>4, OnePinChanges
<1> QED  BY <1>1, <1>2, <1>3, <1>4

LEMMA DeletionKeepsInv ==
  ASSUME Inv, NEW p \in Pins, Delete(p) \/ CloudDeletes(p) \/ DeleteFails(p) \/ Deleted(p)
  PROVE  Inv'
<1> USE DEF history
<1>1. CASE Deleted(p)
  <2>1. TypeOK'
    BY <1>1 DEF Inv, TypeOK, Deleted
  <2>2. PinInv(p)'
    <3>1. /\ PinInv(p) /\ note'[p] = "none"
          /\ p \in gone' => p \in gone \/ Forgotten(p)
          /\ deletion[p] = "sent" /\ deletion'[p] = "none"
          /\ UNCHANGED <<cloud, creation, monitor, polls, answer, life, told, late>>
      BY <1>1 DEF Inv, TypeOK, Deleted
    <3> QED  BY <3>1 DEF Forgotten, PinInv, Watched, Reported, Quiet, Verdicts
  <2>3. OnlyItsValues(p)
    BY <1>1 DEF OnlyItsValues, Deleted, Inv, TypeOK
  <2>4. OnlyItsHistory(p)
    BY <1>1 DEF OnlyItsHistory, Deleted
  <2> QED  BY <2>1, <2>2, <2>3, <2>4, OnePinChanges
<1>2. CASE CloudDeletes(p)
  <2>1. TypeOK'
    BY <1>2 DEF Inv, TypeOK, CloudDeletes
  <2>2. cloud[p] # "absent"
    BY <1>2 DEF CloudDeletes, Inv, PinInv, Watched
  <2>3. PinInv(p)'
    BY <1>2, <2>2 DEF Inv, TypeOK, CloudDeletes, PinInv, Watched, Reported, Quiet
  <2>4. OnlyItsValues(p)
    BY <1>2 DEF OnlyItsValues, CloudDeletes, Inv, TypeOK
  <2>5. OnlyItsHistory(p)
    BY <1>2 DEF OnlyItsHistory, CloudDeletes
  <2> QED  BY <2>1, <2>3, <2>4, <2>5, OnePinChanges
<1>3. CASE Delete(p)
  <2>1. TypeOK'
    BY <1>3 DEF Inv, TypeOK, Delete
  <2>2. PinInv(p) /\ UNCHANGED <<cloud, creation, monitor, polls, answer, note, life, history>>
    BY <1>3 DEF Inv, Delete
  <2>3. cloud[p] # "absent" /\ deletion'[p] # "sent"
    BY <1>3, <2>2 DEF Inv, TypeOK, Delete, PinInv, Watched
  <2>4. PinInv(p)'
    BY <2>2, <2>3 DEF PinInv, Watched, Reported, Quiet
  <2>5. OnlyItsValues(p)
    BY <1>3 DEF OnlyItsValues, Delete, Inv, TypeOK
  <2>6. OnlyItsHistory(p)
    BY <1>3 DEF OnlyItsHistory, Delete
  <2> QED  BY <2>1, <2>4, <2>5, <2>6, OnePinChanges
<1>4. CASE DeleteFails(p)
  <2>1. TypeOK'
    BY <1>4 DEF Inv, TypeOK, DeleteFails
  <2>2. PinInv(p) /\ UNCHANGED <<cloud, creation, monitor, polls, answer, note, life, history>>
    BY <1>4 DEF Inv, DeleteFails
  <2>3. cloud[p] # "absent" /\ deletion'[p] # "sent"
    BY <1>4, <2>2 DEF Inv, TypeOK, DeleteFails, PinInv, Watched
  <2>4. PinInv(p)'
    BY <2>2, <2>3 DEF PinInv, Watched, Reported, Quiet
  <2>5. OnlyItsValues(p)
    BY <1>4 DEF OnlyItsValues, DeleteFails, Inv, TypeOK
  <2>6. OnlyItsHistory(p)
    BY <1>4 DEF OnlyItsHistory, DeleteFails
  <2> QED  BY <2>1, <2>4, <2>5, <2>6, OnePinChanges
<1> QED  BY <1>1, <1>2, <1>3, <1>4

LEMMA EndKeepsInv ==
  ASSUME Inv, Shutdown \/ Unloaded
  PROVE  Inv'
<1> USE DEF tasks, history
<1>1. CASE Shutdown
  <2>1. 0 \in 0 .. Rounds
    BY SomeRound
  <2>2. TypeOK'
    BY <1>1, <2>1 DEF Inv, TypeOK, Shutdown
  <2>3. ASSUME NEW p \in Pins PROVE PinInv(p)'
    BY <1>1
       DEF Inv, TypeOK, Shutdown, PinInv, Watched, Reported, Quiet, Verdicts
  <2> QED  BY <2>2, <2>3 DEF Inv
<1>2. CASE Unloaded
  BY <1>2 DEF Inv, TypeOK, Unloaded, PinInv, Watched, Reported, Quiet
<1> QED  BY <1>1, <1>2

LEMMA NextInv == Inv /\ [Next]_vars => Inv'
<1> SUFFICES ASSUME Inv, [Next]_vars PROVE Inv'
  OBVIOUS
<1>1. ASSUME NEW p \in Pins,
             Create(p) \/ CloudCreates(p) \/ CreateFails(p) \/ Created(p)
      PROVE  Inv'
  BY <1>1, CreationKeepsInv
<1>2. ASSUME NEW p \in Pins, CloudReports(p) \/ Ask(p) \/ Conclude(p) \/ Dismiss(p)
      PROVE  Inv'
  BY <1>2, DeliveryKeepsInv
<1>3. ASSUME NEW p \in Pins, Delete(p) \/ CloudDeletes(p) \/ DeleteFails(p) \/ Deleted(p)
      PROVE  Inv'
  BY <1>3, DeletionKeepsInv
<1>4. CASE Shutdown \/ Unloaded
  BY <1>4, EndKeepsInv
<1>5. CASE UNCHANGED vars
  BY <1>5
     DEF vars, tasks, history, Inv, TypeOK, PinInv, Watched, Reported, Quiet
<1> QED  BY <1>1, <1>2, <1>3, <1>4, <1>5 DEF Next

LEMMA InvGives ==
  Inv => /\ TypeOK /\ ClaimsWereReported
         /\ UnwatchedPinsStayGone /\ OnlyLateCreationsOutliveShutdown
<1> SUFFICES ASSUME Inv
             PROVE  /\ ClaimsWereReported /\ UnwatchedPinsStayGone
                    /\ OnlyLateCreationsOutliveShutdown
  BY DEF Inv
<1>1. ClaimsWereReported
  BY DEF Inv, PinInv, Reported, ClaimsWereReported
<1>2. UnwatchedPinsStayGone
  BY DEF Inv, TypeOK, PinInv, UnwatchedPinsStayGone
<1>3. OnlyLateCreationsOutliveShutdown
  BY DEF Inv, PinInv, Quiet, OnlyLateCreationsOutliveShutdown
<1> QED  BY <1>1, <1>2, <1>3

\* Every variable keeps its type, and no monitor asks more often than it may.
THEOREM TypeCorrect == Spec => []TypeOK
BY InitInv, NextInv, InvGives, PTL DEF Spec

\* What a notification says of a PIN, Tuya has said of it.
THEOREM ClaimsWereReportedHolds == Spec => []ClaimsWereReported
BY InitInv, NextInv, InvGives, PTL DEF Spec

\* Nothing announces again a PIN that was deleted or dismissed when no monitor
\* watched it and none was to come.
THEOREM UnwatchedPinsStayGoneHolds == Spec => []UnwatchedPinsStayGone
BY InitInv, NextInv, InvGives, PTL DEF Spec

\* The cancellation of async_shutdown misses only the monitors of creations that
\* were in flight then, or came later.
THEOREM OnlyLateCreationsHolds == Spec => []OnlyLateCreationsOutliveShutdown
BY InitInv, NextInv, InvGives, PTL DEF Spec

-----------------------------------------------------------------------------
(* What the user is told in the end.                                       *)

Outcomes == Verdicts \cup {"timed out"}

\* As long as nobody stops the monitors, one of them will tell how a delivery ends
\* that is shown as under way, unless it died of an answer without a result
\* (coordinator.py:260-265, 339-383).
ConfiguringIsWatched ==
  life = "running" =>
    \A p \in Pins : note[p] = "configuring" => monitor[p] # "none" \/ p \in broken

\* A PIN whose monitor died is shown as under way until somebody dismisses the
\* notification: nothing else ever tells its outcome (coordinator.py:351-352, 373).
BrokenIsNeverTold ==
  \A p \in broken : monitor[p] = "none" /\ note[p] \in {"configuring", "none"}

\* An outcome is the last thing that is said of a PIN: neither its own monitor nor a
\* later step takes it back; it can only be dismissed (coordinator.py:355-398).
OutcomeIsFinal ==
  [][\A p \in Pins : note[p] \in Outcomes => note'[p] \in {note[p], "none"}]_vars

NoteInv ==
  \A p \in Pins :
    /\ note[p] # "none" => creation[p] = "done"
    /\ note[p] \in Outcomes => monitor[p] = "none"
    /\ note[p] = "configuring" /\ life = "running" => monitor[p] # "none" \/ p \in broken
    /\ monitor[p] = "answered" => answer[p] \in Verdicts \cup {"wait", "malformed"}
    /\ p \in broken => /\ monitor[p] = "none" /\ creation[p] = "done"
                       /\ note[p] \in {"configuring", "none"}

LEMMA NoteNextInv ==
  ASSUME Inv, NoteInv, [Next]_vars
  PROVE  /\ NoteInv'
         /\ \A p \in Pins : note[p] \in Outcomes => note'[p] \in {note[p], "none"}
<1> USE DEF NoteInv, tasks, history
<1> DEFINE Goal == /\ NoteInv'
                   /\ \A p \in Pins : note[p] \in Outcomes => note'[p] \in {note[p], "none"}
<1>0. /\ note \in [Pins -> Outcomes \cup {"none", "configuring"}]
      /\ monitor \in [Pins -> {"none", "sleeping", "answered"}]
      /\ creation \in [Pins -> {"none", "asked", "sent", "done", "failed"}]
      /\ answer \in [Pins -> Verdicts \cup {"none", "wait", "malformed"}]
      /\ broken \subseteq Pins
      /\ \A p \in Pins : monitor[p] # "none" => creation[p] = "done"
      /\ "none" \notin Outcomes /\ "configuring" \notin Outcomes /\ "failed" \in Verdicts
      /\ "timed out" \in Outcomes
      /\ \A v \in Verdicts : v \in Outcomes
  BY DEF Inv, TypeOK, PinInv, Watched, Outcomes, Verdicts
<1>1. ASSUME NEW q \in Pins,
             \/ CloudCreates(q) \/ CloudReports(q)
             \/ Delete(q) \/ CloudDeletes(q) \/ DeleteFails(q)
      PROVE  Goal
  <2>1. UNCHANGED <<note, monitor, answer, life, broken>>
    BY <1>1 DEF CloudCreates, CloudReports, Delete, CloudDeletes, DeleteFails
  <2>2. \A p \in Pins : creation[p] = "done" => creation'[p] = "done"
    BY <1>0, <1>1 DEF CloudCreates, CloudReports, Delete, CloudDeletes, DeleteFails
  <2> QED  BY <1>0, <2>1, <2>2
<1>2. ASSUME NEW q \in Pins, Ask(q) PROVE Goal
  <2>1. cloud[q] \in Reports \cup {"deleted"}
    <3>1. cloud[q] \in Reports \cup {"absent", "deleted"} /\ PinInv(q) /\ creation[q] = "done"
      BY <1>0, <1>2 DEF Ask, Inv, TypeOK
    <3> QED  BY <3>1 DEF PinInv, Watched
  <2>2. answer' = [answer EXCEPT ![q] = answer'[q]]
        /\ answer'[q] \in Verdicts \cup {"wait", "malformed"}
    <3>1. PICK v \in Verdicts \cup {"wait", "malformed"} : answer' = [answer EXCEPT ![q] = v]
      <4>1. Believed(cloud[q]) \in Verdicts \cup {"wait"}
        BY <2>1, BelievedIsReported
      <4> QED  BY <1>0, <1>2, <4>1 DEF Ask
    <3> QED  BY <1>0, <3>1
  <2>3. monitor' = [monitor EXCEPT ![q] = "answered"] /\ monitor[q] = "sleeping"
        /\ UNCHANGED <<note, creation, life, broken>>
    BY <1>2 DEF Ask
  <2> QED  BY <1>0, <2>2, <2>3
<1>3. ASSUME NEW q \in Pins, Create(q) \/ CreateFails(q) PROVE Goal
  <2>1. UNCHANGED <<note, monitor, answer, life, broken>> /\ creation[q] # "done"
    BY <1>3 DEF Create, CreateFails
  <2>2. \A p \in Pins : creation[p] = "done" => creation'[p] = "done"
    BY <1>0, <1>3 DEF Create, CreateFails
  <2> QED  BY <1>0, <2>1, <2>2
<1>4. ASSUME NEW q \in Pins, Created(q) PROVE Goal
  BY <1>0, <1>4 DEF Created
<1>5. ASSUME NEW q \in Pins, Dismiss(q) \/ Deleted(q) PROVE Goal
  <2>1. note' = [note EXCEPT ![q] = "none"] /\ UNCHANGED <<creation, monitor, answer, life, broken>>
    BY <1>5 DEF Dismiss, Deleted
  <2> QED  BY <1>0, <2>1
<1>6. ASSUME NEW q \in Pins, Conclude(q) PROVE Goal
  <2>1. /\ monitor[q] = "answered" /\ answer' = [answer EXCEPT ![q] = "none"]
        /\ UNCHANGED <<creation, life>>
    BY <1>6 DEF Conclude
  <2>2. \/ \E word \in Outcomes : Notify(q, word)
        \/ Break(q) \/ SleepAgain(q)
    BY <1>0, <1>6, <2>1 DEF Conclude
  <2>3. /\ creation[q] = "done" /\ note[q] \in {"configuring", "none"} /\ q \notin broken
        /\ creation'[q] = "done" /\ answer'[q] = "none"
    BY <1>0, <2>1
  <2>4. ASSUME NEW p \in Pins, p # q
        PROVE  /\ note'[p] = note[p] /\ monitor'[p] = monitor[p]
               /\ answer'[p] = answer[p] /\ creation'[p] = creation[p]
               /\ (p \in broken' <=> p \in broken)
    BY <1>0, <2>1, <2>2, <2>4 DEF Notify, Break, End, SleepAgain
  <2>5. /\ monitor'[q] # "answered"
        /\ \/ note'[q] \in Outcomes /\ monitor'[q] = "none" /\ q \notin broken'
           \/ note'[q] = note[q] /\ monitor'[q] = "none" /\ q \in broken'
           \/ note'[q] = note[q] /\ monitor'[q] = "sleeping" /\ q \notin broken'
    BY <1>0, <2>2, <2>3 DEF Notify, Break, End, SleepAgain
  <2>6. ASSUME NEW p \in Pins, note[p] \in Outcomes PROVE note'[p] \in {note[p], "none"}
    <3>1. p # q
      BY <1>0, <2>3, <2>6
    <3> QED  BY <2>4, <3>1
  <2>7. NoteInv'
    <3> SUFFICES ASSUME NEW p \in Pins
                 PROVE  /\ note'[p] # "none" => creation'[p] = "done"
                        /\ note'[p] \in Outcomes => monitor'[p] = "none"
                        /\ note'[p] = "configuring" /\ life' = "running" =>
                             monitor'[p] # "none" \/ p \in broken'
                        /\ monitor'[p] = "answered" =>
                             answer'[p] \in Verdicts \cup {"wait", "malformed"}
                        /\ p \in broken' => /\ monitor'[p] = "none" /\ creation'[p] = "done"
                                            /\ note'[p] \in {"configuring", "none"}
      OBVIOUS
    <3>1. CASE p = q
      <4>1. /\ monitor'[p] # "answered" /\ creation'[p] = "done"
            /\ note[p] \in {"configuring", "none"}
        BY <2>3, <2>5, <3>1
      <4>2. CASE note'[p] \in Outcomes /\ monitor'[p] = "none" /\ p \notin broken'
        BY <1>0, <4>1, <4>2
      <4>3. CASE note'[p] = note[p] /\ monitor'[p] = "none" /\ p \in broken'
        BY <1>0, <4>1, <4>3
      <4>4. CASE note'[p] = note[p] /\ monitor'[p] = "sleeping" /\ p \notin broken'
        BY <1>0, <4>1, <4>4
      <4> QED  BY <2>5, <3>1, <4>2, <4>3, <4>4
    <3>2. CASE p # q
      BY <2>1, <2>4, <3>2
    <3> QED  BY <3>1, <3>2
  <2> QED  BY <2>6, <2>7
<1>7. CASE Shutdown
  BY <1>0, <1>7 DEF Shutdown
<1>8. CASE Unloaded \/ UNCHANGED vars
  BY <1>8 DEF Unloaded, vars
<1> QED  BY <1>1, <1>2, <1>3, <1>4, <1>5, <1>6, <1>7, <1>8 DEF Next

LEMMA NoteInitInv == Init => NoteInv
BY DEF Init, NoteInv, Outcomes, Verdicts

\* A delivery that is shown as under way is watched, or its monitor has died.
THEOREM ConfiguringIsWatchedHolds == Spec => []ConfiguringIsWatched
<1>1. NoteInv => ConfiguringIsWatched
  BY DEF NoteInv, ConfiguringIsWatched
<1> QED  BY <1>1, NoteInitInv, NoteNextInv, InitInv, NextInv, PTL DEF Spec

\* Whoever lost the monitor to an answer without a result is never told the outcome.
THEOREM BrokenIsNeverToldHolds == Spec => []BrokenIsNeverTold
<1>1. Inv /\ NoteInv => BrokenIsNeverTold
  BY DEF Inv, TypeOK, NoteInv, BrokenIsNeverTold
<1> QED  BY <1>1, NoteInitInv, NoteNextInv, InitInv, NextInv, PTL DEF Spec

\* No outcome that the user was told is replaced by another one.
THEOREM OutcomeIsFinalHolds == Spec => OutcomeIsFinal
BY NoteInitInv, NoteNextInv, InitInv, NextInv, PTL DEF Spec, OutcomeIsFinal

\* The steps that a monitor still has: a sleep with its request, and a conclusion,
\* in each round.
MonitorLeft(p) == 2 * (Rounds - polls[p]) + (IF monitor[p] = "answered" THEN 1 ELSE 0)

\* Each step of a monitor uses one up and no other step gives it one back, so that it
\* ends after Rounds requests at most; and when it ends by itself it has said how,
\* unless its last answer had no result: of that it dies (coordinator.py:339-383).
MonitorAdvances ==
  [][\A p \in Pins :
       /\ monitor[p] # "none" /\ monitor'[p] # "none" =>
            MonitorLeft(p)' <= MonitorLeft(p)
       /\ Ask(p) => MonitorLeft(p)' < MonitorLeft(p)
       /\ Conclude(p) /\ monitor'[p] # "none" => MonitorLeft(p)' < MonitorLeft(p)
       /\ Conclude(p) /\ monitor'[p] = "none" /\ answer[p] # "malformed" =>
            note'[p] \in Outcomes
       /\ p \in broken' \ broken => Conclude(p) /\ answer[p] = "malformed"]_vars

LEMMA MonitorSteps ==
  ASSUME Inv, NoteInv, NEW p \in Pins
  PROVE  /\ Ask(p) => MonitorLeft(p)' < MonitorLeft(p)
         /\ Conclude(p) /\ monitor'[p] # "none" => MonitorLeft(p)' < MonitorLeft(p)
         /\ Conclude(p) /\ monitor'[p] = "none" /\ answer[p] # "malformed" =>
              note'[p] \in Outcomes
<1>1. polls[p] \in Nat /\ Rounds \in Nat
  <2>1. polls[p] \in 0 .. Rounds
    BY DEF Inv, TypeOK
  <2> QED  BY <2>1, SomeRound
<1>2. ASSUME Ask(p) PROVE MonitorLeft(p)' < MonitorLeft(p)
  <2>1. polls'[p] = polls[p] + 1 /\ monitor'[p] = "answered" /\ monitor[p] = "sleeping"
    BY <1>2 DEF Ask, Inv, TypeOK
  <2> QED  BY <1>1, <2>1 DEF MonitorLeft
<1>3. ASSUME Conclude(p), monitor'[p] # "none" PROVE MonitorLeft(p)' < MonitorLeft(p)
  <2>1. polls' = polls /\ monitor'[p] = "sleeping" /\ monitor[p] = "answered"
    BY <1>3 DEF Conclude, Notify, Break, End, SleepAgain, Inv, TypeOK
  <2> QED  BY <1>1, <2>1 DEF MonitorLeft
<1>4. ASSUME Conclude(p), monitor'[p] = "none", answer[p] # "malformed"
      PROVE  note'[p] \in Outcomes
  <2>1. PICK word \in Outcomes : note' = [note EXCEPT ![p] = word]
    <3>1. ~SleepAgain(p)
      BY <1>4 DEF Inv, TypeOK, SleepAgain
    <3>2. answer[p] \in Verdicts \cup {"wait"}
      BY <1>4 DEF Conclude, NoteInv
    <3> QED  BY <1>4, <3>1, <3>2 DEF Conclude, Notify, Outcomes
  <2> QED  BY <2>1 DEF Inv, TypeOK
<1> QED  BY <1>2, <1>3, <1>4

LEMMA OthersLeaveTheMonitor ==
  ASSUME Inv, [Next]_vars, NEW p \in Pins, ~Ask(p), ~Conclude(p),
         monitor[p] # "none", monitor'[p] # "none"
  PROVE  monitor'[p] = monitor[p] /\ polls'[p] = polls[p]
<1> USE DEF tasks
<1>0. /\ monitor \in [Pins -> {"none", "sleeping", "answered"}]
      /\ polls \in [Pins -> 0 .. Rounds] /\ creation[p] = "done"
  BY DEF Inv, TypeOK, PinInv, Watched
<1>1. ASSUME NEW q \in Pins,
             \/ Create(q) \/ CloudCreates(q) \/ CreateFails(q) \/ CloudReports(q)
             \/ Dismiss(q) \/ Delete(q) \/ CloudDeletes(q) \/ DeleteFails(q) \/ Deleted(q)
      PROVE  UNCHANGED <<monitor, polls>>
  BY <1>1
     DEF Create, CloudCreates, CreateFails, CloudReports, Dismiss, Delete, CloudDeletes,
         DeleteFails, Deleted
<1>2. ASSUME NEW q \in Pins, Created(q) PROVE monitor'[p] = monitor[p] /\ polls' = polls
  BY <1>0, <1>2 DEF Created
<1>3. ASSUME NEW q \in Pins, Ask(q) \/ Conclude(q)
      PROVE  monitor'[p] = monitor[p] /\ polls'[p] = polls[p]
  <2>1. q # p
    BY <1>3
  <2> QED  BY <1>0, <1>3, <2>1 DEF Ask, Conclude, Notify, Break, End, SleepAgain
<1>4. ~Shutdown
  BY <1>0 DEF Shutdown
<1>5. CASE Unloaded \/ UNCHANGED vars
  BY <1>5 DEF Unloaded, vars
<1> QED  BY <1>1, <1>2, <1>3, <1>4, <1>5 DEF Next

\* Only a malformed answer breaks a monitor.
LEMMA OnlyMalformedBreaks ==
  ASSUME [Next]_vars, NEW p \in Pins, p \in broken' \ broken
  PROVE  Conclude(p) /\ answer[p] = "malformed"
<1> USE DEF history
<1>1. ASSUME NEW q \in Pins,
             \/ Create(q) \/ CloudCreates(q) \/ CreateFails(q) \/ Created(q)
             \/ CloudReports(q) \/ Ask(q) \/ Dismiss(q)
             \/ Delete(q) \/ CloudDeletes(q) \/ DeleteFails(q) \/ Deleted(q)
      PROVE  FALSE
  BY <1>1
     DEF Create, CloudCreates, CreateFails, Created, CloudReports, Ask, Dismiss, Delete,
         CloudDeletes, DeleteFails, Deleted
<1>2. ASSUME NEW q \in Pins, Conclude(q) PROVE q = p /\ answer[p] = "malformed"
  <2>1. CASE answer[q] = "malformed"
    BY <1>2, <2>1 DEF Conclude, Break
  <2>2. CASE answer[q] # "malformed"
    <3>1. UNCHANGED broken
      BY <1>2, <2>2 DEF Conclude, Notify, SleepAgain
    <3> QED  BY <3>1
  <2> QED  BY <2>1, <2>2
<1>3. ~(Shutdown \/ Unloaded \/ UNCHANGED vars)
  BY DEF Shutdown, Unloaded, vars
<1> QED  BY <1>1, <1>2, <1>3 DEF Next

\* Every monitor comes to its end within its rounds, and with a notification unless
\* an answer without a result breaks it.
THEOREM MonitorAdvancesHolds == Spec => MonitorAdvances
<1> DEFINE Advance(p) ==
      /\ monitor[p] # "none" /\ monitor'[p] # "none" =>
           MonitorLeft(p)' <= MonitorLeft(p)
      /\ Ask(p) => MonitorLeft(p)' < MonitorLeft(p)
      /\ Conclude(p) /\ monitor'[p] # "none" => MonitorLeft(p)' < MonitorLeft(p)
      /\ Conclude(p) /\ monitor'[p] = "none" /\ answer[p] # "malformed" =>
           note'[p] \in Outcomes
      /\ p \in broken' \ broken => Conclude(p) /\ answer[p] = "malformed"
<1>1. ASSUME Inv, Inv', NoteInv, [Next]_vars, NEW p \in Pins PROVE Advance(p)
  <2>1. MonitorLeft(p) \in Int /\ MonitorLeft(p)' \in Int
    <3>1. polls[p] \in 0 .. Rounds /\ polls'[p] \in 0 .. Rounds
      BY <1>1 DEF Inv, TypeOK
    <3> QED  BY <3>1, SomeRound DEF MonitorLeft
  <2>2. CASE Ask(p) \/ Conclude(p)
    BY <1>1, <2>1, <2>2, MonitorSteps, OnlyMalformedBreaks
  <2>3. CASE ~Ask(p) /\ ~Conclude(p)
    <3>1. ASSUME monitor[p] # "none", monitor'[p] # "none"
          PROVE  MonitorLeft(p)' = MonitorLeft(p)
      BY <1>1, <2>3, <3>1, OthersLeaveTheMonitor DEF MonitorLeft
    <3> QED  BY <1>1, <2>1, <2>3, <3>1, OnlyMalformedBreaks
  <2> QED  BY <2>2, <2>3
<1>2. Inv /\ Inv' /\ NoteInv /\ [Next]_vars => \A p \in Pins : Advance(p)
  BY <1>1
<1> QED
  BY <1>2, NoteInitInv, NoteNextInv, InitInv, NextInv, PTL DEF Spec, MonitorAdvances

-----------------------------------------------------------------------------
(* The entities.                                                           *)

LEMMA PinStepIsAStep == [PinNext]_allVars => [Next]_vars
<1> SUFFICES ASSUME [PinNext]_allVars PROVE [Next]_vars
  OBVIOUS
<1> USE DEF Next
<1>1. CASE UNCHANGED allVars
  BY <1>1 DEF allVars
<1>2. CASE ListFetched \/ ListPublished
  BY <1>2 DEF ListFetched, ListPublished
<1>3. ASSUME NEW p \in Pins, Expire(p) \/ Select(p) \/ Clear(p)
      PROVE  UNCHANGED vars
  BY <1>3 DEF Expire, Select, Clear
<1>4. ASSUME NEW p \in Pins, Press(p) \/ ServiceDeletes(p) \/ PressFails(p) \/ PressReturns(p)
      PROVE  Delete(p) \/ DeleteFails(p) \/ Deleted(p)
  BY <1>4 DEF Press, ServiceDeletes, PressFails, PressReturns
<1> QED  BY <1>1, <1>2, <1>3, <1>4 DEF PinNext

\* With the entities, each PIN lives as it does without them: all that is proved
\* about TemporaryPin holds here, too.
THEOREM EntitiesAddNothing == PinSpec => Spec
<1>1. PinInit => Init
  BY DEF PinInit
<1> QED  BY <1>1, PinStepIsAStep, PTL DEF PinSpec, Spec

\* A deletion of the button is under way for the selected PIN, unless another one
\* was selected meanwhile or none is left; when its request has returned the PIN is
\* deleted.
PressInv(p) ==
  /\ press[p] = "asked" => deletion[p] # "none"
  /\ press[p] = "returned" => cloud[p] = "deleted"
  /\ press[p] # "none" => selected \in {p, None} \/ hasty

EntityInv == Inv /\ PinTypeOK /\ \A p \in Pins : PressInv(p)

LEMMA EntityInitInv == PinInit => EntityInv
<1> SUFFICES ASSUME PinInit PROVE EntityInv
  OBVIOUS
<1>1. Inv
  BY InitInv DEF PinInit
<1>2. PinTypeOK
  <2>1. reading \in BOOLEAN /\ hasty \in BOOLEAN
    BY Zenon DEF PinInit
  <2>2. listed \subseteq Pins
    BY OldPinsArePins DEF PinInit
  <2> QED  BY <1>1, <2>1, <2>2 DEF Inv, PinInit, PinTypeOK
<1>3. ASSUME NEW p \in Pins PROVE PressInv(p)
  BY DEF PinInit, PressInv
<1> QED  BY <1>1, <1>2, <1>3 DEF EntityInv

\* A deleted record stays deleted.
LEMMA DeletedStays ==
  ASSUME Inv, [Next]_vars, NEW p \in Pins, cloud[p] = "deleted"
  PROVE  cloud'[p] = "deleted"
<1> USE DEF Inv, TypeOK
<1>1. ASSUME NEW q \in Pins, CloudReports(q) PROVE cloud'[p] = "deleted"
  BY <1>1 DEF CloudReports, Reports
<1>2. ASSUME NEW q \in Pins, CloudCreates(q) PROVE cloud'[p] = "deleted"
  BY <1>2 DEF CloudCreates, PinInv, Watched
<1>3. ASSUME NEW q \in Pins, CloudDeletes(q) PROVE cloud'[p] = "deleted"
  BY <1>3 DEF CloudDeletes
<1>4. ASSUME NEW q \in Pins,
             \/ Create(q) \/ CreateFails(q) \/ Created(q) \/ Ask(q) \/ Conclude(q)
             \/ Dismiss(q) \/ Delete(q) \/ DeleteFails(q) \/ Deleted(q)
      PROVE  UNCHANGED cloud
  BY <1>4
     DEF Create, CreateFails, Created, Ask, Conclude, Dismiss, Delete, DeleteFails, Deleted
<1>5. Shutdown \/ Unloaded \/ UNCHANGED vars => UNCHANGED cloud
  BY DEF Shutdown, Unloaded, vars
<1> QED  BY <1>1, <1>2, <1>3, <1>4, <1>5 DEF Next

\* What the life of a PIN does by itself leaves requests of the button under way.
Alone ==
  \/ \E q \in Pins :
       \/ Create(q) \/ CloudCreates(q) \/ CreateFails(q) \/ Created(q)
       \/ CloudReports(q) \/ Ask(q) \/ Conclude(q) \/ Dismiss(q) \/ CloudDeletes(q)
  \/ Shutdown \/ Unloaded

LEMMA RequestsGoOn ==
  ASSUME Inv, Alone, NEW p \in Pins, deletion[p] # "none"
  PROVE  deletion'[p] # "none"
<1>1. ASSUME NEW q \in Pins, CloudDeletes(q) PROVE deletion'[p] # "none"
  BY <1>1 DEF CloudDeletes, Inv, TypeOK
<1>2. ASSUME NEW q \in Pins,
             \/ Create(q) \/ CloudCreates(q) \/ CreateFails(q) \/ Created(q)
             \/ CloudReports(q) \/ Ask(q) \/ Conclude(q) \/ Dismiss(q)
      PROVE  UNCHANGED deletion
  BY <1>2
     DEF Create, CloudCreates, CreateFails, Created, CloudReports, Ask, Conclude, Dismiss,
         tasks
<1>3. Shutdown \/ Unloaded => UNCHANGED deletion
  BY DEF Shutdown, Unloaded, tasks
<1> QED  BY <1>1, <1>2, <1>3 DEF Alone

LEMMA EntityNextInv == EntityInv /\ [PinNext]_allVars => EntityInv'
<1> SUFFICES ASSUME EntityInv, [PinNext]_allVars PROVE EntityInv'
  OBVIOUS
<1> USE DEF listVars, entityVars
<1>1. Inv' /\ [Next]_vars
  BY PinStepIsAStep, NextInv DEF EntityInv
<1>2. \A p \in Pins : cloud[p] = "deleted" => cloud'[p] = "deleted"
  BY <1>1, DeletedStays DEF EntityInv
<1>3. PinTypeOK'
  <2>1. TypeOK'
    BY <1>1 DEF Inv
  <2>2. Standing \subseteq Pins
    BY DEF Standing
  <2>3. /\ listed' \subseteq Pins /\ fetched' \subseteq Pins /\ expired' \subseteq Pins
        /\ selected' \in Pins \cup {None}
    BY <2>2
       DEF EntityInv, PinTypeOK, PinNext, allVars, ListFetched, ListPublished, ListReplaced,
           Expire, Select, Offered, Press, ServiceDeletes, PressFails, PressReturns, Clear
  <2>4. press' \in [Pins -> {"none", "asked", "returned"}]
    BY DEF EntityInv, PinTypeOK, PinNext, allVars, ListFetched, ListPublished, Expire, Select,
           Press, ServiceDeletes, PressFails, PressReturns, Clear
  <2>5. reading' \in BOOLEAN
    BY DEF EntityInv, PinTypeOK, PinNext, allVars, ListFetched, ListPublished, Expire, Select,
           Press, ServiceDeletes, PressFails, PressReturns, Clear
  <2>6. hasty' \in BOOLEAN
    BY DEF EntityInv, PinTypeOK, PinNext, allVars, ListFetched, ListPublished, Expire, Select,
           Press, ServiceDeletes, PressFails, PressReturns, Clear
  <2> QED  BY <2>1, <2>3, <2>4, <2>5, <2>6 DEF PinTypeOK
<1>4. ASSUME NEW p \in Pins PROVE PressInv(p)'
  <2> USE DEF PressInv, EntityInv, PinTypeOK
  <2>1. CASE UNCHANGED <<deletion, entityVars>>
    BY <1>2, <2>1
  <2>2. CASE Alone /\ UNCHANGED entityVars
    BY <1>2, <2>2, RequestsGoOn
  <2>3. ASSUME NEW q \in Pins, Select(q) PROVE PressInv(p)'
    BY <2>3 DEF Select, vars, tasks
  <2>4. ASSUME NEW q \in Pins, Press(q) PROVE PressInv(p)'
    BY <2>4 DEF Press, Delete, Inv, TypeOK
  <2>5. ASSUME NEW q \in Pins, ServiceDeletes(q) PROVE PressInv(p)'
    BY <2>5 DEF ServiceDeletes, Delete, Inv, TypeOK
  <2>6. ASSUME NEW q \in Pins, PressFails(q) PROVE PressInv(p)'
    BY <2>6 DEF PressFails, DeleteFails, Inv, TypeOK
  <2>7. ASSUME NEW q \in Pins, PressReturns(q) PROVE PressInv(p)'
    <3>1. cloud[q] = "deleted" /\ UNCHANGED cloud
      BY <2>7 DEF PressReturns, Deleted, Inv, PinInv, Watched
    <3>2. CASE q = p
      BY <2>7, <3>1, <3>2 DEF PressReturns
    <3>3. CASE q # p
      BY <2>7, <3>1, <3>3 DEF PressReturns, Deleted, Inv, TypeOK
    <3> QED  BY <3>2, <3>3
  <2>8. ASSUME NEW q \in Pins, Clear(q) PROVE PressInv(p)'
    BY <2>8 DEF Clear, vars, tasks
  <2>9. ASSUME NEW q \in Pins, Expire(q) PROVE UNCHANGED <<deletion, entityVars>>
    BY <2>9 DEF Expire, vars, tasks
  <2>10. ListFetched \/ ListPublished \/ UNCHANGED allVars
           => UNCHANGED <<deletion, entityVars>>
    BY DEF ListFetched, ListPublished, allVars, vars, tasks
  <2> QED
    BY <2>1, <2>2, <2>3, <2>4, <2>5, <2>6, <2>7, <2>8, <2>9, <2>10 DEF PinNext, Alone
<1> QED  BY <1>1, <1>3, <1>4 DEF EntityInv

LEMMA OnlyTheButtonClears ==
  ASSUME EntityInv, [PinNext]_allVars, selected # None, selected' = None
  PROVE  hasty \/ cloud[selected] = "deleted"
<1>1. PICK p \in Pins : Clear(p)
  BY NoneIsNoPin
     DEF PinNext, allVars, listVars, entityVars, ListFetched, ListPublished, Expire, Select,
         Press, ServiceDeletes, PressFails, PressReturns
<1>2. PressInv(p) /\ press[p] = "returned"
  BY <1>1 DEF EntityInv, Clear
<1> QED  BY <1>2 DEF PressInv

\* A selection is lost only with its PIN, or if it was made while the button
\* deleted.
THEOREM SelectionOutlivesFailureHolds == PinSpec => SelectionOutlivesFailure
<1>1. EntityInv /\ [PinNext]_allVars =>
        [selected # None /\ selected' = None =>
           hasty \/ cloud[selected] = "deleted"]_allVars
  BY OnlyTheButtonClears
<1> QED
  BY <1>1, EntityInitInv, EntityNextInv, PTL DEF PinSpec, SelectionOutlivesFailure

\* The types of the composition.
THEOREM EntitiesTypeCorrect == PinSpec => []PinTypeOK
BY EntityInitInv, EntityNextInv, PTL DEF PinSpec, EntityInv

\* A deleted PIN that is neither in the list nor in the answer of a refresh under way
\* never comes back to the list, whatever refreshes follow (coordinator.py:228-235,
\* 402).
DeletedPinStaysAway ==
  [][\A p \in Pins : cloud[p] = "deleted" /\ p \notin listed \cup fetched =>
       p \notin listed' \cup fetched']_allVars

LEMMA ListIsRead ==
  ASSUME EntityInv, [PinNext]_allVars, NEW p \in Pins, cloud[p] = "deleted",
         p \notin listed \cup fetched
  PROVE  p \notin listed' \cup fetched'
<1>1. CASE ListFetched
  <2>1. p \notin Standing
    BY DEF Standing, Reports
  <2> QED  BY <1>1, <2>1 DEF ListFetched
<1>2. CASE ListPublished
  BY <1>2 DEF ListPublished, ListReplaced
<1>3. CASE ~ListFetched /\ ~ListPublished
  BY <1>3
     DEF PinNext, allVars, listVars, Expire, Select, Press, ServiceDeletes, PressFails,
         PressReturns, Clear
<1> QED  BY <1>1, <1>2, <1>3

\* Once a deleted PIN has left the list, it is never offered again.
THEOREM DeletedPinStaysAwayHolds == PinSpec => DeletedPinStaysAway
<1>1. EntityInv /\ [PinNext]_allVars =>
        [\A p \in Pins : cloud[p] = "deleted" /\ p \notin listed \cup fetched =>
           p \notin listed' \cup fetched']_allVars
  BY ListIsRead
<1> QED
  BY <1>1, EntityInitInv, EntityNextInv, PTL DEF PinSpec, DeletedPinStaysAway
=============================================================================
