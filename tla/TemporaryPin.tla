---------------------------- MODULE TemporaryPin ----------------------------
(***************************************************************************)
(* The life of a temporary PIN: created in the cloud, announced by a       *)
(* notification, watched by a monitor task until the lock has it, deleted  *)
(* (coordinator.py async_create_temporary_pin to                           *)
(* async_delete_temporary_pin, and the PIN part of async_shutdown).        *)
(*                                                                         *)
(* Requests to the cloud run in the executor, so the event loop does other *)
(* things between the request, its effect in the cloud and its answer; any *)
(* request may fail before or after it took effect.  Delays are untimed.   *)
(***************************************************************************)
EXTENDS Integers

CONSTANTS
  Pins,       \* password ids
  Old,        \* those that the lock has had since before Home Assistant started
  Rounds      \* how often the monitor asks: 12

ASSUME OldPinsArePins == Old \subseteq Pins
ASSUME SomeRound == Rounds \in Nat \ {0}

\* What Tuya says of a PIN: queued; phase 12 without a slot; phase 12 with one;
\* delivery status 2; phase or delivery status 3, 4 or 5.
Reports == {"queued", "unslotted", "installed", "delivered", "stopped"}
Verdicts == {"installed", "delivered", "stopped", "failed"}

VARIABLES
  cloud,      \* the record that Tuya keeps, "absent" or "deleted"
  creation,   \* where async_create_temporary_pin stands
  deletion,   \* where async_delete_temporary_pin stands
  monitor,    \* where _async_monitor_temporary_pin stands
  polls,      \* how often it has asked
  answer,     \* what it was told
  note,       \* the delivery line of the notification, "none" without one
  life,       \* of the coordinator: "running", "stopping" or "stopped"
  told,       \* history: what Tuya said of each PIN
  gone,       \* history: PINs deleted, or dismissed by the user, when unmonitored
  late,       \* history: PINs created, or in creation, after the cancellation
  broken      \* history: PINs whose monitor died of an answer without a result

tasks == <<creation, deletion, monitor, polls, answer>>
history == <<told, gone, late, broken>>
vars == <<cloud, tasks, note, life, history>>

Init ==
  /\ cloud \in [Pins -> Reports \cup {"absent"}]
  /\ \A p \in Pins : p \in Old <=> cloud[p] # "absent"
  /\ creation = [p \in Pins |-> IF p \in Old THEN "done" ELSE "none"]
  /\ deletion = [p \in Pins |-> "none"]
  /\ monitor = [p \in Pins |-> "none"] /\ polls = [p \in Pins |-> 0]
  /\ answer = [p \in Pins |-> "none"] /\ note = [p \in Pins |-> "none"]
  /\ life = "running"
  /\ told = [p \in Pins |-> {}] /\ gone = {} /\ late = {} /\ broken = {}

-----------------------------------------------------------------------------
(* Creation.                                                               *)

\* The service or the button; _create_temporary_pin_sync goes to the executor.
Create(p) ==
  /\ life # "stopped" /\ creation[p] = "none"
  /\ creation' = [creation EXCEPT ![p] = "asked"]
  /\ late' = IF life = "stopping" THEN late \cup {p} ELSE late
  /\ UNCHANGED <<cloud, deletion, monitor, polls, answer, note, life, told, gone, broken>>

\* The second POST of _create_temporary_pin_sync takes effect.
CloudCreates(p) ==
  /\ creation[p] = "asked"
  /\ creation' = [creation EXCEPT ![p] = "sent"]
  /\ cloud' = [cloud EXCEPT ![p] = "queued"]
  /\ UNCHANGED <<deletion, monitor, polls, answer, note, life, history>>

\* No ticket, an error, or no answer: what Tuya created stays there.
CreateFails(p) ==
  /\ creation[p] \in {"asked", "sent"}
  /\ creation' = [creation EXCEPT ![p] = "failed"]
  /\ UNCHANGED <<cloud, deletion, monitor, polls, answer, note, life, history>>

\* Back in the event loop: the notification and the monitor.
Created(p) ==
  /\ creation[p] = "sent"
  /\ creation' = [creation EXCEPT ![p] = "done"]
  /\ note' = [note EXCEPT ![p] = "configuring"]
  /\ monitor' = [monitor EXCEPT ![p] = "sleeping"]
  /\ UNCHANGED <<cloud, deletion, polls, answer, life, history>>

-----------------------------------------------------------------------------
(* Delivery.                                                               *)

\* The lock and Tuya; a record changes until it is deleted.
CloudReports(p) ==
  /\ cloud[p] \in Reports \ {"installed", "stopped"}
  /\ \E r \in Reports \ {"queued", cloud[p]} : cloud' = [cloud EXCEPT ![p] = r]
  /\ UNCHANGED <<tasks, note, life, history>>

\* Mutant: phase 12 is believed without a slot.
BelievedEarly(r) ==
  IF r = "queued" THEN "wait" ELSE IF r = "unslotted" THEN "installed"
  ELSE IF r = "deleted" THEN "failed" ELSE r

\* The three tests of the loop; a GET of a deleted PIN is an error.
Believed(r) ==
  IF r \in {"queued", "unslotted"} THEN "wait"
  ELSE IF r = "deleted" THEN "failed" ELSE r

\* sleep(10) has ended and the GET is answered, fails with a TuyaError, or has an
\* answer whose result is null or no object.
Ask(p) ==
  /\ monitor[p] = "sleeping"
  /\ monitor' = [monitor EXCEPT ![p] = "answered"]
  /\ polls' = [polls EXCEPT ![p] = @ + 1]
  /\ \/ /\ answer' = [answer EXCEPT ![p] = Believed(cloud[p])]
        /\ told' = [told EXCEPT ![p] = @ \cup {cloud[p]}]
     \/ /\ \E a \in {"failed", "malformed"} : answer' = [answer EXCEPT ![p] = a]
        /\ UNCHANGED told
  /\ UNCHANGED <<cloud, creation, deletion, note, life, gone, late, broken>>

End(p) == monitor' = [monitor EXCEPT ![p] = "none"] /\ polls' = [polls EXCEPT ![p] = 0]

\* The monitor ends with a notification.
Notify(p, text) == End(p) /\ note' = [note EXCEPT ![p] = text] /\ UNCHANGED broken

\* It dies of an exception that it does not catch, and nobody sees that.
Break(p) == End(p) /\ broken' = broken \cup {p} /\ UNCHANGED note

SleepAgain(p) ==
  monitor' = [monitor EXCEPT ![p] = "sleeping"] /\ UNCHANGED <<note, polls, broken>>

\* Mutants: a failed check ends the monitor; the loop runs once more.
ConcludeSilently(p) ==
  /\ monitor[p] = "answered"
  /\ IF answer[p] = "malformed" THEN Break(p)
     ELSE IF answer[p] # "wait"
          THEN Notify(p, IF answer[p] = "failed" THEN note[p] ELSE answer[p])
     ELSE IF polls[p] = Rounds THEN Notify(p, "timed out") ELSE SleepAgain(p)
  /\ answer' = [answer EXCEPT ![p] = "none"]
  /\ UNCHANGED <<cloud, creation, deletion, life, told, gone, late>>
ConcludeLate(p) ==
  /\ monitor[p] = "answered"
  /\ IF answer[p] = "malformed" THEN Break(p)
     ELSE IF answer[p] # "wait" THEN Notify(p, answer[p])
     ELSE IF polls[p] > Rounds THEN Notify(p, "timed out") ELSE SleepAgain(p)
  /\ answer' = [answer EXCEPT ![p] = "none"]
  /\ UNCHANGED <<cloud, creation, deletion, life, told, gone, late>>

\* The event loop has the answer: notify, sleep again or, as the loop catches only
\* TuyaError, break.
Conclude(p) ==
  /\ monitor[p] = "answered"
  /\ IF answer[p] = "malformed" THEN Break(p)
     ELSE IF answer[p] # "wait" THEN Notify(p, answer[p])
     ELSE IF polls[p] = Rounds THEN Notify(p, "timed out") ELSE SleepAgain(p)
  /\ answer' = [answer EXCEPT ![p] = "none"]
  /\ UNCHANGED <<cloud, creation, deletion, life, told, gone, late>>

\* A PIN is only forgotten when nothing is left that could announce it.
Forgotten(p) == monitor[p] = "none" /\ creation[p] \in {"done", "failed"}

\* The user.
Dismiss(p) ==
  /\ note[p] # "none"
  /\ note' = [note EXCEPT ![p] = "none"]
  /\ gone' = IF Forgotten(p) THEN gone \cup {p} ELSE gone
  /\ UNCHANGED <<cloud, tasks, life, told, late, broken>>

-----------------------------------------------------------------------------
(* Deletion.                                                               *)

\* The service or the button, for any PIN that Tuya has listed.
Delete(p) ==
  /\ life # "stopped" /\ cloud[p] # "absent" /\ deletion[p] = "none"
  /\ deletion' = [deletion EXCEPT ![p] = "asked"]
  /\ UNCHANGED <<cloud, creation, monitor, polls, answer, note, life, history>>

CloudDeletes(p) ==
  /\ deletion[p] = "asked" /\ cloud[p] # "deleted"
  /\ deletion' = [deletion EXCEPT ![p] = "sent"]
  /\ cloud' = [cloud EXCEPT ![p] = "deleted"]
  /\ UNCHANGED <<creation, monitor, polls, answer, note, life, history>>

DeleteFails(p) ==
  /\ deletion[p] # "none"
  /\ deletion' = [deletion EXCEPT ![p] = "none"]
  /\ UNCHANGED <<cloud, creation, monitor, polls, answer, note, life, history>>

\* Mutant: the notification stays.
DeletedQuietly(p) ==
  /\ deletion[p] = "sent"
  /\ deletion' = [deletion EXCEPT ![p] = "none"]
  /\ gone' = IF Forgotten(p) THEN gone \cup {p} ELSE gone
  /\ UNCHANGED <<cloud, creation, monitor, polls, answer, note, life, told, late, broken>>

\* Back in the event loop: the notification is dismissed.
Deleted(p) ==
  /\ deletion[p] = "sent"
  /\ deletion' = [deletion EXCEPT ![p] = "none"]
  /\ note' = [note EXCEPT ![p] = "none"]
  /\ gone' = IF Forgotten(p) THEN gone \cup {p} ELSE gone
  /\ UNCHANGED <<cloud, creation, monitor, polls, answer, life, told, late, broken>>

-----------------------------------------------------------------------------
(* The end.                                                                *)

\* Mutant: monitors are not cancelled.
ShutdownLeavesMonitors ==
  /\ life = "running"
  /\ life' = "stopping"
  /\ late' = {p \in Pins : creation[p] \in {"asked", "sent"}}
  /\ UNCHANGED <<cloud, tasks, note, told, gone, broken>>

\* async_shutdown cancels every monitor; requests in flight go on, and the
\* services still find the coordinator.
Shutdown ==
  /\ life = "running"
  /\ life' = "stopping"
  /\ monitor' = [p \in Pins |-> "none"] /\ polls' = [p \in Pins |-> 0]
  /\ answer' = [p \in Pins |-> "none"]
  /\ late' = {p \in Pins : creation[p] \in {"asked", "sent"}}
  /\ UNCHANGED <<cloud, creation, deletion, note, told, gone, broken>>

\* It has returned, and async_unload_entry drops the coordinator.
Unloaded ==
  /\ life = "stopping"
  /\ life' = "stopped"
  /\ UNCHANGED <<cloud, tasks, note, history>>

Next ==
  \/ \E p \in Pins :
       \/ Create(p) \/ CloudCreates(p) \/ CreateFails(p) \/ Created(p)
       \/ CloudReports(p) \/ Ask(p) \/ Conclude(p) \/ Dismiss(p)
       \/ Delete(p) \/ CloudDeletes(p) \/ DeleteFails(p) \/ Deleted(p)
  \/ Shutdown
  \/ Unloaded

Spec == Init /\ [][Next]_vars

\* Sleeps end, and a request has a timeout of 20 seconds.
FairSpec ==
  /\ Spec
  /\ \A p \in Pins : WF_vars(Ask(p)) /\ WF_vars(Conclude(p))

-----------------------------------------------------------------------------
TypeOK ==
  /\ cloud \in [Pins -> Reports \cup {"absent", "deleted"}]
  /\ creation \in [Pins -> {"none", "asked", "sent", "done", "failed"}]
  /\ deletion \in [Pins -> {"none", "asked", "sent"}]
  /\ monitor \in [Pins -> {"none", "sleeping", "answered"}]
  /\ polls \in [Pins -> 0 .. Rounds]
  /\ answer \in [Pins -> Verdicts \cup {"none", "wait", "malformed"}]
  /\ note \in [Pins -> Verdicts \cup {"none", "configuring", "timed out"}]
  /\ life \in {"running", "stopping", "stopped"}
  /\ told \in [Pins -> SUBSET (Reports \cup {"absent", "deleted"})]
  /\ gone \subseteq Pins /\ late \subseteq Pins /\ broken \subseteq Pins

\* The notification never claims a delivery, or its failure, that Tuya did not
\* report of this very PIN (coordinator.py:355-371).
ClaimsWereReported ==
  \A p \in Pins : note[p] \in Verdicts \ {"failed"} => note[p] \in told[p]

\* A PIN that was deleted, or whose notification the user dismissed, when no
\* monitor watched it is not shown again (coordinator.py:378-398).
UnwatchedPinsStayGone == \A p \in gone : note[p] = "none"

\* Only a creation that was in flight when async_shutdown cancelled the monitors,
\* or began after that, leaves a monitor behind (coordinator.py:156-162, 260-265).
OnlyLateCreationsOutliveShutdown ==
  life # "running" => \A p \in Pins : monitor[p] # "none" => p \in late

\* A notification that says "Configuring on lock" for ever is that of a PIN whose
\* monitor got an answer without a result: any other monitor tells the outcome, a
\* timeout or a failed check (coordinator.py:339-383).
NoteIsSettled ==
  \A p \in Pins :
    note[p] = "configuring" ~>
      (note[p] # "configuring" \/ life # "running" \/ p \in broken)
=============================================================================
