---------------------------- MODULE PinEntities ----------------------------
(***************************************************************************)
(* The entities of temporary PINs: the select that offers the PINs that    *)
(* may still open the lock, the button that deletes the selected one and   *)
(* the refresh that lists them (select.py, button.py, coordinator.py       *)
(* temporary_passwords), composed with the life of each PIN.               *)
(*                                                                         *)
(* The selection is a plain attribute: it stays when its PIN leaves the    *)
(* list, and the button clears it after its request and the refresh that   *)
(* follows, whatever was selected meanwhile.                               *)
(***************************************************************************)
EXTENDS TemporaryPin

CONSTANT None   \* no selection

ASSUME NoneIsNoPin == None \notin Pins

VARIABLES
  listed,    \* current PINs in self.data, by their phase
  reading,   \* a refresh has its answer and is yet to publish it
  fetched,   \* the current PINs of that answer
  expired,   \* PINs whose invalid_time is over
  selected,  \* temporary_pin_selected of the lock
  press,     \* where the button's deletion stands: "none", "asked", "returned"
  hasty      \* history: selected while the button deleted, and not again since

listVars == <<listed, reading, fetched>>
entityVars == <<selected, press, hasty>>
allVars == <<vars, listVars, expired, entityVars>>

PinInit ==
  /\ Init
  /\ listed = Old /\ reading = FALSE /\ fetched = {} /\ expired = {}
  /\ selected = None /\ press = [p \in Pins |-> "none"] /\ hasty = FALSE

-----------------------------------------------------------------------------
(* The list.                                                               *)

\* The phases that are not terminal; a stopped delivery may have either.
Standing == {p \in Pins : cloud[p] \in Reports \ {"stopped"}}

ListFetched ==
  /\ life = "running" /\ ~reading
  /\ reading' = TRUE
  /\ \E S \in SUBSET {p \in Pins : cloud[p] = "stopped"} : fetched' = Standing \cup S
  /\ UNCHANGED <<vars, listed, expired, entityVars>>

\* Mutants: records that are known stay; the answer is appended as one.
ListMerged == listed' = listed \cup fetched
ListAppended == listed' = listed \cup {fetched}

ListReplaced == listed' = fetched

\* The refresh publishes, or fails at a later request.
ListPublished ==
  /\ reading
  /\ ListReplaced \/ UNCHANGED listed
  /\ reading' = FALSE /\ fetched' = {}
  /\ UNCHANGED <<vars, expired, entityVars>>

Expire(p) ==
  /\ p \in Pins \ expired /\ cloud[p] # "absent"
  /\ expired' = expired \cup {p}
  /\ UNCHANGED <<vars, listVars, entityVars>>

\* temporary_passwords, and so the options of the select.
Offered == listed \ expired

-----------------------------------------------------------------------------
(* The select and the button.                                              *)

Select(p) ==
  /\ life = "running" /\ p \in Offered
  /\ selected' = p
  /\ hasty' = \E q \in Pins : press[q] # "none"
  /\ UNCHANGED <<vars, listVars, expired, press>>

\* async_press up to its request, shown in the select or not.
Press(p) ==
  /\ life = "running" /\ selected = p
  /\ Delete(p)
  /\ press' = [press EXCEPT ![p] = "asked"]
  /\ UNCHANGED <<listVars, expired, selected, hasty>>

\* A deletion of the service.
ServiceDeletes(p) ==
  /\ Delete(p)
  /\ UNCHANGED <<listVars, expired, entityVars>>

\* Mutant: a failed request clears the selection, too.
PressFailsCleared(p) ==
  /\ DeleteFails(p)
  /\ press' = [press EXCEPT ![p] = IF @ = "asked" THEN "returned" ELSE @]
  /\ UNCHANGED <<listVars, expired, selected, hasty>>

\* An error leaves async_press before it clears the selection.
PressFails(p) ==
  /\ DeleteFails(p)
  /\ press' = [press EXCEPT ![p] = IF @ = "asked" THEN "none" ELSE @]
  /\ UNCHANGED <<listVars, expired, selected, hasty>>

\* The request returned; async_press waits for the refresh that it asks for.
PressReturns(p) ==
  /\ Deleted(p)
  /\ press' = [press EXCEPT ![p] = IF @ = "asked" THEN "returned" ELSE @]
  /\ UNCHANGED <<listVars, expired, selected, hasty>>

\* The last statement of async_press.
Clear(p) ==
  /\ press[p] = "returned"
  /\ press' = [press EXCEPT ![p] = "none"]
  /\ selected' = None /\ hasty' = FALSE
  /\ UNCHANGED <<vars, listVars, expired>>

-----------------------------------------------------------------------------
PinNext ==
  \/ ListFetched \/ ListPublished
  \/ \E p \in Pins :
       \/ Expire(p) \/ Select(p) \/ Press(p) \/ ServiceDeletes(p)
       \/ PressFails(p) \/ PressReturns(p) \/ Clear(p)
       \/ /\ \/ Create(p) \/ CloudCreates(p) \/ CreateFails(p) \/ Created(p)
             \/ CloudReports(p) \/ Ask(p) \/ Conclude(p) \/ Dismiss(p) \/ CloudDeletes(p)
          /\ UNCHANGED <<listVars, expired, entityVars>>
  \/ (Shutdown \/ Unloaded) /\ UNCHANGED <<listVars, expired, entityVars>>

PinSpec == PinInit /\ [][PinNext]_allVars

\* Sleeps end, requests have a timeout of 20 seconds, the poll goes on and does not
\* fail for ever.
PinFairSpec ==
  /\ PinSpec
  /\ \A p \in Pins : WF_allVars(Ask(p) /\ UNCHANGED <<listVars, expired, entityVars>>)
                     /\ WF_allVars(Conclude(p) /\ UNCHANGED <<listVars, expired, entityVars>>)
  /\ WF_allVars(ListFetched) /\ WF_allVars(ListPublished)
  /\ SF_allVars(ListPublished /\ ListReplaced)

-----------------------------------------------------------------------------
PinTypeOK ==
  /\ TypeOK
  /\ listed \subseteq Pins /\ reading \in BOOLEAN /\ fetched \subseteq Pins
  /\ expired \subseteq Pins /\ selected \in Pins \cup {None}
  /\ press \in [Pins -> {"none", "asked", "returned"}] /\ hasty \in BOOLEAN

\* A selection is cleared only when its PIN is deleted, or when it was made while
\* the button was deleting: a deletion that failed keeps it (button.py:56-66).
SelectionOutlivesFailure ==
  [][selected # None /\ selected' = None => hasty \/ cloud[selected] = "deleted"]_allVars

\* A deleted PIN is not offered for ever, also when a refresh that read the list
\* before the deletion publishes it afterwards (coordinator.py:228-235, 402).
DeletedPinLeavesTheList ==
  \A p \in Pins : cloud[p] = "deleted" ~> (p \notin Offered \/ life # "running")
=============================================================================
