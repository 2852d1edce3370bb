---------------------------- MODULE PushRefresh ----------------------------
(***************************************************************************)
(* From a push message to fresh data: the event loop's half of the push    *)
(* path (coordinator.py async_start_push to async_shutdown).               *)
(*                                                                         *)
(* A door event is announced by an MQTT message, which may be lost, and by *)
(* an audit row, which the cloud may publish later or never.  The listener *)
(* hands messages over to the event loop; the loop starts one task that    *)
(* asks for a refresh after 3, 10 and 30 seconds until a newer row shows;  *)
(* further messages are coalesced into the running task.  Refreshes go     *)
(* through the debouncer of DataUpdateCoordinator.  Delays are untimed: a  *)
(* sleep and the cooldown end at any moment.                               *)
(***************************************************************************)
EXTENDS Integers

CONSTANTS
  Audits,     \* door events that leave an audit row: unlock_* and event_notify
  Others,     \* door events that only change the status
  Attempts    \* length of PUSH_REFRESH_DELAYS: 3

Events == Audits \cup Others

\* An event is named by the time of its row; times are distinct.
ASSUME EventsAreTimes == Events \subseteq Nat /\ Audits \cap Others = {}
ASSUME SomeAttempt == Attempts \in Nat \ {0}

VARIABLES
  happened,   \* events so far
  posted,     \* audit rows in the log that the cloud's API reads
  aged,       \* audited events outside of the window and the page that are asked for
  wire,       \* messages between the cloud and the listener
  inbox,      \* messages handed to the loop by call_soon_threadsafe
  data,       \* self.data["logs"]
  task,       \* self._push_refresh_task: "none" when there is none or it is done
  attempt,    \* which of the delays it is in
  base,       \* the rows whose newest is its baseline
  expects,    \* self._push_expects_audit
  refresh,    \* the refresh in flight: "idle", "begun", or "fetched" from the API
  holder,     \* on whose behalf
  answer,     \* the rows of its answer
  cooldown,   \* the debouncer's timer runs
  again,      \* a refresh is to follow when the timer ends
  life,       \* of the coordinator: "running", "stopping" or "stopped"
  owed,       \* handled events that no fetch has followed yet
  late        \* events that were handled between a fetch and its publication

cloudVars == <<happened, posted, aged, wire>>
taskVars == <<task, attempt, base, expects>>
refreshVars == <<refresh, holder, answer, cooldown, again>>
watchVars == <<owed, late>>
vars == <<cloudVars, inbox, data, taskVars, refreshVars, life, watchVars>>

Init ==
  /\ happened = {} /\ posted = {} /\ aged = {} /\ wire = {} /\ inbox = {} /\ data = {}
  /\ task = "none" /\ attempt = 0 /\ base = {} /\ expects = FALSE
  /\ refresh = "idle" /\ holder = "nobody" /\ answer = {}
  /\ cooldown = FALSE /\ again = FALSE
  /\ life = "running" /\ owed = {} /\ late = {}

-----------------------------------------------------------------------------
(* The cloud and the listener.                                             *)

\* Events happen in the order of their times.
Happen(e) ==
  /\ e \notin happened /\ \A d \in happened : d < e
  /\ happened' = happened \cup {e}
  /\ wire' = wire \cup {e}
  /\ UNCHANGED <<posted, aged, inbox, data, taskVars, refreshVars, life, watchVars>>

Post(e) ==
  /\ e \in happened \cap Audits /\ e \notin posted
  /\ posted' = posted \cup {e}
  /\ UNCHANGED <<happened, aged, wire, inbox, data, taskVars, refreshVars, life, watchVars>>

\* 30 days have passed since an event, or 100 newer rows of its lock are posted: it is
\* out of a refresh's reach.
Age(e) ==
  /\ e \in posted \ aged
  /\ aged' = aged \cup {e}
  /\ UNCHANGED <<happened, posted, wire, inbox, data, taskVars, refreshVars, life,
                 watchVars>>

\* Quality of service 0.
Lose(e) ==
  /\ e \in wire
  /\ wire' = wire \ {e}
  /\ UNCHANGED <<happened, posted, aged, inbox, data, taskVars, refreshVars, life, watchVars>>

\* _handle_push_from_thread, as long as the listener is not stopped.
Hand(e) ==
  /\ e \in wire /\ life # "stopped"
  /\ wire' = wire \ {e}
  /\ inbox' = inbox \cup {e}
  /\ UNCHANGED <<happened, posted, aged, data, taskVars, refreshVars, life, watchVars>>

-----------------------------------------------------------------------------
(* The event loop.                                                         *)

\* Mutant: an event during the cooldown starts no task.
HandleDebounced(e) ==
  /\ e \in inbox
  /\ inbox' = inbox \ {e}
  /\ expects' = (expects \/ e \in Audits)
  /\ IF task # "none" \/ cooldown
     THEN UNCHANGED <<task, attempt, base>>
     ELSE task' = "sleeping" /\ attempt' = 1 /\ base' = data
  /\ owed' = owed \cup {e}
  /\ late' = IF refresh = "fetched" THEN late \cup {e} ELSE late
  /\ UNCHANGED <<cloudVars, data, refreshVars, life>>

\* _async_handle_push_event: coalesce, or start the task, which takes its
\* baseline before it first sleeps.
Handle(e) ==
  /\ e \in inbox
  /\ inbox' = inbox \ {e}
  /\ expects' = (expects \/ e \in Audits)
  /\ IF task # "none" THEN UNCHANGED <<task, attempt, base>>
                      ELSE task' = "sleeping" /\ attempt' = 1 /\ base' = data
  /\ owed' = owed \cup {e}
  /\ late' = IF refresh = "fetched" THEN late \cup {e} ELSE late
  /\ UNCHANGED <<cloudVars, data, refreshVars, life>>

Newer(rows) == \E e \in rows : \A b \in base : e > b

\* Mutant: the expectation outlives the task.
JudgeKeepsExpecting(rows) ==
  IF Newer(rows) \/ ~expects \/ attempt = Attempts
  THEN task' = "none" /\ attempt' = 0 /\ base' = {} /\ UNCHANGED expects
  ELSE task' = "sleeping" /\ attempt' = attempt + 1 /\ UNCHANGED <<base, expects>>

\* Mutant: the loop does not end while an audit row is expected.
JudgeForever(rows) ==
  IF Newer(rows) \/ ~expects
  THEN task' = "none" /\ attempt' = 0 /\ base' = {} /\ expects' = FALSE
  ELSE task' = "sleeping" /\ UNCHANGED <<attempt, base, expects>>

\* Mutant: one round too many.
JudgeOneMore(rows) ==
  IF Newer(rows) \/ ~expects \/ attempt > Attempts
  THEN task' = "none" /\ attempt' = 0 /\ base' = {} /\ expects' = FALSE
  ELSE task' = "sleeping" /\ attempt' = attempt + 1 /\ UNCHANGED <<base, expects>>

\* The end of one round of _async_refresh_after_push, with its finally clause.
Judge(rows) ==
  IF Newer(rows) \/ ~expects \/ attempt = Attempts
  THEN task' = "none" /\ attempt' = 0 /\ base' = {} /\ expects' = FALSE
  ELSE task' = "sleeping" /\ attempt' = attempt + 1 /\ UNCHANGED <<base, expects>>

\* A refresh begins, which cancels the debouncer's timer.
Begin(who) ==
  /\ refresh' = "begun" /\ holder' = who
  /\ cooldown' = FALSE /\ again' = FALSE
  /\ UNCHANGED answer

\* async_request_refresh: at once, or after the cooldown, or not at all when a
\* refresh is in flight.
Deferred == /\ cooldown
            /\ again' = TRUE
            /\ UNCHANGED <<refresh, holder, answer, cooldown>>
Dropped == ~cooldown /\ refresh # "idle" /\ UNCHANGED refreshVars
Started(who) == ~cooldown /\ refresh = "idle" /\ Begin(who)

\* A sleep of the task ends.
Wake ==
  /\ task = "sleeping"
  /\ \/ /\ Deferred \/ Dropped
        /\ Judge(data)
     \/ /\ Started("push")
        /\ task' = "refreshing"
        /\ UNCHANGED <<attempt, base, expects>>
  /\ UNCHANGED <<cloudVars, inbox, data, life, watchVars>>

\* A command or a PIN asks for a refresh, also when it ends after the shutdown.
OtherRequest ==
  /\ Deferred \/ Started("request")
  /\ UNCHANGED <<cloudVars, inbox, data, taskVars, life, watchVars>>

\* The fallback poll, every 15 minutes.
Poll ==
  /\ life = "running" /\ refresh = "idle"
  /\ Begin("poll")
  /\ UNCHANGED <<cloudVars, inbox, data, taskVars, life, watchVars>>

CooldownEnds ==
  /\ cooldown
  /\ IF again /\ refresh = "idle"
     THEN Begin("request")
     ELSE /\ cooldown' = FALSE /\ again' = FALSE
          /\ UNCHANGED <<refresh, holder, answer>>
  /\ UNCHANGED <<cloudVars, inbox, data, taskVars, life, watchVars>>

\* _update_sync reads the status and the first page of the log in the executor.
Fetch ==
  /\ refresh = "begun"
  /\ refresh' = "fetched" /\ answer' = posted \ aged
  /\ owed' = {} /\ late' = {}
  /\ UNCHANGED <<cloudVars, inbox, data, taskVars, holder, cooldown, again, life>>

\* Mutant: the answer is merged only when it brings no row.
PublishedStale == data' = IF answer = {} THEN answer ELSE data

Published == data' = answer

\* The refresh ends: its data is published, or it failed and is not.
Finish ==
  /\ refresh = "fetched"
  /\ Published \/ UNCHANGED data
  /\ refresh' = "idle" /\ holder' = "nobody" /\ answer' = {}
  /\ cooldown' = (holder # "poll")
  /\ UNCHANGED again
  /\ IF holder = "push" THEN Judge(data') ELSE UNCHANGED taskVars
  /\ UNCHANGED <<cloudVars, inbox, life, watchVars>>

-----------------------------------------------------------------------------
(* async_shutdown.                                                         *)

\* The task is cancelled, and with it the refresh that it awaits.
CancelTask ==
  /\ life = "running"
  /\ life' = "stopping"
  /\ task' = "none" /\ attempt' = 0 /\ base' = {}
  /\ expects' = (task = "none" /\ expects)
  /\ IF task = "refreshing"
     THEN /\ refresh' = "idle" /\ holder' = "nobody" /\ answer' = {}
          /\ cooldown' = TRUE /\ UNCHANGED again
     ELSE UNCHANGED refreshVars
  /\ UNCHANGED <<cloudVars, inbox, data, watchVars>>

\* listener.stop returned in the executor, and so does async_shutdown.
ListenerStopped ==
  /\ life = "stopping"
  /\ life' = "stopped"
  /\ UNCHANGED <<cloudVars, inbox, data, taskVars, refreshVars, watchVars>>

-----------------------------------------------------------------------------
Next ==
  \/ \E e \in Events : Happen(e) \/ Post(e) \/ Age(e) \/ Lose(e) \/ Hand(e) \/ Handle(e)
  \/ Wake
  \/ OtherRequest
  \/ Poll
  \/ CooldownEnds
  \/ Fetch
  \/ Finish
  \/ CancelTask
  \/ ListenerStopped

Spec == Init /\ [][Next]_vars

\* Sleeps, timers, requests to the cloud and the poll go on; a refresh does not
\* fail for ever.
FairSpec ==
  /\ Spec
  /\ WF_vars(Wake) /\ WF_vars(CooldownEnds) /\ WF_vars(Fetch) /\ WF_vars(Finish)
  /\ WF_vars(Poll)
  /\ SF_vars(Finish /\ Published)

-----------------------------------------------------------------------------
TypeOK ==
  /\ happened \subseteq Events /\ posted \subseteq Events /\ wire \subseteq Events
  /\ aged \subseteq Events /\ inbox \subseteq Events /\ data \subseteq Events
  /\ task \in {"none", "sleeping", "refreshing"} /\ attempt \in 0 .. Attempts
  /\ base \subseteq Events /\ expects \in BOOLEAN
  /\ refresh \in {"idle", "begun", "fetched"}
  /\ holder \in {"nobody", "push", "request", "poll"} /\ answer \subseteq Events
  /\ cooldown \in BOOLEAN /\ again \in BOOLEAN
  /\ life \in {"running", "stopping", "stopped"}
  /\ owed \subseteq Events /\ late \subseteq Events

\* A refresh that reads the cloud is still to come.
FetchIsComing == task # "none" \/ again \/ refresh = "begun"

\* An event is refreshed after it was handled, unless it came between the fetch
\* of a refresh and its publication: coalescing, the cooldown and dropped
\* requests lose no other event (coordinator.py:100-147).
OnlyLateEventsAreForgotten ==
  life = "running" /\ owed \ late # {} => FetchIsComing

\* The expectation of an audit row belongs to a running task: a later status
\* event never inherits it (coordinator.py:145-147).
ExpectationNeedsTask == expects => task # "none"

\* A task that awaits the debouncer holds the refresh it awaits, and no task
\* holds one that it does not await, cancelled or not (coordinator.py:135).
TaskHoldsItsRefresh == (task = "refreshing") <=> (holder = "push")

\* Both: what a push task leaves behind is neither an expectation nor a refresh,
\* whether it ends by itself or is cancelled (coordinator.py:117-154).
TaskOwnsItsState == ExpectationNeedsTask /\ TaskHoldsItsRefresh

\* Each push task ends, whatever events are coalesced into it, also one that an
\* event started when async_shutdown had cancelled the task but not yet stopped
\* the listener (coordinator.py:127-144, 151-165).
PushTaskEnds == (task # "none") ~> (task = "none")

\* The fallback: a published row is shown in the end, also when every push
\* message is lost, unless it leaves the window before a refresh has read it
\* (coordinator.py:70, 550-553, README.md:30).
RowIsShownInTheEnd ==
  \A e \in Audits : (e \in posted) ~> (e \in data \cup aged \/ life # "running")
=============================================================================
