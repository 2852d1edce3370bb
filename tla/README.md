# A verification of the Tuya lock integration

TLA+ models of `custom_components/tuya_lock`, a Home Assistant integration for
Tuya smart locks, with the TLC configurations that check them on small
instances and theorems that TLAPS proves for every value of the constants.
`PROJECT.json` maps each definition to the lines it models and lists the runs,
the mutants that show each property is not vacuous, the hazards of the code and
the places where code and documentation disagree.

## The system

One `LockCoordinator` per configuration entry polls the Tuya cloud every 15
minutes and on request, and publishes status, audit rows and temporary PINs to
the entities. The event loop of Home Assistant runs its coroutines; every
request to the cloud and every file access runs in an executor thread; an MQTT
listener has a thread of its own, and each Paho client a network thread.

| Component | State | Operations | What is hard, and what makes it correct |
|---|---|---|---|
| Remote unlock attribution (`coordinator.py`, `lock.py`) | pending requests, matched credits, the store's file | register, match and overlay, save, load | concurrent saves of shared lists, crashes, rows that come late or never. At most one row per request, nothing registered is lost, what is shown is on disk and stays |
| Push refresh (`coordinator.py`) | push task, attempt, baseline, `_push_expects_audit`, the debouncer | hand over, coalesce, retry after 3, 10 and 30 s, shut down | coalescing, dropped and deferred requests, an event between fetch and publication. No event forgotten for good, tasks end |
| MQTT listener (`push.py`) | `_mqtt_client`, two `Event`s, the configuration, the backoff | run, connect, disconnect, stop, Paho callbacks | three kinds of threads without a lock. One connection, reconnection, an end after stop |
| Push message decoding (`push.py`) | none | decrypt, parse | data only |
| REST client (`client.py`) | the token, its expiry, the request lock, `uid` | authenticate, get, post, delete | threads share a token that a request for a new one blanks; retries. Requests carry the token they are signed with, no command is done twice, a lost token is replaced |
| Devices (`coordinator.py`) | `self.devices`, `self.data["devices"]` | discover, refresh | dictionaries shared between cache and published data, refreshes that fail half way. What is shown is whole and fresh |
| Set-up, unloading, services (`__init__.py`) | `hass.data`, the platforms' entities, the listener's device ids | set up, unload, reload, look up | three copies of "the locks", taken at different moments. Each lock with entities is heard and found |
| Temporary PIN life cycle (`coordinator.py`) | monitor tasks, notifications, the cloud's records | create, monitor, delete | requests that take effect without an answer, deletion and dismissal while a monitor waits. Honest and settled notifications |
| Fingerprint names (`coordinator.py`, `text.py`, `sensor.py`) | `mapping`, `fingerprint_map.json` | refresh, set up two platforms, edit in the entity or by hand, load, save | read-modify-write over seconds, a file that is emptied before it is written. Names stay |
| PIN entities (`select.py`, `button.py`, `number.py`, `text.py`) | the list, the selection; name and validity of the next PIN | list, select, press | a selection that is removed after an `await`, a list that is older than a deletion. Selections survive failures, deleted PINs leave the list |
| Lock state (`lock.py`) | none | `is_locked` | a pure function |
| Rendering of sensors, configuration flow, PIN encryption | none | | formatting, a form, cryptography |

They interact through shared attributes of the coordinator (the lists, the
mapping, the devices), through `async_request_refresh`, which everything calls
after a change, through `call_soon_threadsafe` from the listener's threads, and
through the one REST client, whose lock puts the requests of all threads in a row.

## Modules

| Module | What it is |
|---|---|
| `RemoteUnlockAttribution` | attribution in full: request tasks, refresh, store with its write lock, cloud, crash |
| `AttributionLedger` | the abstract promise of the file: credits are only added, never change, and expire |
| `RemoteUnlockAttribution_proofs` | type correctness, `OneRowPerRequest`, `NoLostRequest`, `CreditIsNear`, when a credit is right, what a pass leaves |
| `ShownCredits_proofs` | `ShownIsDurable`, `ShownIsStable`, the refinement of the ledger, one row shown per request |
| `PushRefresh`, `PushRefresh_proofs` | from a push message to fresh data; its three invariants, rows that stay, the way to the task's end |
| `PushListener`, `PushListener_proofs` | the listener thread, `stop()`, the clients' network threads; its four invariants, the way to the end of `run()` |
| `TemporaryPin` | creation, delivery monitor, notification, deletion, shutdown |
| `PinEntities` | the list, the select and the button, composed with `TemporaryPin` |
| `TemporaryPin_proofs` | the invariants of both, that the composition implements `TemporaryPin`, and how a monitor comes to its outcome |
| `FingerprintMap`, `FingerprintMap_proofs` | the mapping in memory and on disk; its three invariants |
| `TuyaClient`, `TuyaClient_proofs` | the token, the request lock, retries; its safety properties, the way to a call's end |
| `SerialCalls` | the abstract promise of the client: calls take effect one at a time |
| `LockDevices`, `LockDevices_proofs` | discovery and refresh of the locks, set-up, platforms, listener, unloading, the services' search; its safety properties, and that what is shown only gets newer |
| `MCAttribution`, `MCPush`, `MCListener`, `MCPin`, `MCFingerprint`, `MCClient`, `MCDevices` | instances for TLC |

### RemoteUnlockAttribution

Variables stand for the code's: `pending` and `matched` for the two lists,
`shown` for `self.data["logs"]`, `queued`, `writer` and `image` for the data,
the write lock and the serialised text of Home Assistant's `Store`, `disk` for
the file. `rows` is what nobody in the program knows: who caused each row. An
action runs from one `await` to the next. `Apply` is the whole of
`_apply_remote_unlock_attributions` with what follows it up to the next
`await`; its loop over the sorted requests is the relation `Greedy`, which
fixes each request's row from those of the earlier ones (the proofs call an
assignment that satisfies it a pass). `Crash` is a crash and the load that
follows it. A key is a lock and an instant, as only `Phone Remote` rows are
matched; a lock opens once per instant. Left out: the limit of 100 rows per
answer, requests without a user (they are attributed to "Home Assistant
automation" the same way), the command to lock, which registers nothing, and
errors of the disk. A refresh reads all locks at one moment. A refresh that
fails changes nothing, so it is no action. `Store` serialises when it takes
the data, in the event loop, as the Home Assistant releases with
`serialize_in_event_loop` do; in one that serialises in a thread the lists could
change meanwhile.

### PushRefresh

`Wake` to `Finish` are `_async_refresh_after_push` with the debouncer inlined
(external: started at once, deferred to the end of the cooldown, or dropped
while a refresh is in flight). A refresh has two moments, `Fetch` in the
executor and `Finish` in the loop, and asks for the last 30 days and 100 rows of a
lock: `Age` takes a row out of its reach at any moment. `owed` and `late` are history variables that
say which handled events no fetch has followed and which came between the two.
Delays and cooldowns end at any moment, which allows every order that timing
could give and some that it could not. `_push_codes` is only logged and left out,
and so is the guard for unknown devices: the listener has applied it.

### PushListener

One action per statement that another thread can see. `step` and `held` are the
position in `_disconnect` and its local variable, for each of the two threads
that run it. Paho's client is external: `loop_stop` joins a running network
thread and otherwise does nothing; `disconnect` has no effect before the socket
is open, and before the network thread runs its effect may be undone by the
broker's answer; the network thread reconnects by itself. `cut` records the
clients that `stop()` met in `connect()`.

### TemporaryPin

Each request to the cloud is three moments: sent, effective, answered, and may
fail before or after the second one. `Believed` is the three tests of the
monitor's loop on what Tuya reports. `Old` PINs are in the lock before Home
Assistant starts and were never monitored. PINs do not meet except in `Shutdown`.
The monitor catches `TuyaError` only. An answer whose `result` is null, or no
object (`malformed`), raises another exception in its loop, which ends the task
without a report (`Break`); `broken` is the history variable for such PINs.

### PinEntities

Extends `TemporaryPin` by `listed`, the PINs in the published data, `fetched`, the
answer that a refresh is yet to publish, and the selection of the lock.
`Offered` is `temporary_passwords`: listed and not expired. Each creation, report
and deletion of the composed system is a step of `TemporaryPin`; `Press` is its
`Delete` with the button's side of it. `press` and `Clear` follow `async_press`
over its two `await`s, so that selections may be made between them. `hasty` is a
history variable. Name and validity of the next PIN are not modelled; nothing
else reads them.

### FingerprintMap

Writers take the steps of `write_text(json.dumps(...))`: make the text, empty the
file, write it. `source` is the dictionary that a writer was handed, which stays
the current one (`Live`) until a refresh replaces it. Two overlapping writers
may leave one text sticking out behind the other; that needs different texts.
`Boot` is the first refresh, which meets nothing. After it the sensor platform
(`SensorLoads`, `SensorReplaces`, `SensorRenders`) and the text platform
(`TextBegins`, `TextLoads`, `TextSaves`, `TextAdds`) are set up side by side, with an
`await` between their steps. The text platform has the dictionary that it is to
update in hand before the executor reads the file; `bound` says whether that still is
the current one. `EditByHand` is an edit of the file as `README.md` offers it.
`overlap` is the history variable that the properties refer to: a use of the
file began while another change of it was under way, the set-up of the text platform
from its first step on included. Left out: a refresh during the set-up of the
platforms, reloads that leave a write behind, and a second entry, which would share
the file.

### TuyaClient

One action per step between which another thread can run: the test of the token
under the lock, the signature, the header, the effect at Tuya, the answer.
`lock` and `depth` are the `RLock`. `previous` is the local variable of
`authenticate`; `Return` is the way out of all `with` blocks at once. Tuya may
revoke a token, refuse what is right, execute and not answer, and answer without
a token or with a lifetime that is no number. `effects` and `renewed` are history
variables. `delete` has the steps of `post`. The poll's thread posts nothing.
`uid` is set with the token and left out, as are the contents of requests.

### LockDevices

A dictionary's content is the number `world` had when it was read; `shared` says
which published dictionaries are the cached ones, so that `Assign` changes both.
`Discover` and `Take` give a lock a new dictionary, `StoreStatus` and `StorePins`
are the assignments at the end of a lock's turn, and `Publish` or `Fail` ends a
refresh: `Fail` leaves in the cache what the refresh had stored. `entry` follows
the config entry; `entities`, `heard` and `known` are the three copies of the
locks, of each platform, of the listener and of the services' search. That search
(`Matches`) is over the coordinators of all entries in `hass.data`, and fails unless it
finds exactly one match (`Resolves`). Of the other entries the model has what the search
sees: `others`, the locks that their coordinators know, which `OtherEntry` changes in
any way, so that another entry may know the same lock (the configuration flow sets no
unique id). Locks come to the account and leave it at any moment. The conversion of rows and
PINs is left out, and so is shutdown in detail, which the modules above have.

## Runs

| Run | Instance and bounds | Shows |
|---|---|---|
| `Attribution` | 2 requests, 1 lock, 4 instants, 1 crash, 1 opening by another person; windows of 1, log of 1, credits of 2 instants; symmetric requests | type, `OneRowPerRequest`, `NoLostRequest`, `ShownIsDurable`, `ShownIsStable`, refinement of the ledger |
| `AttributionCredits` | 2 requests, 2 locks, 3 instants, fair | `CreditIsNear`, `WaitingRequestSettles` |
| `AttributionWrongUser` | a door that opens up to 1 instant late, one other person | violates `CreditIsRight` |
| `Push` | 2 audited events that may grow too old, 1 other, 3 attempts, fair | type, `OnlyLateEventsAreForgotten`, `TaskOwnsItsState`, `PushTaskEnds`, `RowIsShownInTheEnd` |
| `Listener` | 3 clients, backoff up to 4, fair | type, `OneConnection`, `WaitIsHonest`, `OnlyCutClientsSurvive`, `ReconnectsInTheEnd`, `StopEnds` |
| `ListenerLeak` | the same, symmetric clients | violates `NoClientSurvives` |
| `TemporaryPin` | 1 new PIN, 12 checks, fair | type, `ClaimsWereReported`, `UnwatchedPinsStayGone`, `OnlyLateCreationsOutliveShutdown`, `NoteIsSettled` |
| `PinEntities` | 2 PINs that the lock has, fair | type, `SelectionOutlivesFailure`, `DeletedPinLeavesTheList` |
| `FingerprintMap` | 2 slots, 2 names, 2 edits of which 1 may be by hand, 1 crash, symmetric | type, `NamesStayUnlessOverlapped`, `ShownSlotsAreNamed` |
| `FingerprintNameLost` | 1 edit, no crash | violates `AssignedNameStays` |
| `Client` | 2 threads of which 1 polls, 2 tokens, fair | type, `SentWithItsToken`, `OneEffectPerCall`, `RefusedOnlyWhenRenewed`, `CallsReturn`, `TokenIsReplaced` |
| `Devices` | 2 locks of which 1 has a name, 2 platforms (symmetric), 1 other entry, 1 change of the locks | type, `EntitiesAreServed`, `ViewsAreFresh`, `FailureShowsNothing` |

Why these bounds are enough. Two requests are the least that compete for a row,
a write lock or a moment of a save, and the matching compares two requests or
two rows at a time. The windows of the attribution are small numbers in the
order of the real ones, so that each limit is met and passed before the last
instant; the crash can come at any step. In `Attribution` doors open without
delay and clocks agree; the theorems hold for every delay and skew. Three events
let an event come before, within and after the one that is being refreshed. Of
three clients one is held by each thread and one is new. The twelve checks of
the monitor are those of the code. Two slots let the edits of two entities
overlap. A PIN in `PinEntities` is selected, replaced by the other one, and deleted
while the other one is; as both are in the lock from the start, their monitors stay
idle, and `TemporaryPin` has those. Two threads are the least that share a token, one
that blanks it and one that signs, and a token is revoked or replaced by the other
one again and again, without a bound; with three threads the run takes too long. In
`Devices` one lock can fail, leave or come while the other one is done, one change
tells old from new, and one other entry is enough to make a search ambiguous.

`CHECK_DEADLOCK FALSE` stands where the system may stop: after a shutdown, after
`stop()`, and when the finitely many events of an instance are over.

Fairness. In `RemoteUnlockAttribution` the refresh is fair, because the poll
comes round every 15 minutes, and so is a save that is begun; users, doors, the
cloud and crashes owe nothing. In `PushRefresh` sleeps, timers, requests and the
poll end, and a refresh succeeds again and again if it ends again and again:
events may still be lost and rows never appear. In `PushListener` threads are
scheduled, and Tuya's configuration, the connection and the broker's answer in
time, are each given infinitely often if they are tried infinitely often; no
failure is excluded. In `TemporaryPin` the monitor's sleeps and requests end.
In `PinEntities` the
poll lists the PINs again and again and does not fail for ever. In `TuyaClient`
requests end by their timeout, the poll goes on calling, a thread that waits for
the lock gets it in the end, since its holders pause for seconds between calls
(an `RLock` by itself is not fair), and Tuya refuses bad tokens and grants new ones
if it is asked again and again, but may fail in between. `FingerprintMap` and
`LockDevices` have no liveness property.

## Where code and documents disagree

Three runs end in a counterexample to something that the README, the changelog
or a docstring says; `PROJECT.json` quotes the sentences.

1. A row is credited by nearness in time, not by who caused it (`CreditIsRight`).
   `CreditIsNear` bounds the error.
2. `stop()` during a connection attempt can leave a connected client
   (`NoClientSurvives`). `OnlyCutClientsSurvive` says that no other client is left.
3. A refresh that overlaps an edit loses the assigned name
   (`AssignedNameStays`). `NamesStayUnlessOverlapped` says that nothing else does.

The models also allow the following, which no run asks about:

- A push event that meets a refresh between fetch and publication is coalesced
  and not refreshed; `OnlyLateEventsAreForgotten` says that no other event is.
- A push event during `async_shutdown` starts a task that outlives it. It ends by
  itself (`PushTaskEnds`); Home Assistant releases that call `async_shutdown` once
  more when the entry is unloaded end it then.
- An answer without a result ends the monitor of a PIN, and its notification says
  "Configuring on lock" until somebody dismisses it (`BrokenIsNeverTold`).
  `NoteIsSettled` says that this happens to no other PIN.
- A lock that two entries know cannot be reached by the services, with its id or
  without. `EntitiesAreServed` says that the id of a lock with entities fails in no
  other case.
- The notification of a PIN that the user dismissed comes back when the monitor
  reports; `UnwatchedPinsStayGone` says that it does not once the monitor has ended.
- The services need a device id although one lock is left, if another one was
  known before (`self.devices` forgets nothing).
- A lock that joins the account has entities and is heard only after a reload.

## Proofs

Assumptions. Attribution: the windows and bounds are natural numbers
(`DurationsAreNaturals`), credits live at least as long as the log is deep and as
a request may wait (`CreditsOutliveTheLog`; 45 days against 30 days and against
30 minutes) and special values are distinct (`ConstantsAreDistinct`). Push: events
are numbers (`EventsAreTimes`) and there is an attempt (`SomeAttempt`). Elsewhere:
a value that stands for "none" is not one of the things it is the absence of
(`NoneIsNoClient`, `NoneIsNoPin`, `NoTokenIsNoToken`, `NobodyIsNoThread`, part of
`NamedLocks`), subsets are subsets (`NamedLocks`, `OldPinsArePins`,
`PollerIsAThread`), bounds are numbers (`BackoffIsPositive`, `SomeRound`,
`SomeChanges`, `BoundsAreNaturals`), an entry is not one of the others (`OwnEntry`), the values that stand for no name and for no
mapping are none (`DefaultsAreNoNames`, `NoMappings`), and the text entity of a
slot is not one of the other writers (`SlotsAreNoOtherWriters`). No theorem needs a constant to be finite.

- *Attribution.* `OneRowPerRequest` is not inductive: a pair of lists exists four
  times, in memory, in the image being written, on disk, and as what the next
  pass will make of it. The strengthening says of all of them that each credit
  belongs to a request that has been made, and that none but the memory can be
  behind. `Greedy` claims are distinct because a claim excludes the claims of
  all earlier requests and the order is total; `ApplyIsAPass` reduces `Apply` to
  this. `NoLostRequest` adds that whatever a task has registered is in memory,
  and from its save on either queued or on the way to the disk.
- *Shown credits.* What is shown is in the file because the overlay waits for
  its own save; the invariant says that the file never falls behind what an
  overlay or an entity shows. From it follow `ShownIsDurable`, the action
  property `ShownIsStable` and the step-by-step refinement of `AttributionLedger`.
- *Distance.* A credit is made from a candidate, and a row's time is within the
  delay and the skew of its request's, so two bounds add up. From the same facts,
  a credit is right, or the row is from Tuya's own app, when nobody else asked for
  the lock within these bounds (`ApartIsRight`): what is true of the sentence that
  `AttributionWrongUser` refutes.
- *Passes.* After a pass no request that is still pending has a free row in its
  window among the fetched ones (`PassIsMaximal`): the greedy choice skips none, and
  no credit that a live request could want is old enough to be forgotten. What a
  pass lays over its rows names each request once, so `ShownOnce` holds of the
  view that waits for its save and of the one that is shown.
- *Push.* The invariant ties the task, the holder of the refresh and the
  debouncer's promise together. It gives `TypeOK`, `TaskOwnsItsState` and
  `OnlyLateEventsAreForgotten`. `ShownRowsStay`: the answer that a
  refresh has in hand holds all that is shown and was in its reach, as no two
  refreshes are in flight; only rows that are too old leave the entities.
- *Listener.* `OneConnection` follows from where a live client is known
  (`Tracked`): it is `_mqtt_client`, or the local variable of a thread that is
  closing it, or one that `stop()` met in `connect()`. The induction needs what
  `_disconnect` may rely on between its read and its clear while the other thread
  runs it, too (`CloseInv`), and that `run()` makes a client only when it has
  closed the last one (`RunInv`). The property is about every client that receives
  messages, or will, also after `stop()`: all are one, but for the client that
  `stop()` met, and there is one such client at most, as `run()` makes no other
  afterwards (`PairInv`).
- *PINs.* The invariant speaks of one PIN at a time: which states of its monitor,
  creation and deletion go together, and that what a monitor is about to write
  is already what Tuya has told (`Reported`). `EntitiesAddNothing` shows that each
  step of `PinEntities` is a step of `TemporaryPin` or none, so all of this holds of
  the composition; `SelectionOutlivesFailure` adds that a button that is about to
  clear has deleted the PIN it was pressed for. A
  notification that says "configuring" has a monitor (`ConfiguringIsWatched`) or
  had one that an answer without a result broke, which is then never told
  (`BrokenIsNeverTold`); an outcome is never taken back (`OutcomeIsFinal`), and a deleted PIN that left the list
  stays away (`DeletedPinStaysAway`).
- *Fingerprint names.* The property excuses everything once uses of the file have
  overlapped; the invariant has to say what is whole until then. At most one writer
  is between its text and its end (`WriteInv`), the file is empty or half-written
  only while that one is (`FileInv`), whoever has read it has read what the mapping
  is still there (`ReadInv`), and so there is one mapping: in memory, in the file when
  nobody writes it and in the text of the writer under way. Only an edit by hand is in
  the file first, until the next reading. `Shape` says who may be at work when,
  whatever has overlapped, and gives `ShownSlotsAreNamed` by itself.
- *Client.* A thread relies on the shared token between its test and its request.
  `LockInv` says where a thread holds the lock and how deep, so that no other one
  is there, and `RequestInv` what the holder knows of the token at each step: the
  request that goes out bears the token it was signed with, or none and asks for
  one. `EffectInv` counts what was executed by how often it was sent. For
  `RefusedOnlyWhenRenewed`, a call that tries again was granted a token, is asking
  for one, or is about to. No call leaves with the lock (`LockIsGivenBack`),
  and the client implements `SerialCalls`, with the holder of the lock as the caller:
  taking the lock a second time and giving that level back are stutters, the effect
  at Tuya is a step, and the way out of all `with` blocks is the end.
- *Devices.* `AgeInv` bounds the age of everything the refresh has in hand and
  `SharedInv` says which dictionaries are both cached and published: none of those
  that a refresh assigns to, as discovery replaces them, unless the entry is for
  one lock that has a name. `EntryInv` orders the three copies of the locks:
  what has entities is heard, what is heard is known, and whoever has any is in
  `hass.data`; with it `EntitiesAreServed` is a matter of counting matches.
  `ViewsOnlyGetNewer`
  relates two refreshes: what is published was read before the one under way began
  (`PastInv`), unless this one has assigned it to a shared dictionary, and what it
  assigns was read after it began.

All strengthened invariants, and the properties that only theorems state, were
checked by TLC before they were proved.

Only model-checked: the liveness properties, as fairness and ENABLED are out of the
prover's reach. For most of them the part that depends on the code, and not
on the scheduler, is a theorem: what is left to do is a number, each step of the actor
makes it smaller, and no step of anybody else makes it larger.

| Liveness property | Theorem it rests on |
|---|---|
| `PushTaskEnds` | `TaskAdvances`: at most two steps per attempt |
| `StopEnds` | `StopIsShort`: at most 20 steps of `run()`, one more connection among them |
| `NoteIsSettled` | `MonitorAdvances`: a sleep with its request and a conclusion per round; `ConfiguringIsWatched`, which names the exception |
| `CallsReturn` | `CallsAdvance`: at most four requests per call |
| `DeletedPinLeavesTheList` | `DeletedPinStaysAway`: no refresh brings it back |
| `WaitingRequestSettles` | `PassIsMaximal`: one pass settles every request beside a fetched row |

`ReconnectsInTheEnd`, `TokenIsReplaced` and `RowIsShownInTheEnd` depend on what
Tuya grants again and again, for which there is no such number.

## Not modelled

- `is_locked` (`lock.py:37`), `_is_current_temporary_password`
  (`coordinator.py:35`), the layouts of push messages (`push.py`) and the texts,
  attributes and Markdown of the sensors: pure functions of one record each,
  without state. A model would restate their tables. `temporary_pin.py` and the
  decryption of messages are cryptography of a library.
- The configuration flow: a form and one request.
- The name and the validity of the next PIN (`number.py`, `text.py`), and the
  client's `uid`: written and read in one place each.
- Contents: of requests, rows and messages, beyond what the properties tell apart.
- Three threads in `TuyaClient` and more locks or platforms
  than two in `LockDevices` are too many states for TLC; the theorems hold for any number.
- A refresh between the steps of the platforms' set-up in `FingerprintMap`; several
  entries that share `fingerprint_map.json`; an entry that is reloaded while a save is
  in flight.
- How long a row waits that the retries missed because a row of another lock ended
  them: delays are untimed, and `PushRefresh` does not tell locks apart.

## Plan

Done: the modules above; each component with state of its own is modelled, and each
safety property that a run checks is a theorem. Still worth having:

1. A composition of `PushRefresh` and `RemoteUnlockAttribution`: an unlock asks for
   a refresh, whose rows are credited. Each has the other's steps as external ones now.
2. A refresh during the set-up of platforms in `FingerprintMap`.
3. An abstract specification of the listener (one connection that opens and closes)
   with its refinement proved, as `AttributionLedger` is for the file and `SerialCalls`
   for the client.
