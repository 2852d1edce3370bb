---------------------- MODULE RemoteUnlockAttribution ----------------------
(***************************************************************************)
(* Who opened the door: the part of LockCoordinator (coordinator.py) that  *)
(* remembers which Home Assistant user asked for a remote unlock, credits  *)
(* the anonymous "Phone Remote" rows of Tuya's audit log to those users,   *)
(* and keeps both lists in a Store so that they survive a restart.         *)
(*                                                                         *)
(* Actors: one task per unlock request (lock.py _async_operate), the       *)
(* refresh of the coordinator (one at a time), Home Assistant's Store with *)
(* its write lock, the cloud that publishes audit rows when it likes,      *)
(* people who open the lock with Tuya's own app, and a crash of Home       *)
(* Assistant at any point.                                                 *)
(***************************************************************************)
EXTENDS Integers, FiniteSets

CONSTANTS
  Requests,     \* unlock requests made in Home Assistant, each by another user
  Locks,        \* lock devices
  NoOne,        \* the absence of a row or of a credit
  Someone,      \* whoever opens a lock with Tuya's app instead
  NoRow,        \* the absence of a key
  Refresh,      \* the coordinator's refresh as a writer of the store
  NoWriter,     \* the store's write lock is free
  EarlySlack,   \* 3 s: how much earlier than its request a row may be dated
  MatchWindow,  \* ATTRIBUTION_MATCH_WINDOW_MS, 10 min
  PendingTTL,   \* PENDING_ATTRIBUTION_TTL_MS, 30 min
  MatchedTTL,   \* MATCHED_ATTRIBUTION_TTL_MS, 45 d
  LogWindow,    \* the 30 days of audit log that a refresh asks for
  ClockSkew,    \* how much earlier than the truth the cloud may date a row
  OpenDelay,    \* how long after its request a door may still open
  MaxTime,      \* bound of the model: the last instant
  MaxCrashes,   \* bound of the model: crashes of Home Assistant
  MaxOthers     \* bound of the model: openings by someone else

ASSUME DurationsAreNaturals ==
  /\ EarlySlack \in Nat /\ MatchWindow \in Nat /\ PendingTTL \in Nat
  /\ MatchedTTL \in Nat /\ LogWindow \in Nat /\ ClockSkew \in Nat
  /\ OpenDelay \in Nat
  /\ MaxTime \in Nat /\ MaxCrashes \in Nat /\ MaxOthers \in Nat

\* 30 d of log against 45 d of credits, and 3 s + 30 min against 45 d.
ASSUME CreditsOutliveTheLog ==
  LogWindow =< MatchedTTL /\ EarlySlack + PendingTTL =< MatchedTTL

Times == 0 .. MaxTime

\* _attribution_key: the device and the time of a row.  Its third part, the
\* event code, is the same for every row that is matched.
Key == Locks \X Times

Holders == Requests \cup {Refresh}

ASSUME ConstantsAreDistinct ==
  /\ NoOne \notin Requests /\ Someone \notin Requests \cup {NoOne}
  /\ NoRow \notin Key \cup Requests \cup {NoOne}
  /\ Refresh \notin Requests /\ NoWriter \notin Holders

Credits == [Key -> Requests \cup {NoOne}]
Views == [Key -> Requests \cup {NoOne, NoRow}]
NoCredits == [k \in Key |-> NoOne]
Blank == [k \in Key |-> NoRow]

VARIABLES
  now,          \* the clock
  pc,           \* where the task of each request stands
  at,           \* its requested_at
  target,       \* its lock
  place,        \* its position among all requests ever appended
  arrivals,     \* number of requests ever appended
  rows,         \* who really caused each row of the cloud's log
  visible,      \* the rows that the cloud's API returns by now
  pending,      \* self.pending_attributions
  matched,      \* self.matched_attributions
  phase,        \* where the refresh stands
  fetched,      \* the Phone Remote rows of its answer
  overlay,      \* these rows with the users laid over them
  shown,        \* self.data["logs"], what the entities show
  queued,       \* Store._data is set
  writer,       \* the holder of Store's write lock
  image,        \* what is being written
  disk,         \* what the file holds
  crashes       \* crashes so far

clockVars == <<now, crashes>>
taskVars == <<pc, at, target, place, arrivals>>
cloudVars == <<rows, visible>>
memoryVars == <<pending, matched>>
refreshVars == <<phase, fetched, overlay, shown>>
storeVars == <<queued, writer, image, disk>>
vars == <<clockVars, taskVars, cloudVars, memoryVars, refreshVars, storeVars>>

InFlight == {"operating", "registering", "saving"}
Saved == [pending : SUBSET Requests, matched : Credits]
Empty == [pending |-> {}, matched |-> NoCredits]
\* Mutant: the matched credits are not handed to the store.
MemoryWithoutMatches == [pending |-> pending, matched |-> NoCredits]

Memory == [pending |-> pending, matched |-> matched]

Init ==
  /\ now = 0 /\ crashes = 0
  /\ pc = [r \in Requests |-> "idle"]
  /\ at = [r \in Requests |-> 0]
  /\ target \in [Requests -> Locks]
  /\ place = [r \in Requests |-> 0]
  /\ arrivals = 0
  /\ rows = NoCredits /\ visible = {}
  /\ pending = {} /\ matched = NoCredits
  /\ phase = "idle" /\ fetched = {} /\ overlay = Blank /\ shown = Blank
  /\ queued = FALSE /\ writer = NoWriter /\ image = Empty /\ disk = Empty

Tick ==
  /\ now < MaxTime
  /\ now' = now + 1
  /\ UNCHANGED <<crashes, taskVars, cloudVars, memoryVars, refreshVars, storeVars>>

-----------------------------------------------------------------------------
(* The task of a request: lock.py _async_operate with lock = False.        *)

\* requested_at is read before the command goes out.
Unlock(r) ==
  /\ pc[r] = "idle"
  /\ pc' = [pc EXCEPT ![r] = "operating"]
  /\ at' = [at EXCEPT ![r] = now]
  /\ UNCHANGED <<target, place, arrivals>>
  /\ UNCHANGED <<clockVars, cloudVars, memoryVars, refreshVars, storeVars>>

\* _operate_sync returned: the task now awaits async_get_user.
OperateAccepted(r) ==
  /\ pc[r] = "operating"
  /\ pc' = [pc EXCEPT ![r] = "registering"]
  /\ UNCHANGED <<at, target, place, arrivals>>
  /\ UNCHANGED <<clockVars, cloudVars, memoryVars, refreshVars, storeVars>>

\* A TuyaError is only logged, although a timeout may hide a door that opens.
OperateFails(r) ==
  /\ pc[r] = "operating"
  /\ pc' = [pc EXCEPT ![r] = "failed"]
  /\ UNCHANGED <<at, target, place, arrivals>>
  /\ UNCHANGED <<clockVars, cloudVars, memoryVars, refreshVars, storeVars>>

\* Mutant: the request is appended but not saved.
RegisterUnsaved(r) ==
  /\ pc[r] = "registering"
  /\ pc' = [pc EXCEPT ![r] = "saving"]
  /\ place' = [place EXCEPT ![r] = arrivals]
  /\ arrivals' = arrivals + 1
  /\ pending' = pending \cup {r}
  /\ UNCHANGED <<at, target, matched, storeVars>>
  /\ UNCHANGED <<clockVars, cloudVars, refreshVars>>

\* The append, and async_save as far as its first await.
Register(r) ==
  /\ pc[r] = "registering"
  /\ pc' = [pc EXCEPT ![r] = "saving"]
  /\ place' = [place EXCEPT ![r] = arrivals]
  /\ arrivals' = arrivals + 1
  /\ pending' = pending \cup {r}
  /\ queued' = TRUE
  /\ UNCHANGED <<at, target, matched, writer, image, disk>>
  /\ UNCHANGED <<clockVars, cloudVars, refreshVars>>

-----------------------------------------------------------------------------
(* The cloud: openings, and rows that become visible later or never.       *)

Opened(r) == \E k \in Key : rows[k] = r

\* A lock opens once per instant, so keys are never shared.
AddRow(l, who) ==
  \E t \in Times :
     /\ now - ClockSkew =< t /\ t =< now
     /\ rows[<<l, t>>] = NoOne
     /\ rows' = [rows EXCEPT ![<<l, t>>] = who]

\* The command may take effect before, after or without its answer.
DoorOpens(r) ==
  /\ pc[r] # "idle" /\ ~Opened(r)
  /\ now =< at[r] + OpenDelay
  /\ AddRow(target[r], r)
  /\ UNCHANGED visible
  /\ UNCHANGED <<clockVars, taskVars, memoryVars, refreshVars, storeVars>>

OtherOpens ==
  /\ Cardinality({k \in Key : rows[k] = Someone}) < MaxOthers
  /\ \E l \in Locks : AddRow(l, Someone)
  /\ UNCHANGED visible
  /\ UNCHANGED <<clockVars, taskVars, memoryVars, refreshVars, storeVars>>

Publish(k) ==
  /\ rows[k] # NoOne /\ k \notin visible
  /\ visible' = visible \cup {k}
  /\ UNCHANGED rows
  /\ UNCHANGED <<clockVars, taskVars, memoryVars, refreshVars, storeVars>>

-----------------------------------------------------------------------------
(* The refresh: _async_update_data.                                        *)

\* _update_sync in the executor.  A refresh that fails changes nothing here.
RefreshFetch ==
  /\ phase = "idle"
  /\ phase' = "fetched"
  /\ fetched' = {k \in visible : now - k[2] =< LogWindow}
  /\ UNCHANGED <<overlay, shown>>
  /\ UNCHANGED <<clockVars, taskVars, cloudVars, memoryVars, storeVars>>

\* The pending requests that are not past their time to live.
Live == {r \in pending : now - at[r] =< PendingTTL}

\* The sort by requested_at is stable: ties stay in order of arrival.
Earlier(q, r) == at[q] < at[r] \/ (at[q] = at[r] /\ place[q] < place[r])

\* Mutants: rows of another lock are candidates; so are rows already credited.
CandidateAnyLock(r, k) ==
  /\ matched[k] = NoOne
  /\ at[r] - EarlySlack =< k[2] /\ k[2] =< at[r] + MatchWindow
CandidateUnclaimed(r, k) ==
  /\ k[1] = target[r]
  /\ at[r] - EarlySlack =< k[2] /\ k[2] =< at[r] + MatchWindow

Candidate(r, k) ==
  /\ k[1] = target[r]
  /\ matched[k] = NoOne
  /\ at[r] - EarlySlack =< k[2] /\ k[2] =< at[r] + MatchWindow

\* Mutant: the end of the window is exclusive.
OpenStrict(r, claim) ==
  {k \in fetched : /\ Candidate(r, k) /\ k[2] < at[r] + MatchWindow
                   /\ \A q \in Live : Earlier(q, r) => claim[q] # k}

\* The candidates that no earlier request of the same pass has claimed.
Open(r, claim) ==
  {k \in fetched : /\ Candidate(r, k)
                   /\ \A q \in Live : Earlier(q, r) => claim[q] # k}

Distance(r, k) == IF k[2] < at[r] THEN at[r] - k[2] ELSE k[2] - at[r]

\* min() over rows sorted newest first: of two as near, the later one.
Nearest(r, k, S) ==
  /\ k \in S
  /\ \A j \in S : \/ Distance(r, k) < Distance(r, j)
                  \/ Distance(r, k) = Distance(r, j) /\ k[2] >= j[2]

\* The rows that the loop over the sorted requests gives them.
Greedy(claim) ==
  \A r \in Live : IF Open(r, claim) = {} THEN claim[r] = NoRow
                                         ELSE Nearest(r, claim[r], Open(r, claim))

\* Mutant: a credited request stays pending.
RemainingAll(claim) == Live

Remaining(claim) == {r \in Live : claim[r] = NoRow}

Credited(claim) ==
  [k \in Key |-> IF \E r \in Live : claim[r] = k
                 THEN CHOOSE r \in Live : claim[r] = k ELSE matched[k]]

\* Mutant: credits expire with the time to live of pending requests.
UnexpiredShort(credits) ==
  [k \in Key |-> IF now - k[2] > PendingTTL THEN NoOne ELSE credits[k]]

Unexpired(credits) ==
  [k \in Key |-> IF now - k[2] > MatchedTTL THEN NoOne ELSE credits[k]]

\* Mutant: the user of the cloud's row is shown, not the one who is credited.
OverlaidNot(credits) == [k \in Key |-> IF k \in fetched THEN rows[k] ELSE NoRow]

Overlaid(credits) == [k \in Key |-> IF k \in fetched THEN credits[k] ELSE NoRow]

\* _apply_remote_unlock_attributions with what follows it without an await:
\* either async_save as far as its first await, or the publication of data.
Apply ==
  /\ phase = "fetched"
  /\ \E claim \in [Live -> fetched \cup {NoRow}] :
       LET credits == Credited(claim)
           changed == Remaining(claim) # pending \/ Unexpired(credits) # credits
       IN  /\ Greedy(claim)
           /\ pending' = Remaining(claim)
           /\ matched' = Unexpired(credits)
           /\ IF changed
              THEN /\ phase' = "saving" /\ queued' = TRUE
                   /\ overlay' = Overlaid(credits) /\ UNCHANGED shown
              ELSE /\ phase' = "idle" /\ shown' = Overlaid(credits)
                   /\ UNCHANGED <<overlay, queued>>
  /\ fetched' = {}
  /\ UNCHANGED <<writer, image, disk>>
  /\ UNCHANGED <<clockVars, taskVars, cloudVars>>

-----------------------------------------------------------------------------
(* Home Assistant's Store.async_save: the data waits in _data, a write     *)
(* takes all of it under the write lock, serialises it and replaces the    *)
(* file; whoever finds _data taken by another has nothing left to do.      *)

Waits(w) == IF w = Refresh THEN phase = "saving" ELSE pc[w] = "saving"

\* async_save returned to w: the refresh publishes, a request is registered.
Resume(w) ==
  IF w = Refresh
  THEN /\ phase' = "idle" /\ shown' = overlay /\ overlay' = Blank
       /\ UNCHANGED <<fetched, taskVars>>
  ELSE /\ pc' = [pc EXCEPT ![w] = "done"]
       /\ UNCHANGED <<at, target, place, arrivals, refreshVars>>

StoreTake(w) ==
  /\ Waits(w) /\ writer = NoWriter /\ queued
  /\ writer' = w /\ queued' = FALSE
  /\ image' = Memory
  /\ UNCHANGED disk
  /\ UNCHANGED <<clockVars, taskVars, cloudVars, memoryVars, refreshVars>>

StoreSkip(w) ==
  /\ Waits(w) /\ writer = NoWriter /\ ~queued
  /\ Resume(w)
  /\ UNCHANGED <<clockVars, cloudVars, memoryVars, storeVars>>

StoreWrite(w) ==
  /\ writer = w
  /\ disk' = image
  /\ writer' = NoWriter /\ image' = Empty
  /\ Resume(w)
  /\ UNCHANGED queued
  /\ UNCHANGED <<clockVars, cloudVars, memoryVars>>

\* Home Assistant dies and starts again: async_load_attributions.
Crash ==
  /\ crashes < MaxCrashes
  /\ crashes' = crashes + 1
  /\ pc' = [r \in Requests |-> IF pc[r] \in InFlight THEN "failed" ELSE pc[r]]
  /\ pending' = disk.pending /\ matched' = disk.matched
  /\ phase' = "idle" /\ fetched' = {} /\ overlay' = Blank /\ shown' = Blank
  /\ queued' = FALSE /\ writer' = NoWriter /\ image' = Empty
  /\ UNCHANGED <<now, at, target, place, arrivals, disk>>
  /\ UNCHANGED cloudVars

-----------------------------------------------------------------------------
Task(r) == Unlock(r) \/ OperateAccepted(r) \/ OperateFails(r) \/ Register(r)
Cloud ==
  \/ \E r \in Requests : DoorOpens(r)
  \/ OtherOpens
  \/ \E k \in Key : Publish(k)
Store(w) == StoreTake(w) \/ StoreSkip(w) \/ StoreWrite(w)

Next ==
  \/ Tick
  \/ \E r \in Requests : Task(r)
  \/ Cloud
  \/ RefreshFetch
  \/ Apply
  \/ \E w \in Holders : Store(w)
  \/ Crash

Spec == Init /\ [][Next]_vars

\* The refresh comes round at least every 15 minutes, and a file is written
\* once it is begun; users, doors, the cloud and crashes owe nothing.
FairSpec == /\ Spec
            /\ WF_vars(RefreshFetch) /\ WF_vars(Apply)
            /\ \A w \in Holders : WF_vars(Store(w))

-----------------------------------------------------------------------------
TypeOK ==
  /\ now \in Times /\ crashes \in 0 .. MaxCrashes
  /\ pc \in [Requests -> InFlight \cup {"idle", "done", "failed"}]
  /\ at \in [Requests -> Times] /\ target \in [Requests -> Locks]
  /\ place \in [Requests -> Nat] /\ arrivals \in Nat
  /\ rows \in [Key -> Requests \cup {NoOne, Someone}] /\ visible \in SUBSET Key
  /\ pending \in SUBSET Requests /\ matched \in Credits
  /\ phase \in {"idle", "fetched", "saving"} /\ fetched \in SUBSET Key
  /\ overlay \in Views /\ shown \in Views
  /\ queued \in BOOLEAN /\ writer \in Holders \cup {NoWriter}
  /\ image \in Saved /\ disk \in Saved

\* In a pair of lists no request is credited with two rows, and none that is
\* still pending has a row.
OneToOne(s) ==
  /\ \A j, k \in Key : s.matched[j] # NoOne /\ s.matched[j] = s.matched[k] => j = k
  /\ \A k \in Key : s.matched[k] \notin s.pending

\* One unlock request explains at most one audit row, in memory and on disk,
\* whatever was lost in a crash (coordinator.py:441-520 with 423-428: the two
\* lists are changed and saved together).
OneRowPerRequest == OneToOne(Memory) /\ OneToOne(disk)

Holds(s, r) == r \in s.pending \/ \E k \in Key : s.matched[k] = r

\* Once async_register_remote_unlock has returned, no crash and no concurrent
\* save loses the request before its time to live is over (coordinator.py:218).
NoLostRequest ==
  \A r \in Requests : pc[r] = "done" /\ now - at[r] =< PendingTTL => Holds(disk, r)

\* Users are shown on a row only after the credit is in the file: a restart
\* never takes back what an entity has shown (coordinator.py:408-415).
ShownIsDurable ==
  \A k \in Key :
    shown[k] \in Requests => \/ disk.matched[k] = shown[k]
                             \/ now - k[2] > MatchedTTL

\* A row that stays in the log never loses or changes the user that it shows
\* (coordinator.py:452-462: matched rows are laid over first and are claimed).
ShownIsStable ==
  [][\A k \in Key : shown[k] \in Requests => shown'[k] \in {shown[k], NoRow}]_vars

\* How wrong a credit can be: it is on the lock that was asked to open, and if
\* the row is another request's, the two requests were made close together
\* (coordinator.py:474-482).
CreditIsNear ==
  \A k \in Key : LET r == matched[k]  q == rows[k] IN
    r # NoOne =>
      /\ k[1] = target[r] /\ q # NoOne
      /\ q \in Requests => /\ at[r] - at[q] =< EarlySlack + OpenDelay
                           /\ at[q] - at[r] =< MatchWindow + ClockSkew

Waiting(r) == r \in pending /\ \E k \in visible : Candidate(r, k)

\* A pending request never waits for ever beside a visible row that is in its
\* window and free: the request gets a row, the row goes to another request,
\* or the request expires (coordinator.py:461-509).
WaitingRequestSettles == \A r \in Requests : Waiting(r) ~> ~Waiting(r)

\* README.md:18 and CHANGELOG.md:46: a credited row was caused by the user who
\* is credited.
CreditIsRight == \A k \in Key : matched[k] # NoOne => rows[k] = matched[k]

-----------------------------------------------------------------------------
\* The file implements the ledger of credits.
Ledger == INSTANCE AttributionLedger WITH ledger <- disk.matched
LedgerSpec == Ledger!Spec
=============================================================================
