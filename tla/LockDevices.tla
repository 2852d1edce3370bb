---------------------------- MODULE LockDevices ----------------------------
(***************************************************************************)
(* Which locks there are: set-up of the config entry, the discovery and    *)
(* the reading of locks by each refresh (coordinator.py _update_sync,      *)
(* _discover_ids), the entities, the listener and the services that are    *)
(* given them (__init__.py), and unloading.                                *)
(*                                                                         *)
(* coordinator.devices maps ids to dictionaries that the refresh, in an    *)
(* executor thread, replaces or changes in place; coordinator.data has the *)
(* dictionaries of the last refresh that succeeded, which may be the same  *)
(* ones.  What a dictionary says of its lock is a number: how often        *)
(* the locks had changed when it was read.  Refreshes of one coordinator   *)
(* do not overlap.  Other entries of the integration have coordinators of  *)
(* their own, which may know the same locks: the config flow does not tell *)
(* entries apart.  Of these only the locks they know are here, which may   *)
(* change in any way.                                                      *)
(***************************************************************************)
EXTENDS Integers

CONSTANTS
  Locks,      \* devices of a lock category with an unlock_ status
  Named,      \* those that have a name at Tuya
  NoLock,     \* no device id was configured
  Platforms,  \* PLATFORMS
  This,       \* the config entry of this coordinator
  Others,     \* the other entries of the integration
  Changes     \* bound on world

ASSUME NamedLocks == Named \subseteq Locks /\ NoLock \notin Locks
ASSUME SomeChanges == Changes \in Nat
ASSUME OwnEntry == This \notin Others

Unread == -1
Views == [status : Unread .. Changes, pins : Unread .. Changes]
Blank == [status |-> Unread, pins |-> Unread]

VARIABLES
  account,   \* the locks of the Tuya account
  world,     \* how often the locks have changed
  others,    \* of the other entries: the locks their coordinators know, if they are in hass.data
  explicit,  \* requested_device_id, or NoLock: never changes
  entry,     \* of the config entry: see TypeOK
  known,     \* DOMAIN coordinator.devices
  cache,     \* coordinator.devices
  published, \* DOMAIN coordinator.data["devices"]
  data,      \* coordinator.data["devices"]
  shared,    \* published locks whose dictionary is the one in coordinator.devices
  refresh,   \* where _update_sync stands: see TypeOK
  todo,      \* locks that its present loop has not done yet
  result,    \* lock_ids, then DOMAIN result["devices"]
  current,   \* device_id
  got,       \* what it has read of that lock
  since,     \* history: world when it began
  added,     \* platforms that are set up
  entities,  \* locks that have entities of each platform
  heard,     \* the listener's device ids
  shownSince \* history: since of the last refresh that succeeded

outsideVars == <<account, world, others>>
cacheVars == <<known, cache>>
shownVars == <<published, data>>
loopVars == <<todo, result, current, got>>
refreshVars == <<refresh, loopVars, since>>
entryVars == <<entry, added, entities, heard>>
vars == <<outsideVars, explicit, entryVars, cacheVars, shownVars, shared, refreshVars, shownSince>>

\* A new LockCoordinator.
NewCoordinator ==
  /\ known' = {} /\ cache' = [l \in Locks |-> Blank]
  /\ published' = {} /\ data' = [l \in Locks |-> Blank] /\ shared' = {}
  /\ refresh' = "idle" /\ todo' = {} /\ result' = {} /\ current' = NoLock /\ got' = Blank
  /\ since' = 0 /\ shownSince' = 0

Init ==
  /\ account \in SUBSET Locks /\ world = 0 /\ others = [e \in Others |-> {}]
  /\ explicit \in Locks \cup {NoLock}
  /\ entry = "starting" /\ added = {} /\ entities = [p \in Platforms |-> {}] /\ heard = {}
  /\ known = {} /\ cache = [l \in Locks |-> Blank]
  /\ published = {} /\ data = [l \in Locks |-> Blank] /\ shared = {}
  /\ refresh = "idle" /\ todo = {} /\ result = {} /\ current = NoLock /\ got = Blank
  /\ since = 0 /\ shownSince = 0

-----------------------------------------------------------------------------
(* Tuya, its users and the other entries.                                  *)

AccountChanges(l) ==
  /\ account' = IF l \in account THEN account \ {l} ELSE account \cup {l}
  /\ UNCHANGED <<world, others, explicit, entryVars, cacheVars, shownVars, shared, refreshVars, shownSince>>

LocksChange ==
  /\ world < Changes
  /\ world' = world + 1
  /\ UNCHANGED <<account, others, explicit, entryVars, cacheVars, shownVars, shared, refreshVars, shownSince>>

\* Another entry is set up, refreshes or is unloaded: it knows other locks.
OtherEntry(e) ==
  /\ \E S \in SUBSET Locks \ {others[e]} : others' = [others EXCEPT ![e] = S]
  /\ UNCHANGED <<account, world, explicit, entryVars, cacheVars, shownVars, shared, refreshVars, shownSince>>

-----------------------------------------------------------------------------
(* _update_sync.                                                           *)

\* The first refresh, the poll and every request for a refresh.
Begin ==
  /\ refresh = "idle" /\ entry \notin {"unloaded", "failed"}
  /\ since' = world
  /\ refresh' = IF explicit = NoLock THEN "listing" ELSE "reading"
  /\ todo' = IF explicit = NoLock THEN {} ELSE {explicit}
  /\ UNCHANGED <<outsideVars, explicit, entryVars, cacheVars, shownVars, shared, result, current, got, shownSince>>

\* Mutant: discovery starts with an empty cache.
ListForgets ==
  /\ refresh = "listing"
  /\ refresh' = "discovering" /\ todo' = account
  /\ known' = {}
  /\ UNCHANGED <<outsideVars, explicit, entryVars, cache, shownVars, shared, result, current, got, since, shownSince>>

\* authenticate and the GET of the account's devices.
List ==
  /\ refresh = "listing"
  /\ refresh' = "discovering" /\ todo' = account
  /\ UNCHANGED <<outsideVars, explicit, entryVars, cacheVars, shownVars, shared, result, current, got, since, shownSince>>

\* Mutant: a dictionary that has no list of PINs.
NewDictionaryPartial(l) ==
  /\ known' = known \cup {l} /\ cache' = [cache EXCEPT ![l] = [status |-> Unread]]
  /\ shared' = shared \ {l}

\* A dictionary of its own for a lock.
NewDictionary(l) ==
  /\ known' = known \cup {l} /\ cache' = [cache EXCEPT ![l] = Blank]
  /\ shared' = shared \ {l}

\* Mutant: a lock that is known keeps its dictionary.
DiscoverOnce(l) ==
  /\ refresh = "discovering" /\ l \in todo
  /\ IF l \in known THEN UNCHANGED <<cacheVars, shared>> ELSE NewDictionary(l)
  /\ result' = result \cup {l} /\ todo' = todo \ {l}
  /\ UNCHANGED <<outsideVars, explicit, entryVars, shownVars, refresh, current, got, since, shownSince>>

\* The GET of the status that tells a lock.
Discover(l) ==
  /\ refresh = "discovering" /\ l \in todo
  /\ NewDictionary(l)
  /\ result' = result \cup {l} /\ todo' = todo \ {l}
  /\ UNCHANGED <<outsideVars, explicit, entryVars, shownVars, refresh, current, got, since, shownSince>>

Discovered ==
  /\ refresh = "discovering" /\ todo = {}
  /\ refresh' = "reading" /\ todo' = result /\ result' = {}
  /\ UNCHANGED <<outsideVars, explicit, entryVars, cacheVars, shownVars, shared, current, got, since, shownSince>>

\* The next lock, with a GET of its metadata when it is new or has no name.
Take(l) ==
  /\ refresh = "reading" /\ l \in todo
  /\ IF l \in known \cap Named THEN UNCHANGED <<cacheVars, shared>>
                               ELSE l \in account /\ NewDictionary(l)
  /\ current' = l /\ todo' = todo \ {l}
  /\ refresh' = "status"
  /\ UNCHANGED <<outsideVars, explicit, entryVars, shownVars, result, got, since, shownSince>>

\* The GETs of the status, and of the log and the PINs.
ReadStatus ==
  /\ refresh = "status" /\ current \in account
  /\ got' = [got EXCEPT !.status = world]
  /\ refresh' = "pins"
  /\ UNCHANGED <<outsideVars, explicit, entryVars, cacheVars, shownVars, shared, todo, result, current, since, shownSince>>

ReadPins ==
  /\ refresh = "pins" /\ current \in account
  /\ got' = [got EXCEPT !.pins = world]
  /\ refresh' = "storing"
  /\ UNCHANGED <<outsideVars, explicit, entryVars, cacheVars, shownVars, shared, todo, result, current, since, shownSince>>

\* A field is assigned: of the published dictionary, too, if it is the same one.
Assign(view) ==
  /\ cache' = [cache EXCEPT ![current] = view]
  /\ data' = IF current \in shared THEN [data EXCEPT ![current] = view] ELSE data
  /\ UNCHANGED <<known, published, shared>>

StoreStatus ==
  /\ refresh = "storing"
  /\ Assign([cache[current] EXCEPT !.status = got.status])
  /\ refresh' = "stored"
  /\ UNCHANGED <<outsideVars, explicit, entryVars, loopVars, since, shownSince>>

\* Mutant: PINs that are there are kept.
PinsOnce == IF cache[current].pins = Unread THEN got.pins ELSE cache[current].pins

PinsRead == got.pins

StorePins ==
  /\ refresh = "stored"
  /\ Assign([cache[current] EXCEPT !.pins = PinsRead])
  /\ result' = result \cup {current} /\ current' = NoLock /\ got' = Blank
  /\ refresh' = "reading"
  /\ UNCHANGED <<outsideVars, explicit, entryVars, todo, since, shownSince>>

RefreshEnds ==
  /\ refresh' = "idle" /\ since' = 0
  /\ todo' = {} /\ result' = {} /\ current' = NoLock /\ got' = Blank

\* The names are saved and the result is published.  The set-up goes on if there
\* is a lock.
Publish ==
  /\ refresh = "reading" /\ todo = {}
  /\ published' = result
  /\ data' = [l \in Locks |-> IF l \in result THEN cache[l] ELSE Blank]
  /\ shared' = result
  /\ shownSince' = since
  /\ RefreshEnds
  /\ entry' = IF entry # "starting" THEN entry
              ELSE IF result = {} THEN "failed" ELSE "platforms"
  /\ UNCHANGED <<outsideVars, explicit, added, entities, heard, cacheVars>>

\* A TuyaError at any request, or an OSError at the end.  Home Assistant repeats a
\* set-up whose first refresh fails with another coordinator.
Fail ==
  /\ refresh \notin {"idle", "storing", "stored"}
  /\ IF entry = "starting" THEN NewCoordinator
     ELSE RefreshEnds /\ UNCHANGED <<cacheVars, shownVars, shared, shownSince>>
  /\ UNCHANGED <<outsideVars, explicit, entryVars>>

-----------------------------------------------------------------------------
(* async_setup_entry and async_unload_entry.                               *)

coordinatorVars == <<cacheVars, shownVars, shared, refreshVars, shownSince>>

\* async_setup_entry of a platform; the platforms take turns in any order.
AddEntities(p) ==
  /\ entry = "platforms" /\ p \notin added
  /\ added' = added \cup {p}
  /\ entities' = [entities EXCEPT ![p] = published]
  /\ UNCHANGED <<outsideVars, explicit, entry, heard, coordinatorVars>>

\* async_start_push.
StartPush ==
  /\ entry = "platforms" /\ added = Platforms
  /\ entry' = "running" /\ heard' = known
  /\ UNCHANGED <<outsideVars, explicit, added, entities, coordinatorVars>>

\* Some platforms cannot be unloaded: the coordinator stays as it is.
UnloadFails ==
  /\ entry = "running"
  /\ \E P \in SUBSET Platforms :
       entities' = [p \in Platforms |-> IF p \in P THEN {} ELSE entities[p]]
  /\ entry' = "stuck"
  /\ UNCHANGED <<outsideVars, explicit, added, heard, coordinatorVars>>

\* All are, and async_shutdown begins.
Unload ==
  /\ entry = "running"
  /\ entry' = "stopping" /\ added' = {} /\ entities' = [p \in Platforms |-> {}]
  /\ UNCHANGED <<outsideVars, explicit, heard, coordinatorVars>>

\* The listener has stopped and the coordinator is dropped.
Drop ==
  /\ entry = "stopping"
  /\ entry' = "unloaded" /\ heard' = {}
  /\ NewCoordinator
  /\ UNCHANGED <<outsideVars, explicit, added, entities>>

\* The entry is set up again.
Reload ==
  /\ entry \in {"unloaded", "failed"}
  /\ entry' = "starting"
  /\ NewCoordinator
  /\ UNCHANGED <<outsideVars, explicit, added, entities, heard>>

-----------------------------------------------------------------------------
Refresh ==
  \/ Begin \/ List \/ Discovered \/ ReadStatus \/ ReadPins \/ StoreStatus \/ StorePins \/ Publish
  \/ \E l \in Locks : Discover(l) \/ Take(l)

Next ==
  \/ LocksChange
  \/ \E l \in Locks : AccountChanges(l)
  \/ \E e \in Others : OtherEntry(e)
  \/ Refresh \/ Fail
  \/ \E p \in Platforms : AddEntities(p)
  \/ StartPush \/ UnloadFails \/ Unload \/ Drop \/ Reload

Spec == Init /\ [][Next]_vars

-----------------------------------------------------------------------------
(* _resolve_coordinator, for a device id that was given or omitted.        *)

\* The entry is in hass.data.
Registered == entry \in {"platforms", "running", "stuck", "stopping"}

Devices(e) == IF e # This THEN others[e] ELSE IF Registered THEN known ELSE {}

\* It fails unless there is exactly one match.
Matches(requested) ==
  {m \in ({This} \cup Others) \X Locks :
     m[2] \in Devices(m[1]) /\ requested \in {m[2], NoLock}}

Resolves(requested, m) == Matches(requested) = {m}

TypeOK ==
  /\ account \subseteq Locks /\ world \in 0 .. Changes
  /\ others \in [Others -> SUBSET Locks]
  /\ explicit \in Locks \cup {NoLock}
  /\ entry \in {"starting", "platforms", "running", "stuck", "stopping", "unloaded", "failed"}
  /\ known \subseteq Locks /\ cache \in [Locks -> Views]
  /\ published \subseteq Locks /\ data \in [Locks -> Views] /\ shared \subseteq Locks
  /\ refresh \in {"idle", "listing", "discovering", "reading", "status", "pins",
                  "storing", "stored"}
  /\ todo \subseteq Locks /\ result \subseteq Locks
  /\ current \in Locks \cup {NoLock} /\ got \in Views
  /\ since \in 0 .. Changes /\ shownSince \in 0 .. Changes
  /\ added \subseteq Platforms /\ entities \in [Platforms -> SUBSET Locks]
  /\ heard \subseteq Locks

\* A service that is given the id of a lock that has an entity, or that the listener
\* hears, acts on it through this coordinator, unless another entry knows the lock as
\* well, which is an error; one that is given none never acts on a lock other than
\* one that every entity is of.  The listener, once it runs, hears each lock that has
\* an entity.  So also while refreshes fail, or add or lose locks, during the set-up,
\* an unloading that fails and one that is under way (__init__.py:55-71, 128-134,
\* 137-149, coordinator.py:78-82, 102).
EntitiesAreServed ==
  /\ \A p \in Platforms : \A l \in entities[p] :
       /\ Resolves(l, <<This, l>>) <=> \A e \in Others : l \notin others[e]
       /\ \A m \in ({This} \cup Others) \X Locks : Resolves(NoLock, m) => m = <<This, l>>
       /\ entry \in {"running", "stuck"} => l \in heard
  /\ \A l \in heard :
       Resolves(l, <<This, l>>) <=> \A e \in Others : l \notin others[e]

\* Entities show of each lock what was read of it during the last refresh that
\* succeeded, or later, never an older status or list of PINs, and never none
\* (coordinator.py:530-568).
ViewsAreFresh ==
  \A l \in published : data[l].status >= shownSince /\ data[l].pins >= shownSince

\* A refresh that fails changes nothing that is shown, whatever it had stored by
\* then, as each refresh has dictionaries of its own; unless the entry is for one
\* lock, whose dictionary is changed in place (coordinator.py:531-542, 564-568, 630).
FailureShowsNothing ==
  [][\/ Publish
     \/ explicit \in Named
     \/ entry' \in {"starting", "unloaded"}
     \/ UNCHANGED shownVars]_vars
=============================================================================
