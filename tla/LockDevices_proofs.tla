------------------------- MODULE LockDevices_proofs -------------------------
(***************************************************************************)
(* Proofs about LockDevices for every set of locks and platforms and any   *)
(* number of changes.                                                      *)
(***************************************************************************)
EXTENDS LockDevices, TLAPS

\* While a lock has its turn, and while the locks have theirs.
InTurn == {"status", "pins", "storing", "stored"}
Reading == {"reading"} \cup InTurn

\* The loops over the locks.
LoopInv ==
  /\ refresh \in {"idle", "listing"} => todo = {} /\ result = {}
  /\ refresh \in InTurn <=> current # NoLock
  /\ refresh \in InTurn => current \in known
  /\ todo \cap result = {} /\ current \notin todo \cup result
  /\ result \subseteq known
  /\ explicit # NoLock => refresh \notin {"listing", "discovering"} /\ todo \subseteq {explicit}

\* How old what was read may be.
Since(view, when) == view.status >= when /\ view.pins >= when

AgeInv ==
  /\ since =< world /\ shownSince =< world
  /\ refresh # "idle" => shownSince =< since
  /\ refresh \in {"pins", "storing", "stored"} => got.status >= since
  /\ refresh \in {"storing", "stored"} => got.pins >= since
  /\ refresh = "stored" => cache[current].status >= since
  /\ refresh \in Reading => \A l \in result : Since(cache[l], since)
  /\ \A l \in published : Since(data[l], shownSince)

\* Which dictionaries are published: one that is shared is in both places, and a
\* refresh has shared ones in hand only if it is for one lock that has a name.
SharedInv ==
  /\ shared \subseteq published /\ published \subseteq known
  /\ \A l \in shared : cache[l] = data[l]
  /\ explicit \notin Named =>
       /\ refresh = "discovering" => result \cap shared = {}
       /\ explicit = NoLock /\ refresh \in Reading => todo \cap shared = {}
       /\ refresh \in InTurn => current \notin shared

\* Who was given which locks.
EntryInv ==
  /\ entry \in {"starting", "failed", "stopping", "unloaded"} =>
       \A p \in Platforms : entities[p] = {}
  /\ entry \in {"starting", "failed", "platforms", "unloaded"} => heard = {}
  /\ heard \subseteq known
  /\ \A p \in Platforms :
       entities[p] \subseteq known /\ (entry \in {"running", "stuck"} => entities[p] \subseteq heard)

Inv == TypeOK /\ LoopInv /\ AgeInv /\ SharedInv /\ EntryInv

-----------------------------------------------------------------------------
(* Views.                                                                  *)

LEMMA WorldIsAView == \A n \in 0 .. Changes : n \in Unread .. Changes /\ n \in Int
BY SomeChanges DEF Unread

LEMMA BlankIsAView == Blank \in Views
<1>1. Unread \in Unread .. Changes
  BY SomeChanges DEF Unread
<1> QED  BY <1>1 DEF Blank, Views

LEMMA ViewHasNumbers ==
  ASSUME NEW view \in Views
  PROVE  view.status \in Int /\ view.pins \in Int
BY SomeChanges DEF Views, Unread

\* An assignment to a field of a dictionary.
LEMMA FieldAssigned ==
  ASSUME NEW view \in Views, NEW n \in Unread .. Changes
  PROVE  LET s == [view EXCEPT !.status = n]
             q == [view EXCEPT !.pins = n]
         IN  /\ s \in Views /\ s.status = n /\ s.pins = view.pins
             /\ q \in Views /\ q.pins = n /\ q.status = view.status
BY DEF Views

-----------------------------------------------------------------------------
(* The coordinator, new and at rest.                                       *)

\* What a new coordinator has.
Coordinator ==
  /\ known = {} /\ cache = [l \in Locks |-> Blank]
  /\ published = {} /\ data = [l \in Locks |-> Blank] /\ shared = {}
  /\ refresh = "idle" /\ todo = {} /\ result = {} /\ current = NoLock /\ got = Blank
  /\ since = 0 /\ shownSince = 0

LEMMA NewIsNew == NewCoordinator => Coordinator'
BY DEF NewCoordinator, Coordinator

\* The part of TypeOK that a coordinator has.
CoordinatorTypes ==
  /\ known \subseteq Locks /\ cache \in [Locks -> Views]
  /\ published \subseteq Locks /\ data \in [Locks -> Views] /\ shared \subseteq Locks
  /\ refresh \in {"idle", "listing", "discovering"} \cup Reading
  /\ todo \subseteq Locks /\ result \subseteq Locks
  /\ current \in Locks \cup {NoLock} /\ got \in Views
  /\ since \in 0 .. Changes /\ shownSince \in 0 .. Changes

EntryTypes ==
  /\ account \subseteq Locks /\ world \in 0 .. Changes
  /\ others \in [Others -> SUBSET Locks]
  /\ explicit \in Locks \cup {NoLock}
  /\ entry \in {"starting", "platforms", "running", "stuck", "stopping", "unloaded", "failed"}
  /\ added \subseteq Platforms /\ entities \in [Platforms -> SUBSET Locks]
  /\ heard \subseteq Locks

LEMMA TypesAreTypeOK == TypeOK <=> CoordinatorTypes /\ EntryTypes
BY DEF TypeOK, CoordinatorTypes, EntryTypes, Reading, InTurn

LEMMA CoordinatorIsSound ==
  Coordinator /\ EntryTypes => CoordinatorTypes /\ LoopInv /\ AgeInv /\ SharedInv
<1> SUFFICES ASSUME Coordinator, EntryTypes
             PROVE  CoordinatorTypes /\ LoopInv /\ AgeInv /\ SharedInv
  OBVIOUS
<1>1. CoordinatorTypes
  <2>1. 0 \in 0 .. Changes
    BY SomeChanges
  <2> QED  BY <2>1, BlankIsAView DEF Coordinator, CoordinatorTypes
<1>2. LoopInv
  BY NamedLocks DEF Coordinator, LoopInv, InTurn
<1>3. AgeInv
  <2>1. world >= 0
    BY SomeChanges DEF EntryTypes
  <2> QED  BY <2>1 DEF Coordinator, AgeInv, Reading, InTurn
<1>4. SharedInv
  BY DEF Coordinator, SharedInv, Reading, InTurn
<1> QED  BY <1>1, <1>2, <1>3, <1>4

LEMMA InitInv == Init => Inv
<1> SUFFICES ASSUME Init PROVE Inv
  OBVIOUS
<1>1. Coordinator
  BY DEF Init, Coordinator
<1>2. EntryTypes
  BY SomeChanges DEF Init, EntryTypes
<1>3. EntryInv
  BY DEF Init, EntryInv
<1> QED  BY <1>1, <1>2, <1>3, CoordinatorIsSound, TypesAreTypeOK DEF Inv

\* The entry does not mind what the coordinator does, as long as it forgets no lock.
LEMMA EntryStays ==
  ASSUME EntryInv, known \subseteq known', UNCHANGED <<entry, entities, heard>>
  PROVE  EntryInv'
BY DEF EntryInv

\* Nor does the coordinator mind the entry.
LEMMA CoordinatorStays ==
  ASSUME Inv, UNCHANGED <<world, explicit, coordinatorVars>>
  PROVE  CoordinatorTypes' /\ LoopInv' /\ AgeInv' /\ SharedInv'
<1> USE DEF coordinatorVars, cacheVars, shownVars, refreshVars, loopVars
<1>1. CoordinatorTypes'
  BY TypesAreTypeOK DEF Inv, CoordinatorTypes
<1>2. LoopInv'
  BY DEF Inv, LoopInv
<1>3. AgeInv'
  BY DEF Inv, AgeInv, Since
<1>4. SharedInv'
  BY DEF Inv, SharedInv
<1> QED  BY <1>1, <1>2, <1>3, <1>4

-----------------------------------------------------------------------------
(* The config entry.                                                       *)

LEMMA EntryKeepsInv ==
  ASSUME Inv, (\E p \in Platforms : AddEntities(p)) \/ StartPush \/ UnloadFails \/ Unload
  PROVE  Inv'
<1> USE DEF outsideVars
<1>1. UNCHANGED <<account, world, others, explicit, coordinatorVars>>
  BY DEF AddEntities, StartPush, UnloadFails, Unload
<1>2. CoordinatorTypes' /\ LoopInv' /\ AgeInv' /\ SharedInv'
  BY <1>1, CoordinatorStays
<1>3. known' = known /\ EntryTypes /\ published \subseteq known /\ known \subseteq Locks
  BY <1>1, TypesAreTypeOK
     DEF Inv, SharedInv, CoordinatorTypes, coordinatorVars, cacheVars
<1>4. EntryTypes' /\ EntryInv'
  <2>1. ASSUME NEW p \in Platforms, AddEntities(p) PROVE EntryTypes' /\ EntryInv'
    <3>1. /\ entry = "platforms" /\ UNCHANGED <<account, world, others, explicit, entry, heard>>
          /\ entities' = [entities EXCEPT ![p] = published]
          /\ added' = added \cup {p}
      BY <2>1 DEF AddEntities
    <3>2. EntryTypes'
      BY <1>3, <3>1 DEF EntryTypes
    <3>3. EntryInv'
      BY <1>3, <3>1 DEF Inv, EntryInv, EntryTypes
    <3> QED  BY <3>2, <3>3
  <2>2. CASE StartPush
    <3>1. EntryTypes'
      BY <1>3, <2>2 DEF StartPush, EntryTypes
    <3>2. EntryInv'
      BY <1>3, <2>2 DEF StartPush, Inv, EntryInv
    <3> QED  BY <3>1, <3>2
  <2>3. CASE UnloadFails
    <3>1. PICK P \in SUBSET Platforms :
            entities' = [p \in Platforms |-> IF p \in P THEN {} ELSE entities[p]]
      BY <2>3 DEF UnloadFails
    <3>2. EntryTypes'
      BY <1>3, <2>3, <3>1 DEF UnloadFails, EntryTypes
    <3>3. EntryInv'
      BY <1>3, <2>3, <3>1 DEF UnloadFails, Inv, EntryInv
    <3> QED  BY <3>2, <3>3
  <2>4. CASE Unload
    <3>1. EntryTypes'
      BY <1>3, <2>4 DEF Unload, EntryTypes
    <3>2. EntryInv'
      BY <1>3, <2>4 DEF Unload, Inv, EntryInv
    <3> QED  BY <3>1, <3>2
  <2> QED  BY <2>1, <2>2, <2>3, <2>4
<1>5. TypeOK'
  BY <1>2, <1>4, TypesAreTypeOK, PTL
<1> QED  BY <1>2, <1>4, <1>5 DEF Inv

\* A new coordinator comes only when nobody has locks of the old one.
LEMMA RenewalKeepsInv ==
  ASSUME Inv, NewCoordinator,
         UNCHANGED <<account, world, others, explicit, added, entities>>,
         \A p \in Platforms : entities[p] = {},
         entry' \in {"starting", "unloaded"}, heard' = {}
  PROVE  Inv'
<1>1. EntryTypes'
  BY TypesAreTypeOK DEF Inv, EntryTypes
<1>2. EntryInv'
  BY DEF EntryInv
<1>3. CoordinatorTypes' /\ LoopInv' /\ AgeInv' /\ SharedInv'
  <2>1. Coordinator'
    BY NewIsNew
  <2> QED  BY <1>1, <2>1, CoordinatorIsSound, PTL
<1>4. TypeOK'
  BY <1>1, <1>3, TypesAreTypeOK, PTL
<1> QED  BY <1>2, <1>3, <1>4 DEF Inv

LEMMA WorldKeepsInv ==
  ASSUME Inv, \/ LocksChange \/ UNCHANGED vars
              \/ \E l \in Locks : AccountChanges(l)
              \/ \E e \in Others : OtherEntry(e)
  PROVE  Inv'
<1> USE DEF vars, outsideVars, entryVars, cacheVars, shownVars, refreshVars, loopVars
<1>1. /\ UNCHANGED <<explicit, entryVars, cacheVars, shownVars, shared, refreshVars, shownSince>>
      /\ account' \subseteq Locks /\ world' \in 0 .. Changes /\ world' >= world
      /\ others' \in [Others -> SUBSET Locks]
  BY SomeChanges DEF LocksChange, AccountChanges, OtherEntry, Inv, TypeOK
<1>2. TypeOK'
  BY <1>1 DEF Inv, TypeOK
<1>3. LoopInv' /\ SharedInv' /\ EntryInv'
  BY <1>1 DEF Inv, LoopInv, SharedInv, EntryInv
<1>4. AgeInv'
  <2>1. since =< world' /\ shownSince =< world'
    BY <1>1, SomeChanges DEF Inv, AgeInv, TypeOK
  <2> QED  BY <1>1, <2>1 DEF Inv, AgeInv, Since
<1> QED  BY <1>2, <1>3, <1>4 DEF Inv

-----------------------------------------------------------------------------
(* A refresh.                                                              *)

\* It changes nothing but the coordinator, and forgets no lock.
Refreshing ==
  /\ UNCHANGED <<account, world, others, explicit, entry, added, entities, heard>>
  /\ known \subseteq known'

LEMMA RefreshSuffices ==
  ASSUME Inv, Refreshing, CoordinatorTypes', LoopInv', AgeInv', SharedInv'
  PROVE  Inv'
<1>1. EntryTypes'
  BY TypesAreTypeOK DEF Inv, EntryTypes, Refreshing
<1>2. EntryInv'
  BY EntryStays DEF Inv, Refreshing
<1>3. TypeOK'
  BY <1>1, TypesAreTypeOK, PTL
<1> QED  BY <1>2, <1>3 DEF Inv

\* Numbers that the steps compare.
LEMMA Ages ==
  ASSUME Inv
  PROVE  /\ world \in Int /\ since \in Int /\ shownSince \in Int
         /\ got \in Views /\ \A l \in Locks : cache[l] \in Views /\ data[l] \in Views
BY SomeChanges DEF Inv, TypeOK

LEMMA BeginKeepsInv == ASSUME Inv, Begin PROVE Inv'
<1> USE DEF outsideVars, entryVars, cacheVars, shownVars
<1>1. Refreshing
  BY DEF Begin, Refreshing
<1>2. CoordinatorTypes'
  BY TypesAreTypeOK DEF Inv, Begin, CoordinatorTypes, EntryTypes, Reading
<1>3. LoopInv'
  BY NamedLocks DEF Inv, Begin, LoopInv, InTurn
<1>4. AgeInv'
  BY Ages DEF Inv, Begin, LoopInv, AgeInv, Since, Reading, InTurn
<1>5. SharedInv'
  BY DEF Inv, Begin, LoopInv, SharedInv, Reading, InTurn
<1> QED  BY <1>1, <1>2, <1>3, <1>4, <1>5, RefreshSuffices

\* The steps between the loops.
LEMMA ListKeepsInv == ASSUME Inv, List \/ Discovered PROVE Inv'
<1> USE DEF outsideVars, entryVars, cacheVars, shownVars
<1>1. Refreshing
  BY DEF List, Discovered, Refreshing
<1>2. CoordinatorTypes'
  BY TypesAreTypeOK DEF Inv, List, Discovered, CoordinatorTypes, EntryTypes, Reading
<1>3. LoopInv'
  BY NamedLocks DEF Inv, TypeOK, List, Discovered, LoopInv, InTurn
<1>4. AgeInv'
  BY DEF Inv, List, Discovered, AgeInv, Since, Reading, InTurn
<1>5. SharedInv'
  BY DEF Inv, List, Discovered, LoopInv, SharedInv, Reading, InTurn
<1> QED  BY <1>1, <1>2, <1>3, <1>4, <1>5, RefreshSuffices

\* A new dictionary is a lock's own, and no published one changes.
LEMMA NewDictionaryKeeps ==
  ASSUME Inv, NEW l \in Locks, l \notin result, NewDictionary(l),
         UNCHANGED <<published, data>>
  PROVE  /\ known' = known \cup {l} /\ cache' \in [Locks -> Views]
         /\ \A k \in result : cache'[k] = cache[k]
         /\ shared' \subseteq shared /\ l \notin shared'
         /\ \A k \in shared' : cache'[k] = data'[k]
<1>1. cache \in [Locks -> Views] /\ \A k \in shared : cache[k] = data[k]
  BY DEF Inv, TypeOK, SharedInv
<1> QED  BY <1>1, BlankIsAView DEF NewDictionary, Inv, TypeOK

LEMMA DiscoverKeepsInv == ASSUME Inv, NEW l \in Locks, Discover(l) PROVE Inv'
<1> USE DEF outsideVars, entryVars, shownVars
<1>1. l \notin result /\ refresh = "discovering" /\ l \in todo
  BY DEF Inv, LoopInv, Discover
<1>2. /\ known' = known \cup {l} /\ cache' \in [Locks -> Views]
      /\ \A k \in result : cache'[k] = cache[k]
      /\ shared' \subseteq shared /\ l \notin shared'
      /\ \A k \in shared' : cache'[k] = data'[k]
  BY <1>1, NewDictionaryKeeps DEF Discover
<1>3. /\ result' = result \cup {l} /\ todo' = todo \ {l}
      /\ UNCHANGED <<account, world, others, explicit, entry, added, entities, heard, published,
                     data, refresh, current, got, since, shownSince>>
  BY DEF Discover
<1>4. Refreshing
  BY <1>2, <1>3 DEF Refreshing
<1>5. CoordinatorTypes'
  BY <1>2, <1>3, TypesAreTypeOK DEF Inv, CoordinatorTypes
<1>6. LoopInv'
  BY <1>1, <1>2, <1>3 DEF Inv, LoopInv, InTurn
<1>7. AgeInv'
  BY <1>1, <1>3 DEF Inv, AgeInv, Since, Reading, InTurn
<1>8. SharedInv'
  BY <1>1, <1>2, <1>3 DEF Inv, SharedInv, Reading, InTurn
<1> QED  BY <1>4, <1>5, <1>6, <1>7, <1>8, RefreshSuffices

LEMMA TakeKeepsInv == ASSUME Inv, NEW l \in Locks, Take(l) PROVE Inv'
<1> USE DEF outsideVars, entryVars, shownVars
<1>1. l \notin result /\ refresh = "reading" /\ l \in todo
  BY DEF Inv, LoopInv, Take
<1>2. /\ current' = l /\ todo' = todo \ {l} /\ refresh' = "status"
      /\ UNCHANGED <<account, world, others, explicit, entry, added, entities, heard, published,
                     data, result, got, since, shownSince>>
  BY DEF Take
<1>3. /\ known' = known \cup {l} /\ cache' \in [Locks -> Views]
      /\ \A k \in result : cache'[k] = cache[k]
      /\ shared' \subseteq shared /\ \A k \in shared' : cache'[k] = data'[k]
      /\ l \in Named \/ l \notin shared'
  <2>1. CASE l \in known \cap Named
    <3>1. UNCHANGED <<known, cache, shared>>
      BY <2>1 DEF Take, cacheVars
    <3> QED  BY <2>1, <3>1, <1>2 DEF Inv, TypeOK, SharedInv
  <2>2. CASE l \notin known \cap Named
    <3>1. NewDictionary(l)
      BY <2>2 DEF Take
    <3> QED  BY <1>1, <1>2, <3>1, NewDictionaryKeeps
  <2> QED  BY <2>1, <2>2
<1>4. explicit \notin Named => l \notin shared'
  <2>1. CASE explicit = NoLock
    BY <1>1, <1>3, <2>1 DEF Inv, SharedInv, Reading
  <2>2. CASE explicit # NoLock
    BY <1>1, <1>3, <2>2 DEF Inv, LoopInv
  <2> QED  BY <2>1, <2>2
<1>5. Refreshing
  BY <1>2, <1>3 DEF Refreshing
<1>6. CoordinatorTypes'
  BY <1>2, <1>3, TypesAreTypeOK DEF Inv, CoordinatorTypes, Reading, InTurn
<1>7. LoopInv'
  BY <1>1, <1>2, <1>3, NamedLocks DEF Inv, LoopInv, InTurn
<1>8. AgeInv'
  BY <1>1, <1>2, <1>3 DEF Inv, AgeInv, Since, Reading, InTurn
<1>9. SharedInv'
  BY <1>1, <1>2, <1>3, <1>4 DEF Inv, SharedInv, Reading, InTurn
<1> QED  BY <1>5, <1>6, <1>7, <1>8, <1>9, RefreshSuffices

\* What is read is as new as the refresh.
LEMMA ReadKeepsInv == ASSUME Inv, ReadStatus \/ ReadPins PROVE Inv'
<1> USE DEF outsideVars, entryVars, cacheVars, shownVars
<1>1. /\ UNCHANGED <<account, world, others, explicit, entry, added, entities, heard, known, cache,
                     published, data, shared, todo, result, current, since, shownSince>>
      /\ refresh \in {"status", "pins"} /\ refresh' \in {"pins", "storing"}
  BY DEF ReadStatus, ReadPins
<1>2. world \in Unread .. Changes /\ since =< world /\ got \in Views
  BY WorldIsAView DEF Inv, TypeOK, AgeInv
<1>3. got' \in Views /\ got'.status >= since /\ (refresh' = "storing" => got'.pins >= since)
  <2>1. CASE ReadStatus
    BY <1>2, <2>1, FieldAssigned DEF ReadStatus
  <2>2. CASE ReadPins
    BY <1>2, <2>2, FieldAssigned DEF ReadPins, Inv, AgeInv
  <2> QED  BY <2>1, <2>2
<1>4. Refreshing
  BY <1>1 DEF Refreshing
<1>5. CoordinatorTypes'
  BY <1>1, <1>3, TypesAreTypeOK DEF Inv, CoordinatorTypes, Reading, InTurn
<1>6. LoopInv'
  BY <1>1 DEF Inv, LoopInv, InTurn
<1>7. AgeInv'
  BY <1>1, <1>3 DEF Inv, AgeInv, Since, Reading, InTurn
<1>8. SharedInv'
  BY <1>1 DEF Inv, SharedInv, Reading, InTurn
<1> QED  BY <1>4, <1>5, <1>6, <1>7, <1>8, RefreshSuffices

\* An assignment to a field of the dictionary in hand: if it is published, then as
\* something that is no older than what it replaces.
LEMMA AssignKeeps ==
  ASSUME Inv, refresh \in {"storing", "stored"}, NEW view \in Views, Assign(view),
         view.status >= since, view.pins >= since \/ view.pins = cache[current].pins
  PROVE  /\ current \in Locks /\ current \in known /\ current \notin result
         /\ cache' \in [Locks -> Views] /\ data' \in [Locks -> Views]
         /\ cache'[current] = view
         /\ \A l \in result : cache'[l] = cache[l]
         /\ \A l \in shared : cache'[l] = data'[l]
         /\ \A l \in published : Since(data'[l], shownSince)
<1>1. current \in Locks /\ current \in known /\ current \notin result
  BY DEF Inv, TypeOK, LoopInv, InTurn
<1>2. cache' = [cache EXCEPT ![current] = view]
  BY DEF Assign
<1>3. cache' \in [Locks -> Views] /\ cache'[current] = view
  BY <1>1, <1>2 DEF Inv, TypeOK
<1>4. \A l \in result : cache'[l] = cache[l]
  BY <1>1, <1>2 DEF Inv, TypeOK
<1>5. CASE current \in shared
  <2>1. data' = [data EXCEPT ![current] = view]
    BY <1>5 DEF Assign
  <2>2. data' \in [Locks -> Views] /\ \A l \in shared : cache'[l] = data'[l]
    BY <1>1, <1>2, <2>1 DEF Inv, TypeOK, SharedInv
  <2>3. Since(view, shownSince)
    <3>1. shownSince =< since /\ current \in published /\ cache[current] = data[current]
      BY <1>5 DEF Inv, AgeInv, SharedInv
    <3>2. data[current].pins >= shownSince
      BY <3>1 DEF Inv, AgeInv, Since
    <3> QED
      BY <1>1, <3>1, <3>2, Ages, ViewHasNumbers DEF Since
  <2>4. \A l \in published : Since(data'[l], shownSince)
    BY <1>1, <2>1, <2>3 DEF Inv, TypeOK, AgeInv
  <2> QED  BY <1>1, <1>3, <1>4, <2>2, <2>4
<1>6. CASE current \notin shared
  <2>1. data' = data
    BY <1>6 DEF Assign
  <2> QED  BY <1>1, <1>2, <1>3, <1>4, <1>6, <2>1 DEF Inv, TypeOK, SharedInv, AgeInv
<1> QED  BY <1>5, <1>6

LEMMA StoreStatusKeepsInv == ASSUME Inv, StoreStatus PROVE Inv'
<1> DEFINE view == [cache[current] EXCEPT !.status = got.status]
<1> USE DEF outsideVars, entryVars, loopVars
<1>1. /\ refresh = "storing" /\ refresh' = "stored" /\ Assign(view)
      /\ UNCHANGED <<account, world, others, explicit, entry, added, entities, heard, known, published,
                     shared, todo, result, current, got, since, shownSince>>
  BY DEF StoreStatus, Assign
<1>2. current \in Locks
  BY <1>1 DEF Inv, TypeOK, LoopInv, InTurn
<1>3. /\ view \in Views /\ view.status = got.status /\ view.pins = cache[current].pins
      /\ view.status >= since
  <2>1. got.status \in Unread .. Changes /\ got.status >= since /\ cache[current] \in Views
    BY <1>1, <1>2 DEF Inv, TypeOK, AgeInv, Views
  <2> QED  BY <2>1, FieldAssigned
<1> HIDE DEF view
<1>4. /\ cache' \in [Locks -> Views] /\ data' \in [Locks -> Views]
      /\ cache'[current] = view
      /\ \A l \in result : cache'[l] = cache[l]
      /\ \A l \in shared : cache'[l] = data'[l]
      /\ \A l \in published : Since(data'[l], shownSince)
  BY <1>1, <1>3, AssignKeeps
<1>5. Refreshing
  BY <1>1 DEF Refreshing
<1>6. CoordinatorTypes'
  BY <1>1, <1>4, TypesAreTypeOK DEF Inv, CoordinatorTypes, Reading, InTurn
<1>7. LoopInv'
  BY <1>1 DEF Inv, LoopInv, InTurn
<1>8. AgeInv'
  BY <1>1, <1>3, <1>4 DEF Inv, AgeInv, Since, Reading, InTurn
<1>9. SharedInv'
  BY <1>1, <1>4 DEF Inv, SharedInv, Reading, InTurn
<1> QED  BY <1>5, <1>6, <1>7, <1>8, <1>9, RefreshSuffices

LEMMA StorePinsKeepsInv == ASSUME Inv, StorePins PROVE Inv'
<1> DEFINE view == [cache[current] EXCEPT !.pins = PinsRead]
<1> USE DEF outsideVars, entryVars
<1>1. /\ refresh = "stored" /\ refresh' = "reading" /\ Assign(view)
      /\ result' = result \cup {current} /\ current' = NoLock /\ got' = Blank
      /\ UNCHANGED <<account, world, others, explicit, entry, added, entities, heard, known, published,
                     shared, todo, since, shownSince>>
  BY DEF StorePins, Assign
<1>2. current \in Locks
  BY <1>1 DEF Inv, TypeOK, LoopInv, InTurn
<1>3. view \in Views /\ Since(view, since)
  <2>1. /\ PinsRead \in Unread .. Changes /\ PinsRead >= since
        /\ cache[current] \in Views /\ cache[current].status >= since
    BY <1>1, <1>2 DEF Inv, TypeOK, AgeInv, Views, PinsRead
  <2> QED  BY <2>1, FieldAssigned DEF Since
<1> HIDE DEF view
<1>4. /\ current \in Locks /\ current \in known /\ current \notin result
      /\ cache' \in [Locks -> Views] /\ data' \in [Locks -> Views]
      /\ cache'[current] = view
      /\ \A l \in result : cache'[l] = cache[l]
      /\ \A l \in shared : cache'[l] = data'[l]
      /\ \A l \in published : Since(data'[l], shownSince)
  BY <1>1, <1>3, AssignKeeps DEF Since
<1>5. Refreshing
  BY <1>1 DEF Refreshing
<1>6. CoordinatorTypes'
  BY <1>1, <1>4, BlankIsAView, TypesAreTypeOK
     DEF Inv, CoordinatorTypes, Reading, InTurn
<1>7. LoopInv'
  BY <1>1, <1>4, NamedLocks DEF Inv, TypeOK, LoopInv, InTurn
<1>8. AgeInv'
  BY <1>1, <1>3, <1>4 DEF Inv, AgeInv, Since, Reading, InTurn
<1>9. SharedInv'
  BY <1>1, <1>4 DEF Inv, SharedInv, Reading, InTurn
<1> QED  BY <1>5, <1>6, <1>7, <1>8, <1>9, RefreshSuffices

\* A refresh that succeeds publishes what is at least as new as itself.
LEMMA PublishKeepsInv == ASSUME Inv, Publish PROVE Inv'
<1> USE DEF outsideVars, cacheVars
<1>1. /\ refresh = "reading" /\ published' = result /\ shared' = result
      /\ data' = [l \in Locks |-> IF l \in result THEN cache[l] ELSE Blank]
      /\ shownSince' = since
      /\ refresh' = "idle" /\ since' = 0 /\ todo' = {} /\ result' = {}
      /\ current' = NoLock /\ got' = Blank
      /\ UNCHANGED <<account, world, others, explicit, added, entities, heard, known, cache>>
  BY DEF Publish, RefreshEnds
<1>2. result \subseteq known /\ result \subseteq Locks
  BY DEF Inv, TypeOK, LoopInv
<1>3. \A l \in Locks : data'[l] = IF l \in result THEN cache[l] ELSE Blank
  BY <1>1
<1>4. TypeOK'
  <2>1. data' \in [Locks -> Views]
    BY <1>1, BlankIsAView DEF Inv, TypeOK
  <2>2. 0 \in 0 .. Changes
    BY SomeChanges
  <2>3. entry' \in {"starting", "platforms", "running", "stuck", "stopping", "unloaded",
                    "failed"}
    BY DEF Publish, Inv, TypeOK
  <2> QED  BY <1>1, <1>2, <2>1, <2>2, <2>3, BlankIsAView DEF Inv, TypeOK
<1>5. LoopInv'
  BY <1>1, NamedLocks DEF Inv, LoopInv, InTurn
<1>6. AgeInv'
  <2>1. 0 =< world /\ since =< world
    BY SomeChanges DEF Inv, TypeOK, AgeInv
  <2>2. \A l \in result : Since(data'[l], since)
    BY <1>1, <1>2, <1>3 DEF Inv, AgeInv, Reading
  <2> QED  BY <1>1, <2>1, <2>2 DEF AgeInv, Reading, InTurn
<1>7. SharedInv'
  BY <1>1, <1>2, <1>3 DEF SharedInv, Reading, InTurn
<1>8. EntryInv'
  BY <1>1 DEF Publish, Inv, EntryInv
<1> QED  BY <1>4, <1>5, <1>6, <1>7, <1>8 DEF Inv

\* One that fails leaves what is published alone.
LEMMA FailKeepsInv == ASSUME Inv, Fail PROVE Inv'
<1> USE DEF outsideVars, entryVars
<1>1. CASE entry = "starting"
  <2>1. NewCoordinator /\ UNCHANGED <<account, world, others, explicit, entry, added, entities, heard>>
    BY <1>1 DEF Fail
  <2>2. heard = {} /\ \A p \in Platforms : entities[p] = {}
    BY <1>1 DEF Inv, EntryInv
  <2> QED  BY <1>1, <2>1, <2>2, RenewalKeepsInv
<1>2. CASE entry # "starting"
  <2> USE DEF cacheVars, shownVars
  <2>1. /\ refresh' = "idle" /\ since' = 0 /\ todo' = {} /\ result' = {}
        /\ current' = NoLock /\ got' = Blank
        /\ UNCHANGED <<account, world, others, explicit, entry, added, entities, heard, known, cache,
                       published, data, shared, shownSince>>
    BY <1>2 DEF Fail, RefreshEnds
  <2>2. Refreshing
    BY <2>1 DEF Refreshing
  <2>3. CoordinatorTypes'
    <3>1. 0 \in 0 .. Changes
      BY SomeChanges
    <3> QED  BY <2>1, <3>1, BlankIsAView, TypesAreTypeOK DEF Inv, CoordinatorTypes
  <2>4. LoopInv'
    BY <2>1, NamedLocks DEF Inv, LoopInv, InTurn
  <2>5. AgeInv'
    <3>1. 0 =< world
      BY SomeChanges DEF Inv, TypeOK
    <3> QED  BY <2>1, <3>1 DEF Inv, AgeInv, Since, Reading, InTurn
  <2>6. SharedInv'
    BY <2>1 DEF Inv, SharedInv, Reading, InTurn
  <2> QED  BY <2>2, <2>3, <2>4, <2>5, <2>6, RefreshSuffices
<1> QED  BY <1>1, <1>2

-----------------------------------------------------------------------------
LEMMA NextInv == Inv /\ [Next]_vars => Inv'
<1> SUFFICES ASSUME Inv, [Next]_vars PROVE Inv'
  OBVIOUS
<1>1. ASSUME NEW l \in Locks, Discover(l) \/ Take(l) PROVE Inv'
  BY <1>1, DiscoverKeepsInv, TakeKeepsInv
<1>2. Refresh => Inv'
  BY <1>1, BeginKeepsInv, ListKeepsInv, ReadKeepsInv, StoreStatusKeepsInv, StorePinsKeepsInv,
     PublishKeepsInv
     DEF Refresh
<1>3. Drop => Inv'
  BY RenewalKeepsInv DEF Drop, Inv, EntryInv, outsideVars
<1>4. Reload => Inv'
  BY RenewalKeepsInv DEF Reload, Inv, EntryInv, outsideVars
<1> QED
  BY <1>2, <1>3, <1>4, WorldKeepsInv, EntryKeepsInv, FailKeepsInv DEF Next

\* The three copies agree where it matters.
LEMMA InvServes == Inv => EntitiesAreServed
<1> SUFFICES ASSUME Inv PROVE EntitiesAreServed
  OBVIOUS
<1>1. known \subseteq Locks
  BY DEF Inv, TypeOK
<1> DEFINE Coordinators == {This} \cup Others
           NobodyElse(l) == \A e \in Others : l \notin others[e]
<1>2. ASSUME NEW l \in known, Registered
      PROVE  /\ Resolves(l, <<This, l>>) <=> NobodyElse(l)
             /\ \A m \in Coordinators \X Locks : Resolves(NoLock, m) => m = <<This, l>>
  <2>1. l \in Locks /\ NoLock # l /\ <<This, l>> \in Coordinators \X Locks
    BY <1>1, NamedLocks
  <2>2. <<This, l>> \in Matches(l) /\ <<This, l>> \in Matches(NoLock)
    BY <1>2, <2>1 DEF Matches, Devices
  <2>3. \A m \in Matches(l) : m = <<m[1], l>> /\ m[1] \in Coordinators /\ l \in Devices(m[1])
    BY <2>1, NamedLocks DEF Matches
  <2>4. NobodyElse(l) => Matches(l) = {<<This, l>>}
    <3>1. \A e \in Others : l \in Devices(e) => l \in others[e]
      BY OwnEntry DEF Devices
    <3> QED  BY <2>2, <2>3, <3>1
  <2>5. ASSUME NEW e \in Others, l \in others[e] PROVE ~Resolves(l, <<This, l>>)
    <3>1. <<e, l>> \in Matches(l)
      BY <2>1, <2>5, OwnEntry DEF Matches, Devices
    <3>2. <<e, l>> # <<This, l>>
      BY OwnEntry
    <3> QED  BY <3>1, <3>2 DEF Resolves
  <2> QED  BY <2>2, <2>4, <2>5 DEF Resolves
<1>3. ASSUME NEW p \in Platforms, NEW l \in entities[p] PROVE l \in known /\ Registered
  BY <1>3 DEF Inv, TypeOK, EntryInv, Registered
<1>4. ASSUME NEW l \in heard PROVE l \in known /\ Registered
  BY <1>4 DEF Inv, TypeOK, EntryInv, Registered
<1>5. \A p \in Platforms : \A l \in entities[p] :
        entry \in {"running", "stuck"} => l \in heard
  BY DEF Inv, EntryInv
<1> QED  BY <1>2, <1>3, <1>4, <1>5 DEF EntitiesAreServed

\* Only a refresh for one lock with a name writes to what is published.
LEMMA ShownChangesByPublish ==
  ASSUME Inv, [Next]_vars
  PROVE  Publish \/ explicit \in Named \/ entry' \in {"starting", "unloaded"}
         \/ UNCHANGED shownVars
<1>1. CASE StoreStatus \/ StorePins
  <2>1. refresh \in InTurn
    BY <1>1 DEF StoreStatus, StorePins, InTurn
  <2>2. explicit \in Named \/ current \notin shared
    BY <2>1 DEF Inv, SharedInv
  <2> QED  BY <1>1, <2>2 DEF StoreStatus, StorePins, Assign, shownVars
<1>2. CASE Fail
  BY <1>2 DEF Fail, entryVars
<1>3. CASE Drop \/ Reload
  BY <1>3 DEF Drop, Reload
<1>4. ASSUME NEW l \in Locks, Discover(l) \/ Take(l) \/ AccountChanges(l)
      PROVE  UNCHANGED shownVars
  BY <1>4 DEF Discover, Take, AccountChanges
<1>5. CASE \/ Begin \/ List \/ Discovered \/ ReadStatus \/ ReadPins \/ LocksChange
           \/ \E e \in Others : OtherEntry(e)
  BY <1>5 DEF Begin, List, Discovered, ReadStatus, ReadPins, LocksChange, OtherEntry
<1>6. ASSUME NEW p \in Platforms, AddEntities(p) PROVE UNCHANGED shownVars
  BY <1>6 DEF AddEntities, coordinatorVars
<1>7. CASE StartPush \/ UnloadFails \/ Unload
  BY <1>7 DEF StartPush, UnloadFails, Unload, coordinatorVars
<1>8. CASE UNCHANGED vars
  BY <1>8 DEF vars
<1> QED
  BY <1>1, <1>2, <1>3, <1>4, <1>5, <1>6, <1>7, <1>8 DEF Next, Refresh

\* Every variable keeps its type.
THEOREM TypeCorrect == Spec => []TypeOK
BY InitInv, NextInv, PTL DEF Spec, Inv

\* A service finds each lock that has an entity, unless another entry knows it too, in
\* which case it fails, and without an id acts on no other lock; the listener hears each
\* such lock: however set-up, refreshes, unloading, changes of the account and the other
\* entries meet.
THEOREM EntitiesAreServedHolds == Spec => []EntitiesAreServed
BY InitInv, NextInv, InvServes, PTL DEF Spec

\* Nothing is shown that is older than the last refresh that succeeded.
THEOREM ViewsAreFreshHolds == Spec => []ViewsAreFresh
<1>1. Inv => ViewsAreFresh
  BY DEF Inv, AgeInv, Since, ViewsAreFresh
<1> QED  BY <1>1, InitInv, NextInv, PTL DEF Spec

\* A refresh that fails shows nothing of what it had read, unless the entry is for
\* one lock that has a name.
THEOREM FailureShowsNothingHolds == Spec => FailureShowsNothing
<1>1. Inv /\ [Next]_vars =>
        [\/ Publish
         \/ explicit \in Named
         \/ entry' \in {"starting", "unloaded"}
         \/ UNCHANGED shownVars]_vars
  BY ShownChangesByPublish
<1> QED  BY <1>1, InitInv, NextInv, PTL DEF Spec, FailureShowsNothing

-----------------------------------------------------------------------------
(* From one refresh to the next.                                           *)

NoOlder(view, than) == view.status >= than.status /\ view.pins >= than.pins

\* What the entities show of a lock is never replaced by something older, neither
\* by a refresh that publishes, nor by one that assigns to a published dictionary
\* and then fails, nor by the one after it (coordinator.py:530-568, 628-633).
ViewsOnlyGetNewer ==
  [][\A l \in published \cap published' : NoOlder(data'[l], data[l])]_vars

NotAfter(view, when) == view.status =< when /\ view.pins =< when

\* What is published was there when the refresh under way began, unless this very
\* refresh has read it and assigned it to a shared dictionary.
PastInv ==
  /\ NotAfter(got, world) /\ \A l \in Locks : NotAfter(cache[l], world)
  /\ \A l \in published :
       /\ NotAfter(data[l], world)
       /\ refresh # "idle" =>
            \/ NotAfter(data[l], since)
            \/ l \in shared /\ refresh \in Reading /\ l \in result
            \/ l \in shared /\ refresh = "stored" /\ l = current /\ data[l].pins =< since

OnlyNewer == \A l \in published \cap published' : NoOlder(data'[l], data[l])

LEMMA Numbers ==
  ASSUME Inv
  PROVE  /\ world \in Int /\ since \in Int /\ got.status \in Int /\ got.pins \in Int
         /\ world >= 0 /\ since =< world /\ published \subseteq Locks
         /\ \A l \in Locks : /\ data[l].status \in Int /\ data[l].pins \in Int
                             /\ cache[l].status \in Int /\ cache[l].pins \in Int
<1>1. world \in Int /\ since \in Int /\ world >= 0 /\ since =< world /\ published \subseteq Locks
  BY SomeChanges DEF Inv, TypeOK, AgeInv
<1> QED  BY <1>1, Ages, ViewHasNumbers

\* Nothing shown changes.
LEMMA SameIsNoOlder ==
  ASSUME Inv, data' = data
  PROVE  OnlyNewer
BY Numbers DEF OnlyNewer, NoOlder

LEMMA BlankIsBeforeAll == ASSUME NEW n \in Int, n >= 0 PROVE NotAfter(Blank, n)
BY DEF Blank, Unread, NotAfter

LEMMA PastInit == Init => PastInv
<1> SUFFICES ASSUME Init PROVE PastInv
  OBVIOUS
<1>1. NotAfter(Blank, world)
  BY BlankIsBeforeAll DEF Init
<1> QED  BY <1>1 DEF Init, PastInv

\* A new coordinator shows nothing yet.
LEMMA NewIsPast ==
  ASSUME Inv, NewCoordinator, world' = world
  PROVE  PastInv' /\ OnlyNewer
<1>1. NotAfter(Blank, world)
  BY Numbers, BlankIsBeforeAll
<1> QED  BY <1>1 DEF NewCoordinator, PastInv, OnlyNewer

\* Neither Tuya nor the entry touches what the coordinator has.
LEMMA PastWithoutRefresh ==
  ASSUME Inv, PastInv, UNCHANGED coordinatorVars, world' \in Int, world' >= world
  PROVE  PastInv' /\ OnlyNewer
<1> USE DEF coordinatorVars, cacheVars, shownVars, refreshVars, loopVars
<1>1. PastInv'
  BY Numbers DEF PastInv, NotAfter
<1> QED  BY <1>1, SameIsNoOlder

\* The steps that store nothing in a dictionary that is published.
LEMMA PastWhileReading ==
  ASSUME Inv, PastInv,
         Begin \/ List \/ Discovered \/ (\E l \in Locks : Discover(l) \/ Take(l))
           \/ ReadStatus \/ ReadPins
  PROVE  PastInv' /\ OnlyNewer
<1> USE DEF outsideVars, shownVars, cacheVars, PastInv
<1>0. world' = world /\ UNCHANGED <<published, data>>
  BY DEF Begin, List, Discovered, Discover, Take, ReadStatus, ReadPins
<1>1. OnlyNewer
  BY <1>0, SameIsNoOlder
<1>2. NotAfter(got', world) /\ \A l \in Locks : NotAfter(cache'[l], world)
  <2>1. NotAfter(Blank, world)
    BY Numbers, BlankIsBeforeAll
  <2>2. CASE Begin \/ List \/ Discovered
    BY <2>2 DEF Begin, List, Discovered
  <2>3. ASSUME NEW l \in Locks, Discover(l) \/ Take(l)
        PROVE  NotAfter(got', world) /\ \A k \in Locks : NotAfter(cache'[k], world)
    BY <2>1, <2>3 DEF Discover, Take, NewDictionary, Inv, TypeOK
  <2>4. CASE ReadStatus \/ ReadPins
    <3>1. world \in Unread .. Changes /\ got \in Views
      BY WorldIsAView DEF Inv, TypeOK
    <3>2. CASE ReadStatus
      <4>1. got'.status = world /\ got'.pins = got.pins
        BY <3>1, <3>2, FieldAssigned DEF ReadStatus
      <4> QED  BY <3>2, <4>1, Numbers DEF ReadStatus, NotAfter
    <3>3. CASE ReadPins
      <4>1. got'.pins = world /\ got'.status = got.status
        BY <3>1, <3>3, FieldAssigned DEF ReadPins
      <4> QED  BY <3>3, <4>1, Numbers DEF ReadPins, NotAfter
    <3> QED  BY <2>4, <3>2, <3>3
  <2> QED  BY <2>2, <2>3, <2>4, Zenon
<1>3. ASSUME NEW k \in published
      PROVE  \/ NotAfter(data[k], since')
             \/ k \in shared' /\ refresh' \in Reading /\ k \in result'
  <2>1. CASE Begin
    BY <2>1, <1>3 DEF Begin
  <2>2. CASE List \/ Discovered
    BY <2>2, <1>3 DEF List, Discovered, Reading, InTurn
  <2>3. ASSUME NEW l \in Locks, Discover(l) PROVE NotAfter(data[k], since')
    BY <2>3, <1>3 DEF Discover, Reading, InTurn
  <2>4. ASSUME NEW l \in Locks, Take(l)
        PROVE  \/ NotAfter(data[k], since')
               \/ k \in shared' /\ refresh' \in Reading /\ k \in result'
    <3>1. l \notin result /\ refresh = "reading" /\ refresh' = "status"
          /\ shared \ {l} \subseteq shared' /\ UNCHANGED <<result, since>>
      BY <2>4 DEF Take, NewDictionary, Inv, LoopInv
    <3> QED  BY <3>1, <1>3 DEF Reading, InTurn
  <2>5. CASE ReadStatus \/ ReadPins
    BY <2>5, <1>3 DEF ReadStatus, ReadPins, Reading, InTurn
  <2> QED  BY <2>1, <2>2, <2>3, <2>4, <2>5
<1>4. PastInv'
  BY <1>0, <1>2, <1>3
<1> QED  BY <1>1, <1>4

\* The steps that do: what a lock has in hand is replaced by what was read after the
\* refresh began.
LEMMA PastWhenStoring ==
  ASSUME Inv, PastInv, StoreStatus \/ StorePins
  PROVE  PastInv' /\ OnlyNewer
<1>1. /\ refresh \in {"storing", "stored"} /\ current \in Locks /\ current \notin result
      /\ cache \in [Locks -> Views] /\ data \in [Locks -> Views] /\ got \in Views
      /\ UNCHANGED <<world, since, published, shared>>
  BY DEF StoreStatus, StorePins, Inv, TypeOK, LoopInv, InTurn, outsideVars, Assign
<1>2. PICK view : /\ Assign(view) /\ view \in Views /\ NotAfter(view, world)
                  /\ \/ StoreStatus /\ view.status = got.status /\ view.pins = cache[current].pins
                     \/ StorePins /\ view.pins = got.pins /\ view.status = cache[current].status
  <2> DEFINE withStatus == [cache[current] EXCEPT !.status = got.status]
             withPins == [cache[current] EXCEPT !.pins = got.pins]
  <2>1. NotAfter(got, world) /\ NotAfter(cache[current], world)
    BY <1>1 DEF PastInv
  <2>2. got.status \in Unread .. Changes /\ got.pins \in Unread .. Changes
        /\ cache[current] \in Views
    BY <1>1 DEF Views
  <2>3. /\ withStatus \in Views /\ withStatus.status = got.status
        /\ withStatus.pins = cache[current].pins
    BY <2>2 DEF Views
  <2>4. /\ withPins \in Views /\ withPins.pins = got.pins
        /\ withPins.status = cache[current].status
    BY <2>2 DEF Views
  <2>5. StoreStatus => Assign(withStatus)
    BY DEF StoreStatus
  <2>6. StorePins => Assign(withPins)
    BY DEF StorePins, PinsRead
  <2> HIDE DEF withStatus, withPins
  <2>7. CASE StoreStatus
    <3>1. NotAfter(withStatus, world)
      BY <2>1, <2>3 DEF NotAfter
    <3> QED  BY <2>3, <2>5, <2>7, <3>1
  <2>8. CASE StorePins
    <3>1. NotAfter(withPins, world)
      BY <2>1, <2>4 DEF NotAfter
    <3> QED  BY <2>4, <2>6, <2>8, <3>1
  <2> QED  BY <2>7, <2>8
<1>3. cache' = [cache EXCEPT ![current] = view]
      /\ data' = IF current \in shared THEN [data EXCEPT ![current] = view] ELSE data
  BY <1>2 DEF Assign
<1>4. \A l \in Locks : NotAfter(cache'[l], world)
  BY <1>1, <1>2, <1>3 DEF PastInv
<1>5. NotAfter(got', world)
  <2>1. NotAfter(Blank, world)
    BY Numbers, BlankIsBeforeAll
  <2> QED  BY <2>1 DEF StoreStatus, StorePins, loopVars, PastInv
<1>6. current \in shared => /\ current \in published /\ data[current] = cache[current]
                            /\ data'[current] = view /\ data[current].pins =< since
                            /\ (StoreStatus => data[current].status =< since)
  BY <1>1, <1>3 DEF Inv, SharedInv, PastInv, NotAfter, StoreStatus
<1>7. \A l \in Locks : l # current \/ l \notin shared => data'[l] = data[l]
  BY <1>1, <1>3
<1>8. OnlyNewer
  <2>1. ASSUME current \in shared PROVE NoOlder(data'[current], data[current])
    <3>1. got.status >= since /\ (StorePins => got.pins >= since)
      BY <1>1 DEF Inv, AgeInv, StorePins
    <3> QED  BY <1>1, <1>2, <1>6, <2>1, <3>1, Numbers DEF NoOlder
  <2> QED  BY <1>1, <1>7, <2>1, Numbers DEF OnlyNewer, NoOlder
<1>9. ASSUME NEW l \in published
      PROVE  /\ NotAfter(data'[l], world)
             /\ \/ NotAfter(data'[l], since)
                \/ l \in shared /\ refresh' \in Reading /\ l \in result'
                \/ l \in shared /\ refresh' = "stored" /\ l = current' /\ data'[l].pins =< since
  <2>1. CASE l = current /\ l \in shared
    <3>1. data'[l] = view /\ NotAfter(view, world) /\ data[l].pins =< since /\ l \in published
      BY <1>2, <1>6, <2>1
    <3>2. CASE StoreStatus
      BY <1>2, <1>6, <2>1, <3>1, <3>2 DEF StoreStatus, StorePins, loopVars
    <3>3. CASE StorePins
      <4>1. refresh' \in Reading /\ l \in result'
        BY <2>1, <3>3 DEF StorePins, Reading
      <4> QED  BY <2>1, <3>1, <4>1
    <3> QED  BY <3>2, <3>3
  <2>2. CASE ~(l = current /\ l \in shared)
    <3>1. data'[l] = data[l] /\ NotAfter(data[l], world)
      BY <1>1, <1>7, <1>9, <2>2, Numbers DEF PastInv
    <3>2. \/ NotAfter(data[l], since)
          \/ l \in shared /\ refresh \in Reading /\ l \in result
      BY <1>1, <1>9, <2>2 DEF PastInv
    <3>3. refresh' \in Reading /\ result \subseteq result'
      BY DEF StoreStatus, StorePins, loopVars, Reading, InTurn
    <3> QED  BY <3>1, <3>2, <3>3
  <2> QED  BY <2>1, <2>2
<1> QED  BY <1>1, <1>4, <1>5, <1>8, <1>9 DEF PastInv

LEMMA PastWhenPublishing ==
  ASSUME Inv, PastInv, Publish
  PROVE  PastInv' /\ OnlyNewer
<1>1. /\ refresh = "reading" /\ refresh' = "idle" /\ published' = result /\ got' = Blank
      /\ data' = [l \in Locks |-> IF l \in result THEN cache[l] ELSE Blank]
      /\ UNCHANGED <<world, cache>> /\ result \subseteq Locks
  BY DEF Publish, RefreshEnds, outsideVars, cacheVars, Inv, TypeOK
<1>2. \A l \in result : data'[l] = cache[l] /\ Since(cache[l], since)
  BY <1>1 DEF Inv, AgeInv, Reading
<1>3. PastInv'
  BY <1>1, <1>2, Numbers, BlankIsBeforeAll DEF PastInv
<1>4. ASSUME NEW l \in published \cap result PROVE NoOlder(data'[l], data[l])
  <2>1. CASE l \in shared
    BY <1>1, <1>2, <2>1, Numbers DEF Inv, SharedInv, NoOlder
  <2>2. CASE l \notin shared
    <3>1. NotAfter(data[l], since)
      BY <1>1, <2>2 DEF PastInv
    <3>2. data'[l] = cache[l] /\ cache[l].status >= since /\ cache[l].pins >= since
      BY <1>2 DEF Since
    <3>3. /\ since \in Int /\ l \in Locks
          /\ data[l].status \in Int /\ data[l].pins \in Int
          /\ cache[l].status \in Int /\ cache[l].pins \in Int
      BY <1>1, Numbers
    <3>4. data[l].status =< since /\ data[l].pins =< since
      BY <3>1 DEF NotAfter
    <3>5. cache[l].status >= data[l].status /\ cache[l].pins >= data[l].pins
      BY <3>2, <3>3, <3>4
    <3> QED  BY <3>2, <3>5 DEF NoOlder
  <2> QED  BY <2>1, <2>2
<1> QED  BY <1>1, <1>3, <1>4 DEF OnlyNewer

LEMMA PastWhenFailing ==
  ASSUME Inv, PastInv, Fail
  PROVE  PastInv' /\ OnlyNewer
<1>1. CASE entry = "starting"
  BY <1>1, NewIsPast DEF Fail, outsideVars
<1>2. CASE entry # "starting"
  <2>1. /\ UNCHANGED <<world, cache, published, data>> /\ refresh' = "idle" /\ got' = Blank
    BY <1>2 DEF Fail, RefreshEnds, outsideVars, cacheVars, shownVars
  <2>2. PastInv'
    BY <2>1, Numbers, BlankIsBeforeAll DEF PastInv
  <2> QED  BY <2>1, <2>2, SameIsNoOlder
<1> QED  BY <1>1, <1>2

LEMMA PastNext ==
  ASSUME Inv, PastInv, [Next]_vars
  PROVE  PastInv' /\ OnlyNewer
<1>1. CASE Refresh
  BY <1>1, PastWhileReading, PastWhenStoring, PastWhenPublishing DEF Refresh
<1>2. CASE Fail
  BY <1>2, PastWhenFailing
<1>3. CASE Drop \/ Reload
  BY <1>3, NewIsPast DEF Drop, Reload, outsideVars
<1>4. ASSUME UNCHANGED <<world, coordinatorVars>> PROVE PastInv' /\ OnlyNewer
  BY <1>4, Numbers, PastWithoutRefresh
<1>5. CASE LocksChange
  BY <1>5, Numbers, PastWithoutRefresh DEF LocksChange, coordinatorVars
<1>6. ASSUME NEW l \in Locks, AccountChanges(l) PROVE PastInv' /\ OnlyNewer
  BY <1>4, <1>6 DEF AccountChanges, coordinatorVars
<1>10. ASSUME NEW e \in Others, OtherEntry(e) PROVE PastInv' /\ OnlyNewer
  BY <1>4, <1>10 DEF OtherEntry, coordinatorVars
<1>7. ASSUME NEW p \in Platforms, AddEntities(p) PROVE PastInv' /\ OnlyNewer
  BY <1>4, <1>7 DEF AddEntities, outsideVars
<1>8. CASE StartPush \/ UnloadFails \/ Unload
  BY <1>4, <1>8 DEF StartPush, UnloadFails, Unload, outsideVars
<1>9. CASE UNCHANGED vars
  BY <1>4, <1>9 DEF vars, outsideVars, coordinatorVars
<1> QED  BY <1>1, <1>2, <1>3, <1>5, <1>6, <1>7, <1>8, <1>9, <1>10 DEF Next

\* What is shown of a lock only gets newer.
THEOREM ViewsOnlyGetNewerHolds == Spec => ViewsOnlyGetNewer
<1>1. Inv /\ PastInv /\ [Next]_vars =>
        PastInv' /\ \A l \in published \cap published' : NoOlder(data'[l], data[l])
  BY PastNext DEF OnlyNewer
<1> QED  BY <1>1, PastInit, InitInv, NextInv, PTL DEF Spec, ViewsOnlyGetNewer
=============================================================================
