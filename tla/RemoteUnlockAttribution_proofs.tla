-------------------- MODULE RemoteUnlockAttribution_proofs --------------------
(***************************************************************************)
(* Proofs about RemoteUnlockAttribution for every set of requests and      *)
(* locks and every choice of the durations that its assumptions allow.     *)
(***************************************************************************)
EXTENDS RemoteUnlockAttribution, TLAPS

-----------------------------------------------------------------------------
(* One pass of _apply_remote_unlock_attributions.                          *)

\* What a refresh lays over its rows is a view: a user, nobody or no row.
LEMMA OverlayIsAView ==
  ASSUME NEW credits \in Credits
  PROVE  Overlaid(credits) \in Views
BY DEF Overlaid, Credits, Views

\* Forgetting old credits leaves credits.
LEMMA UnexpiredIsCredits ==
  ASSUME NEW credits \in Credits
  PROVE  Unexpired(credits) \in Credits
BY DEF Unexpired, Credits

\* A row that a live request claims is credited to one that claims it; every
\* other row keeps its credit (coordinator.py:452-508).
LEMMA CreditedIsCredits ==
  ASSUME pending \in SUBSET Requests, matched \in Credits, NEW claim
  PROVE  /\ Credited(claim) \in Credits
         /\ \A k \in Key :
              \/ Credited(claim)[k] = matched[k] /\ \A r \in Live : claim[r] # k
              \/ Credited(claim)[k] \in Live /\ claim[Credited(claim)[k]] = k
<1>1. \A k \in Key : (\E r \in Live : claim[r] = k) =>
        /\ (CHOOSE r \in Live : claim[r] = k) \in Live
        /\ claim[CHOOSE r \in Live : claim[r] = k] = k
  OBVIOUS
<1>2. Live \subseteq Requests
  BY DEF Live
<1>3. \A k \in Key : Credited(claim)[k] = IF \E r \in Live : claim[r] = k
                       THEN CHOOSE r \in Live : claim[r] = k ELSE matched[k]
  BY DEF Credited
<1>4. ASSUME NEW k \in Key
      PROVE  /\ Credited(claim)[k] \in Requests \cup {NoOne}
             /\ \/ Credited(claim)[k] = matched[k] /\ \A r \in Live : claim[r] # k
                \/ Credited(claim)[k] \in Live /\ claim[Credited(claim)[k]] = k
  <2>1. CASE \E r \in Live : claim[r] = k
    BY <2>1, <1>1, <1>2, <1>3
  <2>2. CASE ~ \E r \in Live : claim[r] = k
    BY <2>2, <1>3 DEF Credits
  <2> QED  BY <2>1, <2>2
<1> QED  BY <1>4 DEF Credited, Credits

-----------------------------------------------------------------------------
(* Types.                                                                  *)

LEMMA InitTypes == Init => TypeOK
<1> SUFFICES ASSUME Init PROVE TypeOK
  OBVIOUS
<1>1. NoCredits \in Credits /\ Blank \in Views /\ Empty \in Saved
  BY DEF NoCredits, Credits, Blank, Views, Empty, Saved
<1>2. rows \in [Key -> Requests \cup {NoOne, Someone}] /\ 0 \in Times
  BY DurationsAreNaturals DEF Init, NoCredits, Times
<1>3. now \in Times /\ crashes \in 0 .. MaxCrashes /\ arrivals \in Nat
  BY DurationsAreNaturals DEF Init, Times
<1>4. /\ pc \in [Requests -> InFlight \cup {"idle", "done", "failed"}]
      /\ at \in [Requests -> Times] /\ target \in [Requests -> Locks]
      /\ place \in [Requests -> Nat]
  BY <1>2 DEF Init
<1>5. /\ pending \in SUBSET Requests /\ matched \in Credits
      /\ overlay \in Views /\ shown \in Views /\ image \in Saved /\ disk \in Saved
  BY <1>1 DEF Init
<1> QED
  BY <1>2, <1>3, <1>4, <1>5 DEF Init, TypeOK

\* A step of Apply keeps the types: the only step that computes credits.
LEMMA ApplyTypes == TypeOK /\ Apply => TypeOK'
<1> SUFFICES ASSUME TypeOK, Apply PROVE TypeOK'
  OBVIOUS
<1>1. PICK claim : /\ pending' = Remaining(claim)
                   /\ matched' = Unexpired(Credited(claim))
                   /\ phase' \in {"idle", "saving"} /\ queued' \in BOOLEAN
                   /\ overlay' \in {overlay, Overlaid(Credited(claim))}
                   /\ shown' \in {shown, Overlaid(Credited(claim))}
  <2>1. PICK claim \in [Live -> fetched \cup {NoRow}] :
          /\ pending' = Remaining(claim)
          /\ matched' = Unexpired(Credited(claim))
          /\ IF Remaining(claim) # pending \/ Unexpired(Credited(claim)) # Credited(claim)
             THEN /\ phase' = "saving" /\ queued' = TRUE
                  /\ overlay' = Overlaid(Credited(claim)) /\ UNCHANGED shown
             ELSE /\ phase' = "idle" /\ shown' = Overlaid(Credited(claim))
                  /\ UNCHANGED <<overlay, queued>>
    BY DEF Apply
  <2> QED  BY <2>1 DEF TypeOK
<1>2. Credited(claim) \in Credits
  BY CreditedIsCredits DEF TypeOK
<1>3. /\ pending' \in SUBSET Requests /\ matched' \in Credits
      /\ overlay' \in Views /\ shown' \in Views
  BY <1>1, <1>2, UnexpiredIsCredits, OverlayIsAView DEF TypeOK, Remaining, Live
<1>4. /\ fetched' = {} /\ phase' \in {"idle", "fetched", "saving"}
      /\ queued' \in BOOLEAN
      /\ UNCHANGED <<writer, image, disk, clockVars, taskVars, cloudVars>>
  BY <1>1 DEF Apply
<1> QED
  BY <1>3, <1>4 DEF TypeOK, clockVars, taskVars, cloudVars

LEMMA NextTypes == TypeOK /\ [Next]_vars => TypeOK'
<1> SUFFICES ASSUME TypeOK, [Next]_vars PROVE TypeOK'
  OBVIOUS
<1> USE DurationsAreNaturals
<1> USE DEF clockVars, taskVars, cloudVars, memoryVars, refreshVars, storeVars
<1>1. CASE Tick
  BY <1>1 DEF Tick, TypeOK, Times
<1>2. ASSUME NEW r \in Requests, Task(r) PROVE TypeOK'
  <2>1. CASE Unlock(r)
    BY <2>1 DEF Unlock, TypeOK, Times, InFlight
  <2>2. CASE OperateAccepted(r)
    BY <2>2 DEF OperateAccepted, TypeOK, InFlight
  <2>3. CASE OperateFails(r)
    BY <2>3 DEF OperateFails, TypeOK, InFlight
  <2>4. CASE Register(r)
    BY <2>4 DEF Register, TypeOK, InFlight
  <2> QED  BY <1>2, <2>1, <2>2, <2>3, <2>4 DEF Task
<1>3. CASE Cloud
  <2>1. ASSUME NEW l \in Locks, NEW who \in Requests \cup {Someone}, AddRow(l, who)
        PROVE  rows' \in [Key -> Requests \cup {NoOne, Someone}]
    BY <2>1 DEF AddRow, TypeOK, Key
  <2>2. ASSUME NEW r \in Requests, DoorOpens(r) PROVE TypeOK'
    <3>1. target[r] \in Locks /\ AddRow(target[r], r)
      BY <2>2 DEF DoorOpens, TypeOK
    <3> QED  BY <2>1, <2>2, <3>1 DEF DoorOpens, TypeOK
  <2>3. CASE OtherOpens
    <3>1. PICK l \in Locks : AddRow(l, Someone)
      BY <2>3 DEF OtherOpens
    <3> QED  BY <2>1, <2>3, <3>1 DEF OtherOpens, TypeOK
  <2>4. ASSUME NEW k \in Key, Publish(k) PROVE TypeOK'
    BY <2>4 DEF Publish, TypeOK
  <2> QED  BY <1>3, <2>2, <2>3, <2>4 DEF Cloud
<1>4. CASE RefreshFetch
  BY <1>4 DEF RefreshFetch, TypeOK
<1>5. CASE Apply
  BY <1>5, ApplyTypes
<1>6. ASSUME NEW w \in Holders, Store(w) PROVE TypeOK'
  <2>1. ASSUME Resume(w)
        PROVE  /\ pc' \in [Requests -> InFlight \cup {"idle", "done", "failed"}]
               /\ UNCHANGED <<at, target, place, arrivals>>
               /\ phase' \in {"idle", "fetched", "saving"} /\ fetched' = fetched
               /\ overlay' \in Views /\ shown' \in Views
    BY <2>1 DEF Resume, TypeOK, Views, Blank, InFlight
  <2>2. CASE StoreTake(w)
    BY <2>2 DEF StoreTake, TypeOK, Memory, Saved
  <2>3. CASE StoreSkip(w)
    BY <2>1, <2>3 DEF StoreSkip, TypeOK
  <2>4. CASE StoreWrite(w)
    <3>1. image' \in Saved /\ disk' \in Saved /\ writer' \in Holders \cup {NoWriter}
      BY <2>4 DEF StoreWrite, TypeOK, Saved, Empty, Credits, NoCredits
    <3> QED  BY <2>1, <2>4, <3>1 DEF StoreWrite, TypeOK
  <2> QED  BY <1>6, <2>2, <2>3, <2>4 DEF Store
<1>7. CASE Crash
  <2>1. pc' \in [Requests -> InFlight \cup {"idle", "done", "failed"}]
    BY <1>7 DEF Crash, TypeOK
  <2>2. pending' \in SUBSET Requests /\ matched' \in Credits /\ image' \in Saved
    BY <1>7 DEF Crash, TypeOK, Saved, Empty, Credits, NoCredits
  <2>3. overlay' \in Views /\ shown' \in Views
    BY <1>7 DEF Crash, Views, Blank
  <2>4. crashes' \in 0 .. MaxCrashes
    BY <1>7 DEF Crash, TypeOK
  <2> QED  BY <1>7, <2>1, <2>2, <2>3, <2>4 DEF Crash, TypeOK
<1>8. CASE UNCHANGED vars
  BY <1>8 DEF vars, TypeOK
<1> QED  BY <1>1, <1>2, <1>3, <1>4, <1>5, <1>6, <1>7, <1>8 DEF Next

\* Every variable keeps its type in every behaviour.
THEOREM TypeCorrect == Spec => []TypeOK
BY InitTypes, NextTypes, PTL DEF Spec

-----------------------------------------------------------------------------
(* The inductive invariants.                                               *)

Unregistered == {"idle", "operating", "registering"}

\* What every pair of lists satisfies: the one in memory, the one that is
\* being written and the one on disk.
Good(s) ==
  /\ OneToOne(s)
  /\ \A r \in Requests : pc[r] \in Unregistered => ~Holds(s, r)
  /\ \A r \in s.pending : place[r] < arrivals
  /\ \A q, r \in s.pending : place[q] = place[r] => q = r
  /\ \A k \in Key : s.matched[k] # NoOne => at[s.matched[k]] - EarlySlack =< k[2]

AllGood == Good(Memory) /\ Good(image) /\ Good(disk)

\* A pair of lists still knows a request, or need not any more.
Keeps(s, r) == Holds(s, r) \/ now - at[r] > PendingTTL

\* Where a registered request is safe at each moment of the saves.
Secured ==
  /\ \A r \in Requests : pc[r] \in {"saving", "done"} => Keeps(Memory, r)
  /\ \A r \in Requests : pc[r] = "done" => Keeps(disk, r)
  /\ \A r \in Requests : pc[r] = "done" /\ writer # NoWriter => Keeps(image, r)
  /\ \A r \in Requests : pc[r] = "saving" /\ ~queued =>
       IF writer = NoWriter THEN Keeps(disk, r) ELSE Keeps(image, r)
  /\ \A r \in Requests : writer = r => pc[r] = "saving" /\ Keeps(image, r)

-----------------------------------------------------------------------------
(* What a pass of Apply does, stated once for the proofs below.            *)

LEMMA KeyParts == \A k \in Key : k[1] \in Locks /\ k[2] \in Nat
BY DurationsAreNaturals DEF Key, Times

LEMMA LiveArePending == Live \subseteq pending /\ \A r \in pending :
                          r \notin Live => ~(now - at[r] =< PendingTTL)
BY DEF Live

\* A claimed row was fetched, is a candidate, and is claimed by no earlier
\* request (coordinator.py:474-482).
LEMMA ClaimIsOpen ==
  ASSUME NEW claim, Greedy(claim), NEW r \in Live, claim[r] # NoRow
  PROVE  /\ claim[r] \in fetched /\ Candidate(r, claim[r])
         /\ \A q \in Live : Earlier(q, r) => claim[q] # claim[r]
<1>1. claim[r] \in Open(r, claim)
  BY DEF Greedy, Nearest
<1> QED  BY <1>1 DEF Open

LEMMA ApplyIsAPass ==
  ASSUME Apply
  PROVE  \E claim \in [Live -> fetched \cup {NoRow}] :
           /\ Greedy(claim)
           /\ pending' = Remaining(claim)
           /\ matched' = Unexpired(Credited(claim))
           /\ \/ /\ phase' = "saving" /\ queued' = TRUE
                 /\ overlay' = Overlaid(Credited(claim)) /\ UNCHANGED shown
              \/ /\ Remaining(claim) = pending
                 /\ Unexpired(Credited(claim)) = Credited(claim)
                 /\ phase' = "idle" /\ shown' = Overlaid(Credited(claim))
                 /\ UNCHANGED <<overlay, queued>>
BY DEF Apply

\* No two live requests claim the same row: they are served in a total order.
LEMMA ClaimsAreDistinct ==
  ASSUME TypeOK, Good(Memory), NEW claim, Greedy(claim),
         NEW q \in Live, NEW r \in Live, claim[q] = claim[r], claim[r] # NoRow
  PROVE  q = r
<1>1. q \in pending /\ r \in pending /\ q \in Requests /\ r \in Requests
  BY LiveArePending DEF TypeOK
<1>2. ~Earlier(q, r) /\ ~Earlier(r, q)
  BY ClaimIsOpen
<1>3. at[q] \in Int /\ at[r] \in Int /\ place[q] \in Int /\ place[r] \in Int
  BY <1>1, DurationsAreNaturals DEF TypeOK, Times
<1>4. place[q] = place[r]
  BY <1>2, <1>3 DEF Earlier
<1> QED  BY <1>1, <1>4 DEF Good, Memory

\* The pass keeps the two lists in memory good.
LEMMA ApplyKeepsGood == TypeOK /\ Good(Memory) /\ Apply => Good(Memory)'
<1> SUFFICES ASSUME TypeOK, Good(Memory), Apply PROVE Good(Memory)'
  OBVIOUS
<1>1. PICK claim \in [Live -> fetched \cup {NoRow}] :
        /\ Greedy(claim)
        /\ pending' = Remaining(claim)
        /\ matched' = Unexpired(Credited(claim))
  BY ApplyIsAPass
<1>2. UNCHANGED <<pc, at, place, arrivals, now>>
  BY DEF Apply, taskVars, clockVars
<1>3. pending' \subseteq pending /\ pending' \subseteq Live
  BY <1>1, LiveArePending DEF Remaining
<1>4. ASSUME NEW k \in Key, matched'[k] # NoOne
      PROVE  \/ matched'[k] = matched[k] /\ \A r \in Live : claim[r] # k
             \/ matched'[k] \in Live /\ claim[matched'[k]] = k
  <2>1. matched'[k] = Credited(claim)[k]
    BY <1>1, <1>4 DEF Unexpired
  <2> QED  BY <2>1, CreditedIsCredits DEF TypeOK
<1>5. ASSUME NEW j \in Key, NEW k \in Key, matched'[j] # NoOne, matched'[j] = matched'[k]
      PROVE  j = k
  BY <1>4, <1>5, LiveArePending DEF Good, OneToOne, Memory
<1>6. ASSUME NEW k \in Key PROVE matched'[k] \notin pending'
  <2>1. NoOne \notin pending /\ NoRow \notin Key
    BY ConstantsAreDistinct DEF TypeOK
  <2> QED
    BY <1>1, <1>3, <1>4, <2>1 DEF Good, OneToOne, Memory, Remaining
<1>7. ASSUME NEW r \in Requests, pc[r] \in Unregistered
      PROVE  r \notin pending' /\ \A k \in Key : matched'[k] # r
  <2>1. r \notin pending /\ \A k \in Key : matched[k] # r
    BY <1>7 DEF Good, Memory, Holds
  <2> QED  BY <1>3, <1>4, <2>1, LiveArePending, ConstantsAreDistinct
<1>8. ASSUME NEW k \in Key, matched'[k] # NoOne
      PROVE  at[matched'[k]] - EarlySlack =< k[2]
  <2>1. CASE matched'[k] = matched[k]
    BY <1>8, <2>1 DEF Good, Memory
  <2>2. CASE matched'[k] \in Live /\ claim[matched'[k]] = k
    <3>1. Candidate(matched'[k], k)
      BY <1>1, <2>2, ClaimIsOpen, ConstantsAreDistinct
    <3> QED  BY <3>1 DEF Candidate
  <2> QED  BY <1>4, <1>8, <2>1, <2>2
<1> QED
  BY <1>2, <1>3, <1>5, <1>6, <1>7, <1>8 DEF Good, OneToOne, Memory, Holds

-----------------------------------------------------------------------------
(* One row per request.                                                    *)

LEMMA EmptyIsGood == Good(Empty) /\ Good(Empty)'
BY ConstantsAreDistinct DEF Good, OneToOne, Empty, NoCredits, Holds

LEMMA InitGood == Init => AllGood
BY EmptyIsGood DEF Init, AllGood, Memory, Empty

LEMMA NextGood == TypeOK /\ AllGood /\ [Next]_vars => AllGood'
<1> SUFFICES ASSUME TypeOK, AllGood, [Next]_vars PROVE AllGood'
  OBVIOUS
<1> USE DEF AllGood
<1> USE DEF clockVars, taskVars, cloudVars, memoryVars, refreshVars, storeVars
<1>1. CASE Tick
  BY <1>1 DEF Tick, Good, Memory, Holds
<1>2. ASSUME NEW r \in Requests, Task(r) PROVE AllGood'
  <2>1. CASE Unlock(r)
    BY <2>1, ConstantsAreDistinct
       DEF Unlock, TypeOK, Saved, Good, Memory, Holds, Unregistered
  <2>2. CASE OperateAccepted(r) \/ OperateFails(r)
    BY <2>2 DEF OperateAccepted, OperateFails, TypeOK, Good, Memory, Holds, Unregistered
  <2>3. CASE Register(r)
    <3>1. /\ pending' = pending \cup {r} /\ place' = [place EXCEPT ![r] = arrivals]
          /\ arrivals' = arrivals + 1 /\ pc' = [pc EXCEPT ![r] = "saving"]
          /\ UNCHANGED <<at, matched, image, disk>>
      BY <2>3 DEF Register
    <3>2. ~Holds(Memory, r) /\ ~Holds(image, r) /\ ~Holds(disk, r)
      BY <2>3 DEF Register, Good, Unregistered
    <3>3. Good(Memory)'
      BY <3>1, <3>2 DEF TypeOK, Good, OneToOne, Memory, Holds, Unregistered
    <3>4. Good(image)'
      BY <3>1, <3>2 DEF TypeOK, Saved, Good, OneToOne, Holds, Unregistered
    <3>5. Good(disk)'
      BY <3>1, <3>2 DEF TypeOK, Saved, Good, OneToOne, Holds, Unregistered
    <3> QED  BY <3>3, <3>4, <3>5
  <2> QED  BY <1>2, <2>1, <2>2, <2>3 DEF Task
<1>3. CASE Cloud
  BY <1>3 DEF Cloud, DoorOpens, OtherOpens, Publish, Good, Memory, Holds
<1>4. CASE RefreshFetch
  BY <1>4 DEF RefreshFetch, Good, Memory, Holds
<1>5. CASE Apply
  <2>1. Good(Memory)'
    BY <1>5, ApplyKeepsGood
  <2>2. UNCHANGED <<pc, at, place, arrivals, image, disk>>
    BY <1>5 DEF Apply
  <2> QED  BY <2>1, <2>2 DEF Good, Holds
<1>6. ASSUME NEW w \in Holders, Store(w) PROVE AllGood'
  <2>1. Resume(w) =>
          /\ \A r \in Requests : pc'[r] \in Unregistered => pc[r] \in Unregistered
          /\ UNCHANGED <<at, place, arrivals>>
    BY DEF Resume, Unregistered, TypeOK
  <2>2. CASE StoreTake(w)
    BY <2>2 DEF StoreTake, Good, Memory, Holds
  <2>3. CASE StoreSkip(w)
    BY <2>1, <2>3 DEF StoreSkip, Good, Memory, Holds
  <2>4. CASE StoreWrite(w)
    <3>1. Resume(w) /\ Memory' = Memory /\ image' = Empty /\ disk' = image
      BY <2>4 DEF StoreWrite, Memory
    <3> QED  BY <2>1, <3>1, EmptyIsGood DEF Good, Holds
  <2> QED  BY <1>6, <2>2, <2>3, <2>4 DEF Store
<1>7. CASE Crash
  <2>1. \A r \in Requests : pc'[r] \in Unregistered => pc[r] \in Unregistered
    BY <1>7 DEF Crash, TypeOK, InFlight, Unregistered
  <2>2. UNCHANGED <<at, place, arrivals, disk>> /\ Memory' = disk /\ image' = Empty
    BY <1>7 DEF Crash, Memory, TypeOK, Saved
  <2> QED
    BY <2>1, <2>2, EmptyIsGood DEF Good, Holds
<1>8. CASE UNCHANGED vars
  BY <1>8 DEF vars, Good, Memory, Holds
<1> QED  BY <1>1, <1>2, <1>3, <1>4, <1>5, <1>6, <1>7, <1>8 DEF Next

LEMMA AllAlwaysGood == Spec => [](TypeOK /\ AllGood)
BY InitTypes, NextTypes, InitGood, NextGood, PTL DEF Spec

\* One unlock request explains at most one audit row, in memory and in the
\* file, whatever crashes and whatever saves are in flight.
THEOREM OneRowPerRequestHolds == Spec => []OneRowPerRequest
<1>1. AllGood => OneRowPerRequest
  BY DEF AllGood, Good, OneRowPerRequest
<1> QED  BY <1>1, AllAlwaysGood, PTL

-----------------------------------------------------------------------------
(* No registered request is lost.                                          *)

\* A pass of Apply drops a request only when its time to live is over: a claim
\* becomes a credit, and credits outlive the pending requests.
LEMMA ApplyKeepsRequests ==
  ASSUME TypeOK, Good(Memory), Apply, NEW r \in Requests, Keeps(Memory, r)
  PROVE  Keeps(Memory, r)'
<1>1. PICK claim \in [Live -> fetched \cup {NoRow}] :
        /\ Greedy(claim)
        /\ pending' = Remaining(claim)
        /\ matched' = Unexpired(Credited(claim))
  BY ApplyIsAPass
<1>2. now' = now /\ at' = at /\ now \in Int /\ at[r] \in Int
  BY DurationsAreNaturals DEF Apply, taskVars, clockVars, TypeOK, Times
<1>3. r # NoOne /\ r # NoRow /\ NoRow \notin Key
  BY ConstantsAreDistinct
<1>4. ASSUME NEW k \in Key, Credited(claim)[k] = r, at[r] - EarlySlack =< k[2]
      PROVE  Keeps(Memory, r)'
  <2>1. CASE now - k[2] > MatchedTTL
    <3>1. now - at[r] > PendingTTL
      BY <1>2, <1>4, <2>1, KeyParts, CreditsOutliveTheLog, DurationsAreNaturals
    <3> QED  BY <1>2, <3>1 DEF Keeps
  <2>2. CASE ~(now - k[2] > MatchedTTL)
    BY <1>1, <1>4, <2>2 DEF Unexpired, Keeps, Holds, Memory
  <2> QED  BY <2>1, <2>2
<1>5. CASE r \in Live /\ claim[r] = NoRow
  BY <1>1, <1>5 DEF Remaining, Keeps, Holds, Memory
<1>6. CASE r \in Live /\ claim[r] # NoRow
  <2>1. claim[r] \in Key /\ Candidate(r, claim[r])
    BY <1>1, <1>6, ClaimIsOpen DEF TypeOK
  <2>2. /\ Credited(claim)[claim[r]] \in Live
        /\ claim[Credited(claim)[claim[r]]] = claim[r]
    BY <1>6, <2>1, CreditedIsCredits DEF TypeOK
  <2>3. Credited(claim)[claim[r]] = r
    BY <1>1, <1>6, <2>2, ClaimsAreDistinct
  <2> QED  BY <1>4, <2>1, <2>3 DEF Candidate
<1>7. CASE r \in pending \ Live
  BY <1>2, <1>7, DurationsAreNaturals DEF Live, Keeps
<1>8. ASSUME NEW k \in Key, matched[k] = r PROVE Keeps(Memory, r)'
  <2>1. Credited(claim)[k] = r
    <3>1. SUFFICES ASSUME Credited(claim)[k] \in Live, claim[Credited(claim)[k]] = k
                   PROVE  FALSE
      BY <1>8, CreditedIsCredits DEF TypeOK
    <3>2. Candidate(Credited(claim)[k], k)
      BY <1>1, <1>3, <3>1, ClaimIsOpen
    <3> QED  BY <1>3, <1>8, <3>2 DEF Candidate
  <2>2. at[r] - EarlySlack =< k[2]
    BY <1>3, <1>8 DEF Good, Memory
  <2> QED  BY <1>4, <2>1, <2>2
<1>9. CASE now - at[r] > PendingTTL
  BY <1>2, <1>9 DEF Keeps
<1> QED
  BY <1>5, <1>6, <1>7, <1>8, <1>9 DEF Keeps, Holds, Memory, Live

LEMMA InitSecured == Init => Secured
BY ConstantsAreDistinct DEF Init, Secured, Holders

LEMMA NextSecured == TypeOK /\ AllGood /\ Secured /\ [Next]_vars => Secured'
<1> SUFFICES ASSUME TypeOK, AllGood, Secured, [Next]_vars PROVE Secured'
  OBVIOUS
<1> USE ConstantsAreDistinct, DurationsAreNaturals
<1> USE DEF clockVars, taskVars, cloudVars, memoryVars, refreshVars, storeVars
<1>1. CASE Tick
  <2>1. \A s, r : r \in Requests /\ now - at[r] > PendingTTL
                     => now' - at'[r] > PendingTTL
    BY <1>1 DEF Tick, TypeOK, Times
  <2> QED  BY <1>1, <2>1 DEF Tick, Secured, Keeps, Holds, Memory
<1>2. ASSUME NEW r \in Requests, Task(r) PROVE Secured'
  <2>1. CASE Unlock(r) \/ OperateAccepted(r) \/ OperateFails(r)
    <3>1. /\ \A q \in Requests \ {r} : pc'[q] = pc[q] /\ at'[q] = at[q]
          /\ pc'[r] \in {"operating", "registering", "failed"}
          /\ pc[r] # "saving" /\ pc[r] # "done"
          /\ UNCHANGED <<now, pending, matched, queued, writer, image, disk>>
      BY <2>1 DEF Unlock, OperateAccepted, OperateFails, TypeOK
    <3> QED  BY <3>1 DEF Secured, Keeps, Holds, Memory
  <2>2. CASE Register(r)
    <3>1. /\ \A q \in Requests \ {r} : pc'[q] = pc[q]
          /\ pc'[r] = "saving" /\ pc[r] = "registering"
          /\ pending' = pending \cup {r} /\ queued' = TRUE
          /\ UNCHANGED <<now, at, matched, writer, image, disk>>
      BY <2>2 DEF Register, TypeOK
    <3> QED  BY <3>1 DEF Secured, Keeps, Holds, Memory
  <2> QED  BY <1>2, <2>1, <2>2 DEF Task
<1>3. CASE Cloud
  BY <1>3 DEF Cloud, DoorOpens, OtherOpens, Publish, Secured, Keeps, Holds, Memory
<1>4. CASE RefreshFetch
  BY <1>4 DEF RefreshFetch, Secured, Keeps, Holds, Memory
<1>5. CASE Apply
  <2>1. \A r \in Requests : Keeps(Memory, r) => Keeps(Memory, r)'
    BY <1>5, ApplyKeepsRequests DEF AllGood
  <2>2. /\ queued' = TRUE \/ queued' = queued
        /\ UNCHANGED <<now, pc, at, writer, image, disk>>
    BY <1>5, ApplyIsAPass DEF Apply
  <2> QED  BY <2>1, <2>2 DEF Secured, Keeps, Holds, TypeOK
<1>6. ASSUME NEW w \in Holders, Store(w) PROVE Secured'
  <2>1. Resume(w) => /\ at' = at
                     /\ \A r \in Requests : pc'[r] = IF r = w THEN "done" ELSE pc[r]
    BY DEF Resume, TypeOK
  <2>2. CASE StoreTake(w)
    BY <2>2 DEF StoreTake, Waits, Secured, Keeps, Holds, Memory
  <2>3. CASE StoreSkip(w)
    <3>1. /\ w \in Requests => pc[w] = "saving"
          /\ writer = NoWriter /\ ~queued /\ Resume(w)
          /\ UNCHANGED <<now, pending, matched, queued, writer, image, disk>>
      BY <2>3 DEF StoreSkip, Waits
    <3> QED  BY <2>1, <3>1 DEF Secured, Keeps, Holds, Memory, Holders
  <2>4. CASE StoreWrite(w)
    <3>1. /\ writer = w /\ Resume(w) /\ disk' = image /\ writer' = NoWriter
          /\ UNCHANGED <<now, pending, matched, queued>>
      BY <2>4 DEF StoreWrite
    <3> QED  BY <2>1, <3>1 DEF Secured, Keeps, Holds, Memory, Holders
  <2> QED  BY <1>6, <2>2, <2>3, <2>4 DEF Store
<1>7. CASE Crash
  <2>1. /\ \A r \in Requests : pc'[r] # "saving" /\ (pc'[r] = "done" => pc[r] = "done")
        /\ pending' = disk.pending /\ matched' = disk.matched
        /\ writer' = NoWriter /\ UNCHANGED <<now, at, disk>>
    BY <1>7 DEF Crash, TypeOK, InFlight
  <2> QED  BY <2>1 DEF Secured, Keeps, Holds, Memory, Holders
<1>8. CASE UNCHANGED vars
  BY <1>8 DEF vars, Secured, Keeps, Holds, Memory
<1> QED  BY <1>1, <1>2, <1>3, <1>4, <1>5, <1>6, <1>7, <1>8 DEF Next

\* Once the registration of an unlock has returned, the file knows the request
\* until its time to live is over, whatever crashes.
THEOREM NoLostRequestHolds == Spec => []NoLostRequest
<1>1. TypeOK /\ Secured => NoLostRequest
  <2> SUFFICES ASSUME TypeOK, Secured, NEW r \in Requests,
                      pc[r] = "done", now - at[r] =< PendingTTL
               PROVE  Holds(disk, r)
    BY DEF NoLostRequest
  <2>1. ~(now - at[r] > PendingTTL)
    BY DurationsAreNaturals DEF TypeOK, Times
  <2> QED  BY <2>1 DEF Secured, Keeps
<1> QED
  BY <1>1, AllAlwaysGood, NextSecured, InitSecured, PTL DEF Spec

-----------------------------------------------------------------------------
(* How wrong a credit can be.  The greedy match may credit a row to the    *)
(* wrong user; it never leaves the lock, and never joins two requests that *)
(* were made far apart.                                                    *)

\* A row caused by a request is of its lock and dated close to the request.
RowsAreCaused ==
  /\ \A q \in Requests : at[q] =< now
  /\ \A k \in Key : \A q \in Requests : rows[k] = q =>
       /\ pc[q] # "idle" /\ k[1] = target[q]
       /\ at[q] - ClockSkew =< k[2] /\ k[2] =< at[q] + OpenDelay
  /\ \A k \in visible \cup fetched : rows[k] # NoOne

\* A credit is on a row of the lock of its request and inside its window.
Fits(s) ==
  \A k \in Key : \A r \in Requests : s.matched[k] = r =>
    /\ rows[k] # NoOne /\ k[1] = target[r]
    /\ at[r] - EarlySlack =< k[2] /\ k[2] =< at[r] + MatchWindow

AllFit == Fits(Memory) /\ Fits(image) /\ Fits(disk)

LEMMA InitFits == Init => RowsAreCaused /\ AllFit
BY ConstantsAreDistinct
   DEF Init, RowsAreCaused, AllFit, Fits, Memory, Empty, NoCredits

\* The rows that a step adds are dated between its clock's skew and now.
LEMMA NextCaused == TypeOK /\ RowsAreCaused /\ [Next]_vars => RowsAreCaused'
<1> SUFFICES ASSUME TypeOK, RowsAreCaused, [Next]_vars PROVE RowsAreCaused'
  OBVIOUS
<1> USE ConstantsAreDistinct, DurationsAreNaturals
<1> USE DEF clockVars, taskVars, cloudVars, memoryVars, refreshVars, storeVars
<1>1. CASE Tick
  BY <1>1 DEF Tick, RowsAreCaused, TypeOK, Times
<1>2. ASSUME NEW r \in Requests, Task(r) PROVE RowsAreCaused'
  <2>1. CASE Unlock(r)
    <3>1. \A k \in Key : rows[k] # r
      BY <2>1 DEF Unlock, RowsAreCaused
    <3> QED  BY <2>1, <3>1 DEF Unlock, RowsAreCaused, TypeOK, Times
  <2>2. CASE OperateAccepted(r) \/ OperateFails(r) \/ Register(r)
    BY <2>2 DEF OperateAccepted, OperateFails, Register, RowsAreCaused, TypeOK
  <2> QED  BY <1>2, <2>1, <2>2 DEF Task
<1>3. ASSUME NEW r \in Requests, DoorOpens(r) PROVE RowsAreCaused'
  <2>1. PICK t \in Times :
          /\ now - ClockSkew =< t /\ t =< now /\ rows[<<target[r], t>>] = NoOne
          /\ rows' = [rows EXCEPT ![<<target[r], t>>] = r]
    BY <1>3 DEF DoorOpens, AddRow
  <2>2. at[r] - ClockSkew =< t /\ t =< at[r] + OpenDelay /\ pc[r] # "idle"
    BY <1>3, <2>1 DEF DoorOpens, RowsAreCaused, TypeOK, Times
  <2>3. \A k \in Key : rows'[k] = IF k = <<target[r], t>> THEN r ELSE rows[k]
    BY <2>1 DEF TypeOK
  <2>4. UNCHANGED <<now, pc, at, target, visible, fetched>>
    BY <1>3 DEF DoorOpens
  <2> QED  BY <2>2, <2>3, <2>4 DEF RowsAreCaused, TypeOK
<1>4. CASE OtherOpens
  <2>1. PICK l \in Locks, t \in Times :
          rows' = [rows EXCEPT ![<<l, t>>] = Someone]
    BY <1>4 DEF OtherOpens, AddRow
  <2>2. UNCHANGED <<now, pc, at, target, visible, fetched>>
    BY <1>4 DEF OtherOpens
  <2> QED  BY <2>1, <2>2 DEF RowsAreCaused, TypeOK
<1>5. ASSUME NEW k \in Key, Publish(k) PROVE RowsAreCaused'
  BY <1>5 DEF Publish, RowsAreCaused
<1>6. CASE RefreshFetch
  BY <1>6 DEF RefreshFetch, RowsAreCaused
<1>7. CASE Apply
  BY <1>7 DEF Apply, RowsAreCaused
<1>8. ASSUME NEW w \in Holders, Store(w) PROVE RowsAreCaused'
  <2>1. Resume(w) => /\ UNCHANGED <<at, target, fetched>>
                     /\ \A q \in Requests : pc'[q] = "idle" <=>
                          pc[q] = "idle" /\ q # w
    BY DEF Resume, TypeOK, Holders
  <2>2. CASE StoreTake(w)
    BY <2>2 DEF StoreTake, RowsAreCaused
  <2>3. CASE StoreSkip(w)
    BY <2>1, <2>3 DEF StoreSkip, Waits, RowsAreCaused
  <2>4. CASE StoreWrite(w)
    BY <2>1, <2>4 DEF StoreWrite, RowsAreCaused
  <2> QED  BY <1>8, <2>2, <2>3, <2>4 DEF Store
<1>9. CASE Crash
  BY <1>9 DEF Crash, RowsAreCaused, TypeOK, InFlight
<1>10. CASE UNCHANGED vars
  BY <1>10 DEF vars, RowsAreCaused
<1> QED
  BY <1>1, <1>2, <1>3, <1>4, <1>5, <1>6, <1>7, <1>8, <1>9, <1>10 DEF Next, Cloud

\* A pass of Apply credits only rows that fit.
LEMMA ApplyFits ==
  ASSUME TypeOK, RowsAreCaused, Fits(Memory), Apply PROVE Fits(Memory)'
<1>1. PICK claim \in [Live -> fetched \cup {NoRow}] :
        Greedy(claim) /\ matched' = Unexpired(Credited(claim))
  BY ApplyIsAPass
<1>2. UNCHANGED <<at, target, rows>>
  BY DEF Apply, taskVars, cloudVars
<1>3. ASSUME NEW k \in Key, NEW r \in Requests, matched'[k] = r
      PROVE  /\ rows[k] # NoOne /\ k[1] = target[r]
             /\ at[r] - EarlySlack =< k[2] /\ k[2] =< at[r] + MatchWindow
  <2>1. Credited(claim)[k] = r
    BY <1>1, <1>3, ConstantsAreDistinct DEF Unexpired
  <2>2. CASE matched[k] = r
    BY <2>2 DEF Fits, Memory
  <2>3. CASE r \in Live /\ claim[r] = k
    <3>1. k \in fetched /\ Candidate(r, k)
      BY <1>1, <2>3, ClaimIsOpen, ConstantsAreDistinct
    <3> QED  BY <3>1 DEF Candidate, RowsAreCaused
  <2> QED  BY <2>1, <2>2, <2>3, CreditedIsCredits DEF TypeOK
<1> QED  BY <1>2, <1>3 DEF Fits, Memory

LEMMA NextFits ==
  TypeOK /\ AllGood /\ RowsAreCaused /\ AllFit /\ [Next]_vars => AllFit'
<1> SUFFICES ASSUME TypeOK, AllGood, RowsAreCaused, AllFit, [Next]_vars PROVE AllFit'
  OBVIOUS
<1> USE ConstantsAreDistinct DEF AllFit
<1> USE DEF clockVars, taskVars, cloudVars, memoryVars, refreshVars, storeVars
<1>1. CASE Tick \/ RefreshFetch
  BY <1>1 DEF Tick, RefreshFetch, Fits, Memory
<1>2. ASSUME NEW r \in Requests, Task(r) PROVE AllFit'
  <2>1. CASE Unlock(r)
    <3>1. /\ \A k \in Key : matched[k] # r /\ image.matched[k] # r /\ disk.matched[k] # r
          /\ \A q \in Requests \ {r} : at'[q] = at[q]
      BY <2>1 DEF Unlock, AllGood, Good, Memory, Holds, Unregistered, TypeOK
    <3>2. UNCHANGED <<rows, target, matched, image, disk>>
      BY <2>1 DEF Unlock
    <3> QED  BY <3>1, <3>2 DEF Fits, Memory
  <2>2. CASE OperateAccepted(r) \/ OperateFails(r) \/ Register(r)
    BY <2>2 DEF OperateAccepted, OperateFails, Register, Fits, Memory
  <2> QED  BY <1>2, <2>1, <2>2 DEF Task
<1>3. CASE Cloud
  <2>1. \A k \in Key : rows[k] # NoOne => rows'[k] # NoOne
    BY <1>3 DEF Cloud, DoorOpens, OtherOpens, AddRow, Publish, TypeOK
  <2>2. UNCHANGED <<at, target, matched, image, disk>>
    BY <1>3 DEF Cloud, DoorOpens, OtherOpens, Publish
  <2> QED  BY <2>1, <2>2 DEF Fits, Memory
<1>4. CASE Apply
  <2>1. UNCHANGED <<at, target, rows, image, disk>>
    BY <1>4 DEF Apply
  <2> QED  BY <1>4, <2>1, ApplyFits DEF Fits
<1>5. ASSUME NEW w \in Holders, Store(w) PROVE AllFit'
  <2>1. UNCHANGED <<at, target, rows, matched>>
    BY <1>5 DEF Store, StoreTake, StoreSkip, StoreWrite, Resume
  <2>2. Fits(Empty)
    BY DEF Fits, Empty, NoCredits
  <2> QED  BY <1>5, <2>1, <2>2 DEF Store, StoreTake, StoreSkip, StoreWrite, Fits, Memory
<1>6. CASE Crash
  <2>1. Fits(Empty)
    BY DEF Fits, Empty, NoCredits
  <2> QED  BY <1>6, <2>1 DEF Crash, Fits, Memory
<1>7. CASE UNCHANGED vars
  BY <1>7 DEF vars, Fits, Memory
<1> QED  BY <1>1, <1>2, <1>3, <1>4, <1>5, <1>6, <1>7 DEF Next

\* A wrong credit is on the lock that was asked to open, and only joins two
\* requests that were made within the window, the slack and the delays.
THEOREM CreditIsNearHolds == Spec => []CreditIsNear
<1>1. TypeOK /\ RowsAreCaused /\ AllFit => CreditIsNear
  <2> SUFFICES ASSUME TypeOK, RowsAreCaused, AllFit, NEW k \in Key, matched[k] # NoOne
               PROVE  /\ k[1] = target[matched[k]] /\ rows[k] # NoOne
                      /\ rows[k] \in Requests =>
                           /\ at[matched[k]] - at[rows[k]] =< EarlySlack + OpenDelay
                           /\ at[rows[k]] - at[matched[k]] =< MatchWindow + ClockSkew
    BY DEF CreditIsNear
  <2>1. matched[k] \in Requests
    BY DEF TypeOK, Credits
  <2>2. /\ rows[k] # NoOne /\ k[1] = target[matched[k]]
        /\ at[matched[k]] - EarlySlack =< k[2] /\ k[2] =< at[matched[k]] + MatchWindow
    BY <2>1 DEF AllFit, Fits, Memory
  <2>3. ASSUME rows[k] \in Requests
        PROVE  at[rows[k]] - ClockSkew =< k[2] /\ k[2] =< at[rows[k]] + OpenDelay
    BY <2>3 DEF RowsAreCaused
  <2> QED
    BY <2>1, <2>2, <2>3, KeyParts, DurationsAreNaturals DEF TypeOK, Times
<1> QED
  BY <1>1, AllAlwaysGood, InitFits, NextCaused, NextFits, PTL DEF Spec

-----------------------------------------------------------------------------
(* When a credit is right.                                                 *)

\* Nobody else asked for the lock of r within the window and the delays of r.
Apart(r) ==
  \A q \in Requests \ {r} : pc[q] # "idle" /\ target[q] = target[r] =>
    \/ at[r] - at[q] > EarlySlack + OpenDelay
    \/ at[q] - at[r] > MatchWindow + ClockSkew

\* As long as the requests for a lock are far apart, a credited row is the one of
\* the user who is credited, or of somebody who used Tuya's own app
\* (coordinator.py:474-482, README.md:18).
ApartIsRight ==
  \A k \in Key : matched[k] \in Requests /\ Apart(matched[k]) =>
    rows[k] \in {matched[k], Someone}

\* Without requests close together, only Tuya's own app makes a credit wrong.
THEOREM ApartIsRightHolds == Spec => []ApartIsRight
<1>1. TypeOK /\ RowsAreCaused /\ AllFit => ApartIsRight
  <2> SUFFICES ASSUME TypeOK, RowsAreCaused, AllFit, NEW k \in Key,
                      matched[k] \in Requests, Apart(matched[k]),
                      rows[k] \notin {matched[k], Someone}
               PROVE  FALSE
    BY DEF ApartIsRight
  <2>1. /\ rows[k] # NoOne /\ k[1] = target[matched[k]]
        /\ at[matched[k]] - EarlySlack =< k[2] /\ k[2] =< at[matched[k]] + MatchWindow
    BY DEF AllFit, Fits, Memory
  <2>2. rows[k] \in Requests \ {matched[k]}
    BY <2>1 DEF TypeOK
  <2>3. /\ pc[rows[k]] # "idle" /\ k[1] = target[rows[k]]
        /\ at[rows[k]] - ClockSkew =< k[2] /\ k[2] =< at[rows[k]] + OpenDelay
    BY <2>2 DEF RowsAreCaused
  <2>4. \/ at[matched[k]] - at[rows[k]] > EarlySlack + OpenDelay
        \/ at[rows[k]] - at[matched[k]] > MatchWindow + ClockSkew
    BY <2>1, <2>2, <2>3 DEF Apart
  <2> QED
    BY <2>1, <2>2, <2>3, <2>4, KeyParts, DurationsAreNaturals DEF TypeOK, Times
<1> QED
  BY <1>1, AllAlwaysGood, InitFits, NextCaused, NextFits, PTL DEF Spec

-----------------------------------------------------------------------------
(* A pass leaves nothing to match.                                         *)

\* After a pass no request that is still pending has a row in its window, among
\* those that the refresh fetched, that is free: the greedy choice never gives up
\* a match that could be made, nor does forgetting old credits free a row for a
\* request that lives (coordinator.py:461-509).
PassIsMaximal ==
  [][Apply => \A r \in pending' : \A k \in fetched : ~Candidate(r, k)']_vars

\* A row that is claimed or credited, and young enough for a live request, is
\* credited after the pass.
LEMMA TakenStaysTaken ==
  ASSUME TypeOK, NEW claim, matched' = Unexpired(Credited(claim)), NEW k \in Key,
         NEW r \in Live, at[r] - EarlySlack =< k[2],
         matched[k] # NoOne \/ \E q \in Live : claim[q] = k
  PROVE  matched'[k] # NoOne
<1>1. NoOne \notin Live
  BY ConstantsAreDistinct DEF Live, TypeOK
<1>2. Credited(claim)[k] # NoOne
  BY <1>1, CreditedIsCredits DEF TypeOK
<1>3. now \in Int /\ at[r] \in Int /\ k[2] \in Int /\ now - at[r] =< PendingTTL
  BY KeyParts, DurationsAreNaturals DEF TypeOK, Times, Live
<1>4. ~(now - k[2] > MatchedTTL)
  BY <1>3, CreditsOutliveTheLog, DurationsAreNaturals
<1> QED  BY <1>2, <1>4 DEF Unexpired

LEMMA ApplyIsMaximal ==
  ASSUME TypeOK, Apply, NEW r \in pending', NEW k \in fetched
  PROVE  ~Candidate(r, k)'
<1>1. PICK claim \in [Live -> fetched \cup {NoRow}] :
        /\ Greedy(claim)
        /\ pending' = Remaining(claim)
        /\ matched' = Unexpired(Credited(claim))
  BY ApplyIsAPass
<1>2. UNCHANGED <<at, target>> /\ k \in Key /\ r \in Live /\ claim[r] = NoRow
  BY <1>1 DEF Apply, taskVars, TypeOK, Remaining
<1>3. Open(r, claim) = {}
  <2>1. NoRow \notin Open(r, claim)
    BY ConstantsAreDistinct DEF Open, TypeOK
  <2> QED  BY <1>1, <1>2, <2>1 DEF Greedy, Nearest
<1>4. CASE Candidate(r, k)
  <2>1. \E q \in Live : claim[q] = k
    BY <1>3, <1>4 DEF Open
  <2>2. matched'[k] # NoOne
    BY <1>1, <1>2, <1>4, <2>1, TakenStaysTaken DEF Candidate
  <2> QED  BY <2>2 DEF Candidate
<1>5. CASE ~Candidate(r, k) /\ at[r] - EarlySlack =< k[2] /\ matched[k] # NoOne
  BY <1>1, <1>2, <1>5, TakenStaysTaken DEF Candidate
<1>6. CASE ~Candidate(r, k) /\ ~(at[r] - EarlySlack =< k[2] /\ matched[k] # NoOne)
  BY <1>2, <1>6 DEF Candidate
<1> QED  BY <1>4, <1>5, <1>6

\* What is left pending has nothing to be matched with.
THEOREM PassIsMaximalHolds == Spec => PassIsMaximal
<1>1. TypeOK /\ [Next]_vars =>
        [Apply => \A r \in pending' : \A k \in fetched : ~Candidate(r, k)']_vars
  BY ApplyIsMaximal
<1> QED  BY <1>1, InitTypes, NextTypes, PTL DEF Spec, PassIsMaximal
=============================================================================
