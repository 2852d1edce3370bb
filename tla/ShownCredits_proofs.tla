------------------------ MODULE ShownCredits_proofs ------------------------
(***************************************************************************)
(* What the entities may show, proved for RemoteUnlockAttribution: a user  *)
(* on a row is on disk first, stays on the row while the row is listed,    *)
(* and the file implements AttributionLedger.                              *)
(***************************************************************************)
EXTENDS RemoteUnlockAttribution_proofs

IsOld(k) == now - k[2] > MatchedTTL

\* Lists t follow lists s: credits stay, or are forgotten when they are old.
Follows(s, t) ==
  \A k \in Key : s.matched[k] # NoOne =>
    t.matched[k] = s.matched[k] \/ (t.matched[k] = NoOne /\ IsOld(k))

\* The credits in memory are all in s.
Covers(s) == \A k \in Key : matched[k] # NoOne => s.matched[k] = matched[k]

\* The order of the three pairs of lists, and where the refresh's credits are.
Written ==
  /\ Follows(disk, Memory)
  /\ writer # NoWriter => Follows(disk, image) /\ Follows(image, Memory)
  /\ phase # "saving" => Covers(disk) /\ (writer # NoWriter => Covers(image))
  /\ phase = "saving" /\ ~queued =>
       IF writer = NoWriter THEN Covers(disk) ELSE Covers(image)
  /\ writer = Refresh => phase = "saving" /\ Covers(image)
  /\ phase = "saving" => \A k \in Key :
       overlay[k] \in Requests => matched[k] = overlay[k] \/ IsOld(k)

-----------------------------------------------------------------------------
(* How a pass of Apply changes the credits in memory.                      *)

\* A credit stays or is forgotten when it is old; an old row earns none.
LEMMA ApplyChangesCredits ==
  ASSUME TypeOK, Apply, NEW k \in Key
  PROVE  /\ matched[k] # NoOne =>
              matched'[k] = matched[k] \/ (matched'[k] = NoOne /\ IsOld(k))
         /\ matched[k] = NoOne /\ IsOld(k) => matched'[k] = NoOne
<1>1. PICK claim \in [Live -> fetched \cup {NoRow}] :
        Greedy(claim) /\ matched' = Unexpired(Credited(claim))
  BY ApplyIsAPass
<1>2. matched'[k] = IF IsOld(k) THEN NoOne ELSE Credited(claim)[k]
  BY <1>1 DEF Unexpired, IsOld
<1>3. matched[k] # NoOne => Credited(claim)[k] = matched[k]
  <2> SUFFICES ASSUME matched[k] # NoOne, Credited(claim)[k] \in Live,
                      claim[Credited(claim)[k]] = k
               PROVE  FALSE
    BY CreditedIsCredits DEF TypeOK
  <2>1. Candidate(Credited(claim)[k], k)
    BY <1>1, ClaimIsOpen, ConstantsAreDistinct
  <2> QED  BY <2>1 DEF Candidate
<1> QED  BY <1>2, <1>3

\* If the pass changes nothing, memory is as before and the view shows it.
LEMMA QuietApply ==
  ASSUME TypeOK, Apply, phase' # "saving"
  PROVE  /\ matched' = matched
         /\ \A k \in Key : shown'[k] = IF k \in fetched THEN matched[k] ELSE NoRow
<1>1. PICK claim \in [Live -> fetched \cup {NoRow}] :
        /\ Remaining(claim) = pending
        /\ Unexpired(Credited(claim)) = Credited(claim)
        /\ matched' = Unexpired(Credited(claim))
        /\ shown' = Overlaid(Credited(claim))
  BY ApplyIsAPass
<1>2. \A r \in Live : claim[r] = NoRow
  BY <1>1 DEF Remaining, Live
<1>3. Credited(claim) = matched
  BY <1>2, ConstantsAreDistinct DEF Credited, TypeOK, Credits
<1> QED  BY <1>1, <1>3 DEF Overlaid

\* Otherwise the new credits are queued, and they are what will be shown.
LEMMA SavingApply ==
  ASSUME TypeOK, Apply, phase' = "saving"
  PROVE  /\ queued' = TRUE /\ shown' = shown
         /\ \A k \in Key :
              /\ overlay'[k] # NoRow => k \in fetched
              /\ overlay'[k] \in Requests => matched'[k] = overlay'[k] \/ IsOld(k)
              /\ matched[k] # NoOne => overlay'[k] \in {matched[k], NoRow}
<1>1. PICK claim \in [Live -> fetched \cup {NoRow}] :
        /\ Greedy(claim)
        /\ matched' = Unexpired(Credited(claim))
        /\ queued' = TRUE /\ shown' = shown /\ overlay' = Overlaid(Credited(claim))
  BY ApplyIsAPass
<1>2. ASSUME NEW k \in Key, matched[k] # NoOne
      PROVE  Credited(claim)[k] = matched[k]
  <2> SUFFICES ASSUME Credited(claim)[k] \in Live, claim[Credited(claim)[k]] = k
               PROVE  FALSE
    BY <1>2, CreditedIsCredits DEF TypeOK
  <2>1. Candidate(Credited(claim)[k], k)
    BY <1>1, ClaimIsOpen, ConstantsAreDistinct
  <2> QED  BY <1>2, <2>1 DEF Candidate
<1> QED  BY <1>1, <1>2, ConstantsAreDistinct DEF Overlaid, Unexpired, IsOld

-----------------------------------------------------------------------------
(* The three pairs of lists follow one another.                            *)

LEMMA InitWritten == Init => Written
BY ConstantsAreDistinct
   DEF Init, Written, Follows, Covers, Memory, Empty, NoCredits, Blank, Holders

\* Rows only grow older.
LEMMA OldStaysOld ==
  ASSUME TypeOK, Tick, NEW k \in Key, IsOld(k) PROVE IsOld(k)'
BY KeyParts, DurationsAreNaturals DEF Tick, IsOld, TypeOK, Times

LEMMA NextWritten == TypeOK /\ Written /\ [Next]_vars => Written'
<1> SUFFICES ASSUME TypeOK, Written, [Next]_vars PROVE Written'
  OBVIOUS
<1> USE ConstantsAreDistinct
<1> USE DEF clockVars, taskVars, cloudVars, memoryVars, refreshVars, storeVars
<1>1. CASE Tick
  <2>1. UNCHANGED <<matched, pending, phase, overlay, queued, writer, image, disk>>
    BY <1>1 DEF Tick
  <2> QED  BY <1>1, <2>1, OldStaysOld DEF Written, Follows, Covers, Memory
<1>2. ASSUME NEW r \in Requests, Task(r) PROVE Written'
  <2>1. UNCHANGED <<now, matched, phase, overlay, writer, image, disk>>
        /\ (queued' = queued \/ queued' = TRUE)
    BY <1>2 DEF Task, Unlock, OperateAccepted, OperateFails, Register
  <2> QED  BY <2>1 DEF Written, Follows, Covers, Memory, IsOld, TypeOK
<1>3. CASE Cloud
  BY <1>3 DEF Cloud, DoorOpens, OtherOpens, Publish, Written, Follows, Covers,
              Memory, IsOld
<1>4. CASE RefreshFetch
  BY <1>4 DEF RefreshFetch, Written, Follows, Covers, Memory, IsOld
<1>5. CASE Apply
  <2>1. /\ phase = "fetched" /\ UNCHANGED <<now, writer, image, disk>>
        /\ phase' \in {"idle", "saving"}
    BY <1>5, ApplyIsAPass DEF Apply
  <2>2. Follows(disk, Memory)' /\ (writer # NoWriter => Follows(image, Memory)')
    BY <1>5, <2>1, ApplyChangesCredits DEF Written, Follows, Memory, IsOld
  <2>3. CASE phase' = "saving"
    BY <1>5, <2>1, <2>2, <2>3, SavingApply DEF Written, Follows, IsOld, TypeOK
  <2>4. CASE phase' = "idle"
    BY <1>5, <2>1, <2>2, <2>4, QuietApply DEF Written, Follows, Covers, IsOld
  <2> QED  BY <2>1, <2>3, <2>4
<1>6. ASSUME NEW w \in Holders, Store(w) PROVE Written'
  <2>1. Resume(w) => \/ w = Refresh /\ phase' = "idle" /\ overlay' = Blank
                     \/ w # Refresh /\ UNCHANGED <<phase, overlay>>
    BY DEF Resume
  <2>2. CASE StoreTake(w)
    BY <2>2 DEF StoreTake, Waits, Written, Follows, Covers, Memory, IsOld
  <2>3. CASE StoreSkip(w)
    <3>1. /\ Resume(w) /\ ~queued /\ writer = NoWriter /\ (w = Refresh => phase = "saving")
          /\ UNCHANGED <<now, pending, matched, queued, writer, image, disk>>
      BY <2>3 DEF StoreSkip, Waits
    <3> QED  BY <2>1, <3>1 DEF Written, Follows, Covers, Memory, IsOld, Holders
  <2>4. CASE StoreWrite(w)
    <3>1. /\ Resume(w) /\ writer = w /\ writer' = NoWriter /\ disk' = image
          /\ UNCHANGED <<now, pending, matched, queued>>
      BY <2>4 DEF StoreWrite
    <3> QED  BY <2>1, <3>1 DEF Written, Follows, Covers, Memory, IsOld, Holders
  <2> QED  BY <1>6, <2>2, <2>3, <2>4 DEF Store
<1>7. CASE Crash
  BY <1>7 DEF Crash, Written, Follows, Covers, Memory, Holders
<1>8. CASE UNCHANGED vars
  BY <1>8 DEF vars, Written, Follows, Covers, Memory, IsOld
<1> QED  BY <1>1, <1>2, <1>3, <1>4, <1>5, <1>6, <1>7, <1>8 DEF Next

-----------------------------------------------------------------------------
(* A user on a row is on disk first.                                       *)

LEMMA InitDurable == Init => ShownIsDurable
BY ConstantsAreDistinct DEF Init, ShownIsDurable, Blank

LEMMA NextDurable ==
  TypeOK /\ Written /\ ShownIsDurable /\ [Next]_vars => ShownIsDurable'
<1> SUFFICES ASSUME TypeOK, Written, ShownIsDurable, [Next]_vars PROVE ShownIsDurable'
  OBVIOUS
<1> USE ConstantsAreDistinct
<1> USE DEF clockVars, taskVars, cloudVars, memoryVars, refreshVars, storeVars
<1>1. CASE Tick
  <2>1. UNCHANGED <<shown, disk>>
    BY <1>1 DEF Tick
  <2> QED  BY <1>1, <2>1, OldStaysOld DEF ShownIsDurable, IsOld
<1>2. CASE (\E r \in Requests : Task(r)) \/ Cloud \/ RefreshFetch
  <2>1. UNCHANGED <<now, shown, disk>>
    BY <1>2 DEF Task, Unlock, OperateAccepted, OperateFails, Register,
                Cloud, DoorOpens, OtherOpens, Publish, RefreshFetch
  <2> QED  BY <2>1 DEF ShownIsDurable
<1>3. CASE Apply
  <2>1. UNCHANGED <<now, disk>> /\ phase = "fetched"
    BY <1>3 DEF Apply
  <2>2. CASE phase' = "saving"
    BY <1>3, <2>1, <2>2, SavingApply DEF ShownIsDurable
  <2>3. CASE phase' # "saving"
    BY <1>3, <2>1, <2>3, QuietApply DEF ShownIsDurable, Written, Covers
  <2> QED  BY <2>2, <2>3
<1>4. ASSUME NEW w \in Holders, Store(w) PROVE ShownIsDurable'
  <2>1. Resume(w) => \/ w = Refresh /\ shown' = overlay
                     \/ w # Refresh /\ shown' = shown
    BY DEF Resume
  <2>2. CASE StoreTake(w)
    BY <2>2 DEF StoreTake, ShownIsDurable
  <2>3. CASE StoreSkip(w)
    <3>1. /\ Resume(w) /\ ~queued /\ writer = NoWriter /\ (w = Refresh => phase = "saving")
          /\ UNCHANGED <<now, disk>>
      BY <2>3 DEF StoreSkip, Waits
    <3> QED  BY <2>1, <3>1 DEF ShownIsDurable, Written, Covers, IsOld
  <2>4. CASE StoreWrite(w)
    <3>1. Resume(w) /\ writer = w /\ disk' = image /\ now' = now
      BY <2>4 DEF StoreWrite
    <3> QED  BY <2>1, <3>1 DEF ShownIsDurable, Written, Follows, Covers, IsOld, Holders
  <2> QED  BY <1>4, <2>2, <2>3, <2>4 DEF Store
<1>5. CASE Crash
  BY <1>5 DEF Crash, ShownIsDurable, Blank
<1>6. CASE UNCHANGED vars
  BY <1>6 DEF vars, ShownIsDurable
<1> QED  BY <1>1, <1>2, <1>3, <1>4, <1>5, <1>6 DEF Next

\* A user is shown on a row only when the file has the credit, or the row is
\* too old to be credited at all.
THEOREM ShownIsDurableHolds == Spec => []ShownIsDurable
BY InitTypes, NextTypes, InitWritten, NextWritten, InitDurable, NextDurable, PTL
   DEF Spec

-----------------------------------------------------------------------------
(* The file implements the ledger.                                         *)

LEMMA LedgerStep ==
  TypeOK /\ AllGood /\ Written /\ [Next]_vars
     => [Ledger!Tick \/ Ledger!Revise]_<<now, disk.matched>>
<1> SUFFICES ASSUME TypeOK, AllGood, Written, [Next]_vars
             PROVE  [Ledger!Tick \/ Ledger!Revise]_<<now, disk.matched>>
  OBVIOUS
<1> USE DEF clockVars, taskVars, cloudVars, memoryVars, refreshVars, storeVars
<1>1. CASE Tick
  BY <1>1 DEF Tick, Ledger!Tick
<1>2. CASE (\E r \in Requests : Task(r)) \/ Cloud \/ RefreshFetch \/ Apply \/ Crash
           \/ UNCHANGED vars
  BY <1>2 DEF Task, Unlock, OperateAccepted, OperateFails, Register, Cloud,
              DoorOpens, OtherOpens, Publish, RefreshFetch, Apply, Crash, vars
<1>3. ASSUME NEW w \in Holders, Store(w)
      PROVE  [Ledger!Tick \/ Ledger!Revise]_<<now, disk.matched>>
  <2>1. CASE StoreTake(w) \/ StoreSkip(w)
    BY <2>1 DEF StoreTake, StoreSkip
  <2>2. CASE StoreWrite(w)
    <3>1. writer # NoWriter /\ disk' = image /\ now' = now
      BY <2>2, ConstantsAreDistinct DEF StoreWrite
    <3>2. Ledger!Row = Key
      BY DEF Ledger!Row, Key, Times
    <3>3. disk.matched' \in [Key -> Requests \cup {NoOne}]
      BY <3>1 DEF TypeOK, Saved, Credits
    <3>4. \A k \in Key : disk.matched[k] # NoOne =>
            \/ disk.matched'[k] = disk.matched[k]
            \/ disk.matched'[k] = NoOne /\ now - k[2] > MatchedTTL
      BY <3>1 DEF Written, Follows, IsOld
    <3>5. \A j, k \in Key :
            disk.matched'[j] # NoOne /\ disk.matched'[j] = disk.matched'[k] => j = k
      BY <3>1 DEF AllGood, Good, OneToOne
    <3> QED  BY <3>1, <3>2, <3>3, <3>4, <3>5 DEF Ledger!Revise
  <2> QED  BY <1>3, <2>1, <2>2 DEF Store
<1> QED  BY <1>1, <1>2, <1>3 DEF Next

\* Whatever crashes, the file of attributions is a ledger: credits are never
\* moved, one request has one row, only old credits are forgotten.
THEOREM FileImplementsLedger == Spec => LedgerSpec
<1>1. Init => Ledger!Init
  BY DEF Init, Empty, NoCredits, Ledger!Init, Ledger!Row, Key, Times
<1> QED
  BY <1>1, LedgerStep, InitTypes, NextTypes, InitGood, NextGood, InitWritten,
     NextWritten, PTL DEF Spec, LedgerSpec, Ledger!Spec

-----------------------------------------------------------------------------
(* A user on a row stays on it.                                            *)

\* Rows that are listed again are young enough to have kept their credit.
Steady ==
  /\ phase = "fetched" => \A k \in fetched :
       shown[k] \in Requests => matched[k] = shown[k]
  /\ phase = "saving" => \A k \in Key :
       shown[k] \in Requests => overlay[k] \in {shown[k], NoRow}

StaysShown == \A k \in Key : shown[k] \in Requests => shown'[k] \in {shown[k], NoRow}

\* A row that the log still returns, and that shows a user, is credited to the
\* user in memory.
LEMMA ListedCreditsAreInMemory ==
  ASSUME TypeOK, Written, ShownIsDurable, NEW k \in Key,
         now - k[2] =< LogWindow, shown[k] \in Requests
  PROVE  matched[k] = shown[k]
<1>1. ~IsOld(k)
  BY KeyParts, DurationsAreNaturals, CreditsOutliveTheLog DEF IsOld, TypeOK, Times
<1> QED
  BY <1>1, ConstantsAreDistinct DEF ShownIsDurable, Written, Follows, IsOld, Memory

LEMMA InitSteady == Init => Steady
BY DEF Init, Steady

LEMMA NextSteady ==
  TypeOK /\ Written /\ ShownIsDurable /\ Steady /\ [Next]_vars
     => Steady' /\ (StaysShown \/ UNCHANGED vars)
<1> SUFFICES ASSUME TypeOK, Written, ShownIsDurable, Steady, [Next]_vars
             PROVE  Steady' /\ (StaysShown \/ UNCHANGED vars)
  OBVIOUS
<1> USE ConstantsAreDistinct
<1> USE DEF clockVars, taskVars, cloudVars, memoryVars, refreshVars, storeVars, StaysShown
<1>1. CASE Tick \/ (\E r \in Requests : Task(r)) \/ Cloud
  <2>1. UNCHANGED <<phase, fetched, overlay, shown, matched>>
    BY <1>1 DEF Tick, Task, Unlock, OperateAccepted, OperateFails, Register,
                Cloud, DoorOpens, OtherOpens, Publish
  <2> QED  BY <2>1 DEF Steady
<1>2. CASE RefreshFetch
  <2>1. /\ phase' = "fetched" /\ UNCHANGED <<shown, matched>>
        /\ \A k \in fetched' : k \in Key /\ now - k[2] =< LogWindow
    BY <1>2 DEF RefreshFetch, TypeOK
  <2> QED  BY <2>1, ListedCreditsAreInMemory DEF Steady
<1>3. CASE Apply
  <2>1. phase = "fetched"
    BY <1>3 DEF Apply
  <2>2. CASE phase' = "saving"
    BY <1>3, <2>1, <2>2, SavingApply DEF Steady
  <2>3. CASE phase' # "saving"
    <3>1. phase' = "idle"
      BY <1>3, <2>3, ApplyIsAPass
    <3> QED  BY <1>3, <2>1, <3>1, QuietApply DEF Steady
  <2> QED  BY <2>2, <2>3
<1>4. ASSUME NEW w \in Holders, Store(w) PROVE Steady' /\ StaysShown
  <2>1. Resume(w) => \/ w = Refresh /\ shown' = overlay /\ phase' = "idle"
                     \/ w # Refresh /\ UNCHANGED <<phase, fetched, overlay, shown>>
    BY DEF Resume
  <2>2. CASE StoreTake(w)
    BY <2>2 DEF StoreTake, Steady
  <2>3. CASE StoreSkip(w) \/ StoreWrite(w)
    <3>1. Resume(w) /\ matched' = matched /\ (w = Refresh => phase = "saving")
      BY <2>3 DEF StoreSkip, StoreWrite, Waits, Written
    <3> QED  BY <2>1, <3>1 DEF Steady
  <2> QED  BY <1>4, <2>2, <2>3 DEF Store
<1>5. CASE Crash
  BY <1>5 DEF Crash, Steady, Blank
<1>6. CASE UNCHANGED vars
  BY <1>6 DEF vars, Steady
<1> QED  BY <1>1, <1>2, <1>3, <1>4, <1>5, <1>6 DEF Next

\* No step takes a user off a row that stays listed, or puts another there.
THEOREM ShownIsStableHolds == Spec => ShownIsStable
<1>1. ShownIsStable <=> [][StaysShown]_vars
  BY PTL DEF ShownIsStable, StaysShown
<1> QED
  BY <1>1, InitTypes, NextTypes, InitWritten, NextWritten, InitDurable, NextDurable,
     InitSteady, NextSteady, PTL DEF Spec

-----------------------------------------------------------------------------
(* One unlock is shown once.                                               *)

Single(view) ==
  \A j, k \in Key : view[j] \in Requests /\ view[j] = view[k] => j = k

\* The entities never show one unlock request on two rows of the log, neither of
\* one lock nor of two, whichever saves and crashes lie between the pass that made
\* the view and its publication (coordinator.py:408-415, 441-520).
ShownOnce == Single(shown)

\* What a pass lays over its rows names each request once.
LEMMA PassIsSingle ==
  ASSUME TypeOK, Good(Memory), NEW claim, Greedy(claim)
  PROVE  Single(Overlaid(Credited(claim)))
<1> SUFFICES ASSUME NEW j \in Key, NEW k \in Key,
                    Credited(claim)[j] \in Requests,
                    Credited(claim)[j] = Credited(claim)[k]
             PROVE  j = k
  BY ConstantsAreDistinct DEF Single, Overlaid
<1>1. NoOne \notin Requests
  BY ConstantsAreDistinct
<1> QED
  BY <1>1, CreditedIsCredits, LiveArePending DEF Good, OneToOne, Memory, TypeOK

LEMMA NextSingle ==
  ASSUME TypeOK, AllGood, Single(overlay), Single(shown), [Next]_vars
  PROVE  Single(overlay)' /\ Single(shown)'
<1> USE DEF clockVars, taskVars, cloudVars, memoryVars, refreshVars, storeVars
<1>1. Single(Blank)
  BY ConstantsAreDistinct DEF Single, Blank
<1>2. CASE Tick \/ (\E r \in Requests : Task(r)) \/ Cloud \/ RefreshFetch
           \/ UNCHANGED vars
  <2>1. UNCHANGED <<overlay, shown>>
    BY <1>2 DEF Tick, Task, Unlock, OperateAccepted, OperateFails, Register, Cloud,
                DoorOpens, OtherOpens, Publish, RefreshFetch, vars
  <2> QED  BY <2>1 DEF Single
<1>3. CASE Apply
  <2>1. PICK claim \in [Live -> fetched \cup {NoRow}] :
          /\ Greedy(claim)
          /\ overlay' \in {overlay, Overlaid(Credited(claim))}
          /\ shown' \in {shown, Overlaid(Credited(claim))}
    BY <1>3, ApplyIsAPass
  <2>2. Single(Overlaid(Credited(claim)))
    BY <2>1, PassIsSingle DEF AllGood
  <2> QED  BY <2>1, <2>2 DEF Single
<1>4. ASSUME NEW w \in Holders, Store(w) PROVE Single(overlay)' /\ Single(shown)'
  <2>1. overlay' \in {overlay, Blank} /\ shown' \in {shown, overlay}
    BY <1>4 DEF Store, StoreTake, StoreSkip, StoreWrite, Resume
  <2> QED  BY <1>1, <2>1 DEF Single
<1>5. CASE Crash
  BY <1>1, <1>5 DEF Crash, Single
<1> QED  BY <1>2, <1>3, <1>4, <1>5 DEF Next

\* Whatever is saved, published or lost, each request is shown on one row at most.
THEOREM ShownOnceHolds == Spec => []ShownOnce
<1>1. Init => Single(overlay) /\ Single(shown)
  BY ConstantsAreDistinct DEF Init, Single, Blank
<1>2. TypeOK /\ AllGood /\ Single(overlay) /\ Single(shown) /\ [Next]_vars
        => Single(overlay)' /\ Single(shown)'
  BY NextSingle
<1> QED  BY <1>1, <1>2, AllAlwaysGood, PTL DEF Spec, ShownOnce
=============================================================================
