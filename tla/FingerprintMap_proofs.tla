----------------------- MODULE FingerprintMap_proofs -----------------------
(***************************************************************************)
(* Proofs about FingerprintMap for all slots and names, and any number of  *)
(* edits and crashes.                                                      *)
(*                                                                         *)
(* As long as nothing has overlapped there is one mapping: the file, the   *)
(* mapping in memory and each copy that somebody has in hand differ only   *)
(* while a write is under way or an edit by hand waits to be read.         *)
(***************************************************************************)
EXTENDS FingerprintMap, TLAPS

Idle == \A w \in Writers : write[w] = "none"

\* Who may be at work when, whatever has overlapped.
Shape ==
  /\ write["refresh"] # "none" <=> refresh = "saving"
  /\ write["platform"] # "none" => names = "saving"
  /\ names # "done" => entities = {} /\ \A s \in Slots : write[s] = "none"
  /\ refresh # "idle" => sensor = "done" /\ names = "done"
  /\ ~up => sensor = "none" /\ names = "none" /\ Idle /\ seen = {}

Filled(m) == \A s \in Slots : s \in seen => m[s] # Unnamed

\* The file when nobody writes it.
FileInv ==
  /\ Idle =>
       /\ Keeps(file) /\ Filled(file)
       /\ up /\ ~ahead => memory = file
       /\ up /\ ahead => \A s \in Slots : file[s] = Unnamed => memory[s] = Unnamed
  /\ ahead => Idle /\ names # "saving"
  /\ up => Filled(memory) /\ (~ahead => Keeps(memory))

\* The one writer writes the mapping in memory.
WriteInv ==
  /\ \A v, w \in Writers : write[v] # "none" /\ write[w] # "none" => v = w
  /\ \A w \in Writers :
       /\ write[w] # "none" => source[w] \in {Live, memory}
       /\ write[w] \in {"dumped", "emptied"} => text[w] = memory
       /\ write[w] = "emptied" => file = Garbled
  /\ write["platform"] \in {"asked", "dumped"} => file = memory

\* What was read and not used yet is what a new reading would find.
ReadInv ==
  /\ sensor = "loaded" =>
       /\ \A s \in Slots : write[s] = "none"
       /\ read["sensor"] = IF write["platform"] = "emptied" THEN memory ELSE file
  /\ names = "loaded" => read["text"] = file
  /\ names \in {"begun", "loaded"} /\ ~bound => ~ahead
  /\ refresh = "loaded" => loaded = file /\ Idle

Calm == FileInv /\ WriteInv /\ ReadInv
Inv == TypeOK /\ Shape /\ ShownSlotsAreNamed /\ (~overlap => Calm)

-----------------------------------------------------------------------------
(* Mappings.                                                               *)

LEMMA EmptyIsAMapping == Empty \in Mappings
BY DEF Empty, Mappings

\* setdefault yields a mapping that names each slot in the rows and leaves every
\* name that is there.
LEMMA DefaultedNames ==
  ASSUME NEW m \in Mappings, NEW rows \in SUBSET Slots
  PROVE  /\ Defaulted(m, rows) \in Mappings
         /\ \A s \in rows : Defaulted(m, rows)[s] # Unnamed
         /\ \A s \in Slots : m[s] # Unnamed => Defaulted(m, rows)[s] = m[s]
<1>1. Default # Unnamed
  BY DefaultsAreNoNames
<1> QED  BY <1>1 DEF Defaulted, Mappings

\* It changes nothing where no name is missing.
LEMMA NothingToDefault ==
  ASSUME NEW m \in Mappings, NEW rows \in SUBSET Slots, \A s \in rows : m[s] # Unnamed
  PROVE  Defaulted(m, rows) = m
BY DEF Defaulted, Mappings

LEMMA UpdatedIsAMapping ==
  ASSUME TypeOK, NEW m \in Mappings
  PROVE  Updated(m) \in Mappings
BY DEF TypeOK, Updated, Mappings

LEMMA LoadIsAMapping == TypeOK => Load \in Mappings
BY EmptyIsAMapping DEF TypeOK, Load

\* An assignment of a name.
LEMMA NameAssigned ==
  ASSUME NEW m \in Mappings, NEW s \in Slots, NEW n \in Names
  PROVE  LET a == [m EXCEPT ![s] = n]
         IN  /\ a \in Mappings /\ a[s] = n /\ n # Unnamed
             /\ \A t \in Slots : t # s => a[t] = m[t]
<1>1. n # Unnamed
  BY DefaultsAreNoNames
<1> QED  BY <1>1 DEF Mappings

-----------------------------------------------------------------------------
(* Types.                                                                  *)

LEMMA InitTypes == Init => TypeOK
<1> SUFFICES ASSUME Init PROVE TypeOK
  OBVIOUS
<1>1. Empty \in Mappings
  BY EmptyIsAMapping
<1>2. edits \in 0 .. Edits /\ hands \in 0 .. HandEdits /\ crashes \in 0 .. Crashes
  BY BoundsAreNaturals DEF Init
<1>3. up \in BOOLEAN /\ bound \in BOOLEAN /\ ahead \in BOOLEAN /\ overlap \in BOOLEAN
  BY Zenon DEF Init
<1>4. /\ sensor \in {"none", "loaded", "replaced", "done"}
      /\ names \in {"none", "begun", "loaded", "saving", "done"}
      /\ refresh \in {"idle", "loaded", "saving"}
      /\ write \in [Writers -> {"none", "asked", "dumped", "emptied"}]
  BY DEF Init
<1>5. /\ read \in [{"sensor", "text"} -> Mappings]
      /\ source \in [Writers -> Mappings \cup {Live}] /\ text \in [Writers -> Mappings]
  BY <1>1 DEF Init
<1>6. /\ memory \in Mappings /\ file \in Mappings \cup {Garbled} /\ loaded \in Mappings
      /\ assigned \in Mappings
      /\ entities \subseteq Slots /\ log \subseteq Slots /\ seen \subseteq Slots
  BY <1>1 DEF Init
<1> QED  BY <1>2, <1>3, <1>4, <1>5, <1>6 DEF TypeOK

LEMMA HandedIsTyped == TypeOK => Handed \in [Writers -> Mappings \cup {Live}]
BY DEF TypeOK, Handed

LEMMA NextTypes == TypeOK /\ [Next]_vars => TypeOK'
<1> SUFFICES ASSUME TypeOK, [Next]_vars PROVE TypeOK'
  OBVIOUS
<1> USE BoundsAreNaturals, EmptyIsAMapping DEF setupVars, writeVars, refreshVars, bounds, history
<1>1. ASSUME NEW s \in Slots, Row(s) PROVE TypeOK'
  BY <1>1 DEF Row, TypeOK
<1>2. ASSUME NEW s \in Slots, NEW n \in Names, Edit(s, n) PROVE TypeOK'
  <2>1. memory' \in Mappings /\ assigned' \in Mappings
    BY <1>2, NameAssigned DEF Edit, TypeOK
  <2>2. s \in Writers /\ edits' \in 0 .. Edits
    BY <1>2 DEF Edit, TypeOK, Writers
  <2> QED  BY <1>2, <2>1, <2>2 DEF Edit, TypeOK
<1>3. ASSUME NEW s \in Slots, NEW n \in Names, EditByHand(s, n) PROVE TypeOK'
  <2>1. file' \in Mappings /\ assigned' \in Mappings
    BY <1>3, NameAssigned DEF EditByHand, TypeOK
  <2>2. hands' \in 0 .. HandEdits
    BY <1>3 DEF EditByHand, TypeOK
  <2> QED  BY <1>3, <2>1, <2>2 DEF EditByHand, TypeOK
<1>4. ASSUME NEW w \in Writers, Dump(w) PROVE TypeOK'
  BY <1>4 DEF Dump, TypeOK
<1>5. ASSUME NEW w \in Writers, OpenFile(w) PROVE TypeOK'
  BY <1>5 DEF OpenFile, TypeOK
<1>6. ASSUME NEW w \in Writers, Write(w) PROVE TypeOK'
  BY <1>6 DEF Write, TypeOK
<1>7. CASE RefreshLoad
  BY <1>7, LoadIsAMapping DEF RefreshLoad, TypeOK
<1>8. CASE RefreshFails
  BY <1>8 DEF RefreshFails, TypeOK
<1>9. CASE RefreshReplaces
  <2>1. memory' \in Mappings
    BY <1>9, DefaultedNames DEF RefreshReplaces, TypeOK
  <2>2. /\ source' \in [Writers -> Mappings \cup {Live}]
        /\ write' \in [Writers -> {"none", "asked", "dumped", "emptied"}]
    BY <1>9, HandedIsTyped DEF RefreshReplaces, TypeOK
  <2> QED  BY <1>9, <2>1, <2>2 DEF RefreshReplaces, TypeOK
<1>10. CASE Crash
  <2>1. /\ crashes' \in 0 .. Crashes /\ read' \in [{"sensor", "text"} -> Mappings]
        /\ source' \in [Writers -> Mappings \cup {Live}] /\ text' \in [Writers -> Mappings]
        /\ write' \in [Writers -> {"none", "asked", "dumped", "emptied"}]
    BY <1>10 DEF Crash, TypeOK
  <2> QED  BY <1>10, <2>1 DEF Crash, TypeOK
<1>11. CASE Boot
  <2>1. Defaulted(Load, log) \in Mappings
    BY DefaultedNames, LoadIsAMapping DEF TypeOK
  <2> QED  BY <1>11, <2>1 DEF Boot, TypeOK
<1>12. CASE SensorLoads
  BY <1>12, LoadIsAMapping DEF SensorLoads, TypeOK
<1>13. CASE SensorReplaces
  BY <1>13, HandedIsTyped DEF SensorReplaces, TypeOK
<1>14. CASE SensorRenders
  BY <1>14, DefaultedNames DEF SensorRenders, TypeOK
<1>15. CASE TextBegins \/ TextLoads
  BY <1>15, LoadIsAMapping DEF TextBegins, TextLoads, TypeOK
<1>16. CASE TextSaves
  <2>1. memory' \in Mappings
    BY <1>16, DefaultedNames, UpdatedIsAMapping DEF TextSaves, TypeOK
  <2>2. /\ read' \in [{"sensor", "text"} -> Mappings]
        /\ source' \in [Writers -> Mappings \cup {Live}]
        /\ write' \in [Writers -> {"none", "asked", "dumped", "emptied"}]
    BY <1>16, <2>1 DEF TextSaves, TypeOK
  <2> QED  BY <1>16, <2>1, <2>2 DEF TextSaves, TypeOK
<1>17. CASE TextAdds
  BY <1>17 DEF TextAdds, TypeOK
<1>18. CASE UNCHANGED vars
  BY <1>18 DEF vars, TypeOK
<1> QED
  BY <1>1, <1>2, <1>3, <1>4, <1>5, <1>6, <1>7, <1>8, <1>9, <1>10, <1>11, <1>12, <1>13,
     <1>14, <1>15, <1>16, <1>17, <1>18 DEF Next

\* Every variable keeps its type, and no bound is exceeded.
THEOREM TypeCorrect == Spec => []TypeOK
BY InitTypes, NextTypes, PTL DEF Spec

-----------------------------------------------------------------------------
(* Who may be at work when.                                                *)

LEMMA WritersAre == "refresh" \in Writers /\ "platform" \in Writers /\ Slots \subseteq Writers
BY DEF Writers

\* A step of one writer, which leaves the others where they are.
LEMMA StepsKeepShape ==
  ASSUME TypeOK, Shape, NEW w \in Writers, Dump(w) \/ OpenFile(w) \/ Write(w)
  PROVE  Shape'
<1> USE SlotsAreNoOtherWriters, WritersAre DEF setupVars, refreshVars, history
<1>1. write[w] # "none" /\ up /\ up' /\ UNCHANGED <<sensor, names, entities>>
  BY DEF Shape, Idle, Dump, OpenFile, Write
<1>2. \A v \in Writers : v # w => write'[v] = write[v]
  BY DEF TypeOK, Dump, OpenFile, Write
<1>3. write'["refresh"] # "none" <=> refresh' = "saving"
  BY <1>1, <1>2 DEF TypeOK, Shape, Dump, OpenFile, Write
<1>4. refresh' # "idle" => sensor = "done" /\ names = "done"
  BY DEF Shape, Dump, OpenFile, Write
<1>5. write["platform"] = "none" => write'["platform"] = "none"
  BY <1>1, <1>2
<1>6. names # "done" => \A s \in Slots : write'[s] = "none"
  BY <1>1, <1>2 DEF Shape
<1> QED  BY <1>1, <1>3, <1>4, <1>5, <1>6 DEF Shape

LEMMA NextShape == TypeOK /\ Shape /\ [Next]_vars => Shape'
<1> SUFFICES ASSUME TypeOK, Shape, [Next]_vars PROVE Shape'
  OBVIOUS
<1> USE SlotsAreNoOtherWriters, WritersAre
    DEF setupVars, writeVars, refreshVars, bounds, history, Idle
<1>1. ASSUME NEW s \in Slots, Row(s) PROVE Shape'
  BY <1>1 DEF Row, Shape
<1>2. ASSUME NEW s \in Slots, NEW n \in Names, Edit(s, n) PROVE Shape'
  BY <1>2 DEF Edit, Shape, TypeOK
<1>3. ASSUME NEW s \in Slots, NEW n \in Names, EditByHand(s, n) PROVE Shape'
  BY <1>3 DEF EditByHand, Shape
<1>4. ASSUME NEW w \in Writers, Dump(w) \/ OpenFile(w) \/ Write(w) PROVE Shape'
  BY <1>4, StepsKeepShape
<1>5. CASE RefreshLoad
  BY <1>5 DEF RefreshLoad, Shape
<1>6. CASE RefreshFails
  BY <1>6 DEF RefreshFails, Shape
<1>7. CASE RefreshReplaces
  BY <1>7 DEF RefreshReplaces, Shape, TypeOK
<1>8. CASE Crash
  BY <1>8 DEF Crash, Shape
<1>9. CASE Boot
  BY <1>9 DEF Boot, Shape
<1>10. CASE SensorLoads \/ SensorReplaces \/ SensorRenders
  BY <1>10 DEF SensorLoads, SensorReplaces, SensorRenders, Shape
<1>11. CASE TextBegins \/ TextLoads
  BY <1>11 DEF TextBegins, TextLoads, Shape
<1>12. CASE TextSaves
  BY <1>12 DEF TextSaves, Shape, TypeOK
<1>13. CASE TextAdds
  BY <1>13 DEF TextAdds, Shape
<1>14. CASE UNCHANGED vars
  BY <1>14 DEF vars, Shape
<1> QED
  BY <1>1, <1>2, <1>3, <1>4, <1>5, <1>6, <1>7, <1>8, <1>9, <1>10, <1>11, <1>12, <1>13,
     <1>14 DEF Next

-----------------------------------------------------------------------------
(* What is shown has a name.                                               *)

LEMMA NextShown == TypeOK /\ Shape /\ ShownSlotsAreNamed /\ [Next]_vars => ShownSlotsAreNamed'
<1> SUFFICES ASSUME TypeOK, Shape, ShownSlotsAreNamed, [Next]_vars,
                    sensor' # "replaced", NEW s \in seen'
             PROVE  memory'[s] # Unnamed
  BY DEF ShownSlotsAreNamed
<1> USE DEF setupVars, writeVars, refreshVars, bounds, history
<1>1. CASE UNCHANGED <<memory, seen, sensor>>
  BY <1>1 DEF ShownSlotsAreNamed
<1>2. ASSUME NEW t \in Slots, NEW n \in Names, Edit(t, n) PROVE memory'[s] # Unnamed
  <2>1. memory[s] # Unnamed /\ s \in Slots
    BY <1>2 DEF Edit, ShownSlotsAreNamed, TypeOK
  <2> QED  BY <1>2, <2>1, NameAssigned DEF Edit, TypeOK
<1>3. CASE RefreshReplaces
  BY <1>3, DefaultedNames DEF RefreshReplaces, TypeOK
<1>4. CASE Crash
  BY <1>4 DEF Crash
<1>5. CASE Boot
  BY <1>5, DefaultedNames, LoadIsAMapping DEF Boot, TypeOK
<1>6. CASE SensorLoads
  BY <1>6 DEF SensorLoads, ShownSlotsAreNamed
<1>7. CASE SensorReplaces
  BY <1>7 DEF SensorReplaces
<1>8. CASE SensorRenders
  BY <1>8, DefaultedNames DEF SensorRenders, TypeOK
<1>9. CASE TextSaves
  BY <1>9, DefaultedNames, UpdatedIsAMapping DEF TextSaves, TypeOK
<1>10. ASSUME NEW t \in Slots, Row(t) \/ \E n \in Names : EditByHand(t, n)
       PROVE  UNCHANGED <<memory, seen, sensor>>
  BY <1>10 DEF Row, EditByHand
<1>11. ASSUME NEW w \in Writers, Dump(w) \/ OpenFile(w) \/ Write(w)
       PROVE  UNCHANGED <<memory, seen, sensor>>
  BY <1>11 DEF Dump, OpenFile, Write
<1>12. CASE \/ RefreshLoad \/ RefreshFails \/ TextBegins \/ TextLoads \/ TextAdds
            \/ UNCHANGED vars
  BY <1>1, <1>12 DEF RefreshLoad, RefreshFails, TextBegins, TextLoads, TextAdds, vars
<1> QED
  BY <1>1, <1>2, <1>3, <1>4, <1>5, <1>6, <1>7, <1>8, <1>9, <1>10, <1>11, <1>12 DEF Next

-----------------------------------------------------------------------------
(* One mapping, as long as nothing overlaps.                               *)

LEMMA FileIsAMapping == TypeOK /\ Calm /\ Idle => file \in Mappings /\ Load = file
BY DEF TypeOK, Calm, FileInv, Keeps, Load

LEMMA NobodyWrites ==
  ASSUME TypeOK, Shape, ~Busy, names # "saving"
  PROVE  Idle
BY DEF TypeOK, Shape, Busy, Idle, Writers

\* Defaults never replace a name.
LEMMA DefaultsKeep ==
  ASSUME TypeOK, NEW m \in Mappings, Keeps(m), NEW rows \in SUBSET Slots
  PROVE  Keeps(Defaulted(m, rows))
<1>1. Defaulted(m, rows) # Garbled
  BY DefaultedNames, NoMappings
<1> QED  BY <1>1, DefaultedNames DEF Keeps

LEMMA InitCalm == Init => Shape /\ ShownSlotsAreNamed /\ Calm
<1> SUFFICES ASSUME Init PROVE Shape /\ ShownSlotsAreNamed /\ Calm
  OBVIOUS
<1>1. Shape /\ ShownSlotsAreNamed
  BY WritersAre DEF Init, Shape, ShownSlotsAreNamed, Idle
<1>2. Empty # Garbled /\ \A s \in Slots : Empty[s] = Unnamed
  BY EmptyIsAMapping, NoMappings DEF Empty
<1>3. Calm
  BY <1>2, WritersAre DEF Init, Calm, FileInv, WriteInv, ReadInv, Keeps, Filled
<1> QED  BY <1>1, <1>3

LEMMA DumpKeepsCalm ==
  ASSUME TypeOK, Shape, Calm, NEW w \in Writers, Dump(w)
  PROVE  Calm'
<1> USE WritersAre DEF setupVars, writeVars, refreshVars, bounds, history, Dump
<1>1. ~Idle /\ ~Idle' /\ ~ahead
  BY DEF Idle, TypeOK, Calm, FileInv
<1>2. FileInv'
  BY <1>1 DEF Calm, FileInv, Filled, Keeps
<1>3. WriteInv'
  BY DEF TypeOK, Calm, WriteInv
<1>4. ReadInv'
  BY <1>1 DEF TypeOK, Calm, ReadInv
<1> QED  BY <1>2, <1>3, <1>4 DEF Calm

LEMMA OpenFileKeepsCalm ==
  ASSUME TypeOK, Shape, Calm, NEW w \in Writers, OpenFile(w)
  PROVE  Calm'
<1> USE WritersAre DEF setupVars, writeVars, refreshVars, bounds, history, OpenFile
<1>1. ~Idle /\ ~Idle' /\ ~ahead
  BY DEF Idle, TypeOK, Calm, FileInv
<1>2. FileInv'
  BY <1>1 DEF Calm, FileInv, Filled, Keeps
<1>3. WriteInv'
  BY DEF TypeOK, Calm, WriteInv
<1>4. sensor = "loaded" => w = "platform" /\ read["sensor"] = memory
  BY DEF TypeOK, Calm, ReadInv, WriteInv, Shape, Writers
<1>5. names # "loaded" /\ refresh # "loaded"
  BY <1>1 DEF Shape, Calm, ReadInv, Writers
<1>6. ReadInv'
  BY <1>1, <1>4, <1>5 DEF TypeOK, Calm, ReadInv
<1> QED  BY <1>2, <1>3, <1>6 DEF Calm

LEMMA WriteKeepsCalm ==
  ASSUME TypeOK, Shape, Calm, NEW w \in Writers, Write(w)
  PROVE  Calm'
<1> USE WritersAre DEF setupVars, writeVars, refreshVars, bounds, history, Write
<1>1. up /\ ~ahead /\ ~Idle
  BY DEF Idle, Shape, Calm, FileInv
<1>2. file' = memory
  BY DEF Calm, WriteInv
<1>3. \A v \in Writers : write'[v] = "none"
  BY DEF TypeOK, Calm, WriteInv
<1>4. FileInv'
  BY <1>1, <1>2 DEF Calm, FileInv, Filled, Keeps
<1>5. WriteInv'
  BY <1>3 DEF WriteInv
<1>6. sensor = "loaded" => w = "platform" /\ read["sensor"] = memory
  BY DEF TypeOK, Calm, ReadInv, WriteInv, Shape, Writers
<1>7. names # "loaded" /\ refresh' # "loaded"
  BY <1>1 DEF Shape, Calm, ReadInv, Writers
<1>8. ReadInv'
  BY <1>2, <1>3, <1>6, <1>7 DEF Calm, ReadInv
<1> QED  BY <1>4, <1>5, <1>8 DEF Calm

\* The request of a refresh: nothing else is under way, and what it reads is the
\* mapping.
LEMMA RefreshLoadKeepsCalm ==
  ASSUME TypeOK, Shape, Calm, RefreshLoad, ~overlap'
  PROVE  Calm'
<1> USE DEF setupVars, writeVars, refreshVars, bounds, history, RefreshLoad
<1>1. Idle /\ Load = file
  BY NobodyWrites, FileIsAMapping
<1>2. FileInv' /\ WriteInv'
  BY DEF Calm, FileInv, WriteInv, Filled, Keeps, Idle
<1>3. ReadInv'
  BY <1>1 DEF Calm, ReadInv, Idle
<1> QED  BY <1>2, <1>3 DEF Calm

LEMMA RefreshReplacesKeepsCalm ==
  ASSUME TypeOK, Shape, Calm, RefreshReplaces
  PROVE  Calm'
<1> USE WritersAre, SlotsAreNoOtherWriters
    DEF setupVars, writeVars, refreshVars, bounds, history, RefreshReplaces
<1>1. Idle /\ loaded = file /\ file \in Mappings
  BY FileIsAMapping DEF Calm, ReadInv
<1>2. Keeps(memory)' /\ Filled(memory)'
  BY <1>1, DefaultsKeep, DefaultedNames DEF Calm, FileInv, Keeps, Filled, TypeOK
<1>3. write'["refresh"] = "asked" /\ source'["refresh"] = Live
  BY DEF TypeOK, Handed
<1>4. \A v \in Writers : v # "refresh" => write'[v] = "none"
  BY <1>1 DEF TypeOK, Idle
<1>5. FileInv'
  BY <1>2, <1>3 DEF FileInv, Idle
<1>6. WriteInv'
  BY <1>3, <1>4 DEF WriteInv
<1>7. sensor = "done" /\ names = "done" /\ refresh' # "loaded"
  BY DEF Shape
<1>8. ReadInv'
  BY <1>7 DEF ReadInv
<1> QED  BY <1>5, <1>6, <1>8 DEF Calm

LEMMA EditKeepsCalm ==
  ASSUME TypeOK, Shape, Calm, NEW s \in Slots, NEW n \in Names, Edit(s, n), ~overlap'
  PROVE  Calm'
<1> USE WritersAre, SlotsAreNoOtherWriters
    DEF setupVars, writeVars, refreshVars, bounds, history, Edit
<1>1. names = "done" /\ ~Busy /\ ~ahead
  BY DEF Shape
<1>2. Idle /\ up /\ refresh = "idle" /\ sensor # "loaded"
  BY <1>1, NobodyWrites DEF Shape, Busy
<1>3. /\ memory'[s] = n /\ assigned'[s] = n /\ n # Unnamed /\ memory' # Garbled
      /\ \A t \in Slots : t # s => memory'[t] = memory[t] /\ assigned'[t] = assigned[t]
  BY NameAssigned, NoMappings DEF TypeOK
<1>4. Keeps(memory)' /\ Filled(memory)'
  BY <1>1, <1>2, <1>3 DEF Calm, FileInv, Keeps, Filled
<1>5. write'[s] = "asked" /\ source'[s] = Live
  BY DEF TypeOK
<1>6. \A v \in Writers : v # s => write'[v] = "none"
  BY <1>2 DEF TypeOK, Idle
<1>7. FileInv'
  BY <1>1, <1>4, <1>5 DEF FileInv, Idle
<1>8. WriteInv'
  BY <1>5, <1>6 DEF WriteInv
<1>9. ReadInv'
  BY <1>1, <1>2 DEF ReadInv
<1> QED  BY <1>7, <1>8, <1>9 DEF Calm

LEMMA EditByHandKeepsCalm ==
  ASSUME TypeOK, Shape, Calm, NEW s \in Slots, NEW n \in Names, EditByHand(s, n), ~overlap'
  PROVE  Calm'
<1> USE WritersAre DEF setupVars, writeVars, refreshVars, bounds, history, EditByHand
<1>1. ~Busy /\ names \notin {"begun", "loaded", "saving"}
  OBVIOUS
<1>2. Idle /\ refresh = "idle" /\ sensor # "loaded" /\ file \in Mappings
  BY <1>1, NobodyWrites, FileIsAMapping DEF Busy
<1>3. /\ file'[s] = n /\ assigned'[s] = n /\ n # Unnamed /\ file' # Garbled
      /\ \A t \in Slots : t # s => file'[t] = file[t] /\ assigned'[t] = assigned[t]
  BY <1>2, NameAssigned, NoMappings DEF TypeOK
<1>4. Keeps(file)' /\ Filled(file)'
  BY <1>2, <1>3 DEF Calm, FileInv, Keeps, Filled
<1>5. up => \A t \in Slots : file'[t] = Unnamed => memory'[t] = Unnamed
  BY <1>2, <1>3 DEF Calm, FileInv
<1>6. up => Filled(memory)'
  BY DEF Calm, FileInv, Filled
<1>7. FileInv'
  BY <1>1, <1>2, <1>4, <1>5, <1>6 DEF FileInv, Idle
<1>8. WriteInv' /\ ReadInv'
  BY <1>1, <1>2 DEF WriteInv, ReadInv, Idle
<1> QED  BY <1>7, <1>8 DEF Calm

LEMMA CrashKeepsCalm ==
  ASSUME TypeOK, Shape, Calm, Crash, ~overlap'
  PROVE  Calm'
<1> USE WritersAre DEF setupVars, writeVars, refreshVars, bounds, history, Crash
<1>1. Idle /\ Idle'
  BY DEF Idle
<1>2. FileInv'
  BY <1>1 DEF Calm, FileInv, Keeps, Filled
<1>3. WriteInv' /\ ReadInv'
  BY DEF WriteInv, ReadInv
<1> QED  BY <1>2, <1>3 DEF Calm

LEMMA BootKeepsCalm ==
  ASSUME TypeOK, Shape, Calm, Boot
  PROVE  Calm'
<1> USE WritersAre DEF setupVars, writeVars, refreshVars, bounds, history, Boot
<1>1. Idle /\ Idle' /\ sensor = "none" /\ names = "none" /\ refresh = "idle"
  BY DEF Shape, Idle
<1>2. Load = file /\ file \in Mappings
  BY <1>1, FileIsAMapping
<1>3. Keeps(memory)' /\ Filled(memory)'
  BY <1>1, <1>2, DefaultsKeep, DefaultedNames DEF Calm, FileInv, Keeps, Filled, TypeOK
<1>4. FileInv'
  BY <1>1, <1>3 DEF FileInv, Keeps, Filled
<1>5. WriteInv' /\ ReadInv'
  BY <1>1 DEF WriteInv, ReadInv, Idle
<1> QED  BY <1>4, <1>5 DEF Calm

\* The sensor platform may read while the text platform's write is on its way: the
\* text is what the file holds.
LEMMA SensorLoadsKeepsCalm ==
  ASSUME TypeOK, Shape, Calm, SensorLoads, ~overlap'
  PROVE  Calm'
<1> USE WritersAre DEF setupVars, writeVars, refreshVars, bounds, history, SensorLoads
<1>1. /\ refresh = "idle" /\ write["platform"] # "emptied"
      /\ \A s \in Slots : write[s] = "none"
  BY DEF Busy
<1>2. write["refresh"] = "none"
  BY <1>1 DEF Shape
<1>3. Load = file
  <2>1. CASE Idle
    BY <2>1, FileIsAMapping
  <2>2. CASE ~Idle
    <3>1. write["platform"] \in {"asked", "dumped"}
      BY <1>1, <1>2, <2>2 DEF Idle, Writers, TypeOK
    <3> QED  BY <3>1, NoMappings DEF Calm, WriteInv, Load, TypeOK
  <2> QED  BY <2>1, <2>2
<1>4. FileInv' /\ WriteInv'
  BY DEF Calm, FileInv, WriteInv, Keeps, Filled, Idle
<1>5. ReadInv'
  BY <1>1, <1>3 DEF Calm, ReadInv, TypeOK, Idle
<1> QED  BY <1>4, <1>5 DEF Calm

LEMMA SensorReplacesKeepsCalm ==
  ASSUME TypeOK, Shape, Calm, SensorReplaces
  PROVE  Calm'
<1> USE WritersAre DEF setupVars, writeVars, refreshVars, bounds, history, SensorReplaces
<1>1. /\ up /\ refresh = "idle" /\ write["refresh"] = "none"
      /\ \A s \in Slots : write[s] = "none"
  BY DEF Shape, Calm, ReadInv
<1>2. ~Idle => write["platform"] # "none" /\ names = "saving"
  BY <1>1 DEF Idle, Writers, Shape
<1>3. Idle => memory' = file
  BY DEF Calm, ReadInv, Idle
<1>4. ~Idle => memory' = memory /\ ~ahead
  BY <1>2 DEF Calm, ReadInv, WriteInv, FileInv, TypeOK
<1>5. Keeps(memory)' /\ Filled(memory)'
  BY <1>1, <1>3, <1>4 DEF Calm, FileInv, Keeps, Filled
<1>6. FileInv'
  BY <1>1, <1>3, <1>5 DEF Calm, FileInv, Idle, Keeps, Filled
<1>7. WriteInv'
  BY <1>3, <1>4, <1>2 DEF Calm, WriteInv, Idle, Handed, TypeOK
<1>8. ReadInv'
  BY <1>1 DEF Calm, ReadInv, TypeOK
<1> QED  BY <1>6, <1>7, <1>8 DEF Calm

LEMMA SensorRendersKeepsCalm ==
  ASSUME TypeOK, Shape, Calm, SensorRenders
  PROVE  Calm'
<1> USE DEF setupVars, writeVars, refreshVars, bounds, history, SensorRenders
<1>1. up
  BY DEF Shape
<1>2. memory' = memory
  BY <1>1, NothingToDefault DEF Calm, FileInv, Filled, TypeOK
<1> QED
  BY <1>1, <1>2 DEF Calm, FileInv, WriteInv, ReadInv, Keeps, Filled, Idle

LEMMA TextBeginsKeepsCalm ==
  ASSUME TypeOK, Shape, Calm, TextBegins
  PROVE  Calm'
BY DEF setupVars, writeVars, refreshVars, bounds, history, TextBegins, Calm, FileInv, WriteInv,
       ReadInv, Keeps, Filled, Idle

LEMMA TextLoadsKeepsCalm ==
  ASSUME TypeOK, Shape, Calm, TextLoads
  PROVE  Calm'
<1> USE WritersAre DEF setupVars, writeVars, refreshVars, bounds, history, TextLoads
<1>1. Idle /\ Load = file
  <2>1. Idle
    BY DEF Shape, Idle, Writers
  <2> QED  BY <2>1, FileIsAMapping
<1>2. FileInv' /\ WriteInv'
  BY DEF Calm, FileInv, WriteInv, Keeps, Filled, Idle
<1>3. ReadInv'
  BY <1>1 DEF Calm, ReadInv, TypeOK, Idle
<1> QED  BY <1>2, <1>3 DEF Calm

\* What the text platform makes of its reading is what it read: an edit by hand
\* before the reading has the names of the rest of the mapping.
LEMMA TextSavesKeepsCalm ==
  ASSUME TypeOK, Shape, Calm, TextSaves
  PROVE  Calm'
<1> USE WritersAre, SlotsAreNoOtherWriters
    DEF setupVars, writeVars, refreshVars, bounds, history, TextSaves
<1>1. Idle /\ up /\ read["text"] = file /\ file \in Mappings
  <2>1. Idle /\ up
    BY DEF Shape, Idle, Writers
  <2> QED  BY <2>1, FileIsAMapping DEF Calm, ReadInv
<1>2. Updated(file) = file
  <2>1. \A s \in Slots : file[s] = Unnamed => memory[s] = Unnamed
    BY <1>1 DEF Calm, FileInv
  <2>2. CASE bound
    <3>1. Updated(file) = [s \in Slots |-> file[s]]
      BY <2>1, <2>2 DEF Updated
    <3> QED  BY <1>1, <3>1 DEF Mappings
  <2>3. CASE ~bound
    BY <1>1, <2>3 DEF Updated, Calm, ReadInv, FileInv
  <2> QED  BY <2>2, <2>3
<1>3. memory' = file
  BY <1>1, <1>2, NothingToDefault DEF Calm, FileInv, Filled, TypeOK
<1>4. Keeps(memory)' /\ Filled(memory)'
  BY <1>1, <1>3 DEF Calm, FileInv, Keeps, Filled
<1>5. write'["platform"] = "asked" /\ source'["platform"] = Live
  BY DEF TypeOK
<1>6. \A v \in Writers : v # "platform" => write'[v] = "none"
  BY <1>1 DEF TypeOK, Idle
<1>7. FileInv'
  BY <1>4, <1>5 DEF FileInv, Idle
<1>8. WriteInv'
  BY <1>3, <1>5, <1>6 DEF WriteInv
<1>9. ReadInv'
  BY <1>1, <1>5, <1>6 DEF Calm, ReadInv, Shape, TypeOK, Idle
<1> QED  BY <1>7, <1>8, <1>9 DEF Calm

LEMMA NextCalm ==
  ASSUME TypeOK, Shape, Calm, [Next]_vars, ~overlap'
  PROVE  Calm'
<1> USE DEF setupVars, writeVars, refreshVars, bounds, history
<1>1. ASSUME NEW s \in Slots, Row(s) PROVE Calm'
  BY <1>1 DEF Row, Calm, FileInv, WriteInv, ReadInv, Keeps, Filled, Idle
<1>2. CASE RefreshFails
  BY <1>2 DEF RefreshFails, Calm, FileInv, WriteInv, ReadInv, Keeps, Filled, Idle
<1>3. CASE TextAdds
  BY <1>3 DEF TextAdds, Calm, FileInv, WriteInv, ReadInv, Keeps, Filled, Idle, TypeOK
<1>4. CASE UNCHANGED vars
  BY <1>4 DEF vars, Calm, FileInv, WriteInv, ReadInv, Keeps, Filled, Idle
<1> QED
  BY <1>1, <1>2, <1>3, <1>4, DumpKeepsCalm, OpenFileKeepsCalm, WriteKeepsCalm,
     RefreshLoadKeepsCalm, RefreshReplacesKeepsCalm, EditKeepsCalm, EditByHandKeepsCalm,
     CrashKeepsCalm, BootKeepsCalm, SensorLoadsKeepsCalm, SensorReplacesKeepsCalm,
     SensorRendersKeepsCalm, TextBeginsKeepsCalm, TextLoadsKeepsCalm, TextSavesKeepsCalm
  DEF Next

\* What has overlapped stays so.
LEMMA OverlapStays == TypeOK /\ [Next]_vars /\ overlap => overlap'
BY DEF TypeOK, Next, vars, Row, Dump, OpenFile, Write, RefreshLoad, RefreshFails,
       RefreshReplaces, Edit, EditByHand, Crash, Boot, SensorLoads, SensorReplaces,
       SensorRenders, TextBegins, TextLoads, TextSaves, TextAdds, history

LEMMA InitInv == Init => Inv
BY InitTypes, InitCalm DEF Inv

LEMMA NextInv == Inv /\ [Next]_vars => Inv'
BY NextTypes, NextShape, NextShown, NextCalm, OverlapStays DEF Inv

LEMMA InvKeepsNames == Inv => NamesStayUnlessOverlapped
<1> SUFFICES ASSUME Inv, ~overlap
             PROVE  /\ up /\ ~ahead => Keeps(memory)
                    /\ AtRest => Keeps(file) /\ (ahead \/ file = memory)
  BY DEF NamesStayUnlessOverlapped
<1>1. TypeOK /\ Shape /\ FileInv
  BY DEF Inv, Calm
<1>2. ASSUME AtRest PROVE up /\ Idle
  BY <1>1, <1>2, NobodyWrites DEF AtRest, Shape
<1> QED  BY <1>1, <1>2 DEF FileInv

\* A name that was assigned stays, in memory and on disk, unless two uses of the
\* file overlap or a crash cuts a write: whatever else set-ups, refreshes, failures
\* and restarts do, and in whatever order.
THEOREM NamesStayHolds == Spec => []NamesStayUnlessOverlapped
BY InitInv, NextInv, InvKeepsNames, PTL DEF Spec

\* Whatever overlaps, each slot in the rows that are shown has a name.
THEOREM ShownSlotsAreNamedHolds == Spec => []ShownSlotsAreNamed
<1>1. Inv => ShownSlotsAreNamed
  BY DEF Inv
<1> QED  BY <1>1, InitInv, NextInv, PTL DEF Spec
=============================================================================
