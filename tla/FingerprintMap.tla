--------------------------- MODULE FingerprintMap ---------------------------
(***************************************************************************)
(* The names of fingerprint slots: coordinator.mapping in memory and       *)
(* fingerprint_map.json on disk.  A refresh reads the file, asks the cloud *)
(* for the audit rows, adds default names, replaces the mapping and writes *)
(* the file; an edit of a text entity changes the mapping that is current  *)
(* and has it written.  Both work in executor threads and take no lock.    *)
(* The set-up of the sensor platform replaces the mapping by the file, too,*)
(* and that of the text platform completes it and writes it, at the same   *)
(* time; the file may also be edited by hand.                              *)
(*                                                                         *)
(* Path.write_text empties the file before it writes it.  A file that is   *)
(* empty or garbled reads as no names at all.                              *)
(***************************************************************************)
EXTENDS Naturals

CONSTANTS
  Slots,       \* fingerprint slots
  Names,       \* names that people assign
  Default,     \* "Fingerprint slot N"
  Unnamed,     \* no entry
  Garbled,     \* the content of a file that is no JSON, or is empty
  Live,        \* the dictionary that coordinator.mapping refers to
  Edits,       \* bound on the number of edits
  HandEdits,   \* how many of them may be of the file
  Crashes      \* bound on the number of crashes

ASSUME DefaultsAreNoNames == Default \notin Names /\ Unnamed \notin Names \cup {Default}

Mappings == [Slots -> Names \cup {Default, Unnamed}]
ASSUME NoMappings == Garbled \notin Mappings /\ Live \notin Mappings
ASSUME BoundsAreNaturals == Edits \in Nat /\ HandEdits \in Nat /\ Crashes \in Nat

Empty == [s \in Slots |-> Unnamed]
Writers == Slots \cup {"refresh", "platform"}
ASSUME SlotsAreNoOtherWriters == Slots \cap {"refresh", "platform"} = {}

VARIABLES
  up,        \* Home Assistant runs
  sensor,    \* the sensor platform: "none", "loaded", "replaced", "done"
  names,     \* the text platform: "none", "begun", "loaded", "saving", "done"
  read,      \* what each of them has read of the file
  bound,     \* the text platform is about to update the current mapping
  entities,  \* slots that have a text entity
  log,       \* slots with an audit row in the last 30 days
  memory,    \* coordinator.mapping
  file,      \* the file
  refresh,   \* where _update_sync stands: "idle", "loaded", "saving"
  loaded,    \* its local mapping
  source,    \* what each writer will write: the mapping in use, or one that was
  text,      \* the text that each writer has made of it
  write,     \* where each writer stands: "none", "asked", "dumped", "emptied"
  ahead,     \* the file was edited by hand and not read since
  edits,     \* number of edits of entities so far
  hands,     \* number of edits of the file so far
  crashes,   \* number of crashes so far
  assigned,  \* history: the last name assigned to each slot
  seen,      \* history: slots in the rows of the last refresh
  overlap    \* history: two users of the file have overlapped, or a crash cut a write

setupVars == <<sensor, names, read, bound, entities>>
writeVars == <<source, text, write>>
refreshVars == <<refresh, loaded>>
bounds == <<edits, hands, crashes>>
history == <<assigned, seen, overlap>>
vars == <<up, setupVars, log, memory, file, refreshVars, writeVars, ahead, bounds, history>>

Init ==
  /\ up = FALSE /\ sensor = "none" /\ names = "none" /\ entities = {}
  /\ read = [platform \in {"sensor", "text"} |-> Empty] /\ bound = FALSE
  /\ log = {} /\ memory = Empty /\ file = Empty /\ ahead = FALSE
  /\ refresh = "idle" /\ loaded = Empty
  /\ source = [w \in Writers |-> Empty] /\ text = [w \in Writers |-> Empty]
  /\ write = [w \in Writers |-> "none"]
  /\ edits = 0 /\ hands = 0 /\ crashes = 0
  /\ assigned = Empty /\ seen = {} /\ overlap = FALSE

\* Somebody has read the file, or is about to write a change.
Busy == refresh # "idle" \/ sensor = "loaded" \/ \E s \in Slots : write[s] # "none"

\* Mutant: a file that is no JSON is not caught.
LoadStrict == file

\* _load_mapping and text.py's _load.
Load == IF file = Garbled THEN Empty ELSE file

\* Mutant: a slot that already has a name in memory is left out.
DefaultedOnce(m, rows) ==
  [s \in Slots |-> IF s \in rows /\ memory[s] = Unnamed THEN Default ELSE m[s]]

\* mapping.setdefault for each slot in the rows.
Defaulted(m, rows) ==
  [s \in Slots |-> IF s \in rows /\ m[s] = Unnamed THEN Default ELSE m[s]]

\* A row appears, or is older than 30 days.
Row(s) ==
  /\ log' = IF s \in log THEN log \ {s} ELSE log \cup {s}
  /\ UNCHANGED <<up, setupVars, memory, file, refreshVars, writeVars, ahead, bounds, history>>

-----------------------------------------------------------------------------
(* Path.write_text(json.dumps(...)).                                       *)

\* A dictionary that is still in use is read as it is now.
Dump(w) ==
  /\ write[w] = "asked"
  /\ write' = [write EXCEPT ![w] = "dumped"]
  /\ text' = [text EXCEPT ![w] = IF source[w] = Live THEN memory ELSE source[w]]
  /\ UNCHANGED <<up, setupVars, log, memory, file, refreshVars, source, ahead, bounds, history>>

OpenFile(w) ==
  /\ write[w] = "dumped"
  /\ write' = [write EXCEPT ![w] = "emptied"]
  /\ file' = Garbled
  /\ UNCHANGED <<up, setupVars, log, memory, refreshVars, source, text, ahead, bounds, history>>

\* A longer text that another writer wrote meanwhile may stick out behind it.
Write(w) ==
  /\ write[w] = "emptied"
  /\ write' = [write EXCEPT ![w] = "none"]
  /\ file' = text[w] \/ (file \notin {Garbled, text[w]} /\ file' = Garbled)
  /\ source' = [source EXCEPT ![w] = Empty] /\ text' = [text EXCEPT ![w] = Empty]
  /\ refresh' = IF w = "refresh" THEN "idle" ELSE refresh
  /\ UNCHANGED <<up, setupVars, log, memory, loaded, ahead, bounds, history>>

\* When the mapping becomes another dictionary, who was to write the old one keeps it.
Handed == [w \in Writers |-> IF source[w] = Live THEN memory ELSE source[w]]

-----------------------------------------------------------------------------
(* _update_sync; a refresh while the platforms are set up is left out.     *)

RefreshLoad ==
  /\ sensor = "done" /\ names = "done" /\ refresh = "idle"
  /\ refresh' = "loaded"
  /\ loaded' = Load
  /\ overlap' = (overlap \/ Busy)
  /\ UNCHANGED <<up, setupVars, log, memory, file, writeVars, ahead, bounds, assigned, seen>>

\* A request to the cloud fails.
RefreshFails ==
  /\ refresh = "loaded"
  /\ refresh' = "idle" /\ loaded' = Empty
  /\ UNCHANGED <<up, setupVars, log, memory, file, writeVars, ahead, bounds, history>>

\* The rows are there: defaults are added, the mapping is replaced and is to be saved.
RefreshReplaces ==
  /\ refresh = "loaded"
  /\ refresh' = "saving" /\ loaded' = Empty
  /\ memory' = Defaulted(loaded, log)
  /\ seen' = log
  /\ source' = [Handed EXCEPT !["refresh"] = Live]
  /\ write' = [write EXCEPT !["refresh"] = "asked"]
  /\ ahead' = FALSE
  /\ UNCHANGED <<up, setupVars, log, file, text, bounds, assigned, overlap>>

-----------------------------------------------------------------------------
(* Names.                                                                  *)

\* FingerprintNameText.async_set_value, once at a time for each slot.
Edit(s, n) ==
  /\ s \in entities /\ edits + hands < Edits /\ write[s] = "none"
  /\ edits' = edits + 1
  /\ memory' = [memory EXCEPT ![s] = n] /\ assigned' = [assigned EXCEPT ![s] = n]
  /\ source' = [source EXCEPT ![s] = Live]
  /\ write' = [write EXCEPT ![s] = "asked"]
  /\ overlap' = (overlap \/ Busy \/ ahead)
  /\ UNCHANGED <<up, setupVars, log, file, refreshVars, text, ahead, hands, crashes, seen>>

\* Somebody edits the file, which no write is changing.  The text platform may have
\* in hand a mapping that is not in use any more: then the edit does not come to
\* memory, also when it is made before the executor reads the file.
EditByHand(s, n) ==
  /\ hands < HandEdits /\ edits + hands < Edits /\ file # Garbled
  /\ hands' = hands + 1
  /\ file' = [file EXCEPT ![s] = n] /\ assigned' = [assigned EXCEPT ![s] = n]
  /\ ahead' = TRUE
  /\ overlap' = (overlap \/ Busy \/ names \in {"begun", "loaded", "saving"})
  /\ UNCHANGED <<up, setupVars, log, memory, refreshVars, writeVars, edits, crashes, seen>>

-----------------------------------------------------------------------------
(* Set-up.                                                                 *)

Crash ==
  /\ up /\ crashes < Crashes
  /\ up' = FALSE /\ sensor' = "none" /\ names' = "none" /\ entities' = {}
  /\ read' = [platform \in DOMAIN read |-> Empty] /\ bound' = FALSE
  /\ crashes' = crashes + 1
  /\ memory' = Empty /\ refresh' = "idle" /\ loaded' = Empty /\ seen' = {}
  /\ source' = [w \in Writers |-> Empty] /\ text' = [w \in Writers |-> Empty]
  /\ write' = [w \in Writers |-> "none"]
  /\ overlap' = (overlap \/ \E w \in Writers : write[w] # "none")
  /\ UNCHANGED <<log, file, ahead, edits, hands, assigned>>

\* The first refresh, which no edit by an entity and no other refresh can meet.
Boot ==
  /\ ~up
  /\ up' = TRUE
  /\ memory' = Defaulted(Load, log) /\ file' = Defaulted(Load, log)
  /\ seen' = log
  /\ ahead' = FALSE
  /\ UNCHANGED <<setupVars, log, refreshVars, writeVars, bounds, assigned, overlap>>

\* The executor reads the file for async_setup_entry of sensor.py.
SensorLoads ==
  /\ up /\ sensor = "none"
  /\ sensor' = "loaded"
  /\ read' = [read EXCEPT !["sensor"] = Load]
  /\ overlap' = (overlap \/ Busy \/ write["platform"] = "emptied")
  /\ UNCHANGED <<up, names, bound, entities, log, memory, file, refreshVars, writeVars,
                 ahead, bounds, assigned, seen>>

\* Back in the event loop, it takes that for the mapping.
SensorReplaces ==
  /\ sensor = "loaded"
  /\ sensor' = "replaced"
  /\ memory' = read["sensor"] /\ source' = Handed
  /\ read' = [read EXCEPT !["sensor"] = Empty] /\ bound' = FALSE
  /\ ahead' = FALSE
  /\ UNCHANGED <<up, names, entities, log, file, refreshVars, text, write, bounds, history>>

\* The sensors are added and render the rows: _record names the slots that have
\* no name.
SensorRenders ==
  /\ sensor = "replaced"
  /\ sensor' = "done"
  /\ memory' = Defaulted(memory, seen)
  /\ UNCHANGED <<up, names, read, bound, entities, log, file, refreshVars, writeVars,
                 ahead, bounds, history>>

\* async_setup_entry of text.py takes the update of the mapping that is current then.
TextBegins ==
  /\ up /\ names = "none"
  /\ names' = "begun" /\ bound' = TRUE
  /\ UNCHANGED <<up, sensor, read, entities, log, memory, file, refreshVars, writeVars,
                 ahead, bounds, history>>

\* The executor reads the file for it.
TextLoads ==
  /\ names = "begun"
  /\ names' = "loaded"
  /\ read' = [read EXCEPT !["text"] = Load]
  /\ UNCHANGED <<up, sensor, bound, entities, log, memory, file, refreshVars, writeVars,
                 ahead, bounds, history>>

\* Mutant: the mapping is taken as it is.
NotUpdated(m) == memory

\* mapping.update of the dictionary in hand, which may not be the mapping any more.
Updated(m) ==
  IF bound THEN [s \in Slots |-> IF m[s] = Unnamed THEN memory[s] ELSE m[s]] ELSE memory

\* Back in the event loop: the mapping is updated, completed and saved.
TextSaves ==
  /\ names = "loaded"
  /\ names' = "saving"
  /\ memory' = Defaulted(Updated(read["text"]), seen)
  /\ read' = [read EXCEPT !["text"] = memory'] /\ bound' = FALSE
  /\ source' = [source EXCEPT !["platform"] = Live]
  /\ write' = [write EXCEPT !["platform"] = "asked"]
  /\ ahead' = FALSE
  /\ UNCHANGED <<up, sensor, entities, log, file, refreshVars, text, bounds, history>>

\* An entity for each slot that had a name then.
TextAdds ==
  /\ names = "saving" /\ write["platform"] = "none"
  /\ names' = "done"
  /\ entities' = {s \in Slots : read["text"][s] # Unnamed}
  /\ read' = [read EXCEPT !["text"] = Empty]
  /\ UNCHANGED <<up, sensor, bound, log, memory, file, refreshVars, writeVars,
                 ahead, bounds, history>>

Next ==
  \/ \E s \in Slots : Row(s) \/ \E n \in Names : Edit(s, n) \/ EditByHand(s, n)
  \/ \E w \in Writers : Dump(w) \/ OpenFile(w) \/ Write(w)
  \/ RefreshLoad \/ RefreshFails \/ RefreshReplaces
  \/ Crash \/ Boot
  \/ SensorLoads \/ SensorReplaces \/ SensorRenders
  \/ TextBegins \/ TextLoads \/ TextSaves \/ TextAdds

Spec == Init /\ [][Next]_vars

-----------------------------------------------------------------------------
TypeOK ==
  /\ up \in BOOLEAN /\ sensor \in {"none", "loaded", "replaced", "done"}
  /\ names \in {"none", "begun", "loaded", "saving", "done"}
  /\ read \in [{"sensor", "text"} -> Mappings] /\ bound \in BOOLEAN
  /\ entities \subseteq Slots /\ log \subseteq Slots /\ memory \in Mappings
  /\ file \in Mappings \cup {Garbled}
  /\ refresh \in {"idle", "loaded", "saving"} /\ loaded \in Mappings
  /\ source \in [Writers -> Mappings \cup {Live}] /\ text \in [Writers -> Mappings]
  /\ write \in [Writers -> {"none", "asked", "dumped", "emptied"}] /\ ahead \in BOOLEAN
  /\ edits \in 0 .. Edits /\ hands \in 0 .. HandEdits /\ crashes \in 0 .. Crashes
  /\ assigned \in Mappings /\ seen \subseteq Slots /\ overlap \in BOOLEAN

AtRest == sensor = "done" /\ names = "done" /\ ~Busy

Keeps(m) ==
  m # Garbled /\ \A s \in Slots : assigned[s] # Unnamed => m[s] = assigned[s]

\* As long as no change of the file, and no edit of it by hand, overlaps with
\* another use of it, and no crash cuts a write, a name stays, in memory and on
\* disk, over set-ups, refreshes, failures and restarts; one that was edited by
\* hand comes to memory with the next reading (coordinator.py:524-599,
\* sensor.py:211-214, text.py:61-66, 106-115).
NamesStayUnlessOverlapped ==
  ~overlap => /\ up /\ ~ahead => Keeps(memory)
              /\ AtRest => Keeps(file) /\ (ahead \/ file = memory)

\* Whatever is lost, each slot in the rows that are shown has a name, but for the
\* moment in which the set-up replaced the mapping and is yet to render
\* (coordinator.py:594-598, sensor.py:45-46, text.py:108-114).
ShownSlotsAreNamed == sensor # "replaced" => \A s \in seen : memory[s] # Unnamed

\* README.md:62-63: "Edit that entity in Home Assistant to assign the person's
\* name."
AssignedNameStays == AtRest => Keeps(file)
=============================================================================
