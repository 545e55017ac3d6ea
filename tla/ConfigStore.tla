------------------------------ MODULE ConfigStore ------------------------------
(***************************************************************************)
(* config.json: the first run that makes it and the launch that reads it   *)
(* (app.py), the saves that make one change each (config.py), and the      *)
(* session that takes the change over once it is saved (dashboard.py).     *)
(* The process may end between any two steps, each access to a file may    *)
(* fail, and the operator may edit the file at any time.  A file that is   *)
(* JSON but no valid configuration, which saves take and launches do not,  *)
(* is left out.                                                            *)
(***************************************************************************)
EXTENDS Integers

CONSTANTS
  Settings,       \* settings with one value: target, search area, mobile alerts
  Values,         \* their values
  StandardBands,  \* the keys of STANDARD_FT8_FREQUENCIES_MHZ
  OtherBands,     \* further bands a file may have
  NoEntry,        \* a band the file does not have
  Template,       \* config.template.json
  Absent,         \* no file
  Unreadable,     \* a file that is not the JSON of a configuration
  Nothing,        \* no session; no save
  MaxEdits        \* bound: edits by hand

Bands == StandardBands \cup OtherBands
BandSettings == [enabled : BOOLEAN, frequency : {"standard", "other"}]
Contents == [plain : [Settings -> Values], bands : [Bands -> BandSettings \cup {NoEntry}]]

\* A save changes one setting, or one field of one band, or restores the frequency of
\* all standard bands.
Changes ==
  [field : Settings, bands : {{}}, value : Values]
  \cup [field : {"enabled"}, bands : {{band} : band \in Bands}, value : BOOLEAN]
  \cup [field : {"frequency"}, bands : {{band} : band \in Bands}, value : {"standard", "other"}]
  \cup [field : {"frequency"}, bands : {StandardBands}, value : {"standard"}]

ASSUME StoreAssumption ==
  /\ Template \in Contents
  /\ Absent \notin Contents /\ Unreadable \notin Contents /\ Absent # Unreadable
  /\ NoEntry \notin BandSettings
  /\ "enabled" \notin Settings /\ "frequency" \notin Settings
  /\ Nothing \notin Contents /\ MaxEdits \in Nat

VARIABLES
  file,        \* config.json
  temporary,   \* config.json.tmp
  program,     \* "off", "copying", "loading", "running"
  session,     \* the settings in memory
  step,        \* the last step of the save under way: "read", "written", "replaced"
  change,      \* its change
  raw,         \* the content it read, then with its change
  edits,       \* edits by hand so far
  current,     \* history: none since the launch has read the file
  raced        \* history: one since the save under way has read it

save    == <<step, change, raw>>
process == <<program, session>>
history == <<edits, current, raced>>
vars    == <<file, temporary, process, save, history>>

-----------------------------------------------------------------------------
(* Contents.                                                               *)

\* A standard band without an entry is disabled, on its standard frequency.
Default == [enabled |-> FALSE, frequency |-> "standard"]
Entry(content, band) ==
  IF content.bands[band] = NoEntry THEN Default ELSE content.bands[band]

\* load_config
Load(content) ==
  [content EXCEPT !.bands =
     [band \in Bands |-> IF band \in StandardBands THEN Entry(content, band)
                         ELSE content.bands[band]]]

\* A band that is neither standard nor in the file cannot be changed.
Accepts(content, ch) ==
  \A band \in ch.bands : band \in StandardBands \/ content.bands[band] # NoEntry

SetField(entry, ch) ==
  IF ch.field = "enabled" THEN [entry EXCEPT !.enabled = ch.value]
  ELSE [entry EXCEPT !.frequency = ch.value]

Apply(content, ch) ==
  IF ch.field \in Settings
  THEN [content EXCEPT !.plain = [@ EXCEPT ![ch.field] = ch.value]]
  ELSE [content EXCEPT !.bands =
          [band \in Bands |-> IF band \in ch.bands THEN SetField(Entry(content, band), ch)
                              ELSE content.bands[band]]]

TypeOK ==
  /\ file \in Contents \cup {Absent, Unreadable}
  /\ temporary \in Contents \cup {Absent, Unreadable}
  /\ program \in {"off", "copying", "loading", "running"}
  /\ session \in Contents \cup {Nothing}
  /\ step \in {"none", "read", "written", "replaced"}
  /\ change \in Changes \cup {Nothing}
  /\ raw \in Contents \cup {Nothing}
  /\ edits \in Nat /\ current \in BOOLEAN /\ raced \in BOOLEAN

NoSave == step' = "none" /\ change' = Nothing /\ raw' = Nothing /\ raced' = FALSE

Init ==
  /\ file \in Contents \cup {Absent}
  /\ temporary = Absent
  /\ program = "off" /\ session = Nothing
  /\ step = "none" /\ change = Nothing /\ raw = Nothing
  /\ edits = 0 /\ current = FALSE /\ raced = FALSE

-----------------------------------------------------------------------------
(* app.py                                                                  *)

\* ensure_config_file; without a template the launch fails and nothing changes.
Launch ==
  /\ program = "off"
  /\ IF file = Absent THEN program' = "copying" /\ file' = Unreadable
                      ELSE program' = "loading" /\ UNCHANGED file
  /\ UNCHANGED <<temporary, session, save, history>>

\* shutil.copyfile opens, copies and closes; it may fail part of the way.
CopyEnds ==
  /\ program = "copying"
  /\ program' = "loading" /\ file' = Template
  /\ UNCHANGED <<temporary, session, save, history>>
CopyFails ==
  /\ program = "copying" /\ program' = "off"
  /\ UNCHANGED <<file, temporary, session, save, history>>

\* load_config, and the session dictionaries of the dashboard.
LoadConfig ==
  /\ program = "loading"
  /\ IF file \in Contents
     THEN program' = "running" /\ session' = Load(file) /\ current' = TRUE
     ELSE program' = "off" /\ UNCHANGED <<session, current>>
  /\ UNCHANGED <<file, temporary, save, edits, raced>>

\* A crash, or the window is closed.
ProcessEnds ==
  /\ program # "off" /\ program' = "off" /\ session' = Nothing
  /\ temporary' \in IF step = "read" THEN {temporary, Unreadable} ELSE {temporary}
  /\ NoSave
  /\ UNCHANGED <<file, edits, current>>

-----------------------------------------------------------------------------
(* The saves: read, change, write, replace; then the session.              *)

\* A valid change of a band of the session, or of another setting.
BeginSave ==
  /\ program = "running" /\ step = "none" /\ file \in Contents
  /\ \E ch \in Changes :
       /\ Accepts(session, ch) /\ Accepts(file, ch)
       /\ change' = ch /\ raw' = Apply(file, ch)
  /\ step' = "read"
  /\ UNCHANGED <<file, temporary, process, history>>

WriteInPlace ==                                                   \* mutant
  /\ step = "read" /\ step' = "replaced"
  /\ file' \in {raw, Unreadable}
  /\ UNCHANGED <<temporary, process, change, raw, history>>
WriteTemporary ==
  /\ step = "read" /\ step' = "written"
  /\ temporary' = raw
  /\ UNCHANGED <<file, process, change, raw, history>>

Replace ==
  /\ step = "written" /\ step' = "replaced"
  /\ file' = temporary /\ temporary' = Absent
  /\ raced' = FALSE
  /\ UNCHANGED <<process, change, raw, edits, current>>

RememberFirst ==                                                  \* mutant
  /\ step \in {"read", "replaced"} /\ session' = Apply(session, change)
  /\ NoSave /\ UNCHANGED <<file, temporary, program, edits, current>>
Remember ==
  /\ step = "replaced" /\ session' = Apply(session, change)
  /\ NoSave
  /\ UNCHANGED <<file, temporary, program, edits, current>>

\* The write or the replacement fails, and a message says so.
SaveFails ==
  /\ step \in {"read", "written"} /\ NoSave
  /\ temporary' \in IF step = "read" THEN {temporary, Unreadable} ELSE {temporary}
  /\ UNCHANGED <<file, process, edits, current>>

-----------------------------------------------------------------------------
\* The operator edits the file: makes a change, breaks it, mends it, removes an entry.
EditByHand ==
  /\ program # "copying" /\ edits < MaxEdits
  /\ \/ file \in Contents /\ \E ch \in Changes : Accepts(file, ch) /\ file' = Apply(file, ch)
     \/ /\ file \in Contents
        /\ \E band \in Bands : file' = [file EXCEPT !.bands = [@ EXCEPT ![band] = NoEntry]]
     \/ file' \in {Template, Absent, Unreadable}
  /\ edits' = edits + 1 /\ current' = FALSE
  /\ raced' = (step \in {"read", "written"})
  /\ UNCHANGED <<temporary, process, save>>

Next ==
  \/ Launch \/ CopyEnds \/ CopyFails \/ LoadConfig \/ ProcessEnds
  \/ BeginSave \/ WriteTemporary \/ Replace \/ Remember \/ SaveFails
  \/ EditByHand

Spec == Init /\ [][Next]_vars

-----------------------------------------------------------------------------
\* The file changes only as SettingsFile allows: no save that fails or ends anywhere
\* leaves a broken or a partly changed file, none takes back what was changed by hand
\* before it began (config.py:139-253, documentation/GAP_ANALYSIS.md:68).
Promise == INSTANCE SettingsFile WITH copying <- program = "copying"
SavesAreAtomic == Promise!Spec

\* What the dashboard works with is what the next launch will find, unless the file was
\* edited by hand meanwhile: a save that fails changes neither, one that succeeds
\* changes both alike, also where the file lacks the entry of a band
\* (dashboard.py:658-667, 685-699, 810-819; config.py:90-104, 121-136).
SessionIsFile ==
  program = "running" /\ step = "none" /\ current =>
    file \in Contents /\ session = Load(file)
=============================================================================
