--------------------------- MODULE ConfigStoreProofs ---------------------------
(***************************************************************************)
(* Proofs about ConfigStore, for all settings, values and bands: types,    *)
(* that the session is what the file says, and that the saves implement    *)
(* SettingsFile.                                                           *)
(***************************************************************************)
EXTENDS ConfigStore, TLAPS

-----------------------------------------------------------------------------
(* Contents.                                                               *)

Plain   == [Settings -> Values]
Entries == [Bands -> BandSettings \cup {NoEntry}]

\* A content is put together from its two parts.
LEMMA ContentParts == \A c \in Contents : c.plain \in Plain /\ c.bands \in Entries
BY DEF Contents, Plain, Entries

\* A content with other bands is one.
LEMMA WithBands ==
  ASSUME NEW c \in Contents, NEW e \in Entries
  PROVE  /\ [c EXCEPT !.bands = e] \in Contents
         /\ [c EXCEPT !.bands = e] = [plain |-> c.plain, bands |-> e]
BY DEF Contents, Entries

\* A content with other plain settings is one.
LEMMA WithPlain ==
  ASSUME NEW c \in Contents, NEW p \in Plain
  PROVE  /\ [c EXCEPT !.plain = p] \in Contents
         /\ [c EXCEPT !.plain = p] = [plain |-> p, bands |-> c.bands]
BY DEF Contents, Plain

\* An entry, found or supplied, and with one field changed, is one
\* (config.py:121-136, 168, 184, 201).
LEMMA EntryTypes ==
  ASSUME NEW c \in Contents, NEW band \in Bands
  PROVE  /\ Entry(c, band) \in BandSettings /\ Entry(c, band) # NoEntry
         /\ \A ch \in Changes : ch.field \notin Settings =>
              SetField(Entry(c, band), ch) \in BandSettings
              /\ SetField(Entry(c, band), ch) # NoEntry
<1>1. c.bands[band] \in BandSettings \cup {NoEntry} /\ NoEntry \notin BandSettings
  BY ContentParts, StoreAssumption DEF Entries, StoreAssumption
<1>2. Entry(c, band) \in BandSettings
  BY <1>1 DEF Entry, Default, BandSettings
<1>3. ASSUME NEW ch \in Changes, ch.field \notin Settings
      PROVE  SetField(Entry(c, band), ch) \in BandSettings
  <2>1. \/ ch.field = "enabled" /\ ch.value \in BOOLEAN
        \/ ch.field = "frequency" /\ ch.value \in {"standard", "other"}
    BY <1>3 DEF Changes
  <2> QED BY <1>2, <2>1 DEF SetField, BandSettings
<1> QED BY <1>1, <1>2, <1>3

\* A loaded and a changed content are contents (config.py:82-97, 139-253).
LEMMA ContentTypes ==
  ASSUME NEW c \in Contents
  PROVE  /\ Load(c) \in Contents
         /\ \A ch \in Changes : Apply(c, ch) \in Contents
<1>0. c.plain \in Plain /\ c.bands \in Entries
  BY ContentParts
<1>1. Load(c) \in Contents
  <2> DEFINE e == [band \in Bands |-> IF band \in StandardBands THEN Entry(c, band)
                                      ELSE c.bands[band]]
  <2>1. e \in Entries
    BY <1>0, EntryTypes DEF Entries
  <2>2. Load(c) = [c EXCEPT !.bands = e]
    BY DEF Load
  <2> HIDE DEF e
  <2> QED BY <2>1, <2>2, WithBands
<1>2. ASSUME NEW ch \in Changes PROVE Apply(c, ch) \in Contents
  <2>1. CASE ch.field \in Settings
    <3> DEFINE p == [c.plain EXCEPT ![ch.field] = ch.value]
    <3>1. ch.value \in Values
      BY <2>1, StoreAssumption DEF Changes, StoreAssumption
    <3>2. p \in Plain
      BY <1>0, <3>1 DEF Plain
    <3>3. Apply(c, ch) = [c EXCEPT !.plain = p]
      BY <2>1 DEF Apply
    <3> HIDE DEF p
    <3> QED BY <3>2, <3>3, WithPlain
  <2>2. CASE ch.field \notin Settings
    <3> DEFINE e == [band \in Bands |-> IF band \in ch.bands THEN SetField(Entry(c, band), ch)
                                        ELSE c.bands[band]]
    <3>1. e \in Entries
      BY <1>0, <2>2, EntryTypes DEF Entries
    <3>2. Apply(c, ch) = [c EXCEPT !.bands = e]
      BY <2>2 DEF Apply
    <3> HIDE DEF e
    <3> QED BY <3>1, <3>2, WithBands
  <2> QED BY <2>1, <2>2
<1> QED BY <1>1, <1>2

\* To change what was loaded is to load what was changed: the dashboard may change
\* its session instead of reading the file again (dashboard.py:658-667, 810-819).
LEMMA LoadApply ==
  ASSUME NEW c \in Contents, NEW ch \in Changes
  PROVE  Load(Apply(c, ch)) = Apply(Load(c), ch)
<1> DEFINE loaded(x) == [band \in Bands |-> IF band \in StandardBands THEN Entry(x, band)
                                            ELSE x.bands[band]]
           changed(x) == [band \in Bands |->
                            IF band \in ch.bands THEN SetField(Entry(x, band), ch)
                            ELSE x.bands[band]]
<1>0. c.plain \in Plain /\ c.bands \in Entries
  BY ContentParts
<1>1. \A x \in Contents : loaded(x) \in Entries /\ Load(x) = [plain |-> x.plain, bands |-> loaded(x)]
  <2> SUFFICES ASSUME NEW x \in Contents
               PROVE  loaded(x) \in Entries /\ Load(x) = [plain |-> x.plain, bands |-> loaded(x)]
    OBVIOUS
  <2>1. loaded(x) \in Entries
    BY ContentParts, EntryTypes DEF Entries
  <2>2. Load(x) = [x EXCEPT !.bands = loaded(x)]
    BY DEF Load
  <2> HIDE DEF loaded
  <2> QED BY <2>1, <2>2, WithBands
<1>2. Apply(c, ch) \in Contents /\ Load(c) \in Contents
  BY ContentTypes
<1>3. CASE ch.field \in Settings
  <2> DEFINE p == [c.plain EXCEPT ![ch.field] = ch.value]
  <2>1. p \in Plain
    <3>1. ch.value \in Values
      BY <1>3, StoreAssumption DEF Changes, StoreAssumption
    <3> QED BY <1>0, <3>1 DEF Plain
  <2>2. Load(c).plain = c.plain /\ Load(c).bands = loaded(c) /\ loaded(c) \in Entries
    BY <1>1
  <2>3. Apply(c, ch) = [plain |-> p, bands |-> c.bands]
    <3>1. Apply(c, ch) = [c EXCEPT !.plain = p]
      BY <1>3 DEF Apply
    <3> HIDE DEF p
    <3> QED BY <2>1, <3>1, WithPlain
  <2>4. Apply(Load(c), ch) = [plain |-> p, bands |-> loaded(c)]
    <3>1. Apply(Load(c), ch) = [Load(c) EXCEPT !.plain = p]
      BY <1>3, <2>2 DEF Apply
    <3> HIDE DEF p
    <3> QED BY <1>2, <2>1, <2>2, <3>1, WithPlain
  <2>5. loaded(Apply(c, ch)) = loaded(c)
    BY <2>3 DEF Entry
  <2>6. Load(Apply(c, ch)) = [plain |-> Apply(c, ch).plain, bands |-> loaded(Apply(c, ch))]
    BY <1>1, <1>2
  <2> HIDE DEF loaded, p
  <2> QED BY <2>3, <2>4, <2>5, <2>6
<1>4. CASE ch.field \notin Settings
  <2>1. \A x \in Contents : /\ changed(x) \in Entries
                            /\ Apply(x, ch) = [plain |-> x.plain, bands |-> changed(x)]
    <3> SUFFICES ASSUME NEW x \in Contents
                 PROVE  /\ changed(x) \in Entries
                        /\ Apply(x, ch) = [plain |-> x.plain, bands |-> changed(x)]
      OBVIOUS
    <3>1. changed(x) \in Entries
      BY <1>4, ContentParts, EntryTypes DEF Entries
    <3>2. Apply(x, ch) = [x EXCEPT !.bands = changed(x)]
      BY <1>4 DEF Apply
    <3> HIDE DEF changed
    <3> QED BY <3>1, <3>2, WithBands
  <2>p. /\ Apply(c, ch).plain = c.plain /\ Apply(c, ch).bands = changed(c)
        /\ Load(c).plain = c.plain /\ Load(c).bands = loaded(c)
    <3> HIDE DEF loaded, changed
    <3>1. /\ Apply(c, ch) = [plain |-> c.plain, bands |-> changed(c)]
          /\ Load(c) = [plain |-> c.plain, bands |-> loaded(c)]
      BY <1>1, <2>1
    <3> QED BY <3>1
  <2>2. Load(Apply(c, ch)) = [plain |-> c.plain, bands |-> loaded(Apply(c, ch))]
    <3> HIDE DEF loaded, changed
    <3> QED BY <1>1, <1>2, <2>p
  <2>3. Apply(Load(c), ch) = [plain |-> c.plain, bands |-> changed(Load(c))]
    <3> HIDE DEF loaded, changed
    <3> QED BY <1>2, <2>1, <2>p
  <2>4. ASSUME NEW band \in Bands
        PROVE  loaded(Apply(c, ch))[band] = changed(Load(c))[band]
    <3>1. /\ Apply(c, ch).bands[band] = IF band \in ch.bands THEN SetField(Entry(c, band), ch)
                                        ELSE c.bands[band]
          /\ Load(c).bands[band] = IF band \in StandardBands THEN Entry(c, band)
                                   ELSE c.bands[band]
      BY <2>p
    <3>2. /\ Entry(c, band) # NoEntry /\ SetField(Entry(c, band), ch) # NoEntry
      BY <1>4, EntryTypes
    <3>3. Entry(Load(c), band) = Entry(c, band)
      BY <3>1, <3>2 DEF Entry
    <3>4. CASE band \in ch.bands
      BY <3>1, <3>2, <3>3, <3>4 DEF Entry
    <3>5. CASE band \notin ch.bands
      BY <3>1, <3>5 DEF Entry
    <3> QED BY <3>4, <3>5
  <2>5. loaded(Apply(c, ch)) = changed(Load(c))
    BY <2>4
  <2> HIDE DEF loaded, changed
  <2> QED BY <2>2, <2>3, <2>5
<1> QED BY <1>3, <1>4

-----------------------------------------------------------------------------
(* The inductive invariant: what a save has in hand at each of its steps,  *)
(* as long as nobody edited the file under it, and what the session will   *)
(* be once the save that has replaced the file is remembered.              *)

SaveUnderWay ==
  /\ step # "none" => program = "running" /\ change \in Changes
  /\ step \in {"read", "written"} =>
       /\ raw \in Contents
       /\ ~raced => file \in Contents /\ Accepts(file, change) /\ raw = Apply(file, change)
  /\ step = "written" => temporary = raw
  /\ raced => step \in {"read", "written"} /\ ~current

SessionFollows ==
  program = "running" =>
    /\ session \in Contents
    /\ current => /\ file \in Contents
                  /\ step # "replaced" => session = Load(file)
                  /\ step = "replaced" => Apply(session, change) = Load(file)

IInv == TypeOK /\ SaveUnderWay /\ SessionFollows

\* What an edit by hand may leave.
LEMMA EditTypes == TypeOK /\ EditByHand => file' \in Contents \cup {Absent, Unreadable}
<1> SUFFICES ASSUME TypeOK, EditByHand PROVE file' \in Contents \cup {Absent, Unreadable}
  OBVIOUS
<1>1. CASE file \in Contents /\ \E ch \in Changes : file' = Apply(file, ch)
  BY <1>1, ContentTypes
<1>2. CASE /\ file \in Contents
           /\ \E band \in Bands : file' = [file EXCEPT !.bands = [@ EXCEPT ![band] = NoEntry]]
  <2>1. PICK band \in Bands : file' = [file EXCEPT !.bands = [file.bands EXCEPT ![band] = NoEntry]]
    BY <1>2
  <2>2. [file.bands EXCEPT ![band] = NoEntry] \in Entries
    BY <1>2, ContentParts DEF Entries
  <2> QED BY <1>2, <2>1, <2>2, WithBands
<1>3. CASE file' \in {Template, Absent, Unreadable}
  BY <1>3, StoreAssumption DEF StoreAssumption
<1> QED BY <1>1, <1>2, <1>3 DEF EditByHand

\* Every step keeps the invariant.
LEMMA InvariantKept == IInv /\ [Next]_vars => IInv'
<1> SUFFICES ASSUME IInv, [Next]_vars PROVE IInv'
  OBVIOUS
<1> USE DEF save, process, history
<1>t. TypeOK /\ SaveUnderWay /\ SessionFollows
  BY DEF IInv
<1>1. CASE Launch \/ CopyEnds \/ CopyFails
  <2>1. /\ program # "running" /\ program' \in {"off", "copying", "loading"}
        /\ file' \in Contents \cup {Absent, Unreadable}
        /\ UNCHANGED <<temporary, session, save, history>>
    BY <1>1, <1>t, StoreAssumption DEF Launch, CopyEnds, CopyFails, TypeOK, StoreAssumption
  <2>2. step = "none" /\ ~raced
    BY <1>t, <2>1 DEF SaveUnderWay
  <2> QED BY <1>t, <2>1, <2>2 DEF IInv, TypeOK, SaveUnderWay, SessionFollows
<1>2. CASE LoadConfig
  <2>1. step = "none" /\ ~raced /\ UNCHANGED <<file, temporary, save, edits, raced>>
    BY <1>2, <1>t DEF LoadConfig, SaveUnderWay
  <2>2. CASE file \in Contents
    <3>1. program' = "running" /\ session' = Load(file) /\ current' = TRUE
      BY <1>2, <2>2 DEF LoadConfig
    <3>2. Load(file) \in Contents
      BY <2>2, ContentTypes
    <3>3. TypeOK'
      BY <1>t, <2>1, <3>1, <3>2 DEF TypeOK
    <3>4. Load(file') = Load(file)
      BY <2>1
    <3>5. SaveUnderWay' /\ SessionFollows'
      BY <2>1, <2>2, <3>1, <3>2, <3>4 DEF SaveUnderWay, SessionFollows
    <3> QED BY <3>3, <3>5 DEF IInv
  <2>3. CASE file \notin Contents
    BY <1>2, <1>t, <2>1, <2>3 DEF LoadConfig, IInv, TypeOK, SaveUnderWay, SessionFollows
  <2> QED BY <2>2, <2>3
<1>3. CASE ProcessEnds
  BY <1>3, <1>t DEF ProcessEnds, NoSave, IInv, TypeOK, SaveUnderWay, SessionFollows
<1>4. CASE BeginSave
  <2>1. PICK ch \in Changes : Accepts(file, ch) /\ change' = ch /\ raw' = Apply(file, ch)
    BY <1>4 DEF BeginSave
  <2>2. /\ program = "running" /\ step = "none" /\ step' = "read" /\ file \in Contents
        /\ UNCHANGED <<file, temporary, program, session, edits, current, raced>>
    BY <1>4 DEF BeginSave
  <2>3. Apply(file, ch) \in Contents
    BY <2>2, ContentTypes
  <2>4. TypeOK'
    BY <1>t, <2>1, <2>2, <2>3 DEF TypeOK
  <2>5. SaveUnderWay'
    BY <1>t, <2>1, <2>2, <2>3 DEF SaveUnderWay
  <2>6. SessionFollows'
    BY <1>t, <2>2 DEF SessionFollows
  <2> QED BY <2>4, <2>5, <2>6 DEF IInv
<1>5. CASE WriteTemporary
  <2>1. /\ step = "read" /\ step' = "written" /\ temporary' = raw
        /\ UNCHANGED <<file, program, session, change, raw, edits, current, raced>>
    BY <1>5 DEF WriteTemporary
  <2>2. raw \in Contents
    BY <1>t, <2>1 DEF SaveUnderWay
  <2>3. TypeOK'
    BY <1>t, <2>1, <2>2 DEF TypeOK
  <2>4. SaveUnderWay'
    BY <1>t, <2>1 DEF SaveUnderWay
  <2>5. SessionFollows'
    BY <1>t, <2>1 DEF SessionFollows
  <2> QED BY <2>3, <2>4, <2>5 DEF IInv
<1>6. CASE Replace
  <2>1. /\ step = "written" /\ step' = "replaced" /\ file' = raw /\ temporary' = Absent
        /\ raced' = FALSE
        /\ UNCHANGED <<program, session, change, raw, edits, current>>
    BY <1>6, <1>t DEF Replace, SaveUnderWay
  <2>2. /\ raw \in Contents /\ change \in Changes /\ program = "running" /\ session \in Contents
        /\ ~raced => file \in Contents /\ raw = Apply(file, change)
    BY <1>t, <2>1 DEF SaveUnderWay, SessionFollows
  <2>3. TypeOK'
    BY <1>t, <2>1, <2>2 DEF TypeOK
  <2>4. SaveUnderWay'
    BY <2>1, <2>2 DEF SaveUnderWay
  <2>5. ASSUME current PROVE Apply(session, change) = Load(raw)
    <3>1. ~raced /\ session = Load(file)
      BY <1>t, <2>1, <2>2, <2>5 DEF SaveUnderWay, SessionFollows
    <3> QED BY <2>2, <3>1, LoadApply
  <2>6. SessionFollows'
    BY <2>1, <2>2, <2>5 DEF SessionFollows
  <2> QED BY <2>3, <2>4, <2>6 DEF IInv
<1>7. CASE Remember
  <2>1. /\ step = "replaced" /\ session' = Apply(session, change)
        /\ step' = "none" /\ change' = Nothing /\ raw' = Nothing /\ raced' = FALSE
        /\ UNCHANGED <<file, temporary, program, edits, current>>
    BY <1>7 DEF Remember, NoSave
  <2>2. /\ change \in Changes /\ program = "running" /\ session \in Contents
        /\ current => file \in Contents /\ Apply(session, change) = Load(file)
    BY <1>t, <2>1 DEF SaveUnderWay, SessionFollows
  <2>3. Apply(session, change) \in Contents
    BY <2>2, ContentTypes
  <2>4. TypeOK'
    BY <1>t, <2>1, <2>3 DEF TypeOK
  <2>5. SaveUnderWay'
    BY <2>1 DEF SaveUnderWay
  <2>6. SessionFollows'
    BY <2>1, <2>2, <2>3 DEF SessionFollows
  <2> QED BY <2>4, <2>5, <2>6 DEF IInv
<1>8. CASE SaveFails
  <2>1. /\ step \in {"read", "written"} /\ step' = "none"
        /\ change' = Nothing /\ raw' = Nothing /\ raced' = FALSE
        /\ temporary' \in {temporary, Unreadable}
        /\ UNCHANGED <<file, program, session, edits, current>>
    BY <1>8 DEF SaveFails, NoSave
  <2>2. TypeOK'
    BY <1>t, <2>1 DEF TypeOK
  <2>3. SaveUnderWay'
    BY <2>1 DEF SaveUnderWay
  <2>4. SessionFollows'
    BY <1>t, <2>1 DEF SessionFollows
  <2> QED BY <2>2, <2>3, <2>4 DEF IInv
<1>9. CASE EditByHand
  <2>1. /\ file' \in Contents \cup {Absent, Unreadable} /\ edits' = edits + 1
        /\ current' = FALSE /\ UNCHANGED <<temporary, program, session, step, change, raw>>
    BY <1>9, <1>t, EditTypes DEF EditByHand
  <2>2. raced' \in BOOLEAN /\ (raced' <=> step \in {"read", "written"})
    <3> DEFINE saving == step \in {"read", "written"}
    <3>1. raced' = saving /\ saving \in BOOLEAN
      BY <1>9 DEF EditByHand
    <3> HIDE DEF saving
    <3>2. raced' \in BOOLEAN /\ (raced' <=> saving)
      BY <3>1
    <3> QED BY <3>2 DEF saving
  <2>3. edits' \in Nat
    BY <1>t, <2>1 DEF TypeOK
  <2>4. TypeOK'
    BY <1>t, <2>1, <2>2, <2>3 DEF TypeOK
  <2>5. SaveUnderWay'
    BY <1>t, <2>1, <2>2 DEF SaveUnderWay
  <2>6. SessionFollows'
    BY <1>t, <2>1 DEF SessionFollows
  <2> QED BY <2>4, <2>5, <2>6 DEF IInv
<1>10. CASE UNCHANGED vars
  BY <1>10, <1>t DEF vars, IInv, TypeOK, SaveUnderWay, SessionFollows
<1> QED BY <1>1, <1>2, <1>3, <1>4, <1>5, <1>6, <1>7, <1>8, <1>9, <1>10 DEF Next

\* It holds in every reachable state.
LEMMA InvariantHolds == Spec => []IInv
<1>1. Init => IInv
  <2> SUFFICES ASSUME Init PROVE IInv
    OBVIOUS
  <2>1. edits \in Nat
    BY DEF Init
  <2>2. current \in BOOLEAN /\ raced \in BOOLEAN
    BY DEF Init
  <2>3. TypeOK
    BY <2>1, <2>2 DEF Init, TypeOK
  <2> QED BY <2>3 DEF Init, IInv, SaveUnderWay, SessionFollows
<1> QED BY <1>1, InvariantKept, PTL DEF Spec

-----------------------------------------------------------------------------
\* Every reachable state is well typed (app.py:29-65, config.py:139-253).
THEOREM TypeCorrect == Spec => []TypeOK
<1>1. IInv => TypeOK
  BY DEF IInv
<1> QED BY <1>1, InvariantHolds, PTL

\* The session is what the next launch will load (dashboard.py:658-667, 810-819).
THEOREM SessionMatchesFile == Spec => []SessionIsFile
<1>1. IInv => SessionIsFile
  BY DEF IInv, SessionFollows, SessionIsFile
<1> QED BY <1>1, InvariantHolds, PTL

\* The file changes by whole saves of one change each only (config.py:139-253).
THEOREM SavesImplementPromise == Spec => SavesAreAtomic
<1>1. Init => Promise!Init
  BY DEF Init, Promise!Init
<1>2. IInv /\ [Next]_vars =>
        [Promise!Next]_<<file, edits, raced, program = "copying">>
  <2> SUFFICES ASSUME IInv, [Next]_vars
               PROVE  \/ Promise!Next
                      \/ UNCHANGED <<file, edits, raced, program = "copying">>
    OBVIOUS
  <2> USE DEF save, process, history
  <2>t. TypeOK /\ SaveUnderWay /\ SessionFollows
    BY DEF IInv
  <2>1. CASE Launch
    <3>1. CASE file = Absent
      BY <2>1, <3>1 DEF Launch, Promise!Next, Promise!FirstRun
    <3>2. CASE file # Absent
      BY <2>1, <3>2 DEF Launch
    <3> QED BY <3>1, <3>2
  <2>2. CASE CopyEnds \/ CopyFails
    BY <2>2 DEF CopyEnds, CopyFails, Promise!Next, Promise!FirstRun
  <2>3. CASE LoadConfig \/ BeginSave \/ WriteTemporary
    BY <2>3 DEF LoadConfig, BeginSave, WriteTemporary
  <2>4. CASE ProcessEnds \/ SaveFails
    <3>1. UNCHANGED <<file, edits>> /\ raced' = FALSE
             /\ (program' = program \/ program' = "off")
      BY <2>4 DEF ProcessEnds, SaveFails, NoSave
    <3>2. CASE raced
      <4>1. program = "running"
        BY <2>t, <3>2 DEF SaveUnderWay
      <4> QED BY <3>1, <3>2, <4>1 DEF Promise!Next, Promise!NothingSaved
    <3>3. CASE ~raced
      <4>1. UNCHANGED raced
        BY <2>t, <3>1, <3>3 DEF TypeOK
      <4> QED BY <3>1, <4>1 DEF Promise!Next, Promise!FirstRun
    <3> QED BY <3>2, <3>3
  <2>5. CASE Replace
    <3>1. /\ step = "written" /\ file' = raw /\ raced' = FALSE
          /\ UNCHANGED <<edits, program>> /\ program = "running"
          /\ raw \in Contents /\ change \in Changes
      BY <2>5, <2>t DEF Replace, SaveUnderWay
    <3>2. CASE raced
      BY <3>1, <3>2 DEF Promise!Next, Promise!SaveOverEdit
    <3>3. CASE ~raced
      <4>1. /\ file \in Contents /\ Accepts(file, change) /\ raw = Apply(file, change)
            /\ UNCHANGED raced
        BY <2>t, <3>1, <3>3 DEF SaveUnderWay, TypeOK
      <4> QED BY <3>1, <3>3, <4>1 DEF Promise!Next, Promise!Save
    <3> QED BY <3>2, <3>3
  <2>6. CASE Remember
    <3>1. ~raced /\ raced' = FALSE /\ UNCHANGED <<file, edits, program>>
      BY <2>6, <2>t DEF Remember, NoSave, SaveUnderWay
    <3> QED BY <2>t, <3>1 DEF TypeOK
  <2>7. CASE EditByHand
    <3>1. file' \in Contents \cup {Absent, Unreadable} /\ edits' = edits + 1
             /\ UNCHANGED program
      BY <2>7, <2>t, EditTypes DEF EditByHand
    <3> QED BY <3>1 DEF Promise!Next, Promise!ByHand
  <2>8. CASE UNCHANGED vars
    BY <2>8 DEF vars
  <2> QED BY <2>1, <2>2, <2>3, <2>4, <2>5, <2>6, <2>7, <2>8 DEF Next
<1> QED BY <1>1, <1>2, InvariantHolds, PTL DEF Spec, SavesAreAtomic, Promise!Spec
=============================================================================
