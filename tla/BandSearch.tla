------------------------------ MODULE BandSearch ------------------------------
(***************************************************************************)
(* The main-thread core of the dashboard: monitoring state, band search,   *)
(* target alert and the one alignment worker (dashboard.py, hopping.py).   *)
(*                                                                         *)
(* Every action is one Tk callback, which runs to completion: an enabled   *)
(* button, a timer, or one message taken from the events queue.  A button  *)
(* is guarded by the condition under which _update_controls enables it and *)
(* by the checks of its handler.  WSJT-X, the listener thread and PSK      *)
(* Reporter are inputs: any packet or result may be the next one polled.   *)
(* The alignment worker is modelled up to its two outcomes (RigBridge has  *)
(* its steps).  A dial frequency is abstracted to the band it lies in,     *)
(* tx_enabled and transmitting to their disjunction (the code never reads  *)
(* one without the other), and the clock to two elapses.                   *)
(* A definition marked "mutant" is a bug the one after it does not have;   *)
(* it is used only to see that the properties notice it.                   *)
(***************************************************************************)
EXTENDS Integers, Sequences, SearchSession

CONSTANTS BandPlan,    \* the configured bands, in the order of the plan
          OtherBands,  \* amateur bands WSJT-X may be on that the plan lacks
          FocusLists,  \* what a PSK Reporter result may bring
          OffBand,     \* "-": the name of the band of any other frequency
          ZeroHz       \* the dial frequency before the first Status

Bands == Range(BandPlan)
Named == Bands \cup OtherBands
Dials == Named \cup {OffBand, ZeroHz}

ASSUME PlanAssumption ==
  /\ BandPlan \in Seq(Bands)
  /\ \A i, j \in DOMAIN BandPlan : BandPlan[i] = BandPlan[j] => i = j
  /\ FocusLists \subseteq Seq(Bands)
  /\ <<>> \in FocusLists
ASSUME NamesAssumption ==
  /\ OtherBands \cap Bands = {}
  /\ NoBand \notin Dials /\ OffBand \notin Named
  /\ ZeroHz \notin Named \cup {OffBand}

MachineStates == {"STOPPED", "STARTING", "MONITORING",
                  "TARGET_DECODED", "DEGRADED", "ERROR"}

VARIABLES
  machine,                 \* machine.current
  search,                  \* the SearchSession
  tune_in_progress,
  tunes,                   \* alignment workers and results not yet polled
  alarm_active,
  suppressed_target_band,
  current_band,            \* the band shown as current
  engine,                  \* engine.state: dial, tx, decoding
  session_band_enabled,    \* the set of enabled bands of the plan
  pskr_priority_bands,
  wsjtx_status_available,
  last_packet,             \* age of last_packet_utc: "none", "recent", "old"
  window                   \* "open", "confirming" (the close question), "closed"

search_vars == <<search, tune_in_progress, tunes>>
alert_vars  == <<alarm_active, suppressed_target_band>>
radio_vars  == <<engine, current_band, wsjtx_status_available, last_packet>>
plan_vars   == <<session_band_enabled, pskr_priority_bands>>
vars == <<machine, search_vars, alert_vars, radio_vars, plan_vars, window>>

Phases == {"running", "verified", "failed"}

TypeOK ==
  /\ machine \in MachineStates
  /\ search \in Sessions(Bands)
  /\ tune_in_progress \in BOOLEAN
  /\ tunes \subseteq [band : Bands, phase : Phases]
  /\ alarm_active \in BOOLEAN
  /\ suppressed_target_band \in Named \cup {NoBand}
  /\ current_band \in Named \cup {OffBand}
  /\ engine \in [dial : Dials, tx : BOOLEAN, decoding : BOOLEAN]
  /\ session_band_enabled \subseteq Bands
  /\ pskr_priority_bands \in FocusLists
  /\ wsjtx_status_available \in BOOLEAN
  /\ last_packet \in {"none", "recent", "old"}
  /\ window \in {"open", "confirming", "closed"}

FreshEngine == [dial |-> ZeroHz, tx |-> FALSE, decoding |-> FALSE]

Init ==
  /\ machine = "STOPPED"
  /\ search = NewSession
  /\ tune_in_progress = FALSE /\ tunes = {}
  /\ alarm_active = FALSE /\ suppressed_target_band = NoBand
  /\ current_band = OffBand
  /\ engine = FreshEngine
  /\ session_band_enabled \in SUBSET Bands
  /\ pskr_priority_bands = <<>>
  /\ wsjtx_status_available = FALSE
  /\ last_packet = "none"
  /\ window = "open"

-----------------------------------------------------------------------------
(* Helpers of the handlers.                                                *)

band_for_frequency(dial) == IF dial = ZeroHz THEN OffBand ELSE dial

SearchActive == search.state \in ActiveStates

\* _search_band_names: the focused bands that are enabled, in order of
\* priority, or every enabled band in the order of the plan.
AnyFocusedBands == Range(pskr_priority_bands)                     \* mutant
FocusedBands == Range(pskr_priority_bands) \cap session_band_enabled
SearchBands  == IF FocusedBands = {} THEN session_band_enabled ELSE FocusedBands
SearchOrder  == Position(IF FocusedBands = {} THEN BandPlan ELSE pskr_priority_bands)

\* The band a search starts from: the one the radio is on, or the first.
StartingBands ==
  LET here == band_for_frequency(engine.dial)
  IN  IF here \in SearchBands THEN {here} ELSE FirstOf(SearchBands, SearchOrder)

\* _start_tune, called with the session as its caller leaves it.
StartTune(session, band) ==
  /\ search' = IF ~tune_in_progress /\ engine.tx THEN HandToOperator(session) ELSE session
  /\ tune_in_progress' = (tune_in_progress \/ ~engine.tx)
  /\ tunes' = IF tune_in_progress \/ engine.tx THEN tunes
              ELSE tunes \cup {[band |-> band, phase |-> "running"]}

\* _set_current_band
SetCurrentBand(dial) ==
  /\ current_band' = band_for_frequency(dial)
  /\ suppressed_target_band' =
       IF suppressed_target_band = band_for_frequency(dial)
       THEN suppressed_target_band ELSE NoBand

\* The session after a Status that reports transmit, or its absence.
AfterStatusWhileSearching(tx) ==                                  \* mutant
  IF tx /\ search.state = "SEARCHING" THEN HandToOperator(search) ELSE search
AfterStatus(tx) ==
  IF tx /\ search.state # "STOPPED" THEN HandToOperator(search) ELSE search

\* The session after a verified alignment.
AfterTuneAlways(band) == TunedTo(search, band)                    \* mutant
AfterTune(band) == IF SearchActive THEN TunedTo(search, band)
                   ELSE [search EXCEPT !.current_band = band]

Operator == window = "open"       \* the close question is modal
Running  == window # "closed"     \* timers and the queue go on beneath it

(* When _update_controls enables a button.                                 *)

StopEnabledWhileTuning == machine # "STOPPED"                     \* mutant
StopEnabled == machine # "STOPPED" /\ ~tune_in_progress

InReceive == /\ machine \in {"MONITORING", "DEGRADED"}
             /\ engine.dial # ZeroHz /\ ~engine.tx

MonitorEnabledWhileTuning == InReceive /\ ~alarm_active           \* mutant
MonitorEnabled == InReceive /\ ~alarm_active /\ ~tune_in_progress

ResumeEnabledWhileAlerting ==                                     \* mutant
  /\ CanResume(search, engine.tx)
  /\ machine \notin {"STOPPED", "ERROR"} /\ ~tune_in_progress
ResumeEnabled ==
  /\ CanResume(search, engine.tx)
  /\ machine \notin {"STOPPED", "ERROR"}
  /\ ~alarm_active /\ ~tune_in_progress

-----------------------------------------------------------------------------
(* Buttons.                                                                *)

Start ==
  /\ Operator /\ machine \in {"STOPPED", "ERROR"}
  /\ machine' = "STARTING"
  /\ UNCHANGED <<search_vars, alert_vars, radio_vars, plan_vars, window>>

Stop ==
  /\ Operator /\ StopEnabled
  /\ machine' = "STOPPED"
  /\ search' = StopSession(search)
  /\ alarm_active' = FALSE /\ suppressed_target_band' = NoBand
  /\ pskr_priority_bands' = <<>>
  /\ wsjtx_status_available' = FALSE
  /\ UNCHANGED <<tune_in_progress, tunes, engine, current_band, last_packet,
                 session_band_enabled, window>>

Acknowledge ==
  /\ Operator /\ alarm_active
  /\ alarm_active' = FALSE
  /\ suppressed_target_band' =
       IF search.state = "TARGET_HOLD" THEN search.current_band
       ELSE IF current_band # OffBand THEN current_band
       ELSE suppressed_target_band
  /\ machine' = IF machine = "TARGET_DECODED" THEN "MONITORING" ELSE machine
  /\ UNCHANGED <<search_vars, radio_vars, plan_vars, window>>

\* search_action while the button reads "Pause search"
PauseSearch ==
  /\ Operator /\ SearchActive /\ ~tune_in_progress
  /\ search' = Pause(search)
  /\ UNCHANGED <<machine, tune_in_progress, tunes, alert_vars, radio_vars, plan_vars, window>>

\* _begin_search: "Start band search"
BeginSearch ==
  /\ Operator /\ search.state = "STOPPED" /\ InReceive
  /\ \E band \in StartingBands : StartTune(Begin(NewSession), band)
  /\ UNCHANGED <<machine, alert_vars, radio_vars, plan_vars, window>>

\* _resume_search: "Resume search"
ResumeSearch ==
  /\ Operator /\ ResumeEnabled
  /\ \E band \in IF search.state = "ERROR" THEN StartingBands
                  ELSE NextBand(search, SearchBands, SearchOrder) :
       StartTune(Begin(search), band)
  /\ UNCHANGED <<machine, alert_vars, radio_vars, plan_vars, window>>

\* monitor_selected_band
MonitorSelectedBand ==
  /\ Operator /\ MonitorEnabled
  /\ \E band \in session_band_enabled : StartTune(Begin(NewSession), band)
  /\ UNCHANGED <<machine, alert_vars, radio_vars, plan_vars, window>>

\* change_target, once the new call is saved: a new engine
ChangeTarget ==
  /\ Operator /\ machine = "STOPPED"
  /\ engine' = FreshEngine
  /\ alarm_active' = FALSE /\ suppressed_target_band' = NoBand
  /\ pskr_priority_bands' = <<>>
  /\ UNCHANGED <<machine, search_vars, current_band, wsjtx_status_available,
                 last_packet, session_band_enabled, window>>

\* toggle_selected_band, once the plan is saved
ToggleBand(band) ==
  /\ Operator /\ machine = "STOPPED"
  /\ session_band_enabled' = IF band \in session_band_enabled
                             THEN session_band_enabled \ {band}
                             ELSE session_band_enabled \cup {band}
  /\ IF band = current_band THEN SetCurrentBand(engine.dial)
     ELSE UNCHANGED <<current_band, suppressed_target_band>>
  /\ UNCHANGED <<machine, search_vars, alarm_active, engine, wsjtx_status_available,
                 last_packet, pskr_priority_bands, window>>

\* restore_default_frequencies; the frequencies themselves are not modelled
RestoreDefaultFrequencies ==
  /\ Operator /\ machine = "STOPPED" /\ current_band \in Bands
  /\ SetCurrentBand(engine.dial)
  /\ UNCHANGED <<machine, search_vars, alarm_active, engine, wsjtx_status_available,
                 last_packet, plan_vars, window>>

\* apply_psk_search_area, once the area is saved
ApplyPskSearchArea ==
  /\ Operator
  /\ pskr_priority_bands' = <<>>
  /\ UNCHANGED <<machine, search_vars, alert_vars, radio_vars,
                 session_band_enabled, window>>

\* close: refused during an alignment; asks first while monitoring
RequestClose ==
  /\ Operator /\ ~tune_in_progress
  /\ window' = IF machine = "STOPPED" THEN "closed" ELSE "confirming"
  /\ search' = IF machine = "STOPPED" THEN StopSession(search) ELSE search
  /\ UNCHANGED <<machine, tune_in_progress, tunes, alert_vars, radio_vars, plan_vars>>

ConfirmClose ==
  /\ window = "confirming"
  /\ window' = "closed"
  /\ search' = StopSession(search)
  /\ UNCHANGED <<machine, tune_in_progress, tunes, alert_vars, radio_vars, plan_vars>>

DeclineClose ==
  /\ window = "confirming"
  /\ window' = "open"
  /\ UNCHANGED <<machine, search_vars, alert_vars, radio_vars, plan_vars>>

-----------------------------------------------------------------------------
(* Timers.                                                                 *)

\* _search_tick, every 250 ms
SearchTick ==
  /\ Running
  /\ IF SearchActive /\ engine.tx
     THEN search' = HandToOperator(search) /\ UNCHANGED <<tune_in_progress, tunes>>
     ELSE /\ IsDue(search) /\ ~tune_in_progress /\ ~engine.decoding
          /\ IF SearchBands = {}
             THEN search' = Pause(search) /\ UNCHANGED <<tune_in_progress, tunes>>
             ELSE \E band \in NextBand(search, SearchBands, SearchOrder) :
                    IF band = search.current_band
                    THEN /\ search' = TunedTo(search, band)
                         /\ UNCHANGED <<tune_in_progress, tunes>>
                    ELSE StartTune(search, band)
  /\ UNCHANGED <<machine, alert_vars, radio_vars, plan_vars, window>>

\* _check_timeout, every second
CheckTimeout ==
  /\ Running /\ machine \in {"MONITORING", "TARGET_DECODED"} /\ last_packet = "old"
  /\ machine' = "DEGRADED"
  /\ UNCHANGED <<search_vars, alert_vars, radio_vars, plan_vars, window>>

\* The clock reaches the end of the dwell, or heartbeat_timeout_seconds.
DwellElapses ==
  /\ Running /\ search.deadline = "ahead"
  /\ search' = [search EXCEPT !.deadline = "passed"]
  /\ UNCHANGED <<machine, tune_in_progress, tunes, alert_vars, radio_vars, plan_vars, window>>

PacketAges ==
  /\ Running /\ last_packet = "recent"
  /\ last_packet' = "old"
  /\ UNCHANGED <<machine, search_vars, alert_vars, engine, current_band,
                 wsjtx_status_available, plan_vars, window>>

-----------------------------------------------------------------------------
(* The events queue: one message of _poll_events each.                     *)

AnyReceiverStarted ==                                             \* mutant
  /\ Running /\ machine # "MONITORING"
  /\ machine' = "MONITORING"
  /\ UNCHANGED <<search_vars, alert_vars, radio_vars, plan_vars, window>>
ReceiverStarted ==
  /\ Running /\ machine = "STARTING"
  /\ machine' = "MONITORING"
  /\ UNCHANGED <<search_vars, alert_vars, radio_vars, plan_vars, window>>

ReceiverError ==
  /\ Running /\ machine # "STOPPED"
  /\ machine' = "ERROR"
  /\ search' = IF search.state = "STOPPED" THEN search ELSE Fail(search)
  /\ UNCHANGED <<tune_in_progress, tunes, alert_vars, radio_vars, plan_vars, window>>

\* The head of _handle_packet: the state once the packet ends a silence.
Recovered == IF machine = "DEGRADED" THEN "MONITORING" ELSE machine

PacketArrives == Running /\ machine # "STOPPED" /\ last_packet' = "recent"

HandleStatus(dial, tx, decoding) ==
  /\ PacketArrives
  /\ engine' = [dial |-> dial, tx |-> tx, decoding |-> decoding]
  /\ machine' = Recovered
  /\ wsjtx_status_available' = TRUE
  /\ SetCurrentBand(dial)
  /\ search' = AfterStatus(tx)
  /\ UNCHANGED <<tune_in_progress, tunes, alarm_active, plan_vars, window>>

\* A new Decode whose sender is the target, on a band that is not suppressed.
HandleTargetDecode ==
  /\ PacketArrives
  /\ band_for_frequency(engine.dial) # suppressed_target_band
  /\ search' = IF SearchActive THEN HoldForTarget(search) ELSE search
  /\ machine' = IF Recovered \in {"MONITORING", "DEGRADED"} THEN "TARGET_DECODED"
                ELSE Recovered
  /\ alarm_active' = TRUE
  /\ UNCHANGED <<tune_in_progress, tunes, suppressed_target_band, engine, current_band,
                 wsjtx_status_available, plan_vars, window>>

\* A Heartbeat, or a Decode that is old, of another station or suppressed.
HandleOtherPacket ==
  /\ PacketArrives
  /\ machine' = Recovered
  /\ UNCHANGED <<search_vars, alert_vars, engine, current_band,
                 wsjtx_status_available, plan_vars, window>>

HandleTuneResult(tune) ==
  /\ Running /\ tune.phase # "running"
  /\ tunes' = tunes \ {tune}
  /\ tune_in_progress' = FALSE
  /\ IF tune.phase = "failed"
     THEN search' = Fail(search) /\ UNCHANGED suppressed_target_band
     ELSE /\ search' = AfterTune(tune.band)
          /\ suppressed_target_band' = IF tune.band = suppressed_target_band
                                       THEN suppressed_target_band ELSE NoBand
  /\ UNCHANGED <<machine, alarm_active, radio_vars, plan_vars, window>>

\* _handle_pskr_result for the target and area of now; others change nothing.
\* An error brings the empty list.
HandlePskrResult(priorities) ==
  /\ Running /\ machine # "STOPPED"
  /\ pskr_priority_bands' = priorities
  /\ UNCHANGED <<machine, search_vars, alert_vars, radio_vars,
                 session_band_enabled, window>>

-----------------------------------------------------------------------------
(* The alignment worker thread: OmniRigClient.align returns or raises.     *)

AlignReturnsOrDies(tune) ==                                       \* mutant
  /\ tune.phase = "running"
  /\ \E left \in {{}, {[tune EXCEPT !.phase = "verified"]}} :
       tunes' = (tunes \ {tune}) \cup left
  /\ UNCHANGED <<machine, search, tune_in_progress, alert_vars, radio_vars,
                 plan_vars, window>>
AlignReturns(tune) ==
  /\ tune.phase = "running"
  /\ \E outcome \in {"verified", "failed"} :
       tunes' = (tunes \ {tune}) \cup {[tune EXCEPT !.phase = outcome]}
  /\ UNCHANGED <<machine, search, tune_in_progress, alert_vars, radio_vars,
                 plan_vars, window>>

Closed == window = "closed" /\ UNCHANGED vars

Next ==
  \/ Start \/ Stop \/ Acknowledge
  \/ PauseSearch \/ BeginSearch \/ ResumeSearch \/ MonitorSelectedBand
  \/ ChangeTarget \/ RestoreDefaultFrequencies \/ ApplyPskSearchArea
  \/ \E band \in Bands : ToggleBand(band)
  \/ RequestClose \/ ConfirmClose \/ DeclineClose \/ Closed
  \/ SearchTick \/ CheckTimeout \/ DwellElapses \/ PacketAges
  \/ ReceiverStarted \/ ReceiverError
  \/ \E dial \in Dials, tx, decoding \in BOOLEAN : HandleStatus(dial, tx, decoding)
  \/ HandleTargetDecode \/ HandleOtherPacket
  \/ \E tune \in tunes : HandleTuneResult(tune) \/ AlignReturns(tune)
  \/ \E priorities \in FocusLists : HandlePskrResult(priorities)

\* Timers recur, the queue is polled every 100 ms, time passes, and the bridge
\* process is killed after 12 s: each of these steps happens if it stays enabled.
\* The search timer comes every 250 ms and the pauses between WSJT-X's decoding
\* last for seconds: one that recurs is met by a tick (dashboard.py:619, 635).
Fairness ==
  /\ SF_vars(SearchTick) /\ WF_vars(CheckTimeout)
  /\ WF_vars(DwellElapses) /\ WF_vars(PacketAges)
  /\ WF_vars(\E tune \in tunes : AlignReturns(tune))
  /\ WF_vars(\E tune \in tunes : HandleTuneResult(tune))

Spec     == Init /\ [][Next]_vars
FairSpec == Spec /\ Fairness

-----------------------------------------------------------------------------
(* Safety.                                                                 *)

\* The flag that gates Stop, Pause, Resume and close (dashboard.py:548, 1418,
\* 1470, 1481, 1491) is up exactly while one alignment is with its worker or
\* its result is in the queue: no alignment is forgotten, no second one started.
OneAlignment ==
  /\ tune_in_progress <=> tunes # {}
  /\ \A one, other \in tunes : one = other

\* A search that shows "Aligning A and B" always has the alignment that will end
\* it: STARTING is left by a result (dashboard.py:591) or by a hold, by nothing
\* else, and "Pause search" is disabled until then.
StartingIsAligning == search.state = "STARTING" => tune_in_progress

\* Stopped is the state in which the operator edits target, band plan and
\* frequencies (dashboard.py:638, 742, 798, 878): no search, no alignment and no
\* unacknowledged alert survives into it.  And while no search has begun no
\* alignment is about whose result a new search could take for its own.
StoppedIsQuiet ==
  /\ machine = "STOPPED" => search.state = "STOPPED" /\ tunes = {} /\ ~alarm_active
  /\ search.state = "STOPPED" /\ window # "closed" => ~tune_in_progress

\* The VFOs go only to bands enabled for the attached antenna, whatever focus a
\* stale PSK Reporter result brings (dashboard.py:434, 511), and a running dwell
\* is on such a band.
OnlyEnabledBands ==
  /\ \A tune \in tunes : tune.band \in session_band_enabled
  /\ search.state = "SEARCHING" => search.current_band \in session_band_enabled

\* "Target decoded" stands for an alert the operator has still to acknowledge,
\* and the search stays held until then, even if an alignment ends meanwhile
\* (dashboard.py:591, 1372-1379).
TargetDecodedHolds ==
  machine = "TARGET_DECODED" => alarm_active /\ ~SearchActive

\* WSJT-X reporting transmit and an active search exclude each other
\* (dashboard.py:464, 532, 604, 1334).
SearchYieldsToTx == SearchActive => ~engine.tx

\* A search that was paused, held, handed over or failed becomes active again
\* only with transmit off, the alert acknowledged, monitoring alive and no old
\* alignment about, and by requesting a new alignment: never because the result
\* of an old one, or the end of a transmission, arrives (RELEASE_NOTES.md:254).
ResumeIsExplicit ==
  [][search.state \in ResumableStates /\ SearchActive' =>
       /\ ~engine.tx /\ ~alarm_active /\ machine \notin {"STOPPED", "ERROR"}
       /\ search'.state = "STARTING"
       /\ ~tune_in_progress /\ tune_in_progress']_vars

\* The dashboard only ever asks StateMachine for transitions it allows: no
\* handler is cut short by its ValueError (state.py:40).
LifeCycle == INSTANCE AppState WITH current <- machine
LifeCycleKept == LifeCycle!Spec

\* The operator owns the VFOs unless a search is active: see VfoControl.
Control == INSTANCE VfoControl WITH
             owner    <- IF SearchActive THEN "assistant" ELSE "operator",
             tx       <- engine.tx,
             aligning <- tune_in_progress
OwnershipKept == Control!Spec

-----------------------------------------------------------------------------
(* Progress, under Fairness.                                               *)

\* The buttons an alignment disables come back: every alignment ends in a
\* handled result, unless the window was closed over it.
AlignmentSettles == tune_in_progress ~> (~tune_in_progress \/ window = "closed")

\* An active search on the full plan visits every enabled band again and again,
\* though WSJT-X keeps putting hops off by decoding, as long as the decoding always
\* comes to an end, nothing ends the search and "Monitor selected band" is left
\* alone (dashboard.py:616-628).
Undisturbed == SearchActive /\ pskr_priority_bands = <<>>
RoundRobin ==
  <>[]Undisturbed /\ []<>~engine.decoding /\ <>[][~MonitorSelectedBand]_vars
    => \A band \in Bands :
         []<>(band \in session_band_enabled => search.current_band = band)

-----------------------------------------------------------------------------
(* What the documents say and the code does not do.                        *)

\* "enters Degraded state and does not tune" (OPERATOR_ACCEPTANCE_TEST.md:76):
\* a running search does not start a hop while WSJT-X is silent.
DegradedDoesNotTune ==
  [][machine = "DEGRADED" /\ search.state = "SEARCHING" /\ search'.state = "SEARCHING"
       => (tune_in_progress' => tune_in_progress)]_vars

\* "Start WSJT-X monitoring and wait for its status before starting the band
\* search." (dashboard.py:453): a search starts on a Status of this monitoring.
SearchStartsOnLiveStatus ==
  [][search.state = "STOPPED" /\ SearchActive' => wsjtx_status_available]_vars

\* "Wait for the current OmniRig alignment to finish before closing."
\* (dashboard.py:1494): the window does not close over an alignment.
CloseWaitsForAlignment ==
  [][window # "closed" /\ window' = "closed" => ~tune_in_progress]_vars
=============================================================================
