--------------------------- MODULE BandSearchProofs ---------------------------
(***************************************************************************)
(* Proofs about BandSearch and BandRotation, for every band plan, every set*)
(* of other bands and every focus PSK Reporter may bring.                  *)
(***************************************************************************)
EXTENDS BandRotation, SequenceTheorems, FiniteSetTheorems, TLAPS

-----------------------------------------------------------------------------
(* The choices of the search stay among the bands it is given.             *)

\* next_band and the band a search starts from are enabled bands
\* (hopping.py:44-50, dashboard.py:432-435, 477-478).
LEMMA ChosenBandsEnabled ==
  /\ StartingBands \subseteq session_band_enabled
  /\ NextBand(search, SearchBands, SearchOrder) \subseteq session_band_enabled
<1>1. SearchBands \subseteq session_band_enabled
  BY DEF SearchBands, FocusedBands
<1>2. \A bands, position : FirstOf(bands, position) \subseteq bands
  BY DEF FirstOf
<1>3. StartingBands \subseteq session_band_enabled
  BY <1>1, <1>2 DEF StartingBands
<1>4. NextBand(search, SearchBands, SearchOrder) \subseteq SearchBands
  <2> DEFINE later == {band \in SearchBands :
                         /\ search.current_band \in SearchBands
                         /\ SearchOrder[band] > SearchOrder[search.current_band]}
  <2>1. NextBand(search, SearchBands, SearchOrder)
          = FirstOf(IF later = {} THEN SearchBands ELSE later, SearchOrder)
    BY DEF NextBand
  <2> QED BY <1>2, <2>1
<1> QED BY <1>1, <1>3, <1>4

-----------------------------------------------------------------------------
(* Type correctness.                                                       *)

\* The session operators keep a session a session.
LEMMA SessionTypes ==
  ASSUME NEW session \in Sessions(Bands)
  PROVE  /\ NewSession \in Sessions(Bands)
         /\ \A state \in SearchStates : Without(session, state) \in Sessions(Bands)
         /\ \A band \in Bands :
              /\ TunedTo(session, band) \in Sessions(Bands)
              /\ [session EXCEPT !.current_band = band] \in Sessions(Bands)
         /\ [session EXCEPT !.deadline = "passed"] \in Sessions(Bands)
  BY DEF Sessions, SearchStates, Deadlines, NewSession, Without, TunedTo

\* _start_tune, called for a band of the plan with a proper session.
LEMMA StartTuneTypes ==
  ASSUME TypeOK, NEW session \in Sessions(Bands), NEW band \in Bands,
         StartTune(session, band)
  PROVE  /\ search' \in Sessions(Bands)
         /\ tune_in_progress' \in BOOLEAN
         /\ tunes' \subseteq [band : Bands, phase : Phases]
<1>1. [band |-> band, phase |-> "running"] \in [band : Bands, phase : Phases]
  BY DEF Phases
<1>2. HandToOperator(session) \in Sessions(Bands)
  BY SessionTypes DEF HandToOperator, SearchStates
<1> QED BY <1>1, <1>2 DEF StartTune, TypeOK

\* _set_current_band, called with the dial frequency of a Status or of the engine.
LEMMA SetCurrentBandTypes ==
  ASSUME TypeOK, NEW dial \in Dials, SetCurrentBand(dial)
  PROVE  /\ current_band' \in Named \cup {OffBand}
         /\ suppressed_target_band' \in Named \cup {NoBand}
  BY DEF TypeOK, SetCurrentBand, band_for_frequency, Dials

\* The dashboard as __init__ leaves it.
LEMMA InitTypes == Init => TypeOK
<1>1. NewSession \in Sessions(Bands)
  BY DEF NewSession, Sessions, SearchStates, Deadlines
<1>2. FreshEngine \in [dial : Dials, tx : BOOLEAN, decoding : BOOLEAN]
  BY DEF FreshEngine, Dials
<1> QED
  BY <1>1, <1>2, PlanAssumption DEF Init, TypeOK, MachineStates, PlanAssumption

\* Every variable of the dashboard keeps its range, whatever is clicked, arrives
\* or times out.
THEOREM TypeCorrect == Spec => []TypeOK
<1>1. Init => TypeOK
  BY InitTypes
<1>2. TypeOK /\ [Next]_vars => TypeOK'
  <2> SUFFICES ASSUME TypeOK, [Next]_vars PROVE TypeOK'
    OBVIOUS
  <2> USE DEF TypeOK, search_vars, alert_vars, radio_vars, plan_vars
  <2>0. session_band_enabled \subseteq Bands /\ search \in Sessions(Bands)
    OBVIOUS
  <2>b. \A session \in Sessions(Bands) :
          /\ Pause(session) \in Sessions(Bands) /\ HoldForTarget(session) \in Sessions(Bands)
          /\ StopSession(session) \in Sessions(Bands) /\ Fail(session) \in Sessions(Bands)
          /\ Begin(session) \in Sessions(Bands) /\ HandToOperator(session) \in Sessions(Bands)
    BY SessionTypes
    DEF Pause, HoldForTarget, StopSession, Fail, Begin, HandToOperator, SearchStates
  <2>c. Begin(NewSession) \in Sessions(Bands)
    BY <2>0, <2>b, SessionTypes
  <2>1. CASE Start
    BY <2>1 DEF Start, MachineStates
  <2>2. CASE Stop
    BY <2>2, <2>b, PlanAssumption DEF Stop, MachineStates, PlanAssumption, StopEnabled
  <2>3. CASE Acknowledge
    <3>1. search.current_band \in Bands \cup {NoBand}
      BY DEF Sessions
    <3> QED BY <2>3, <3>1 DEF Acknowledge, MachineStates, Named
  <2>4. CASE PauseSearch
    BY <2>4, <2>b DEF PauseSearch
  <2>5. CASE BeginSearch
    <3>1. PICK band \in StartingBands : StartTune(Begin(NewSession), band)
      BY <2>5 DEF BeginSearch, InReceive
    <3>2. band \in Bands
      BY <3>1, <2>0, ChosenBandsEnabled
    <3> QED BY <2>5, <3>1, <3>2, <2>c, StartTuneTypes DEF BeginSearch, InReceive
  <2>6. CASE ResumeSearch
    <3>1. PICK band \in session_band_enabled : StartTune(Begin(search), band)
      BY <2>6, ChosenBandsEnabled DEF ResumeSearch, ResumeEnabled
    <3> QED BY <2>6, <3>1, <2>0, <2>b, StartTuneTypes DEF ResumeSearch, ResumeEnabled
  <2>7. CASE MonitorSelectedBand
    <3>1. PICK band \in session_band_enabled : StartTune(Begin(NewSession), band)
      BY <2>7 DEF MonitorSelectedBand, MonitorEnabled, InReceive
    <3> QED BY <2>7, <3>1, <2>0, <2>c, StartTuneTypes DEF MonitorSelectedBand, MonitorEnabled, InReceive
  <2>8. CASE ChangeTarget
    BY <2>8, PlanAssumption DEF ChangeTarget, FreshEngine, Dials, PlanAssumption
  <2>9. CASE RestoreDefaultFrequencies
    BY <2>9, SetCurrentBandTypes DEF RestoreDefaultFrequencies
  <2>10. CASE ApplyPskSearchArea
    BY <2>10, PlanAssumption DEF ApplyPskSearchArea, PlanAssumption
  <2>11. ASSUME NEW band \in Bands, ToggleBand(band) PROVE TypeOK'
    BY <2>11, SetCurrentBandTypes DEF ToggleBand
  <2>12. CASE RequestClose \/ ConfirmClose \/ DeclineClose \/ Closed
    BY <2>12, <2>b DEF RequestClose, ConfirmClose, DeclineClose, Closed, vars
  <2>13. CASE SearchTick
    <3>1. CASE UNCHANGED <<tune_in_progress, tunes>> /\ search' \in Sessions(Bands)
      BY <2>13, <3>1 DEF SearchTick
    <3>2. ASSUME NEW band \in session_band_enabled, StartTune(search, band)
          PROVE  TypeOK'
      BY <2>13, <3>2, <2>0, StartTuneTypes DEF SearchTick
    <3>3. \A band \in session_band_enabled : TunedTo(search, band) \in Sessions(Bands)
      BY <2>0, SessionTypes
    <3> QED BY <2>13, <2>0, <2>b, <3>1, <3>2, <3>3, ChosenBandsEnabled DEF SearchTick
  <2>14. CASE CheckTimeout \/ PacketAges \/ ReceiverStarted
    BY <2>14 DEF CheckTimeout, PacketAges, ReceiverStarted, MachineStates
  <2>15. CASE DwellElapses
    BY <2>15, SessionTypes DEF DwellElapses
  <2>16. CASE ReceiverError
    BY <2>16, <2>b DEF ReceiverError, MachineStates
  <2>17. ASSUME NEW dial \in Dials, NEW tx \in BOOLEAN, NEW decoding \in BOOLEAN,
                HandleStatus(dial, tx, decoding)
         PROVE  TypeOK'
    <3>1. Recovered \in MachineStates
      BY DEF Recovered, MachineStates
    <3> QED BY <2>17, <3>1, <2>b, SetCurrentBandTypes DEF HandleStatus, PacketArrives, AfterStatus
  <2>18. CASE HandleTargetDecode \/ HandleOtherPacket
    BY <2>18, <2>b
    DEF HandleTargetDecode, HandleOtherPacket, PacketArrives, Recovered, MachineStates
  <2>19. ASSUME NEW tune \in tunes, HandleTuneResult(tune) PROVE TypeOK'
    <3>1. tune.band \in Bands
      OBVIOUS
    <3>2. search' \in Sessions(Bands)
      BY <2>19, <3>1, <2>b, SessionTypes DEF HandleTuneResult, AfterTune
    <3> QED BY <2>19, <3>2 DEF HandleTuneResult, AfterTune
  <2>20. ASSUME NEW tune \in tunes, AlignReturns(tune) PROVE TypeOK'
    BY <2>20 DEF AlignReturns, Phases
  <2>21. ASSUME NEW priorities \in FocusLists, HandlePskrResult(priorities) PROVE TypeOK'
    BY <2>21 DEF HandlePskrResult
  <2>22. CASE UNCHANGED vars
    BY <2>22 DEF vars
  <2> QED
    BY <2>1, <2>2, <2>3, <2>4, <2>5, <2>6, <2>7, <2>8, <2>9, <2>10, <2>11, <2>12,
       <2>13, <2>14, <2>15, <2>16, <2>17, <2>18, <2>19, <2>20, <2>21, <2>22 DEF Next
<1> QED BY <1>1, <1>2, PTL DEF Spec

-----------------------------------------------------------------------------
(* The inductive invariant: none of its parts survives a step without the  *)
(* others.  OneAlignment rules out a second alignment because the search   *)
(* that asks for it would have to be STOPPED or SEARCHING with none in     *)
(* flight; StoppedIsQuiet lets the operator edit the plan without leaving  *)
(* an alignment on a disabled band; and so on round.                       *)

SafetyParts == /\ OneAlignment /\ StartingIsAligning /\ StoppedIsQuiet
               /\ OnlyEnabledBands /\ TargetDecodedHolds /\ SearchYieldsToTx

IInv == TypeOK /\ SafetyParts

\* What starting an alignment does when none is in flight and WSJT-X is receiving:
\* every caller but the unreachable branches of _start_tune (dashboard.py:548-554).
LEMMA StartTuneEffect ==
  ASSUME OneAlignment, ~tune_in_progress, ~engine.tx,
         NEW session, NEW band, StartTune(session, band)
  PROVE  /\ search' = session /\ tune_in_progress' = TRUE
         /\ tunes = {} /\ tunes' = {[band |-> band, phase |-> "running"]}
  BY DEF StartTune, OneAlignment

\* An alignment started for an enabled band by a search that is SEARCHING or just
\* begun keeps the invariant.
LEMMA StartTuneSafe ==
  ASSUME IInv, ~tune_in_progress, ~engine.tx, machine \notin {"STOPPED", "TARGET_DECODED"},
         NEW session \in Sessions(Bands), NEW band \in session_band_enabled,
         \/ session.state = "STARTING"
         \/ session.state = "SEARCHING" /\ session.current_band \in session_band_enabled,
         StartTune(session, band),
         UNCHANGED <<machine, alert_vars, radio_vars, plan_vars>>
  PROVE  SafetyParts'
<1>1. /\ search' = session /\ tune_in_progress' = TRUE
      /\ tunes' = {[band |-> band, phase |-> "running"]}
  BY StartTuneEffect DEF IInv, SafetyParts
<1>2. OneAlignment' /\ StartingIsAligning'
  BY <1>1 DEF OneAlignment, StartingIsAligning
<1>3. StoppedIsQuiet' /\ TargetDecodedHolds'
  BY <1>1 DEF StoppedIsQuiet, TargetDecodedHolds
<1>4. OnlyEnabledBands'
  BY <1>1 DEF OnlyEnabledBands, plan_vars
<1>5. SearchYieldsToTx'
  BY <1>1 DEF SearchYieldsToTx, radio_vars
<1> QED BY <1>2, <1>3, <1>4, <1>5 DEF SafetyParts

\* Steps that leave search, alignments and transmit state alone.
LEMMA SearchUntouched ==
  ASSUME IInv, UNCHANGED <<search, tune_in_progress, tunes, session_band_enabled>>,
         UNCHANGED <<engine, window>>, StoppedIsQuiet', TargetDecodedHolds'
  PROVE  SafetyParts'
  BY DEF IInv, SafetyParts, OneAlignment, StartingIsAligning, OnlyEnabledBands,
         SearchYieldsToTx, SearchActive

\* Steps that end the activity of the search, alignments and plan unchanged.
LEMMA SearchQuietened ==
  ASSUME IInv, UNCHANGED <<tune_in_progress, tunes, session_band_enabled>>,
         ~SearchActive', StoppedIsQuiet', machine' = "TARGET_DECODED" => alarm_active'
  PROVE  SafetyParts'
  BY DEF IInv, SafetyParts, OneAlignment, StartingIsAligning, OnlyEnabledBands,
         SearchYieldsToTx, SearchActive, ActiveStates, TargetDecodedHolds

\* Every step of the dashboard, of WSJT-X and of the worker keeps the invariant.
LEMMA InvariantKept == IInv /\ TypeOK' /\ [Next]_vars => IInv'
<1> SUFFICES ASSUME IInv, TypeOK', [Next]_vars PROVE SafetyParts'
  BY DEF IInv
<1> USE DEF search_vars, alert_vars, radio_vars, plan_vars
<1>a. /\ OneAlignment /\ StartingIsAligning /\ StoppedIsQuiet
      /\ OnlyEnabledBands /\ TargetDecodedHolds /\ SearchYieldsToTx
  BY DEF IInv, SafetyParts
<1>b. search \in Sessions(Bands) /\ session_band_enabled \subseteq Bands
  BY DEF IInv, TypeOK
<1>c. \A session, state : Without(session, state)
                            = [session EXCEPT !.state = state, !.deadline = "none"]
  BY DEF Without
<1>d. /\ Begin(NewSession) \in Sessions(Bands) /\ Begin(NewSession).state = "STARTING"
      /\ Begin(search) \in Sessions(Bands) /\ Begin(search).state = "STARTING"
  BY <1>b DEF Begin, Without, NewSession, Sessions, SearchStates, Deadlines
<1>e. /\ Pause(search).state = "PAUSED" /\ HoldForTarget(search).state = "TARGET_HOLD"
      /\ StopSession(search).state = "STOPPED" /\ Fail(search).state = "ERROR"
      /\ HandToOperator(search).state = "OPERATOR_CONTROL"
  BY <1>b DEF Pause, HoldForTarget, StopSession, Fail, HandToOperator, Without, Sessions
<1>1. CASE Start
  BY <1>1, <1>a, SearchUntouched DEF Start, StoppedIsQuiet, TargetDecodedHolds
<1>2. CASE Stop
  <2>1. tunes = {} /\ tunes' = {}
    BY <1>2, <1>a DEF Stop, OneAlignment, StopEnabled
  <2>2. ~SearchActive' /\ StoppedIsQuiet'
    BY <1>2, <1>e, <2>1 DEF Stop, StoppedIsQuiet, SearchActive, ActiveStates, StopEnabled
  <2> QED BY <1>2, <2>2, SearchQuietened DEF Stop, StopEnabled
<1>3. CASE Acknowledge
  <2>1. StoppedIsQuiet' /\ TargetDecodedHolds'
    BY <1>3, <1>a DEF Acknowledge, StoppedIsQuiet, TargetDecodedHolds, SearchActive
  <2> QED BY <1>3, <2>1, SearchUntouched DEF Acknowledge
<1>4. CASE PauseSearch
  <2>1. ~SearchActive' /\ StoppedIsQuiet'
    BY <1>4, <1>a, <1>e DEF PauseSearch, StoppedIsQuiet, SearchActive, ActiveStates
  <2> QED BY <1>4, <1>a, <2>1, SearchQuietened DEF PauseSearch, TargetDecodedHolds
<1>5. CASE BeginSearch
  <2>1. PICK band \in session_band_enabled : StartTune(Begin(NewSession), band)
    BY <1>5, ChosenBandsEnabled DEF BeginSearch, InReceive
  <2>2. ~tune_in_progress
    BY <1>5, <1>a DEF BeginSearch, Operator, StoppedIsQuiet, InReceive
  <2>3. /\ ~tune_in_progress /\ ~engine.tx /\ machine \notin {"STOPPED", "TARGET_DECODED"}
        /\ UNCHANGED <<machine, alert_vars, radio_vars, plan_vars>>
    BY <1>5, <2>2 DEF BeginSearch, InReceive
  <2> QED BY <1>d, <2>1, <2>3, StartTuneSafe
<1>6. CASE ResumeSearch
  <2>1. PICK band \in session_band_enabled : StartTune(Begin(search), band)
    BY <1>6, ChosenBandsEnabled DEF ResumeSearch, ResumeEnabled
  <2>2. machine \notin {"STOPPED", "TARGET_DECODED"} /\ ~engine.tx
    BY <1>6, <1>a DEF ResumeSearch, TargetDecodedHolds, CanResume, ResumeEnabled
  <2>3. /\ ~tune_in_progress /\ ~engine.tx /\ machine \notin {"STOPPED", "TARGET_DECODED"}
        /\ UNCHANGED <<machine, alert_vars, radio_vars, plan_vars>>
    BY <1>6, <2>2 DEF ResumeSearch, ResumeEnabled
  <2> QED BY <1>d, <2>1, <2>3, StartTuneSafe
<1>7. CASE MonitorSelectedBand
  <2>1. PICK band \in session_band_enabled : StartTune(Begin(NewSession), band)
    BY <1>7 DEF MonitorSelectedBand, MonitorEnabled, InReceive
  <2>3. /\ ~tune_in_progress /\ ~engine.tx /\ machine \notin {"STOPPED", "TARGET_DECODED"}
        /\ UNCHANGED <<machine, alert_vars, radio_vars, plan_vars>>
    BY <1>7 DEF MonitorSelectedBand, MonitorEnabled, InReceive
  <2> QED BY <1>d, <2>1, <2>3, StartTuneSafe
<1>8. CASE ChangeTarget
  <2>1. search.state = "STOPPED" /\ ~SearchActive' /\ StoppedIsQuiet'
    BY <1>8, <1>a DEF ChangeTarget, StoppedIsQuiet, SearchActive, ActiveStates
  <2> QED BY <1>8, <2>1, SearchQuietened DEF ChangeTarget
<1>9. CASE RestoreDefaultFrequencies \/ ApplyPskSearchArea
  BY <1>9, <1>a, SearchUntouched
  DEF RestoreDefaultFrequencies, ApplyPskSearchArea, StoppedIsQuiet,
      TargetDecodedHolds, SearchActive
<1>10. ASSUME NEW band \in Bands, ToggleBand(band) PROVE SafetyParts'
  <2>1. search.state = "STOPPED" /\ tunes = {} /\ ~alarm_active
    BY <1>10, <1>a DEF ToggleBand, StoppedIsQuiet
  <2>2. UNCHANGED <<machine, search, tune_in_progress, tunes, alarm_active, engine, window>>
    BY <1>10 DEF ToggleBand
  <2>3. OneAlignment' /\ StartingIsAligning' /\ StoppedIsQuiet'
    BY <1>a, <2>2 DEF OneAlignment, StartingIsAligning, StoppedIsQuiet
  <2>4. OnlyEnabledBands' /\ TargetDecodedHolds' /\ SearchYieldsToTx'
    BY <1>a, <2>1, <2>2
    DEF OnlyEnabledBands, TargetDecodedHolds, SearchYieldsToTx, SearchActive
  <2> QED BY <2>3, <2>4 DEF SafetyParts
<1>11. CASE RequestClose
  <2>1. CASE machine = "STOPPED"
    <3>1. ~SearchActive' /\ StoppedIsQuiet'
      BY <1>11, <1>a, <1>e, <2>1
      DEF RequestClose, StoppedIsQuiet, SearchActive, ActiveStates
    <3> QED BY <1>11, <2>1, <3>1, SearchQuietened DEF RequestClose
  <2>2. CASE machine # "STOPPED"
    <3>1. UNCHANGED <<search, tune_in_progress, tunes, alarm_active, machine, engine,
                      session_band_enabled>> /\ window' # "closed" /\ window # "closed"
      BY <1>11, <2>2 DEF RequestClose, Operator
    <3> QED BY <1>a, <3>1
            DEF SafetyParts, OneAlignment, StartingIsAligning, StoppedIsQuiet,
                OnlyEnabledBands, TargetDecodedHolds, SearchYieldsToTx, SearchActive
  <2> QED BY <2>1, <2>2
<1>12. CASE ConfirmClose
  <2>1. ~SearchActive' /\ StoppedIsQuiet'
    BY <1>12, <1>a, <1>e DEF ConfirmClose, StoppedIsQuiet, SearchActive, ActiveStates
  <2> QED BY <1>12, <1>a, <2>1, SearchQuietened DEF ConfirmClose, TargetDecodedHolds
<1>13. CASE DeclineClose
  <2>1. UNCHANGED <<search, tune_in_progress, tunes, alarm_active, machine, engine,
                    session_band_enabled>> /\ window # "closed" /\ window' # "closed"
    BY <1>13 DEF DeclineClose
  <2> QED BY <1>a, <2>1
          DEF SafetyParts, OneAlignment, StartingIsAligning, StoppedIsQuiet,
              OnlyEnabledBands, TargetDecodedHolds, SearchYieldsToTx, SearchActive
<1>14. CASE SearchTick
  <2>0. ~(SearchActive /\ engine.tx)
    BY <1>a DEF SearchYieldsToTx
  <2>1. /\ IsDue(search) /\ ~tune_in_progress
        /\ search.state = "SEARCHING" /\ SearchActive /\ ~engine.tx
    BY <1>14, <2>0, <1>a DEF SearchTick, IsDue, SearchActive, ActiveStates, SearchYieldsToTx
  <2>2. /\ UNCHANGED <<machine, alert_vars, radio_vars, plan_vars, window>>
        /\ machine \notin {"STOPPED", "TARGET_DECODED"}
    BY <1>14, <1>a, <2>1 DEF SearchTick, StoppedIsQuiet, TargetDecodedHolds
  <2>3. CASE search' = Pause(search) /\ UNCHANGED <<tune_in_progress, tunes>>
    <3>1. ~SearchActive' /\ StoppedIsQuiet'
      BY <1>a, <1>e, <2>2, <2>3 DEF StoppedIsQuiet, SearchActive, ActiveStates
    <3> QED BY <1>a, <2>2, <2>3, <3>1, SearchQuietened DEF TargetDecodedHolds
  <2>4. ASSUME NEW band \in session_band_enabled,
               search' = TunedTo(search, band), UNCHANGED <<tune_in_progress, tunes>>
        PROVE  SafetyParts'
    <3>1. search'.state = "SEARCHING" /\ search'.current_band \in session_band_enabled
      BY <2>4 DEF TunedTo
    <3> QED BY <1>a, <2>1, <2>2, <2>4, <3>1
            DEF SafetyParts, OneAlignment, StartingIsAligning, StoppedIsQuiet,
                OnlyEnabledBands, TargetDecodedHolds, SearchYieldsToTx, SearchActive
  <2>5. ASSUME NEW band \in session_band_enabled, StartTune(search, band)
        PROVE  SafetyParts'
    BY <1>a, <1>b, <2>1, <2>2, <2>5, StartTuneSafe DEF OnlyEnabledBands
  <2> QED BY <1>14, <2>0, <2>3, <2>4, <2>5, ChosenBandsEnabled DEF SearchTick
<1>15. CASE CheckTimeout \/ PacketAges \/ ReceiverStarted
  BY <1>15, <1>a, SearchUntouched
  DEF CheckTimeout, PacketAges, ReceiverStarted, StoppedIsQuiet, TargetDecodedHolds,
      SearchActive
<1>16. CASE DwellElapses
  <2>1. search'.state = search.state /\ search'.current_band = search.current_band
    BY <1>16, <1>b DEF DwellElapses, Sessions
  <2>2. UNCHANGED <<machine, tune_in_progress, tunes, alarm_active, engine, window,
                    session_band_enabled>>
    BY <1>16 DEF DwellElapses
  <2> QED BY <1>a, <2>1, <2>2
          DEF SafetyParts, OneAlignment, StartingIsAligning, StoppedIsQuiet,
              OnlyEnabledBands, TargetDecodedHolds, SearchYieldsToTx, SearchActive
<1>17. CASE ReceiverError
  <2>1. ~SearchActive' /\ StoppedIsQuiet'
    BY <1>17, <1>a, <1>e DEF ReceiverError, StoppedIsQuiet, SearchActive, ActiveStates
  <2> QED BY <1>17, <2>1, SearchQuietened DEF ReceiverError
<1>18. ASSUME NEW dial \in Dials, NEW tx \in BOOLEAN, NEW decoding \in BOOLEAN,
              HandleStatus(dial, tx, decoding)
       PROVE  SafetyParts'
  <2>0. machine # "STOPPED" /\ machine' # "STOPPED"
        /\ (machine' = "TARGET_DECODED" => machine = "TARGET_DECODED")
    BY <1>18 DEF HandleStatus, PacketArrives, Recovered, AfterStatus
  <2>1. UNCHANGED <<tune_in_progress, tunes, alarm_active, session_band_enabled, window>>
        /\ engine'.tx = tx
    BY <1>18 DEF HandleStatus, AfterStatus
  <2>2. CASE tx
    <3>1. ~SearchActive'
      BY <1>18, <2>2, <1>e DEF HandleStatus, SearchActive, ActiveStates, AfterStatus
    <3>2. StoppedIsQuiet'
      BY <1>18, <1>a, <1>e, <2>0, <2>1 DEF HandleStatus, StoppedIsQuiet, AfterStatus
    <3> QED BY <1>a, <2>0, <2>1, <3>1, <3>2, SearchQuietened DEF TargetDecodedHolds
  <2>3. CASE ~tx
    <3>1. search' = search
      BY <1>18, <2>3 DEF HandleStatus, AfterStatus
    <3> QED BY <1>a, <2>0, <2>1, <2>3, <3>1
            DEF SafetyParts, OneAlignment, StartingIsAligning, StoppedIsQuiet,
                OnlyEnabledBands, TargetDecodedHolds, SearchYieldsToTx, SearchActive
  <2> QED BY <2>2, <2>3
<1>19. CASE HandleTargetDecode
  <2>1. /\ UNCHANGED <<tune_in_progress, tunes, session_band_enabled, window>>
        /\ alarm_active' /\ machine' # "STOPPED"
    BY <1>19 DEF HandleTargetDecode, PacketArrives, Recovered
  <2>2. ~SearchActive' /\ StoppedIsQuiet'
    BY <1>19, <1>a, <1>e, <2>1
    DEF HandleTargetDecode, StoppedIsQuiet, SearchActive, ActiveStates
  <2> QED BY <2>1, <2>2, SearchQuietened
<1>20. CASE HandleOtherPacket
  BY <1>20, <1>a, SearchUntouched
  DEF HandleOtherPacket, PacketArrives, Recovered, StoppedIsQuiet, TargetDecodedHolds,
      SearchActive
<1>21. ASSUME NEW tune \in tunes, HandleTuneResult(tune) PROVE SafetyParts'
  <2>1. tunes' = {} /\ tune_in_progress' = FALSE
    BY <1>21, <1>a DEF HandleTuneResult, OneAlignment, AfterTune
  <2>2. UNCHANGED <<machine, alarm_active, engine, session_band_enabled, window>>
        /\ machine # "STOPPED"
    BY <1>21, <1>a DEF HandleTuneResult, StoppedIsQuiet, AfterTune
  <2>3. OneAlignment' /\ StoppedIsQuiet'
    BY <2>1, <2>2 DEF OneAlignment, StoppedIsQuiet
  <2>4. /\ SearchActive' => SearchActive
        /\ search'.state # "STARTING"
        /\ search'.state = "SEARCHING" => search'.current_band = tune.band
    BY <1>21, <1>b, <1>e
    DEF HandleTuneResult, SearchActive, ActiveStates, TunedTo, Sessions, AfterTune
  <2>5. StartingIsAligning' /\ TargetDecodedHolds' /\ SearchYieldsToTx'
    BY <1>a, <2>2, <2>4 DEF StartingIsAligning, TargetDecodedHolds, SearchYieldsToTx
  <2>6. OnlyEnabledBands'
    BY <1>21, <1>a, <2>1, <2>2, <2>4 DEF OnlyEnabledBands
  <2> QED BY <2>3, <2>5, <2>6 DEF SafetyParts
<1>22. ASSUME NEW tune \in tunes, AlignReturns(tune) PROVE SafetyParts'
  <2>1. tunes = {tune} /\ tune_in_progress
    BY <1>22, <1>a DEF OneAlignment
  <2>2. PICK outcome \in {"verified", "failed"} :
          tunes' = {[tune EXCEPT !.phase = outcome]}
    BY <1>22, <2>1 DEF AlignReturns
  <2>3. [tune EXCEPT !.phase = outcome].band = tune.band
    BY DEF IInv, TypeOK
  <2>4. UNCHANGED <<machine, search, tune_in_progress, alarm_active, engine,
                    session_band_enabled, window>>
    BY <1>22 DEF AlignReturns
  <2> QED BY <1>22, <1>a, <2>1, <2>2, <2>3, <2>4
          DEF SafetyParts, OneAlignment, StartingIsAligning, StoppedIsQuiet,
              OnlyEnabledBands, TargetDecodedHolds, SearchYieldsToTx, SearchActive
<1>23. ASSUME NEW priorities \in FocusLists, HandlePskrResult(priorities) PROVE SafetyParts'
  BY <1>23, <1>a, SearchUntouched
  DEF HandlePskrResult, StoppedIsQuiet, TargetDecodedHolds, SearchActive
<1>24. CASE UNCHANGED vars \/ Closed
  BY <1>24, <1>a, SearchUntouched
  DEF Closed, vars, StoppedIsQuiet, TargetDecodedHolds, SearchActive
<1> QED
  BY <1>1, <1>2, <1>3, <1>4, <1>5, <1>6, <1>7, <1>8, <1>9, <1>10, <1>11, <1>12, <1>13,
     <1>14, <1>15, <1>16, <1>17, <1>18, <1>19, <1>20, <1>21, <1>22, <1>23, <1>24 DEF Next

\* The conjunction holds in every reachable state.
LEMMA InvariantHolds == Spec => []IInv
<1>1. Init => IInv
  <2>1. Init => TypeOK
    BY InitTypes
  <2>2. Init => SafetyParts
    BY DEF Init, SafetyParts, OneAlignment, StartingIsAligning, StoppedIsQuiet,
           OnlyEnabledBands, TargetDecodedHolds, SearchYieldsToTx, SearchActive,
           ActiveStates, NewSession
  <2> QED BY <2>1, <2>2 DEF IInv
<1>2. IInv /\ TypeOK' /\ [Next]_vars => IInv'
  BY InvariantKept
<1> QED BY <1>1, <1>2, TypeCorrect, PTL DEF Spec

-----------------------------------------------------------------------------
(* The safety of the band search.                                          *)

\* There is at most one alignment, and the flag that disables Stop, Pause and close
\* says whether there is one (dashboard.py:547-571).
THEOREM SingleAlignment == Spec => []OneAlignment
<1>1. IInv => OneAlignment
  BY DEF IInv, SafetyParts
<1> QED BY <1>1, InvariantHolds, PTL

\* A search that shows Aligning has an alignment in flight that will end it
\* (dashboard.py:570-599).
THEOREM AligningIsReal == Spec => []StartingIsAligning
<1>1. IInv => StartingIsAligning
  BY DEF IInv, SafetyParts
<1> QED BY <1>1, InvariantHolds, PTL

\* No search, alignment or alert survives into Stopped, where target, plan and
\* frequencies are edited (dashboard.py:393-413, 1416-1420).
THEOREM StopIsQuiet == Spec => []StoppedIsQuiet
<1>1. IInv => StoppedIsQuiet
  BY DEF IInv, SafetyParts
<1> QED BY <1>1, InvariantHolds, PTL

\* Only enabled bands are tuned, whatever focus PSK Reporter brings
\* (dashboard.py:429-435, 511).
THEOREM TunesEnabledBands == Spec => []OnlyEnabledBands
<1>1. IInv => OnlyEnabledBands
  BY DEF IInv, SafetyParts
<1> QED BY <1>1, InvariantHolds, PTL

\* "Target decoded" holds the search until it is acknowledged, also over the result
\* of an alignment that was in flight (dashboard.py:591, 1372-1379).
THEOREM TargetHolds == Spec => []TargetDecodedHolds
<1>1. IInv => TargetDecodedHolds
  BY DEF IInv, SafetyParts
<1> QED BY <1>1, InvariantHolds, PTL

\* No search is active while WSJT-X reports transmit (dashboard.py:464, 532, 604,
\* 1334).
THEOREM TransmitExcludesSearch == Spec => []SearchYieldsToTx
<1>1. IInv => SearchYieldsToTx
  BY DEF IInv, SafetyParts
<1> QED BY <1>1, InvariantHolds, PTL

-----------------------------------------------------------------------------
(* What no step may do, and what the dashboard implements.                 *)

\* A search that is not active becomes active only by Start, Resume or Monitor
\* selected band, and then with an alignment of its own.
LEMMA OnlyButtonsActivate ==
  ASSUME IInv, [Next]_vars, ~SearchActive, SearchActive'
  PROVE  /\ BeginSearch \/ ResumeSearch \/ MonitorSelectedBand
         /\ search'.state = "STARTING"
         /\ ~tune_in_progress /\ tune_in_progress' /\ ~engine.tx
<1> USE DEF search_vars, alert_vars, radio_vars, plan_vars
<1>1. \A session \in Sessions(Bands) \cup {NewSession} : Begin(session).state = "STARTING"
  BY DEF Begin, Without, Sessions, NewSession
<1>2. search \in Sessions(Bands) /\ OneAlignment /\ StoppedIsQuiet
  BY DEF IInv, TypeOK, SafetyParts
<1>3. \A session : \A state \in SearchStates : session \in Sessions(Bands) =>
         Without(session, state).state = state
  BY DEF Without, Sessions
<1>4. BeginSearch \/ ResumeSearch \/ MonitorSelectedBand
  <2>1. ASSUME NEW tune \in tunes, HandleTuneResult(tune) PROVE FALSE
    BY <1>2, <1>3, <2>1
    DEF HandleTuneResult, Fail, SearchActive, ActiveStates, SearchStates, Sessions, AfterTune
  <2>2. ASSUME NEW dial, NEW tx, NEW decoding, HandleStatus(dial, tx, decoding) PROVE FALSE
    BY <1>2, <1>3, <2>2
    DEF HandleStatus, HandToOperator, SearchActive, ActiveStates, SearchStates, AfterStatus
  <2>3. ~SearchTick
    BY DEF SearchTick, IsDue, SearchActive, ActiveStates
  <2>4. ~DwellElapses
    BY <1>2 DEF DwellElapses, SearchActive, Sessions
  <2>5. ~Stop /\ ~PauseSearch /\ ~RequestClose /\ ~ConfirmClose /\ ~ReceiverError
    BY <1>2, <1>3
    DEF Stop, PauseSearch, RequestClose, ConfirmClose, ReceiverError, Pause, StopSession,
        Fail, SearchActive, ActiveStates, SearchStates, StopEnabled
  <2>6. ASSUME search' = search PROVE FALSE
    BY <2>6 DEF SearchActive
  <2>7. ASSUME NEW band, ToggleBand(band) PROVE FALSE
    BY <2>6, <2>7 DEF ToggleBand
  <2>8. ASSUME NEW tune, AlignReturns(tune) PROVE FALSE
    BY <2>6, <2>8 DEF AlignReturns
  <2>9. ASSUME NEW priorities, HandlePskrResult(priorities) PROVE FALSE
    BY <2>6, <2>9 DEF HandlePskrResult
  <2>10. ~Start /\ ~Acknowledge /\ ~ChangeTarget /\ ~RestoreDefaultFrequencies
         /\ ~ApplyPskSearchArea /\ ~DeclineClose /\ ~CheckTimeout /\ ~PacketAges
         /\ ~ReceiverStarted /\ ~HandleTargetDecode /\ ~HandleOtherPacket /\ ~Closed
    BY <2>6
    DEF Start, Acknowledge, ChangeTarget, RestoreDefaultFrequencies, ApplyPskSearchArea,
        DeclineClose, CheckTimeout, PacketAges, ReceiverStarted, HandleTargetDecode,
        HandleOtherPacket, Closed, vars
  <2> QED BY <2>1, <2>2, <2>3, <2>4, <2>5, <2>6, <2>7, <2>8, <2>9, <2>10 DEF Next, vars
<1>5. ~tune_in_progress /\ ~engine.tx
  BY <1>2, <1>4
  DEF BeginSearch, ResumeSearch, MonitorSelectedBand, CanResume, Operator, StoppedIsQuiet, InReceive, ResumeEnabled, MonitorEnabled
<1>6. \E band : StartTune(Begin(NewSession), band) \/ StartTune(Begin(search), band)
  BY <1>4 DEF BeginSearch, ResumeSearch, MonitorSelectedBand, InReceive, ResumeEnabled, MonitorEnabled
<1>7. search'.state = "STARTING" /\ tune_in_progress'
  BY <1>1, <1>2, <1>5, <1>6 DEF StartTune
<1> QED BY <1>4, <1>5, <1>7

\* A paused, held, handed-over or failed search is never revived by the result of
\* an old alignment or by the end of a transmission (dashboard.py:591, 604).
THEOREM HeldUntilResumed == Spec => ResumeIsExplicit
<1>1. IInv /\ [Next]_vars =>
        [search.state \in ResumableStates /\ SearchActive' =>
           /\ ~engine.tx /\ ~alarm_active /\ machine \notin {"STOPPED", "ERROR"}
           /\ search'.state = "STARTING"
           /\ ~tune_in_progress /\ tune_in_progress']_vars
  <2> SUFFICES ASSUME IInv, [Next]_vars, search.state \in ResumableStates, SearchActive'
               PROVE  /\ ~engine.tx /\ ~alarm_active /\ machine \notin {"STOPPED", "ERROR"}
                      /\ search'.state = "STARTING"
                      /\ ~tune_in_progress /\ tune_in_progress'
    OBVIOUS
  <2>1. ~SearchActive /\ search.state # "STOPPED"
    BY DEF SearchActive, ActiveStates, ResumableStates
  <2>2. ResumeSearch \/ MonitorSelectedBand
    BY <2>1, OnlyButtonsActivate DEF BeginSearch, InReceive
  <2>3. ~alarm_active /\ machine \notin {"STOPPED", "ERROR"}
    BY <2>2 DEF ResumeSearch, MonitorSelectedBand, ResumeEnabled, MonitorEnabled, InReceive
  <2> QED BY <2>1, <2>3, OnlyButtonsActivate
<1> QED BY <1>1, InvariantHolds, PTL DEF Spec, ResumeIsExplicit

\* The dashboard implements AppState: every transition it asks StateMachine for is
\* one state.py:16-23 allows, so no handler stops half way at a ValueError.
THEOREM LifeCycleImplemented == Spec => LifeCycleKept
<1>1. Init => LifeCycle!Init
  BY DEF Init, LifeCycle!Init
<1>2. TypeOK /\ [Next]_vars => [LifeCycle!Next]_machine
  <2> SUFFICES ASSUME TypeOK, [Next]_vars, machine' # machine PROVE LifeCycle!Next
    OBVIOUS
  <2>1. \A to \in LifeCycle!ALLOWED_TRANSITIONS[machine] : machine' = to => LifeCycle!Next
    BY DEF TypeOK, MachineStates, LifeCycle!Next, LifeCycle!Transition,
           LifeCycle!ALLOWED_TRANSITIONS, LifeCycle!States
  <2> SUFFICES machine' \in LifeCycle!ALLOWED_TRANSITIONS[machine]
    BY <2>1
  <2> USE DEF TypeOK, MachineStates, LifeCycle!ALLOWED_TRANSITIONS, LifeCycle!States
  <2>2. CASE Start
    BY <2>2 DEF Start
  <2>3. CASE Stop
    BY <2>3 DEF Stop, StopEnabled
  <2>4. CASE Acknowledge
    BY <2>4 DEF Acknowledge
  <2>5. CASE CheckTimeout
    BY <2>5 DEF CheckTimeout
  <2>6. CASE ReceiverStarted \/ ReceiverError
    BY <2>6 DEF ReceiverStarted, ReceiverError
  <2>7. CASE HandleTargetDecode \/ HandleOtherPacket
    BY <2>7 DEF HandleTargetDecode, HandleOtherPacket, Recovered
  <2>8. ASSUME NEW dial, NEW tx, NEW decoding, HandleStatus(dial, tx, decoding)
        PROVE  machine' \in LifeCycle!ALLOWED_TRANSITIONS[machine]
    BY <2>8 DEF HandleStatus, Recovered, AfterStatus
  <2>9. ~PauseSearch /\ ~BeginSearch /\ ~ResumeSearch /\ ~MonitorSelectedBand
        /\ ~ChangeTarget /\ ~RestoreDefaultFrequencies /\ ~ApplyPskSearchArea
        /\ ~RequestClose /\ ~ConfirmClose /\ ~DeclineClose /\ ~Closed
        /\ ~SearchTick /\ ~DwellElapses /\ ~PacketAges
    BY DEF PauseSearch, BeginSearch, ResumeSearch, MonitorSelectedBand, ChangeTarget,
           RestoreDefaultFrequencies, ApplyPskSearchArea, RequestClose, ConfirmClose,
           DeclineClose, Closed, SearchTick, DwellElapses, PacketAges, vars, InReceive, ResumeEnabled, MonitorEnabled
  <2>10. /\ \A band : ~ToggleBand(band)
         /\ \A tune : ~HandleTuneResult(tune) /\ ~AlignReturns(tune)
         /\ \A priorities : ~HandlePskrResult(priorities)
    BY DEF ToggleBand, HandleTuneResult, AlignReturns, HandlePskrResult, AfterTune
  <2> QED BY <2>2, <2>3, <2>4, <2>5, <2>6, <2>7, <2>8, <2>9, <2>10 DEF Next, vars
<1> QED BY <1>1, <1>2, TypeCorrect, PTL DEF Spec, LifeCycleKept, LifeCycle!Spec

\* The dashboard implements VfoControl: the operator owns the VFOs but for an active
\* search, which starts on request, in receive and with no alignment in flight, and
\* yields in the very step that learns of a transmission.
THEOREM OwnershipImplemented == Spec => OwnershipKept
<1> DEFINE Owner == IF SearchActive THEN "assistant" ELSE "operator"
<1>1. Init => Control!Init
  BY DEF Init, Control!Init, SearchActive, ActiveStates, NewSession, FreshEngine
<1>2. IInv /\ [Next]_vars => [Control!Next]_Control!vars
  <2> SUFFICES ASSUME IInv, [Next]_vars
               PROVE  Control!Next \/ (Owner' = Owner /\ engine'.tx = engine.tx
                                         /\ tune_in_progress' = tune_in_progress)
    BY DEF Control!vars
  <2> USE DEF search_vars, alert_vars, radio_vars, plan_vars
  <2>a. /\ OneAlignment /\ SearchYieldsToTx /\ StoppedIsQuiet
        /\ search \in Sessions(Bands) /\ engine.tx \in BOOLEAN /\ tune_in_progress \in BOOLEAN
    BY DEF IInv, SafetyParts, TypeOK
  <2>b. ~SearchActive' => Owner' = "operator"
    OBVIOUS
  <2>c. ASSUME ~SearchActive', engine'.tx = engine.tx, tune_in_progress' = tune_in_progress
        PROVE  Control!Next
    BY <2>c DEF Control!Next, Control!TakeBack
  <2>1. CASE BeginSearch \/ ResumeSearch \/ MonitorSelectedBand
    <3>1. PICK band, session : StartTune(session, band) /\ session.state = "STARTING"
      <4>1. Begin(NewSession).state = "STARTING" /\ Begin(search).state = "STARTING"
        BY <2>a DEF Begin, Without, NewSession, Sessions
      <4>2. \E band : StartTune(Begin(NewSession), band) \/ StartTune(Begin(search), band)
        BY <2>1 DEF BeginSearch, ResumeSearch, MonitorSelectedBand, InReceive, ResumeEnabled, MonitorEnabled
      <4> QED BY <4>1, <4>2
    <3>2. ~tune_in_progress /\ ~engine.tx /\ engine' = engine
      BY <2>1, <2>a
      DEF BeginSearch, ResumeSearch, MonitorSelectedBand, CanResume, Operator, StoppedIsQuiet, InReceive, ResumeEnabled, MonitorEnabled
    <3>3. search' = session /\ tune_in_progress' = TRUE
      BY <3>1, <3>2, <2>a, StartTuneEffect
    <3>4. Owner' = "assistant"
      BY <3>1, <3>3 DEF SearchActive, ActiveStates
    <3> QED BY <3>2, <3>3, <3>4 DEF Control!Next, Control!Grant
  <2>2. CASE SearchTick
    <3>1. SearchActive /\ ~engine.tx /\ ~tune_in_progress /\ engine' = engine
      BY <2>2, <2>a DEF SearchTick, IsDue, SearchActive, ActiveStates, SearchYieldsToTx
    <3>2. CASE search' = Pause(search) /\ UNCHANGED <<tune_in_progress, tunes>>
      <4>1. ~SearchActive'
        BY <3>2, <2>a DEF Pause, Without, Sessions, SearchActive, ActiveStates
      <4> QED BY <3>1, <3>2, <4>1, <2>c
    <3>3. ASSUME NEW band, search' = TunedTo(search, band),
                 UNCHANGED <<tune_in_progress, tunes>>
          PROVE  Owner' = Owner
      BY <3>1, <3>3 DEF TunedTo, SearchActive, ActiveStates
    <3>4. ASSUME NEW band, StartTune(search, band) PROVE Control!Next
      <4>1. search' = search /\ tune_in_progress' = TRUE
        BY <3>1, <3>4, <2>a, StartTuneEffect
      <4>2. Owner = "assistant" /\ Owner' = "assistant"
        BY <3>1, <4>1 DEF SearchActive
      <4> QED BY <3>1, <4>1, <4>2 DEF Control!Next, Control!Hop
    <3> QED BY <2>2, <3>1, <3>2, <3>3, <3>4 DEF SearchTick
  <2>3. ASSUME NEW tune \in tunes, HandleTuneResult(tune) PROVE Control!Next
    <3>1. tune_in_progress /\ tune_in_progress' = FALSE /\ engine' = engine
      BY <2>3, <2>a DEF HandleTuneResult, OneAlignment, AfterTune
    <3>2. SearchActive' => SearchActive
      BY <2>3, <2>a
      DEF HandleTuneResult, Fail, Without, TunedTo, SearchActive, ActiveStates, Sessions, AfterTune
    <3>3. Owner' \in {Owner, "operator"}
      BY <3>2
    <3> QED BY <3>1, <3>3 DEF Control!Next, Control!AlignmentEnds
  <2>4. ASSUME NEW dial \in Dials, NEW tx \in BOOLEAN, NEW decoding \in BOOLEAN,
               HandleStatus(dial, tx, decoding)
        PROVE  Control!Next
    <3>1. engine'.tx = tx /\ tune_in_progress' = tune_in_progress
      BY <2>4 DEF HandleStatus, AfterStatus
    <3>2. Owner' = IF tx THEN "operator" ELSE Owner
      BY <2>4, <2>a
      DEF HandleStatus, HandToOperator, Without, Sessions, SearchActive, ActiveStates, AfterStatus
    <3> QED BY <3>1, <3>2 DEF Control!Next, Control!TxReport
  <2>5. CASE ChangeTarget
    <3>1. engine'.tx = FALSE /\ UNCHANGED <<search, tune_in_progress>>
      BY <2>5 DEF ChangeTarget, FreshEngine
    <3>2. Owner' = Owner
      BY <3>1 DEF SearchActive
    <3> QED BY <3>1, <3>2 DEF Control!Next, Control!TxReport
  <2>6. CASE Stop \/ PauseSearch \/ ConfirmClose \/ HandleTargetDecode
    <3>1. ~SearchActive' /\ UNCHANGED <<engine, tune_in_progress>>
      BY <2>6, <2>a
      DEF Stop, PauseSearch, ConfirmClose, HandleTargetDecode, Pause, StopSession,
          HoldForTarget, Without, Sessions, SearchActive, ActiveStates, StopEnabled
    <3> QED BY <3>1, <2>c
  <2>7. CASE ReceiverError \/ RequestClose
    <3>1. (~SearchActive' \/ search' = search) /\ UNCHANGED <<engine, tune_in_progress>>
      BY <2>7, <2>a
      DEF ReceiverError, RequestClose, StopSession, Fail, Without, Sessions, SearchActive,
          ActiveStates
    <3> QED BY <3>1, <2>c DEF SearchActive
  <2>8. CASE DwellElapses
    <3>1. search'.state = search.state /\ UNCHANGED <<engine, tune_in_progress>>
      BY <2>8, <2>a DEF DwellElapses, Sessions
    <3> QED BY <3>1 DEF SearchActive
  <2>9. ASSUME UNCHANGED <<search, engine, tune_in_progress>>
        PROVE  Owner' = Owner /\ engine'.tx = engine.tx
                 /\ tune_in_progress' = tune_in_progress
    BY <2>9 DEF SearchActive
  <2>10. CASE \/ Start \/ Acknowledge \/ RestoreDefaultFrequencies \/ ApplyPskSearchArea
              \/ DeclineClose \/ CheckTimeout \/ PacketAges \/ ReceiverStarted
              \/ HandleOtherPacket \/ Closed \/ UNCHANGED vars
    BY <2>9, <2>10
    DEF Start, Acknowledge, RestoreDefaultFrequencies, ApplyPskSearchArea, DeclineClose,
        CheckTimeout, PacketAges, ReceiverStarted, HandleOtherPacket, Closed, vars
  <2>11. ASSUME \/ \E band : ToggleBand(band)
                \/ \E tune : AlignReturns(tune)
                \/ \E priorities : HandlePskrResult(priorities)
         PROVE  UNCHANGED <<search, engine, tune_in_progress>>
    BY <2>11 DEF ToggleBand, AlignReturns, HandlePskrResult
  <2> QED
    BY <2>1, <2>2, <2>3, <2>4, <2>5, <2>6, <2>7, <2>8, <2>9, <2>10, <2>11 DEF Next
<1> QED BY <1>1, <1>2, InvariantHolds, PTL DEF Spec, OwnershipKept, Control!Spec

-----------------------------------------------------------------------------
(* The order of the bands (BandRotation).  Induction over the length of a  *)
(* list is induction over a set of numbers, by the least number outside it.*)

\* What holds of 0, and of n + 1 when it holds of n, holds of every number.
LEMMA SetInduction ==
  ASSUME NEW T, 0 \in T, \A n \in Nat : n \in T => n + 1 \in T
  PROVE  Nat \subseteq T
<1> SUFFICES ASSUME Nat \ T # {} PROVE FALSE
  OBVIOUS
<1>1. PICK m \in Nat \ T : \A y \in Nat \ T : ~(<<y, m>> \in OpToRel(<, Nat))
  BY NatLessThanWellFounded, WFMin
<1>2. m - 1 \in Nat \ T /\ m - 1 < m
  OBVIOUS
<1>3. <<m - 1, m>> \in OpToRel(<, Nat)
  BY <1>2 DEF OpToRel
<1> QED BY <1>1, <1>2, <1>3

\* The recursion in Kept is well founded.
LEMMA KeptUnfolds ==
  ASSUME NEW S, NEW list \in Seq(S), NEW bands
  PROVE  \E kept : /\ kept[0] = <<>>
                   /\ \A n \in 1 .. Len(list) :
                        kept[n] = IF list[n] \in bands THEN Append(kept[n - 1], list[n])
                                  ELSE kept[n - 1]
                   /\ Kept(list, bands) = kept[Len(list)]
<1> DEFINE Step(g, n) == IF n = 0 THEN <<>>
                         ELSE IF list[n] \in bands THEN Append(g[n - 1], list[n])
                         ELSE g[n - 1]
           T == {m \in Nat : \E g : g = [n \in 0 .. m |-> Step(g, n)]}
<1>1. 0 \in T
  <2> DEFINE g == [n \in 0 .. 0 |-> <<>>]
  <2>1. g = [n \in 0 .. 0 |-> Step(g, n)]
    OBVIOUS
  <2> QED BY <2>1
<1>2. ASSUME NEW m \in Nat, m \in T PROVE m + 1 \in T
  <2>1. PICK g : g = [n \in 0 .. m |-> Step(g, n)]
    BY <1>2
  <2>2. ASSUME NEW n \in 0 .. m PROVE g[n] = Step(g, n)
    BY <2>1
  <2> DEFINE h == [n \in 0 .. m + 1 |-> IF n <= m THEN g[n] ELSE Step(g, n)]
  <2>3. ASSUME NEW n \in 0 .. m + 1 PROVE h[n] = Step(g, n)
    BY <2>2
  <2>4. ASSUME NEW n \in 0 .. m PROVE h[n] = g[n]
    OBVIOUS
  <2> HIDE DEF h
  <2>5. ASSUME NEW n \in 0 .. m + 1 PROVE Step(h, n) = Step(g, n)
    <3>1. n # 0 => n - 1 \in 0 .. m
      OBVIOUS
    <3>2. n # 0 => h[n - 1] = g[n - 1]
      BY <2>4, <3>1
    <3> QED BY <3>2
  <2>6. h = [n \in 0 .. m + 1 |-> Step(h, n)]
    <3>1. h = [n \in 0 .. m + 1 |-> h[n]]
      BY DEF h
    <3> HIDE DEF Step
    <3> QED BY <2>3, <2>5, <3>1
  <2> QED BY <2>6
<1>3. Len(list) \in T /\ Len(list) \in Nat
  BY <1>1, <1>2, SetInduction, LenProperties
<1> DEFINE kept == CHOOSE g : g = [n \in 0 .. Len(list) |-> Step(g, n)]
<1>4. kept = [n \in 0 .. Len(list) |-> Step(kept, n)]
  <2>1. \E g : g = [n \in 0 .. Len(list) |-> Step(g, n)]
    BY <1>3
  <2> QED BY <2>1
<1>5. Kept(list, bands) = kept[Len(list)]
  BY DEF Kept
<1> HIDE DEF kept
<1>6. \A n \in 0 .. Len(list) : kept[n] = Step(kept, n)
  BY <1>4
<1>7. kept[0] = <<>>
  BY <1>3, <1>6
<1>8. \A n \in 1 .. Len(list) :
        kept[n] = IF list[n] \in bands THEN Append(kept[n - 1], list[n]) ELSE kept[n - 1]
  BY <1>3, <1>6
<1> QED BY <1>5, <1>7, <1>8

\* A filtered list has exactly the elements that pass, in the order of the list.
LEMMA KeptProperties ==
  ASSUME NEW S, NEW list \in Seq(S), NEW bands
  PROVE  LET names == Kept(list, bands)
         IN  /\ names \in Seq(S)
             /\ \A a \in 1 .. Len(names) : names[a] \in bands
             /\ \A i \in 1 .. Len(list) :
                  list[i] \in bands => \E a \in 1 .. Len(names) : names[a] = list[i]
             /\ \A a \in 1 .. Len(names) : \E i \in 1 .. Len(list) : names[a] = list[i]
             /\ \A a, b \in 1 .. Len(names) :
                  a < b => \E i, j \in 1 .. Len(list) :
                             i < j /\ names[a] = list[i] /\ names[b] = list[j]
<1>0. Len(list) \in Nat /\ \A n \in 1 .. Len(list) : list[n] \in S
  BY LenProperties, ElementOfSeq
<1>1. PICK kept : /\ kept[0] = <<>>
                  /\ \A n \in 1 .. Len(list) :
                       kept[n] = IF list[n] \in bands THEN Append(kept[n - 1], list[n])
                                 ELSE kept[n - 1]
                  /\ Kept(list, bands) = kept[Len(list)]
  BY KeptUnfolds
<1> DEFINE Good(n, names) ==
             /\ names \in Seq(S)
             /\ \A a \in 1 .. Len(names) : names[a] \in bands
             /\ \A i \in 1 .. n :
                  list[i] \in bands => \E a \in 1 .. Len(names) : names[a] = list[i]
             /\ \A a \in 1 .. Len(names) : \E i \in 1 .. n : names[a] = list[i]
             /\ \A a, b \in 1 .. Len(names) :
                  a < b => \E i, j \in 1 .. n :
                             i < j /\ names[a] = list[i] /\ names[b] = list[j]
           T == {n \in Nat : n <= Len(list) => Good(n, kept[n])}
<1> HIDE DEF Good
<1>2. 0 \in T
  <2>1. kept[0] \in Seq(S) /\ Len(kept[0]) = 0
    BY <1>1, EmptySeq
  <2>2. Good(0, kept[0])
    BY <2>1 DEF Good
  <2> QED BY <2>2
<1>3. ASSUME NEW m \in Nat, m \in T PROVE m + 1 \in T
  <2> SUFFICES ASSUME m + 1 <= Len(list) PROVE Good(m + 1, kept[m + 1])
    OBVIOUS
  <2>1. Good(m, kept[m]) /\ m + 1 \in 1 .. Len(list) /\ m + 1 - 1 = m
    BY <1>0, <1>3
  <2> DEFINE old == kept[m]
             new == kept[m + 1]
  <2>2. /\ old \in Seq(S) /\ Len(old) \in Nat
        /\ new = IF list[m + 1] \in bands THEN Append(old, list[m + 1]) ELSE old
    <3>1. old \in Seq(S) /\ Len(old) \in Nat
      BY <2>1, LenProperties DEF Good
    <3>2. kept[m + 1] = IF list[m + 1] \in bands THEN Append(kept[m + 1 - 1], list[m + 1])
                        ELSE kept[m + 1 - 1]
      BY <1>1, <2>1
    <3> QED BY <2>1, <3>1, <3>2
  <2> HIDE DEF old, new
  <2>g. Good(m, old)
    BY <2>1 DEF old
  <2>h. /\ \A a \in 1 .. Len(old) : old[a] \in bands
        /\ \A i \in 1 .. m :
             list[i] \in bands => \E a \in 1 .. Len(old) : old[a] = list[i]
        /\ \A a \in 1 .. Len(old) : \E i \in 1 .. m : old[a] = list[i]
        /\ \A a, b \in 1 .. Len(old) :
             a < b => \E i, j \in 1 .. m : i < j /\ old[a] = list[i] /\ old[b] = list[j]
    BY <2>g DEF Good
  <2>3. CASE list[m + 1] \notin bands
    <3>1. new = old
      BY <2>2, <2>3
    <3>2. \A i \in 1 .. m + 1 : list[i] \in bands => i \in 1 .. m
      BY <2>3
    <3>3. \A i \in 1 .. m : i \in 1 .. m + 1
      OBVIOUS
    <3>4. \A i \in 1 .. m + 1 :
            list[i] \in bands => \E a \in 1 .. Len(old) : old[a] = list[i]
      BY <2>h, <3>2
    <3>5. \A a \in 1 .. Len(old) : \E i \in 1 .. m + 1 : old[a] = list[i]
      BY <2>h, <3>3
    <3>6. \A a, b \in 1 .. Len(old) :
            a < b => \E i, j \in 1 .. m + 1 : i < j /\ old[a] = list[i] /\ old[b] = list[j]
      BY <2>h, <3>3
    <3>7. Good(m + 1, old)
      BY <2>2, <2>h, <3>4, <3>5, <3>6 DEF Good
    <3> QED BY <3>1, <3>7 DEF new
  <2>4. CASE list[m + 1] \in bands
    <3>1. /\ new \in Seq(S) /\ Len(new) = Len(old) + 1
          /\ \A a \in 1 .. Len(old) : new[a] = old[a]
          /\ new[Len(old) + 1] = list[m + 1]
      BY <1>0, <2>1, <2>2, <2>4, AppendProperties
    <3>2. \A a \in 1 .. Len(new) : a \in 1 .. Len(old) \/ a = Len(old) + 1
      BY <2>2, <3>1
    <3>3. \A a \in 1 .. Len(new) : new[a] \in bands
      BY <2>h, <2>4, <3>1, <3>2
    <3>4. ASSUME NEW i \in 1 .. m + 1, list[i] \in bands
          PROVE  \E a \in 1 .. Len(new) : new[a] = list[i]
      <4>1. CASE i = m + 1
        <5>1. Len(old) + 1 \in 1 .. Len(new)
          BY <2>2, <3>1
        <5> QED BY <3>1, <4>1, <5>1
      <4>2. CASE i # m + 1
        <5>1. i \in 1 .. m
          BY <4>2
        <5>2. PICK a \in 1 .. Len(old) : old[a] = list[i]
          BY <2>h, <3>4, <5>1
        <5>3. a \in 1 .. Len(new) /\ new[a] = list[i]
          BY <2>2, <3>1, <5>2
        <5> QED BY <5>3
      <4> QED BY <4>1, <4>2
    <3>5. ASSUME NEW a \in 1 .. Len(new) PROVE \E i \in 1 .. m + 1 : new[a] = list[i]
      <4>1. CASE a = Len(old) + 1
        BY <3>1, <4>1
      <4>2. CASE a \in 1 .. Len(old)
        <5>1. PICK i \in 1 .. m : old[a] = list[i]
          BY <2>h, <4>2
        <5> QED BY <3>1, <4>2, <5>1
      <4> QED BY <3>2, <4>1, <4>2
    <3>6. ASSUME NEW a \in 1 .. Len(new), NEW b \in 1 .. Len(new), a < b
          PROVE  \E i, j \in 1 .. m + 1 : i < j /\ new[a] = list[i] /\ new[b] = list[j]
      <4>0. a \in 1 .. Len(old) /\ new[a] = old[a]
        BY <2>2, <3>1, <3>6
      <4>1. CASE b = Len(old) + 1
        <5>1. PICK i \in 1 .. m : old[a] = list[i]
          BY <2>h, <4>0
        <5>2. i \in 1 .. m + 1 /\ m + 1 \in 1 .. m + 1 /\ i < m + 1
          OBVIOUS
        <5> QED BY <3>1, <4>0, <4>1, <5>1, <5>2
      <4>2. CASE b \in 1 .. Len(old)
        <5>1. PICK i, j \in 1 .. m : i < j /\ old[a] = list[i] /\ old[b] = list[j]
          BY <2>h, <3>6, <4>0, <4>2
        <5>2. i \in 1 .. m + 1 /\ j \in 1 .. m + 1
          OBVIOUS
        <5> QED BY <3>1, <4>0, <4>2, <5>1, <5>2
      <4> QED BY <3>2, <4>1, <4>2
    <3>7. Good(m + 1, new)
      BY <3>1, <3>3, <3>4, <3>5, <3>6 DEF Good
    <3> QED BY <3>7 DEF new
  <2> QED BY <2>3, <2>4
<1>4. Len(list) \in T
  BY <1>0, <1>2, <1>3, SetInduction
<1>5. Good(Len(list), Kept(list, bands))
  BY <1>0, <1>1, <1>4
<1> HIDE DEF T
<1> QED BY <1>5 DEF Good

\* names lists bands, each once, in the order that position gives them.
Lists(names, bands, position) ==
  /\ names \in Seq(bands) /\ Len(names) \in Nat \ {0}
  /\ \A band \in bands : \E a \in 1 .. Len(names) : names[a] = band
  /\ \A a \in 1 .. Len(names) : position[names[a]] \in Nat
  /\ \A a, b \in 1 .. Len(names) : a < b => position[names[a]] < position[names[b]]

\* What is kept of a list without repetitions lists its bands by their positions.
LEMMA KeptLists ==
  ASSUME NEW S, NEW list \in Seq(S), NEW bands,
         \A i, j \in DOMAIN list : list[i] = list[j] => i = j
  PROVE  /\ ToSet(Kept(list, bands)) = Range(list) \cap bands
         /\ Kept(list, bands) = <<>> <=> Range(list) \cap bands = {}
         /\ Range(list) \cap bands # {} =>
              Lists(Kept(list, bands), Range(list) \cap bands, Position(list))
<1> DEFINE names == Kept(list, bands)
           kept  == Range(list) \cap bands
<1>1. /\ names \in Seq(S)
      /\ \A a \in 1 .. Len(names) : names[a] \in bands
      /\ \A i \in 1 .. Len(list) :
           list[i] \in bands => \E a \in 1 .. Len(names) : names[a] = list[i]
      /\ \A a \in 1 .. Len(names) : \E i \in 1 .. Len(list) : names[a] = list[i]
      /\ \A a, b \in 1 .. Len(names) :
           a < b => \E i, j \in 1 .. Len(list) :
                      i < j /\ names[a] = list[i] /\ names[b] = list[j]
  BY KeptProperties
<1> HIDE DEF names
<1>2. /\ DOMAIN list = 1 .. Len(list) /\ Len(list) \in Nat
      /\ DOMAIN names = 1 .. Len(names) /\ Len(names) \in Nat
  BY <1>1, LenProperties
<1>3. \A a \in 1 .. Len(names) : names[a] \in kept
  BY <1>1, <1>2 DEF Range
<1>4. \A band \in kept : \E a \in 1 .. Len(names) : names[a] = band
  BY <1>1, <1>2 DEF Range
<1>5. ToSet(names) = kept
  BY <1>2, <1>3, <1>4 DEF ToSet
<1>6. names = <<>> <=> kept = {}
  <2>1. CASE Len(names) = 0
    <3>1. names = <<>>
      BY <1>1, <2>1, EmptySeq
    <3>2. 1 .. Len(names) = {}
      BY <2>1
    <3> QED BY <1>4, <3>1, <3>2
  <2>2. CASE Len(names) # 0
    <3>1. 1 \in 1 .. Len(names) /\ names # <<>>
      BY <1>2, <2>2, EmptySeq
    <3> QED BY <1>3, <3>1
  <2> QED BY <2>1, <2>2
<1>7. \A i \in 1 .. Len(list) : Position(list)[list[i]] = i
  BY <1>2 DEF Position, Range
<1>8. ASSUME kept # {} PROVE Lists(names, kept, Position(list))
  <2>1. Len(names) \in Nat \ {0}
    BY <1>1, <1>2, <1>6, <1>8, EmptySeq
  <2>2. names \in Seq(kept)
    BY <1>1, <1>3, ElementOfSeq, LenProperties, SeqDef
  <2>3. \A a \in 1 .. Len(names) : Position(list)[names[a]] \in Nat
    BY <1>1, <1>2, <1>7
  <2>4. ASSUME NEW a \in 1 .. Len(names), NEW b \in 1 .. Len(names), a < b
        PROVE  Position(list)[names[a]] < Position(list)[names[b]]
    <3>1. PICK i, j \in 1 .. Len(list) : i < j /\ names[a] = list[i] /\ names[b] = list[j]
      BY <1>1, <2>4
    <3> QED BY <1>7, <3>1
  <2> QED BY <1>4, <2>1, <2>2, <2>3, <2>4 DEF Lists
<1> QED BY <1>5, <1>6, <1>8 DEF names

\* The list of _search_band_names lists the set of the model.
LEMMA SearchBandsListed ==
  ASSUME session_band_enabled \in (SUBSET Bands) \ {{}}, pskr_priority_bands \in FocusLists
  PROVE  Lists(SearchBandNames, SearchBands, SearchOrder)
<1>1. /\ BandPlan \in Seq(Bands) /\ pskr_priority_bands \in Seq(Bands)
      /\ \A i, j \in DOMAIN BandPlan : BandPlan[i] = BandPlan[j] => i = j
      /\ \A i, j \in DOMAIN pskr_priority_bands :
           pskr_priority_bands[i] = pskr_priority_bands[j] => i = j
  BY PlanAssumption, FocusAssumption
<1>2. /\ Range(BandPlan) \cap session_band_enabled = session_band_enabled
      /\ session_band_enabled # {}
  BY DEF Bands
<1>3. /\ ToSet(EnabledBandNames) = session_band_enabled
      /\ Lists(EnabledBandNames, session_band_enabled, Position(BandPlan))
  <2>1. LET names == Kept(BandPlan, session_band_enabled)
            bands == Range(BandPlan) \cap session_band_enabled
        IN  /\ ToSet(names) = bands
            /\ bands # {} => Lists(names, bands, Position(BandPlan))
    BY <1>1, KeptLists
  <2> QED BY <1>2, <2>1 DEF EnabledBandNames
<1>4. /\ FocusedNames = <<>> <=> FocusedBands = {}
      /\ FocusedBands # {} => Lists(FocusedNames, FocusedBands, Position(pskr_priority_bands))
  BY <1>1, <1>3, KeptLists DEF FocusedNames, FocusedBands
<1>5. CASE FocusedBands = {}
  BY <1>3, <1>4, <1>5 DEF SearchBandNames, SearchBands, SearchOrder
<1>6. CASE FocusedBands # {}
  BY <1>4, <1>6 DEF SearchBandNames, SearchBands, SearchOrder
<1> QED BY <1>5, <1>6

\* A band stands at one place of a list only.
LEMMA ListedOnce ==
  ASSUME NEW names, NEW bands, NEW position, Lists(names, bands, position)
  PROVE  \A a, b \in 1 .. Len(names) : names[a] = names[b] => a = b
<1> SUFFICES ASSUME NEW a \in 1 .. Len(names), NEW b \in 1 .. Len(names),
                    names[a] = names[b], a # b
             PROVE  FALSE
  OBVIOUS
<1>1. Len(names) \in Nat /\ position[names[a]] \in Nat
  BY DEF Lists
<1>2. a < b \/ b < a
  BY <1>1
<1> QED BY <1>1, <1>2 DEF Lists

\* The least of the later places of a list is the next one.
LEMMA LeastListed ==
  ASSUME NEW names, NEW bands, NEW position, Lists(names, bands, position),
         NEW k \in 1 .. Len(names)
  PROVE  FirstOf({band \in bands : position[band] >= position[names[k]]}, position)
           = {names[k]}
<1> DEFINE later == {band \in bands : position[band] >= position[names[k]]}
<1>1. /\ Len(names) \in Nat /\ names[k] \in bands
      /\ \A a \in 1 .. Len(names) : position[names[a]] \in Nat
  BY LenProperties, ElementOfSeq DEF Lists
<1>2. names[k] \in later
  BY <1>1
<1>3. names[k] \in FirstOf(later, position)
  BY <1>2 DEF FirstOf
<1>4. ASSUME NEW band \in FirstOf(later, position) PROVE band = names[k]
  <2>1. band \in bands /\ position[band] >= position[names[k]]
        /\ position[band] <= position[names[k]]
    BY <1>2 DEF FirstOf
  <2>2. PICK a \in 1 .. Len(names) : names[a] = band
    BY <2>1 DEF Lists
  <2>3. position[names[a]] = position[names[k]]
    BY <1>1, <2>1, <2>2
  <2>4. ~(a < k) /\ ~(k < a)
    BY <1>1, <2>3 DEF Lists
  <2> QED BY <1>1, <2>2, <2>4
<1> QED BY <1>3, <1>4

\* list.index, and the band after it round the list.
LEMMA NextInList ==
  ASSUME NEW names, NEW bands, NEW position, Lists(names, bands, position),
         NEW k \in 1 .. Len(names)
  PROVE  next_band(names[k], names) = names[IF k = Len(names) THEN 1 ELSE k + 1]
<1>0. Len(names) \in Nat
  BY DEF Lists
<1>1. Contains(names, names[k])
  BY DEF Contains
<1> DEFINE found == {i \in 1 .. Len(names) : names[i] = names[k]}
<1>2. found = {k}
  BY ListedOnce
<1>3. SelectInSeq(names, LAMBDA name : name = names[k])
        = IF found # {} THEN Min(found) ELSE 0
  BY DEF SelectInSeq
<1>4. Min({k}) = k
  BY <1>0 DEF Min
<1>5. SelectInSeq(names, LAMBDA name : name = names[k]) = k
  BY <1>2, <1>3, <1>4
<1>6. next_band(names[k], names) = names[(k % Len(names)) + 1]
  BY <1>1, <1>5 DEF next_band
<1>7. CASE k = Len(names)
  BY <1>0, <1>6, <1>7
<1>8. CASE k # Len(names)
  <2>1. k \in Nat /\ k < Len(names)
    BY <1>0, <1>8
  <2>2. k % Len(names) = k
    BY <1>0, <2>1
  <2> QED BY <1>6, <1>8, <2>2
<1> QED BY <1>7, <1>8

\* The set-valued choices of SearchSession are the bands the list code picks.
LEMMA ChoicesListed ==
  ASSUME NEW names, NEW bands, NEW position, Lists(names, bands, position), NEW session
  PROVE  /\ FirstOf(bands, position) = {names[1]}
         /\ NextBand(session, bands, position) = {next_band(session.current_band, names)}
<1> DEFINE current == session.current_band
           later == {band \in bands : current \in bands /\ position[band] > position[current]}
<1>0. /\ Len(names) \in Nat \ {0} /\ 1 \in 1 .. Len(names)
      /\ \A a \in 1 .. Len(names) : names[a] \in bands /\ position[names[a]] \in Nat
  BY LenProperties, ElementOfSeq DEF Lists
<1>m. \A a, b \in 1 .. Len(names) : a < b <=> position[names[a]] < position[names[b]]
  <2>1. ASSUME NEW a \in 1 .. Len(names), NEW b \in 1 .. Len(names), a < b
        PROVE  position[names[a]] < position[names[b]]
    BY <2>1 DEF Lists
  <2>2. ASSUME NEW a \in 1 .. Len(names), NEW b \in 1 .. Len(names), ~(a < b)
        PROVE  ~(position[names[a]] < position[names[b]])
    <3>1. a = b \/ b < a
      BY <1>0, <2>2
    <3> QED BY <1>0, <2>1, <3>1
  <2> QED BY <2>1, <2>2
<1>p. ASSUME NEW band \in bands
      PROVE  \E a \in 1 .. Len(names) : names[a] = band /\ position[band] \in Nat
  BY <1>0 DEF Lists
<1>1. FirstOf(bands, position) = {names[1]}
  <2>1. ASSUME NEW band \in bands PROVE position[band] >= position[names[1]]
    <3>1. PICK a \in 1 .. Len(names) : names[a] = band
      BY <1>p
    <3>2. ~(a < 1) /\ ~(position[names[a]] < position[names[1]])
      BY <1>0, <1>m
    <3>3. position[names[a]] \in Nat /\ position[names[1]] \in Nat
      BY <1>0
    <3> QED BY <3>1, <3>2, <3>3
  <2>2. {band \in bands : position[band] >= position[names[1]]} = bands
    BY <2>1
  <2> QED BY <1>0, <2>2, LeastListed
<1>2. NextBand(session, bands, position)
        = FirstOf(IF later = {} THEN bands ELSE later, position)
  BY DEF NextBand
<1>3. CASE current \notin bands
  <2>1. ~Contains(names, current)
    BY <1>0, <1>3 DEF Contains
  <2>2. later = {}
    BY <1>3
  <2> QED BY <1>1, <1>2, <2>1, <2>2 DEF next_band
<1>4. CASE current \in bands
  <2>1. PICK k \in 1 .. Len(names) : names[k] = current
    BY <1>4 DEF Lists
  <2>2. next_band(current, names) = names[IF k = Len(names) THEN 1 ELSE k + 1]
    BY <2>1, NextInList
  <2>3. ASSUME NEW band \in bands, position[band] > position[current]
        PROVE  \E a \in 1 .. Len(names) : k < a /\ names[a] = band
    <3>1. PICK a \in 1 .. Len(names) : names[a] = band
      BY <1>p
    <3>2. position[names[k]] < position[names[a]]
      BY <1>0, <2>1, <2>3, <3>1
    <3> QED BY <1>m, <3>1, <3>2
  <2>4. CASE k = Len(names)
    <3>1. later = {}
      BY <1>0, <2>3, <2>4
    <3> QED BY <1>1, <1>2, <2>2, <2>4, <3>1
  <2>5. CASE k # Len(names)
    <3>1. k + 1 \in 1 .. Len(names) /\ k < k + 1
      BY <1>0, <2>5
    <3>2. names[k + 1] \in later
      BY <1>0, <1>4, <2>1, <3>1 DEF Lists
    <3>3. ASSUME NEW band \in bands
          PROVE  position[band] > position[current]
                   <=> position[band] >= position[names[k + 1]]
      <4>1. PICK a \in 1 .. Len(names) : names[a] = band
        BY <1>p
      <4>2. k < a <=> ~(a < k + 1)
        BY <1>0
      <4>3. /\ k < a <=> position[names[k]] < position[names[a]]
            /\ a < k + 1 <=> position[names[a]] < position[names[k + 1]]
        BY <1>m, <3>1
      <4>4. /\ position[names[k]] \in Nat /\ position[names[a]] \in Nat
            /\ position[names[k + 1]] \in Nat
        BY <1>0, <3>1
      <4> QED BY <2>1, <4>1, <4>2, <4>3, <4>4
    <3>4. later = {band \in bands : position[band] >= position[names[k + 1]]}
      BY <1>4, <3>3
    <3>5. FirstOf(later, position) = {names[k + 1]}
      BY <3>1, <3>4, LeastListed
    <3> QED BY <1>1, <1>2, <2>2, <2>5, <3>2, <3>5
  <2> QED BY <2>4, <2>5
<1> QED BY <1>1, <1>3, <1>4

\* The choices agree as long as a band is enabled.
LEMMA AgreeWhileEnabled ==
  ASSUME session_band_enabled \in (SUBSET Bands) \ {{}}, pskr_priority_bands \in FocusLists
  PROVE  ListsAgree
<1>1. Lists(SearchBandNames, SearchBands, SearchOrder)
  BY SearchBandsListed
<1>2. NextBand(search, SearchBands, SearchOrder)
        = {next_band(search.current_band, SearchBandNames)}
  BY <1>1, ChoicesListed
<1>3. FirstOf(SearchBands, SearchOrder) = {SearchBandNames[1]}
  BY <1>1, ChoicesListed
<1>4. Contains(SearchBandNames, band_for_frequency(engine.dial))
        <=> band_for_frequency(engine.dial) \in SearchBands
  <2>1. \A a \in 1 .. Len(SearchBandNames) : SearchBandNames[a] \in SearchBands
    BY <1>1, LenProperties, ElementOfSeq DEF Lists
  <2> QED BY <1>1, <2>1 DEF Lists, Contains
<1>5. StartingBands = {starting_band(SearchBandNames)}
  BY <1>3, <1>4 DEF StartingBands, starting_band
<1> QED BY <1>2, <1>5 DEF ListsAgree

-----------------------------------------------------------------------------
(* The rotation.                                                           *)

\* Along the round the place in the list goes up by one with every dwell, and
\* starts again at the head after the last.  Stated for any two dwells less than
\* a round apart, the place of one says the place of the other.
Rotating(names) ==
  \A i, j \in 1 .. Len(round) : i <= j /\ j < i + Len(names) =>
    \E p, q \in 1 .. Len(names) :
      /\ round[i] = names[p] /\ round[j] = names[q]
      /\ q = p + (j - i) \/ q = p + (j - i) - Len(names)

RotationInv ==
  /\ session_band_enabled \in (SUBSET Bands) \ {{}}
  /\ pskr_priority_bands \in FocusLists
  /\ round \in Seq(SearchBands)
  /\ round # <<>> => search.current_band = round[Len(round)]
  /\ Rotating(SearchBandNames)

\* A round that has not begun: at the start and after a new focus.
LEMMA NoDwellsYet ==
  ASSUME round = <<>>
  PROVE  round \in Seq(SearchBands) /\ Len(round) = 0 /\ Rotating(SearchBandNames)
<1>1. round \in Seq(SearchBands) /\ Len(round) = 0
  BY EmptySeq
<1>2. 1 .. Len(round) = {}
  BY <1>1
<1> QED BY <1>1, <1>2 DEF Rotating

\* A dwell goes on to the next place of the list the round runs through.
LEMMA DwellKeepsRotation == RotationInv /\ Dwell => RotationInv'
<1> SUFFICES ASSUME RotationInv, Dwell PROVE RotationInv'
  OBVIOUS
<1> DEFINE names == SearchBandNames
           N == Len(names)
           L == Len(round)
<1>0. session_band_enabled \in (SUBSET Bands) \ {{}} /\ pskr_priority_bands \in FocusLists
  BY DEF RotationInv
<1>1. Lists(names, SearchBands, SearchOrder)
  BY <1>0, SearchBandsListed
<1>2. /\ N \in Nat \ {0} /\ L \in Nat /\ round \in Seq(SearchBands)
      /\ \A a \in 1 .. N : names[a] \in SearchBands
  BY <1>1, LenProperties, ElementOfSeq DEF Lists, RotationInv
<1>c. round # <<>> => search.current_band = round[L]
  BY DEF RotationInv
<1>3. /\ UNCHANGED <<session_band_enabled, pskr_priority_bands>>
      /\ SearchBands' = SearchBands /\ names' = names
  BY DEF Dwell, plan_vars, SearchBands, FocusedBands, SearchBandNames, FocusedNames,
         EnabledBandNames
<1>4. PICK band \in NextBand(search, SearchBands, SearchOrder) :
        search' = TunedTo(search, band) /\ round' = Append(round, band)
  BY DEF Dwell
<1>5. band = next_band(search.current_band, names)
  BY <1>1, <1>4, ChoicesListed
<1>6. band \in SearchBands
  <2>1. \A bands, position : FirstOf(bands, position) \subseteq bands
    BY DEF FirstOf
  <2> DEFINE later == {b \in SearchBands :
                         /\ search.current_band \in SearchBands
                         /\ SearchOrder[b] > SearchOrder[search.current_band]}
  <2>2. NextBand(search, SearchBands, SearchOrder)
          = FirstOf(IF later = {} THEN SearchBands ELSE later, SearchOrder)
    BY DEF NextBand
  <2>3. later \subseteq SearchBands
    OBVIOUS
  <2> HIDE DEF later
  <2> QED BY <1>4, <2>1, <2>2, <2>3
<1>7. /\ round' \in Seq(SearchBands) /\ Len(round') = L + 1
      /\ \A i \in 1 .. L : round'[i] = round[i]
      /\ round'[L + 1] = band
  BY <1>2, <1>4, <1>6, AppendProperties
<1>8. search'.current_band = round'[Len(round')]
  BY <1>4, <1>7 DEF TunedTo
<1>9. PICK z \in 1 .. N : names[z] = band
  BY <1>1, <1>6 DEF Lists
<1> HIDE DEF names, N, L
<1>10. ASSUME NEW i \in 1 .. L + 1, NEW j \in 1 .. L + 1, i <= j, j < i + N
       PROVE  \E p, q \in 1 .. N :
                /\ round'[i] = names[p] /\ round'[j] = names[q]
                /\ q = p + (j - i) \/ q = p + (j - i) - N
  <2>1. CASE j <= L
    <3>1. i \in 1 .. L /\ j \in 1 .. L
      BY <1>2, <1>10, <2>1
    <3>2. PICK p, q \in 1 .. N : /\ round[i] = names[p] /\ round[j] = names[q]
                                 /\ q = p + (j - i) \/ q = p + (j - i) - N
      BY <1>10, <3>1 DEF RotationInv, Rotating, N, L, names
    <3>3. round'[i] = names[p] /\ round'[j] = names[q]
      BY <1>7, <3>1, <3>2
    <3> QED BY <3>2, <3>3
  <2>2. CASE i = L + 1
    <3>1. j = L + 1
      BY <1>2, <1>10, <2>2
    <3>2. z = z + (j - i)
      BY <2>2, <3>1
    <3> QED BY <1>7, <1>9, <2>2, <3>1, <3>2
  <2>3. CASE i # L + 1 /\ j = L + 1
    <3>1. i \in 1 .. L /\ L \in 1 .. L /\ i <= L /\ L < i + N /\ j - i = (L - i) + 1
      BY <1>2, <1>10, <2>3
    <3>2. PICK p, q \in 1 .. N : /\ round[i] = names[p] /\ round[L] = names[q]
                                 /\ q = p + (L - i) \/ q = p + (L - i) - N
      BY <3>1 DEF RotationInv, Rotating, N, L, names
    <3>3. search.current_band = names[q]
      <4>1. round # <<>>
        BY <3>1, EmptySeq DEF L
      <4> QED BY <1>c, <3>2, <4>1
    <3>4. band = names[IF q = N THEN 1 ELSE q + 1]
      BY <1>1, <1>5, <3>3, NextInList DEF N
    <3> DEFINE r == IF q = N THEN 1 ELSE q + 1
    <3>5. r \in 1 .. N /\ (r = p + (j - i) \/ r = p + (j - i) - N)
      BY <1>2, <1>10, <2>3, <3>1, <3>2
    <3>6. round'[i] = names[p] /\ round'[j] = names[r]
      BY <1>7, <2>3, <3>1, <3>2, <3>4
    <3> HIDE DEF r
    <3> QED BY <3>2, <3>5, <3>6
  <2> QED BY <1>2, <1>10, <2>1, <2>2, <2>3
<1>11. Rotating(SearchBandNames)'
  BY <1>3, <1>7, <1>10 DEF Rotating, N, L, names
<1> QED BY <1>0, <1>3, <1>7, <1>8, <1>11 DEF RotationInv

\* A new focus, which changes the list, also starts a new round.
LEMMA RotationInvariant == RSpec => []RotationInv
<1>1. RInit => RotationInv
  BY NoDwellsYet DEF RInit, RotationInv
<1>2. RotationInv /\ NewFocus => RotationInv'
  <2> SUFFICES ASSUME RotationInv, NewFocus PROVE RotationInv'
    OBVIOUS
  <2>1. /\ session_band_enabled' \in (SUBSET Bands) \ {{}}
        /\ pskr_priority_bands' \in FocusLists
        /\ round' = <<>>
    BY DEF RotationInv, NewFocus
  <2>2. /\ round' \in Seq(SearchBands') /\ Len(round') = 0 /\ 1 .. Len(round') = {}
    BY <2>1, EmptySeq
  <2> QED BY <2>1, <2>2 DEF RotationInv, Rotating
<1>3. RotationInv /\ UNCHANGED <<vars, round>> => RotationInv'
  <2> SUFFICES ASSUME RotationInv, UNCHANGED <<vars, round>> PROVE RotationInv'
    OBVIOUS
  <2>1. UNCHANGED <<session_band_enabled, pskr_priority_bands, search, round>>
    BY DEF vars, plan_vars, search_vars
  <2>2. SearchBands' = SearchBands /\ SearchBandNames' = SearchBandNames
    BY <2>1 DEF SearchBands, FocusedBands, SearchBandNames, FocusedNames, EnabledBandNames
  <2> QED BY <2>1, <2>2 DEF RotationInv, Rotating
<1> QED BY <1>1, <1>2, <1>3, DwellKeepsRotation, PTL DEF RSpec, RNext

\* The sets of BandSearch choose the bands the list code of next_band,
\* starting_band and _search_band_names picks (hopping.py:44-50,
\* dashboard.py:429-435, 477-478), for every plan and every focus list.
THEOREM SetsChooseAsLists == RSpec => []ListsAgree
<1>1. RotationInv => ListsAgree
  BY AgreeWhileEnabled DEF RotationInv
<1> QED BY <1>1, RotationInvariant, PTL

\* There are as many bands searched as names in the list.
LEMMA SearchBandsCounted ==
  ASSUME NEW names, NEW bands, NEW position, Lists(names, bands, position)
  PROVE  Cardinality(bands) = Len(names)
<1> DEFINE f == [a \in 1 .. Len(names) |-> names[a]]
<1>1. /\ Len(names) \in Nat \ {0}
      /\ \A a \in 1 .. Len(names) : names[a] \in bands
      /\ \A band \in bands : \E a \in 1 .. Len(names) : names[a] = band
  BY LenProperties, ElementOfSeq DEF Lists
<1>2. f \in Surjection(1 .. Len(names), bands)
  BY <1>1 DEF Surjection
<1>3. f \in Injection(1 .. Len(names), bands)
  BY <1>1, ListedOnce DEF Injection, IsInjective
<1>4. /\ IsFiniteSet(1 .. Len(names))
      /\ Cardinality(1 .. Len(names)) = Len(names)
  BY <1>1, FS_Interval
<1> QED BY <1>2, <1>3, <1>4, FS_Surjection

\* No searched band waits longer than one round, whatever the plan, the focus
\* and the band the rotation starts from (hopping.py:47-50).
THEOREM RoundVisitsEveryBand == RSpec => []EveryBandEachRound
<1>1. RotationInv => EveryBandEachRound
  <2> SUFFICES ASSUME RotationInv,
                      NEW i \in 1 .. Len(round) - Cardinality(SearchBands) + 1
               PROVE  ToSet(SubSeq(round, i, i + Cardinality(SearchBands) - 1))
                        = SearchBands
    BY DEF EveryBandEachRound
  <2> DEFINE names == SearchBandNames
             N == Len(names)
             span == SubSeq(round, i, i + N - 1)
  <2>1. Lists(names, SearchBands, SearchOrder)
    BY SearchBandsListed DEF RotationInv
  <2>2. Cardinality(SearchBands) = N
    BY <2>1, SearchBandsCounted
  <2>3. /\ N \in Nat \ {0} /\ round \in Seq(SearchBands) /\ Len(round) \in Nat
        /\ i \in Nat /\ 1 <= i /\ i + N - 1 <= Len(round)
    BY <2>1, <2>2, LenProperties DEF Lists, RotationInv
  <2>4. /\ span \in Seq(SearchBands) /\ Len(span) = N /\ DOMAIN span = 1 .. N
        /\ \A k \in 1 .. N : span[k] = round[i + k - 1]
    BY <2>3, SubSeqProperties, LenProperties
  <2>r. \A a, b \in 1 .. Len(round) : a <= b /\ b < a + N =>
          \E p, q \in 1 .. N : /\ round[a] = names[p] /\ round[b] = names[q]
                               /\ q = p + (b - a) \/ q = p + (b - a) - N
    BY DEF RotationInv, Rotating
  <2> HIDE DEF span
  <2>5. ToSet(span) \subseteq SearchBands
    BY <2>4, ElementOfSeq DEF ToSet
  <2>6. ASSUME NEW band \in SearchBands PROVE band \in ToSet(span)
    <3>1. i \in 1 .. Len(round) /\ i <= i /\ i < i + N
      BY <2>3
    <3>2. PICK p \in 1 .. N : round[i] = names[p]
      BY <3>1 DEF RotationInv, Rotating
    <3>3. PICK r \in 1 .. N : names[r] = band
      BY <2>1 DEF Lists
    <3> DEFINE d == IF r >= p THEN r - p ELSE r - p + N
    <3>4. d \in 0 .. N - 1 /\ i + d \in 1 .. Len(round) /\ i <= i + d /\ i + d < i + N
      BY <2>3
    <3>5. (i + d) - i = d /\ (r = p + d \/ r = p + d - N)
      BY <2>3, <3>4
    <3> HIDE DEF d, N, names
    <3>6. PICK s, q \in 1 .. N : /\ round[i] = names[s] /\ round[i + d] = names[q]
                                 /\ q = s + d \/ q = s + d - N
      <4>1. \E s, q \in 1 .. N :
              /\ round[i] = names[s] /\ round[i + d] = names[q]
              /\ q = s + ((i + d) - i) \/ q = s + ((i + d) - i) - N
        BY <2>r, <3>1, <3>4
      <4> QED BY <3>5, <4>1
    <3>7. s = p
      BY <2>1, <3>2, <3>6, ListedOnce DEF N
    <3>8. q = r
      <4>1. N \in Nat /\ d \in Int
        BY <2>3, <3>4
      <4>2. q = p + d \/ q = p + d - N
        BY <3>6, <3>7
      <4> QED BY <3>5, <4>1, <4>2
    <3>9. d + 1 \in 1 .. N /\ i + (d + 1) - 1 = i + d
      BY <2>3, <3>4
    <3>10. span[d + 1] = band
      BY <2>4, <3>3, <3>6, <3>8, <3>9
    <3> QED BY <2>4, <3>9, <3>10 DEF ToSet
  <2>7. ToSet(span) = SearchBands
    BY <2>5, <2>6
  <2> QED BY <2>2, <2>7 DEF span
<1> QED BY <1>1, RotationInvariant, PTL
=============================================================================
