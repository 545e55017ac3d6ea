----------------------------- MODULE BandRotation -----------------------------
(***************************************************************************)
(* The order in which BandSearch visits bands, apart from everything else: *)
(* its set-valued choices against the list code they stand for, and the    *)
(* round they add up to when the focus changes at dwell boundaries.        *)
(***************************************************************************)
EXTENDS BandSearch, FiniteSets, SequencesExt

VARIABLE round      \* the bands dwelt on since the list last changed

\* The ranking has each band once.
ASSUME FocusAssumption ==
  \A list \in FocusLists : \A i, j \in DOMAIN list : list[i] = list[j] => i = j

(* The list code, as it is written.                                        *)

\* [name for name in list if name in bands]
Kept(list, bands) ==
  LET kept[n \in 0 .. Len(list)] ==
        IF n = 0 THEN <<>>
        ELSE IF list[n] \in bands THEN Append(kept[n - 1], list[n]) ELSE kept[n - 1]
  IN  kept[Len(list)]

EnabledBandNames == Kept(BandPlan, session_band_enabled)
FocusedNames     == Kept(pskr_priority_bands, ToSet(EnabledBandNames))
SearchBandNames  == IF FocusedNames # <<>> THEN FocusedNames ELSE EnabledBandNames

next_band(current, names) ==
  IF ~Contains(names, current) THEN names[1]
  ELSE names[(SelectInSeq(names, LAMBDA name : name = current) % Len(names)) + 1]

starting_band(names) ==
  LET here == band_for_frequency(engine.dial)
  IN  IF Contains(names, here) THEN here ELSE names[1]

RInit ==
  /\ session_band_enabled \in (SUBSET Bands) \ {{}}
  /\ pskr_priority_bands \in FocusLists
  /\ \E band \in Bands \cup {NoBand} : search = [NewSession EXCEPT !.current_band = band]
  /\ \E dial \in Dials : engine = [FreshEngine EXCEPT !.dial = dial]
  /\ machine = "MONITORING" /\ tune_in_progress = FALSE /\ tunes = {}
  /\ alarm_active = FALSE /\ suppressed_target_band = NoBand
  /\ current_band = band_for_frequency(engine.dial)
  /\ wsjtx_status_available = TRUE /\ last_packet = "recent" /\ window = "open"
  /\ round = <<>>

\* A hop, or a dwell restarted: what SearchTick and the result of its alignment
\* do to the session.  Two rounds are enough to see one after any start.
Dwell ==
  /\ Len(round) < 2 * Cardinality(SearchBands)
  /\ \E band \in NextBand(search, SearchBands, SearchOrder) :
       /\ search' = TunedTo(search, band)
       /\ round' = Append(round, band)
  /\ UNCHANGED <<machine, tune_in_progress, tunes, alert_vars, radio_vars, plan_vars, window>>

NewFocus ==
  /\ round # <<>>
  /\ pskr_priority_bands' \in FocusLists \ {pskr_priority_bands}
  /\ round' = <<>>
  /\ UNCHANGED <<machine, search_vars, alert_vars, radio_vars, session_band_enabled, window>>

RNext == Dwell \/ NewFocus
RSpec == RInit /\ [][RNext]_<<vars, round>>

\* The sets of BandSearch pick exactly the band the lists of hopping.py:44-50
\* and dashboard.py:429-435, 477-478 pick.
ListsAgree ==
  /\ NextBand(search, SearchBands, SearchOrder)
       = {next_band(search.current_band, SearchBandNames)}
  /\ StartingBands = {starting_band(SearchBandNames)}

\* Any n dwells in a row, where n bands are searched, are on n different bands:
\* no band waits longer than one round, whatever the current band was when the
\* list changed (hopping.py:47-50).
EveryBandEachRound ==
  \A i \in 1 .. Len(round) - Cardinality(SearchBands) + 1 :
    ToSet(SubSeq(round, i, i + Cardinality(SearchBands) - 1)) = SearchBands
=============================================================================
