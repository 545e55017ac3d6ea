---------------------------- MODULE SearchSession ----------------------------
(***************************************************************************)
(* The band-search session of hopping.py, as operators on its record       *)
(*   [state, current_band, deadline].                                      *)
(* The clock is abstracted to what is_due() tells apart: the deadline is   *)
(* absent, ahead of the clock, or passed.  How a deadline passes is the    *)
(* clock's business (BandSearch!DwellElapses).                             *)
(* A definition marked "mutant" is a bug the one after it does not have.   *)
(***************************************************************************)
EXTENDS Naturals, Functions

CONSTANT NoBand      \* Python's None where a band name is expected

SearchStates == {"STOPPED", "STARTING", "SEARCHING", "PAUSED",
                 "TARGET_HOLD", "OPERATOR_CONTROL", "ERROR"}

\* The states in which the search may move the VFOs.
ActiveStates    == {"STARTING", "SEARCHING"}
ResumableStates == {"PAUSED", "TARGET_HOLD", "OPERATOR_CONTROL", "ERROR"}
Deadlines       == {"none", "ahead", "passed"}

Sessions(bands) ==
  [state : SearchStates, current_band : bands \cup {NoBand}, deadline : Deadlines]

NewSession == [state |-> "STOPPED", current_band |-> NoBand, deadline |-> "none"]

Without(session, state) == [session EXCEPT !.state = state, !.deadline = "none"]

Begin(session)          == Without(session, "STARTING")
Pause(session)          == Without(session, "PAUSED")
HoldForTarget(session)  == Without(session, "TARGET_HOLD")
HandToOperator(session) == Without(session, "OPERATOR_CONTROL")
StopSession(session)    == Without(session, "STOPPED")
Fail(session)           == Without(session, "ERROR")

TunedKeepingState(session, band) ==                               \* mutant
  [session EXCEPT !.current_band = band, !.deadline = "ahead"]
TunedTo(session, band) ==
  [state |-> "SEARCHING", current_band |-> band, deadline |-> "ahead"]

IsDue(session) == session.state = "SEARCHING" /\ session.deadline = "passed"

CanResume(session, tx) == session.state \in ResumableStates /\ ~tx

-----------------------------------------------------------------------------
(***************************************************************************)
(* Band lists.  A list without repetitions is a set of bands and the       *)
(* position of each; the head of the list and the successor of a band are  *)
(* singletons of it.  (TLAPS reasons about these sets; BandRotation        *)
(* compares them with the indexing of the source.)                         *)
(***************************************************************************)
Position(list) == [band \in Range(list) |->
                     CHOOSE i \in DOMAIN list : list[i] = band]

FirstOf(bands, position) ==
  {band \in bands : \A other \in bands : position[band] <= position[other]}

AlwaysFirst(session, bands, position) == FirstOf(bands, position)  \* mutant
NotBefore(session, bands, position) ==                            \* mutant
  LET later == {band \in bands : /\ session.current_band \in bands
                                 /\ position[band] >= position[session.current_band]}
  IN  FirstOf(IF later = {} THEN bands ELSE later, position)

\* SearchSession.next_band: the next one round the list, or its head when the
\* current band is not (or no longer) on it.
NextBand(session, bands, position) ==
  LET later == {band \in bands : /\ session.current_band \in bands
                                 /\ position[band] > position[session.current_band]}
  IN  FirstOf(IF later = {} THEN bands ELSE later, position)
=============================================================================
