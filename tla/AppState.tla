------------------------------ MODULE AppState ------------------------------
(***************************************************************************)
(* The life cycle of the assistant (state.py): what the dashboard promises *)
(* the operator about the state it shows.  BandSearch is shown to          *)
(* implement it: a transition it does not allow is one for which           *)
(* StateMachine.transition raises ValueError, in the middle of the handler *)
(* that asked for it.                                                      *)
(***************************************************************************)

States == {"STOPPED", "STARTING", "MONITORING",
           "TARGET_DECODED", "DEGRADED", "ERROR"}

ALLOWED_TRANSITIONS ==
  [from \in States |->
     CASE from = "STOPPED"        -> {"STARTING"}
       [] from = "STARTING"       -> {"MONITORING", "ERROR", "STOPPED"}
       [] from = "MONITORING"     -> {"TARGET_DECODED", "DEGRADED", "ERROR", "STOPPED"}
       [] from = "TARGET_DECODED" -> {"MONITORING", "DEGRADED", "ERROR", "STOPPED"}
       [] from = "DEGRADED"       -> {"MONITORING", "TARGET_DECODED", "ERROR", "STOPPED"}
       [] from = "ERROR"          -> {"STARTING", "STOPPED"}]

VARIABLE current

Init == current = "STOPPED"

\* StateMachine.transition to a state other than the current one.
Transition(to) ==
  /\ to \in ALLOWED_TRANSITIONS[current]
  /\ current' = to

Next == \E to \in States : Transition(to)

Spec == Init /\ [][Next]_current
=============================================================================
