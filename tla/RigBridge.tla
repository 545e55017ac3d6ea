------------------------------- MODULE RigBridge -------------------------------
(***************************************************************************)
(* One alignment of VFO A and B as the worker thread runs it: the bridge   *)
(* script omnirig_bridge.ps1, step by step, under OmniRigClient._run,      *)
(* which kills it after 12 s and reports any other end than an answer as a *)
(* failure.                                                                *)
(*                                                                         *)
(* Each step of the script is one COM call to OmniRig.  OmniRig executes   *)
(* writes later and in order, or the radio does not take them; a COM call  *)
(* may throw; the operator turns the VFOs, keys the transmitter and sets   *)
(* split and routing between any two steps.  A sleep is the time these     *)
(* have, so it is no step of its own.                                      *)
(***************************************************************************)
EXTENDS Integers, Sequences

CONSTANTS Frequencies,  \* in Hz, on a coarse scale
          Targets,      \* what an alignment may ask for
          Tolerance,    \* 100 Hz
          MaxPending    \* writes OmniRig may still have queued when the next alignment starts

ASSUME FrequencyAssumption ==
  /\ Frequencies \subseteq Int /\ Targets \subseteq Frequencies
  /\ Targets # {} /\ Tolerance \in Nat /\ MaxPending \in Nat

VARIABLES
  pc,          \* where the script is
  target,      \* $FrequencyHz
  original,    \* $originalA, $originalB
  moved,       \* the VFOs moved: $movedA, $movedB
  vfo,         \* the frequencies of A and B
  radio,       \* tx, split, routing as OmniRig reports them
  commands,    \* writes OmniRig has not executed yet
  fresh,       \* history: receive was read after the last write and its sleep
  before,      \* history: the VFOs when the alignment began
  excused      \* history: someone else moved a VFO, or a rollback was forgone or lost

script_vars == <<pc, target, original, moved>>
vars == <<script_vars, vfo, radio, commands, fresh, before, excused>>

Vfos    == {"A", "B"}
Checks  == {"online", "receive", "split", "routing"}
Forward == {"moveB", "verifyB", "receiveB", "moveA", "verifyA", "verifyRx", "receiveA"}
Back    == {"caught", "restoreB", "restoreA"}
Running == Checks \cup {"remember"} \cup Forward \cup Back \cup {"snapshot"}
Ended   == {"verified", "failed", "killed"}

Tunings == [Vfos -> Frequencies]
Write   == [vfo : Vfos, frequency : Frequencies]

TypeOK ==
  /\ pc \in Running \cup Ended \cup {"idle"}
  /\ target \in Targets
  /\ original \in Tunings /\ vfo \in Tunings /\ before \in Tunings
  /\ moved \subseteq Vfos
  /\ radio \in [tx : BOOLEAN, split : BOOLEAN, routing : BOOLEAN]
  /\ commands \in Seq(Write)
  /\ fresh \in BOOLEAN /\ excused \in BOOLEAN

Init ==
  /\ pc = "idle" /\ target \in Targets
  /\ vfo \in Tunings /\ original = vfo /\ before = vfo
  /\ moved = {}
  /\ radio \in [tx : BOOLEAN, split : BOOLEAN, routing : BOOLEAN]
  /\ commands = <<>>
  /\ fresh = FALSE /\ excused = FALSE

-----------------------------------------------------------------------------
(* The script.                                                             *)

OnTarget(frequency) == frequency - target \in -Tolerance .. Tolerance

\* GetRxFrequency: of A under RX-A/TX-B routing.
ReceiveFrequency == IF radio.routing THEN vfo["A"] ELSE vfo["B"]

Goto(step) == pc' = step /\ UNCHANGED <<target, original, moved>>

Idle == UNCHANGED <<vfo, radio, before>>   \* what no step of the script does itself

\* OmniRigClient.align starts the bridge with a frequency of the band plan.
Align(frequency) ==
  /\ pc \in Ended \cup {"idle"} /\ Len(commands) <= MaxPending
  /\ pc' = "online" /\ target' = frequency
  /\ moved' = {} /\ original' = original
  /\ before' = vfo /\ fresh' = FALSE /\ excused' = (commands # <<>>)
  /\ UNCHANGED <<vfo, radio, commands>>

\* A check that does not pass throws before anything has moved.
Check(step, passed, next) ==
  /\ pc = step
  /\ IF passed THEN Goto(next) ELSE Goto("failed")
  /\ Idle /\ UNCHANGED <<commands, excused>>

\* Rig 1 online, its profile capable, the frequency in range
CheckRig == \E qualified \in BOOLEAN :
              Check("online", qualified, "receive") /\ UNCHANGED fresh
CheckReceive == Check("receive", ~radio.tx, "split") /\ fresh' = ~radio.tx
CheckSplit   == Check("split", radio.split, "routing") /\ UNCHANGED fresh
CheckRouting == Check("routing", radio.routing, "remember") /\ UNCHANGED fresh

Remember ==
  /\ pc = "remember"
  /\ original' = vfo
  /\ pc' = "moveB" /\ UNCHANGED <<target, moved>>
  /\ Idle /\ UNCHANGED <<commands, fresh, excused>>

\* mutant: the move is not noted ($movedB stays $false)
MoveUnnoted(step, name, next) ==
  /\ pc = step
  /\ IF OnTarget(vfo[name])
     THEN UNCHANGED <<commands, fresh>>
     ELSE /\ commands' = Append(commands, [vfo |-> name, frequency |-> target])
          /\ fresh' = FALSE
  /\ Goto(next)
  /\ Idle /\ UNCHANGED excused

\* Move a VFO that is not on target, and sleep.
Move(step, name, next) ==
  /\ pc = step
  /\ IF OnTarget(vfo[name])
     THEN UNCHANGED <<moved, commands, fresh>>
     ELSE /\ commands' = Append(commands, [vfo |-> name, frequency |-> target])
          /\ moved' = moved \cup {name}
          /\ fresh' = FALSE
  /\ pc' = next /\ UNCHANGED <<target, original>>
  /\ Idle /\ UNCHANGED excused

\* A verification that does not pass throws into the rollback.
Verify(step, passed, next) ==
  /\ pc = step
  /\ IF passed THEN Goto(next) ELSE Goto("caught")
  /\ Idle /\ UNCHANGED <<commands, excused>>

\* mutants: a verification after a move is dropped
UnverifiedB == Verify("verifyB", TRUE, "receiveB") /\ UNCHANGED fresh
UnverifiedA == Verify("verifyA", TRUE, "verifyRx") /\ UNCHANGED fresh
UncheckedB  == Verify("receiveB", TRUE, "moveA") /\ UNCHANGED fresh

MoveB    == Move("moveB", "B", "verifyB")
VerifyB  == Verify("verifyB", OnTarget(vfo["B"]), "receiveB") /\ UNCHANGED fresh
ReceiveB == Verify("receiveB", ~radio.tx, "moveA") /\ fresh' = ~radio.tx
MoveA    == Move("moveA", "A", "verifyA")
VerifyA  == Verify("verifyA", OnTarget(vfo["A"]), "verifyRx") /\ UNCHANGED fresh
VerifyRx == Verify("verifyRx", OnTarget(ReceiveFrequency), "receiveA") /\ UNCHANGED fresh
ReceiveA == Verify("receiveA", ~radio.tx, "snapshot") /\ fresh' = ~radio.tx

\* The answer; without one, or with an incomplete one, _run raises: a failure,
\* and no rollback.
Snapshot ==
  /\ pc = "snapshot"
  /\ \E answered \in BOOLEAN :
       /\ Goto(IF answered THEN "verified" ELSE "failed")
       /\ excused' = (excused \/ ~answered)
  /\ Idle /\ UNCHANGED <<commands, fresh>>

\* The catch block: roll back in receive only, B then A, then throw on.
Catch ==
  /\ pc = "caught"
  /\ Goto(IF radio.tx THEN "failed" ELSE "restoreB")
  /\ fresh' = ~radio.tx
  /\ excused' = (excused \/ radio.tx)
  /\ Idle /\ UNCHANGED commands

Restore(step, name, next) ==
  /\ pc = step
  /\ IF name \in moved
     THEN /\ commands' = Append(commands, [vfo |-> name, frequency |-> original[name]])
          /\ fresh' = FALSE
     ELSE UNCHANGED <<commands, fresh>>
  /\ Goto(next)
  /\ Idle /\ UNCHANGED excused

RestoreB == Restore("restoreB", "B", "restoreA")
RestoreA == Restore("restoreA", "A", "failed")

\* Any COM call may throw: into the rollback from the forward steps, out of the
\* script from the others.
Throw ==
  /\ pc \in Running
  /\ Goto(IF pc \in Forward THEN "caught" ELSE "failed")
  /\ excused' = (excused \/ pc \in Back \cup {"snapshot"})
  /\ Idle /\ UNCHANGED <<commands, fresh>>

\* subprocess.run kills the script 12 s after it began, wherever it is.
Kill ==
  /\ pc \in Running
  /\ Goto("killed")
  /\ Idle /\ UNCHANGED <<commands, fresh, excused>>

Script == \/ CheckRig \/ CheckReceive \/ CheckSplit \/ CheckRouting \/ Remember
          \/ MoveB \/ VerifyB \/ ReceiveB \/ MoveA \/ VerifyA \/ VerifyRx \/ ReceiveA
          \/ Snapshot \/ Catch \/ RestoreB \/ RestoreA \/ Throw

-----------------------------------------------------------------------------
(* OmniRig, the radio and its operator.                                    *)

OmniRigExecutes ==
  /\ commands # <<>>
  /\ vfo' = [vfo EXCEPT ![Head(commands).vfo] = Head(commands).frequency]
  /\ commands' = Tail(commands)
  /\ UNCHANGED <<script_vars, radio, fresh, before, excused>>

\* A write the radio does not take; losing one of a rollback undoes the rollback.
OmniRigLoses ==
  /\ commands # <<>>
  /\ commands' = Tail(commands)
  /\ excused' = (excused \/ pc \notin Forward)
  /\ UNCHANGED <<script_vars, vfo, radio, fresh, before>>

OperatorTunes(name, frequency) ==
  /\ vfo' = [vfo EXCEPT ![name] = frequency]
  /\ excused' = TRUE
  /\ UNCHANGED <<script_vars, radio, commands, fresh, before>>

OperatorSets(control) ==
  /\ radio' = [radio EXCEPT ![control] = ~radio[control]]
  /\ UNCHANGED <<script_vars, vfo, commands, fresh, before, excused>>

Next ==
  \/ \E frequency \in Targets : Align(frequency)
  \/ Script \/ Kill
  \/ OmniRigExecutes \/ OmniRigLoses
  \/ \E name \in Vfos, frequency \in Frequencies : OperatorTunes(name, frequency)
  \/ \E control \in {"tx", "split", "routing"} : OperatorSets(control)

Spec == Init /\ [][Next]_vars

-----------------------------------------------------------------------------
(* What the bridge promises.                                               *)

\* An alignment reported as done left both VFOs on the frequency asked for, unless
\* the operator tuned, or writes of an earlier alignment were still queued: the
\* bridge verifies A and B each by itself (omnirig_bridge.ps1:77,84), whatever the
\* routing is by then and whichever write the radio did not take.
VerifiedMeansAligned ==
  pc = "verified" /\ ~excused => OnTarget(vfo["A"]) /\ OnTarget(vfo["B"])

\* The receive VFO is never moved to a band the transmit VFO has not reached: once
\* A has been written, B is on target (B is moved and verified first, lines 72-83).
TransmitVfoFirst ==
  "A" \in moved /\ pc \in Forward \cup {"snapshot"} /\ ~excused => OnTarget(vfo["B"])

\* A failed alignment that was allowed to roll back leaves both VFOs where they
\* were, whichever of its writes the radio took, and in whatever order (87-93).
RolledBack ==
  pc = "failed" /\ ~excused /\ commands = <<>> => vfo = before

\* Each forward move follows a reading of receive that no earlier move separates
\* from it (63, 78): a transmission that starts while B settles stops the move of A.
FreshMoves ==
  [][(MoveB \/ MoveA) /\ commands' # commands => fresh]_vars
=============================================================================
