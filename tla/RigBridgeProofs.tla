--------------------------- MODULE RigBridgeProofs ---------------------------
(***************************************************************************)
(* Proofs about the bridge, for every set of frequencies and tolerance.    *)
(***************************************************************************)
EXTENDS RigBridge, TLAPS

\* What the proofs expand to see the steps of the script.
Passing == Script \/ Kill
Outside ==
  \/ OmniRigExecutes \/ OmniRigLoses
  \/ \E name \in Vfos, frequency \in Frequencies : OperatorTunes(name, frequency)
  \/ \E control \in {"tx", "split", "routing"} : OperatorSets(control)

-----------------------------------------------------------------------------
(* Type correctness.                                                       *)

\* The steps of the script keep the types.
LEMMA ScriptTypes == TypeOK /\ Passing => TypeOK'
<1> USE FrequencyAssumption
<1> SUFFICES ASSUME TypeOK, Passing PROVE TypeOK'
  OBVIOUS
<1>1. CASE CheckRig \/ CheckReceive \/ CheckSplit \/ CheckRouting
  BY <1>1 DEF CheckRig, CheckReceive, CheckSplit, CheckRouting, Check, Goto, Idle, TypeOK,
     Running, Ended, Checks, Forward, Back
<1>2. CASE Remember
  BY <1>2 DEF Remember, Idle, TypeOK, Running, Forward
<1>3. ASSUME NEW name \in Vfos, NEW step, NEW next \in Forward, Move(step, name, next)
      PROVE  TypeOK'
  <2>1. [vfo |-> name, frequency |-> target] \in Write
    BY DEF TypeOK, Write
  <2>2. Append(commands, [vfo |-> name, frequency |-> target]) \in Seq(Write)
    BY <2>1 DEF TypeOK
  <2>3. commands' \in Seq(Write) /\ moved' \subseteq Vfos /\ fresh' \in BOOLEAN
    BY <1>3, <2>2 DEF Move, TypeOK
  <2> QED BY <1>3, <2>3 DEF Move, Idle, TypeOK, Running
<1>4. CASE VerifyB \/ ReceiveB \/ VerifyA \/ VerifyRx \/ ReceiveA
  BY <1>4 DEF VerifyB, ReceiveB, VerifyA, VerifyRx, ReceiveA, Verify, Goto, Idle, TypeOK,
     Running, Forward, Back
<1>5. CASE Snapshot \/ Catch
  BY <1>5 DEF Snapshot, Catch, Goto, Idle, TypeOK, Running, Ended, Back
<1>6. ASSUME NEW name \in Vfos, NEW step, NEW next \in {"restoreA", "failed"},
             Restore(step, name, next)
      PROVE  TypeOK'
  <2>1. [vfo |-> name, frequency |-> original[name]] \in Write
    BY DEF TypeOK, Write, Tunings
  <2>2. Append(commands, [vfo |-> name, frequency |-> original[name]]) \in Seq(Write)
    BY <2>1 DEF TypeOK
  <2>3. commands' \in Seq(Write) /\ fresh' \in BOOLEAN
    BY <1>6, <2>2 DEF Restore, TypeOK
  <2> QED BY <1>6, <2>3 DEF Restore, Goto, Idle, TypeOK, Running, Ended, Back
<1>7. CASE Throw
  BY <1>7 DEF Throw, Goto, Idle, TypeOK, Running, Ended, Back
<1>8. CASE Kill
  BY <1>8 DEF Kill, Goto, Idle, TypeOK, Ended
<1> QED BY <1>1, <1>2, <1>3, <1>4, <1>5, <1>6, <1>7, <1>8
   DEF Passing, Script, MoveB, MoveA, RestoreB, RestoreA, Vfos, Forward

\* So do those of OmniRig and of the operator.
LEMMA OutsideTypes == TypeOK /\ Outside => TypeOK'
<1> SUFFICES ASSUME TypeOK, Outside PROVE TypeOK'
  OBVIOUS
<1>1. CASE OmniRigExecutes
  <2>1. Head(commands) \in Write /\ Tail(commands) \in Seq(Write)
    BY <1>1 DEF OmniRigExecutes, TypeOK
  <2> QED BY <1>1, <2>1 DEF OmniRigExecutes, script_vars, TypeOK, Write, Tunings
<1>2. CASE OmniRigLoses
  BY <1>2 DEF OmniRigLoses, script_vars, TypeOK
<1>3. CASE \E name \in Vfos, frequency \in Frequencies : OperatorTunes(name, frequency)
  BY <1>3 DEF OperatorTunes, script_vars, TypeOK, Tunings
<1>4. CASE \E control \in {"tx", "split", "routing"} : OperatorSets(control)
  <2> PICK control \in {"tx", "split", "routing"} : OperatorSets(control)
    BY <1>4
  <2>1. radio' = [radio EXCEPT ![control] = ~radio[control]]
    BY DEF OperatorSets
  <2>2. radio' \in [tx : BOOLEAN, split : BOOLEAN, routing : BOOLEAN]
    <3>1. CASE control = "tx"      BY <3>1, <2>1 DEF TypeOK
    <3>2. CASE control = "split"   BY <3>2, <2>1 DEF TypeOK
    <3>3. CASE control = "routing" BY <3>3, <2>1 DEF TypeOK
    <3> QED BY <3>1, <3>2, <3>3
  <2> QED BY <2>2 DEF OperatorSets, script_vars, TypeOK
<1> QED BY <1>1, <1>2, <1>3, <1>4 DEF Outside

\* Every reachable state is well typed.
THEOREM TypeCorrect == Spec => []TypeOK
<1>1. Init => TypeOK
  <2>1. <<>> \in Seq(Write)
    OBVIOUS
  <2> QED BY <2>1, FrequencyAssumption DEF Init, TypeOK
<1>2. TypeOK /\ [Next]_vars => TypeOK'
  <2> SUFFICES ASSUME TypeOK, [Next]_vars PROVE TypeOK'
    OBVIOUS
  <2>1. CASE \E frequency \in Targets : Align(frequency)
    BY <2>1, FrequencyAssumption DEF Align, TypeOK, Running, Checks
  <2>2. CASE Passing \/ Outside
    BY <2>2, ScriptTypes, OutsideTypes
  <2>3. CASE UNCHANGED vars
    BY <2>3 DEF vars, script_vars, TypeOK
  <2> QED BY <2>1, <2>2, <2>3 DEF Next, Passing, Outside
<1> QED BY <1>1, <1>2, PTL DEF Spec

-----------------------------------------------------------------------------
(* The inductive invariant of an alignment that nobody disturbs.           *)

Pending == DOMAIN commands
Before  == Checks \cup {"remember"}
PastB   == {"receiveB", "moveA", "verifyA", "verifyRx", "receiveA", "snapshot", "verified"}
PastA   == {"verifyRx", "receiveA", "snapshot", "verified"}

\* The VFO has not been written and nothing pending writes it.
Untouched(name) ==
  vfo[name] = before[name] /\ \A i \in Pending : commands[i].vfo # name

\* When OmniRig has executed what is pending, the VFO is where it was before.
Settled(name) ==
  \/ Untouched(name)
  \/ \E i \in Pending :
       /\ commands[i] = [vfo |-> name, frequency |-> before[name]]
       /\ \A j \in Pending : j > i => commands[j].vfo # name

\* Only writes of the target are pending while the script goes forward.
OnlyTargetPending ==
  pc \in Forward \cup {"snapshot", "verified"} =>
    \A i \in Pending : commands[i].frequency = target
StartsClean == pc \in Before => commands = <<>> /\ vfo = before /\ moved = {}
Reached     == /\ pc \in PastB => OnTarget(vfo["B"])
               /\ pc \in PastA => OnTarget(vfo["A"])
BeforeKnown == pc \in Forward \cup Back => original = before
Unmoved     == pc \in Forward \cup Back => \A name \in Vfos \ moved : Untouched(name)
Restored    == /\ pc = "restoreA" => Settled("B")
               /\ pc = "failed" => \A name \in Vfos : Settled(name)

Undisturbed == ~excused =>
  /\ OnlyTargetPending /\ StartsClean /\ Reached /\ BeforeKnown /\ Unmoved /\ Restored

\* A is written after B is verified; a move follows a reading of receive.
Order ==
  /\ pc \in Before \cup {"moveB", "verifyB", "receiveB", "moveA"} => "A" \notin moved
  /\ pc \in {"split", "routing", "remember", "moveB", "moveA"} => fresh

BridgeInv == TypeOK /\ Undisturbed /\ Order

-----------------------------------------------------------------------------
(* What a write and its execution do to a VFO that will be where it was.   *)

\* A write that is executed leaves no VFO less settled than it was.
LEMMA ExecutionSettles ==
  ASSUME TypeOK, OmniRigExecutes, NEW name \in Vfos
  PROVE  /\ Untouched(name) => Untouched(name)'
         /\ Settled(name) => Settled(name)'
<1>1. /\ commands \in Seq(Write) /\ commands # <<>>
      /\ vfo' = [vfo EXCEPT ![commands[1].vfo] = commands[1].frequency]
      /\ commands' = Tail(commands) /\ before' = before
  <2>1. commands \in Seq(Write) /\ commands # <<>>
    BY DEF OmniRigExecutes, TypeOK
  <2>2. Head(commands) = commands[1]
    BY <2>1
  <2> QED BY <2>1, <2>2 DEF OmniRigExecutes
<1>2. /\ Len(commands) \in Nat /\ Len(commands) > 0
      /\ Pending = 1 .. Len(commands) /\ Pending' = 1 .. Len(commands) - 1
      /\ \A i \in Pending' : commands'[i] = commands[i + 1]
  BY <1>1 DEF Pending
<1>3. vfo \in Tunings
  BY DEF TypeOK
<1>4. ASSUME Untouched(name) PROVE Untouched(name)'
  <2>1. vfo'[name] = vfo[name]
    BY <1>1, <1>2, <1>3, <1>4 DEF Untouched, Tunings
  <2>2. \A i \in Pending' : commands'[i].vfo # name
    BY <1>2, <1>4 DEF Untouched
  <2> QED BY <1>1, <1>4, <2>1, <2>2 DEF Untouched
<1>5. ASSUME NEW i \in Pending, commands[i] = [vfo |-> name, frequency |-> before[name]],
             \A j \in Pending : j > i => commands[j].vfo # name
      PROVE  Settled(name)'
  <2>1. CASE i = 1
    <3>1. vfo'[name] = before'[name]
      BY <1>1, <1>3, <1>5, <2>1 DEF Tunings
    <3>2. \A j \in Pending' : commands'[j].vfo # name
      BY <1>2, <1>5, <2>1
    <3> QED BY <3>1, <3>2 DEF Settled, Untouched
  <2>2. CASE i # 1
    <3>1. i - 1 \in Pending' /\ commands'[i - 1] = commands[i]
      BY <1>2, <1>5, <2>2
    <3>2. \A j \in Pending' : j > i - 1 => commands'[j].vfo # name
      BY <1>2, <1>5, <2>2
    <3> QED BY <1>1, <1>5, <3>1, <3>2 DEF Settled
  <2> QED BY <2>1, <2>2
<1> QED BY <1>4, <1>5 DEF Settled

\* A further write leaves the other VFO as it was, and one back to where its own began settles that.
LEMMA WritesSettle ==
  ASSUME TypeOK, NEW name \in Vfos, NEW write \in Write,
         commands' = Append(commands, write), UNCHANGED <<vfo, before>>
  PROVE  /\ Untouched(name) /\ write.vfo # name => Untouched(name)'
         /\ Settled(name) /\ write.vfo # name => Settled(name)'
         /\ write = [vfo |-> name, frequency |-> before[name]] => Settled(name)'
<1>1. /\ Len(commands) \in Nat
      /\ Pending = 1 .. Len(commands) /\ Pending' = 1 .. Len(commands) + 1
      /\ \A i \in Pending : commands'[i] = commands[i]
      /\ commands'[Len(commands) + 1] = write
  BY DEF Pending, TypeOK
<1>2. Untouched(name) /\ write.vfo # name => Untouched(name)'
  BY <1>1 DEF Untouched
<1>3. Settled(name) /\ write.vfo # name => Settled(name)'
  BY <1>1, <1>2 DEF Settled
<1>4. write = [vfo |-> name, frequency |-> before[name]] => Settled(name)'
  BY <1>1 DEF Settled
<1> QED BY <1>2, <1>3, <1>4

-----------------------------------------------------------------------------
(* The invariant is kept.                                                  *)

\* Nothing a VFO will be depends on more than its frequency and what is pending.
LEMMA NothingWritten ==
  ASSUME UNCHANGED <<vfo, commands, before>>, NEW name \in Vfos
  PROVE  (Untouched(name)' <=> Untouched(name)) /\ (Settled(name)' <=> Settled(name))
BY DEF Untouched, Settled, Pending

\* A check, passed or not, keeps the invariant.
LEMMA ChecksKeep ==
  ASSUME BridgeInv, CheckRig \/ CheckReceive \/ CheckSplit \/ CheckRouting
  PROVE  Undisturbed' /\ Order'
<1>1. /\ pc \in Checks /\ pc' \in Checks \cup {"remember", "failed"}
      /\ UNCHANGED <<target, original, moved, vfo, before, commands, excused>>
  BY DEF CheckRig, CheckReceive, CheckSplit, CheckRouting, Check, Goto, Idle, Checks
<1>2. Order'
  BY <1>1 DEF BridgeInv, Order, CheckRig, CheckReceive, CheckSplit, CheckRouting, Check, Goto,
     Checks, Before
<1>3. ASSUME ~excused' PROVE /\ commands = <<>> /\ vfo = before /\ moved = {}
                             /\ \A name \in Vfos : Settled(name)'
  <2>1. commands = <<>> /\ vfo = before /\ moved = {}
    BY <1>1, <1>3 DEF BridgeInv, Undisturbed, StartsClean, Before
  <2>2. \A name \in Vfos : Untouched(name)
    BY <2>1 DEF Untouched, Pending
  <2> QED BY <1>1, <2>1, <2>2, NothingWritten DEF Settled
<1>4. Undisturbed'
  BY <1>1, <1>3 DEF Undisturbed, OnlyTargetPending, StartsClean, Reached, BeforeKnown, Unmoved,
     Restored, Checks, Before, Forward, Back, PastB, PastA
<1> QED BY <1>2, <1>4

\* So does the reading of the original frequencies.
LEMMA RememberKeeps ==
  ASSUME BridgeInv, Remember
  PROVE  Undisturbed' /\ Order'
<1>1. /\ pc = "remember" /\ pc' = "moveB" /\ original' = vfo
      /\ UNCHANGED <<target, moved, vfo, before, commands, excused, fresh>>
  BY DEF Remember, Idle
<1>2. Order'
  BY <1>1 DEF BridgeInv, Order, Before
<1>3. ASSUME ~excused' PROVE /\ commands = <<>> /\ vfo = before
                             /\ \A name \in Vfos : Untouched(name)'
  <2>1. commands = <<>> /\ vfo = before
    BY <1>1, <1>3 DEF BridgeInv, Undisturbed, StartsClean, Before
  <2>2. \A name \in Vfos : Untouched(name)
    BY <2>1 DEF Untouched, Pending
  <2> QED BY <1>1, <2>1, <2>2, NothingWritten
<1>4. Undisturbed'
  BY <1>1, <1>3 DEF Undisturbed, OnlyTargetPending, StartsClean, Reached, BeforeKnown, Unmoved,
     Restored, Checks, Before, PastB, PastA, Pending
<1> QED BY <1>2, <1>4

\* So does a write of the forward part.
LEMMA MoveKeeps ==
  ASSUME BridgeInv, MoveB \/ MoveA
  PROVE  Undisturbed' /\ Order'
<1> DEFINE Moving(name, next) ==
      /\ pc' = next
      /\ IF OnTarget(vfo[name])
         THEN UNCHANGED <<moved, commands, fresh>>
         ELSE /\ commands' = Append(commands, [vfo |-> name, frequency |-> target])
              /\ moved' = moved \cup {name}
              /\ fresh' = FALSE
      /\ UNCHANGED <<target, original, vfo, before, excused>>
<1>1. \/ pc = "moveB" /\ Moving("B", "verifyB")
      \/ pc = "moveA" /\ Moving("A", "verifyA")
  BY DEF MoveB, MoveA, Move, Idle
<1>2. Order'
  BY <1>1 DEF BridgeInv, Order, Before, Checks
<1>3. ASSUME ~excused' PROVE /\ OnlyTargetPending /\ Reached /\ BeforeKnown /\ Unmoved
  BY <1>1, <1>3 DEF BridgeInv, Undisturbed
<1>4. ASSUME ~excused', NEW name \in Vfos \ moved' PROVE Untouched(name)'
  <2>1. Untouched(name)
    BY <1>1, <1>3, <1>4 DEF Unmoved, Forward
  <2>2. CASE UNCHANGED commands
    BY <1>1, <2>1, <2>2, NothingWritten
  <2>3. ASSUME NEW other \in Vfos, other \in moved',
               commands' = Append(commands, [vfo |-> other, frequency |-> target])
        PROVE  Untouched(name)'
    <3>1. [vfo |-> other, frequency |-> target] \in Write
      BY FrequencyAssumption DEF BridgeInv, TypeOK, Write
    <3>2. other # name
      BY <1>4, <2>3
    <3> QED BY <1>1, <2>1, <2>3, <3>1, <3>2, WritesSettle DEF BridgeInv
  <2> QED BY <1>1, <2>2, <2>3 DEF Vfos
<1>5. ASSUME ~excused' PROVE \A i \in Pending' : commands'[i].frequency = target'
  <2>1. \A i \in Pending : commands[i].frequency = target
    BY <1>1, <1>3, <1>5 DEF OnlyTargetPending, Forward
  <2>2. commands \in Seq(Write)
    BY DEF BridgeInv, TypeOK
  <2> QED BY <1>1, <2>1, <2>2 DEF Pending
<1>6. ASSUME ~excused' PROVE Reached'
  BY <1>1, <1>3, <1>6 DEF Reached, PastB, PastA, OnTarget
<1>7. Undisturbed'
  BY <1>1, <1>3, <1>4, <1>5, <1>6 DEF Undisturbed, OnlyTargetPending, StartsClean, BeforeKnown,
     Unmoved, Restored, Before, Checks, Forward
<1> QED BY <1>2, <1>7

\* A step that writes nothing keeps Unmoved.
LEMMA QuietKeepsUnmoved ==
  ASSUME Unmoved, pc \in Forward \cup Back, UNCHANGED <<moved, vfo, commands, before>>
  PROVE  Unmoved' /\ \A name \in Vfos \ moved : Untouched(name)'
BY NothingWritten DEF Unmoved

\* So does a verification, passed or not.
LEMMA VerifyKeeps ==
  ASSUME BridgeInv, VerifyB \/ ReceiveB \/ VerifyA \/ VerifyRx \/ ReceiveA
  PROVE  Undisturbed' /\ Order'
<1>1. /\ UNCHANGED <<target, original, moved, vfo, before, commands, excused>>
      /\ \/ pc \in Forward /\ pc' = "caught"
         \/ pc = "verifyB" /\ pc' = "receiveB" /\ OnTarget(vfo["B"])
         \/ pc = "receiveB" /\ pc' = "moveA" /\ fresh'
         \/ pc = "verifyA" /\ pc' = "verifyRx" /\ OnTarget(vfo["A"])
         \/ pc = "verifyRx" /\ pc' = "receiveA"
         \/ pc = "receiveA" /\ pc' = "snapshot"
  BY DEF VerifyB, ReceiveB, VerifyA, VerifyRx, ReceiveA, Verify, Goto, Idle, Forward
<1>2. pc \in Forward
  BY <1>1 DEF Forward
<1>3. Order'
  BY <1>1 DEF BridgeInv, Order, Before, Checks
<1>4. ASSUME ~excused'
      PROVE  OnlyTargetPending /\ Reached /\ BeforeKnown /\ Unmoved /\ Unmoved'
  BY <1>1, <1>2, <1>4, QuietKeepsUnmoved DEF BridgeInv, Undisturbed
<1>5. ASSUME ~excused' PROVE Reached'
  BY <1>1, <1>4, <1>5 DEF Reached, PastB, PastA, OnTarget
<1>6. Undisturbed'
  BY <1>1, <1>2, <1>4, <1>5 DEF Undisturbed, OnlyTargetPending, StartsClean, BeforeKnown,
     Restored, Before, Checks, Forward, Back, Pending
<1> QED BY <1>3, <1>6

\* So does the reading of the last state.
LEMMA SnapshotKeeps ==
  ASSUME BridgeInv, Snapshot
  PROVE  Undisturbed' /\ Order'
<1>1. /\ pc = "snapshot" /\ pc' \in {"verified", "failed"}
      /\ pc' = "failed" => excused'
      /\ excused => excused'
      /\ UNCHANGED <<target, original, moved, vfo, before, commands, fresh>>
  BY DEF Snapshot, Goto, Idle
<1>2. Order'
  BY <1>1 DEF Order, Before, Checks
<1>3. ASSUME ~excused' PROVE OnlyTargetPending /\ Reached
  BY <1>1, <1>3 DEF BridgeInv, Undisturbed
<1>4. Undisturbed'
  BY <1>1, <1>3 DEF Undisturbed, OnlyTargetPending, StartsClean, Reached, BeforeKnown,
     Unmoved, Restored, Before, Checks, Forward, Back, Pending, PastB, PastA, OnTarget
<1> QED BY <1>2, <1>4

\* Into the catch block, and out of it without a rollback.
LEMMA CatchKeeps ==
  ASSUME BridgeInv, Catch
  PROVE  Undisturbed' /\ Order'
<1>1. /\ pc = "caught" /\ pc' \in {"restoreB", "failed"}
      /\ pc' = "failed" => excused'
      /\ excused => excused'
      /\ UNCHANGED <<target, original, moved, vfo, before, commands>>
  BY DEF Catch, Goto, Idle
<1>2. Order'
  BY <1>1 DEF Order, Before, Checks
<1>3. ASSUME ~excused' PROVE BeforeKnown /\ Unmoved /\ Unmoved'
  BY <1>1, <1>3, QuietKeepsUnmoved DEF BridgeInv, Undisturbed, Back
<1>4. Undisturbed'
  BY <1>1, <1>3 DEF Undisturbed, OnlyTargetPending, StartsClean, Reached, BeforeKnown,
     Restored, Before, Checks, Forward, Back, PastB, PastA
<1> QED BY <1>2, <1>4

\* So does a step of the rollback.
LEMMA RestoreKeeps ==
  ASSUME BridgeInv, RestoreB \/ RestoreA
  PROVE  Undisturbed' /\ Order'
<1> DEFINE Restoring(name) ==
      /\ IF name \in moved
         THEN commands' = Append(commands, [vfo |-> name, frequency |-> original[name]])
         ELSE UNCHANGED commands
      /\ UNCHANGED <<target, original, moved, vfo, before, excused>>
<1>1. \/ pc = "restoreB" /\ pc' = "restoreA" /\ Restoring("B")
      \/ pc = "restoreA" /\ pc' = "failed" /\ Restoring("A")
  BY DEF RestoreB, RestoreA, Restore, Goto, Idle
<1>2. Order'
  BY <1>1 DEF Order, Before, Checks
<1>3. ASSUME ~excused' PROVE BeforeKnown /\ Unmoved /\ Restored /\ original = before
  BY <1>1, <1>3 DEF BridgeInv, Undisturbed, BeforeKnown, Back
<1>4. ASSUME ~excused', NEW name \in Vfos, Restoring(name), pc \in Back
      PROVE  /\ Settled(name)'
             /\ \A other \in Vfos \ {name} :
                  /\ Untouched(other) => Untouched(other)'
                  /\ Settled(other) => Settled(other)'
  <2>1. CASE name \in moved
    <3>1. [vfo |-> name, frequency |-> original[name]] \in Write
      BY DEF BridgeInv, TypeOK, Write, Tunings
    <3>2. original = before
      BY <1>3, <1>4
    <3> QED BY <1>4, <2>1, <3>1, <3>2, WritesSettle DEF BridgeInv
  <2>2. CASE name \notin moved
    <3>1. Untouched(name)
      BY <1>3, <1>4, <2>2 DEF Unmoved
    <3> QED BY <1>4, <2>2, <3>1, NothingWritten DEF Settled
  <2> QED BY <2>1, <2>2
<1>5. ASSUME ~excused', pc = "restoreB" PROVE Settled("B")' /\ Unmoved'
  <2>1. Restoring("B") /\ pc \in Back
    BY <1>1, <1>5 DEF Back
  <2>2. ASSUME NEW name \in Vfos \ moved' PROVE Untouched(name)'
    <3>1. Untouched(name)
      BY <1>3, <1>5, <2>1 DEF Unmoved
    <3>2. CASE name = "B"
      BY <2>1, <2>2, <3>1, <3>2, NothingWritten
    <3>3. CASE name # "B"
      BY <1>4, <1>5, <2>1, <3>1, <3>3 DEF Vfos
    <3> QED BY <3>2, <3>3
  <2> QED BY <1>4, <1>5, <2>1, <2>2 DEF Unmoved, Vfos
<1>6. ASSUME ~excused', pc = "restoreA" PROVE \A name \in Vfos : Settled(name)'
  <2>1. Restoring("A") /\ pc \in Back
    BY <1>1, <1>6 DEF Back
  <2>2. Settled("B")
    BY <1>3, <1>6 DEF Restored
  <2> QED BY <1>4, <1>6, <2>1, <2>2 DEF Vfos
<1>7. Undisturbed'
  BY <1>1, <1>3, <1>5, <1>6 DEF Undisturbed, OnlyTargetPending, StartsClean, Reached,
     BeforeKnown, Unmoved, Restored, Before, Checks, Forward, Back, PastB, PastA
<1> QED BY <1>2, <1>7

\* So does an exception of a COM call.
LEMMA ThrowKeeps ==
  ASSUME BridgeInv, Throw
  PROVE  Undisturbed' /\ Order'
<1>1. /\ \/ pc \in Before /\ pc' = "failed"
         \/ pc \in Forward /\ pc' = "caught"
         \/ pc \in Back \cup {"snapshot"} /\ pc' = "failed" /\ excused'
      /\ excused => excused'
      /\ UNCHANGED <<target, original, moved, vfo, before, commands>>
  BY DEF Throw, Goto, Idle, Running, Before, Forward, Back
<1>2. Order'
  BY <1>1 DEF Order, Before, Checks
<1>3. ASSUME ~excused', pc \in Before PROVE \A name \in Vfos : Settled(name)'
  <2>1. commands = <<>> /\ vfo = before
    BY <1>1, <1>3 DEF BridgeInv, Undisturbed, StartsClean
  <2>2. \A name \in Vfos : Untouched(name)
    BY <2>1 DEF Untouched, Pending
  <2> QED BY <1>1, <2>2, NothingWritten DEF Settled
<1>4. ASSUME ~excused', pc \in Forward PROVE BeforeKnown /\ Unmoved'
  BY <1>1, <1>4, QuietKeepsUnmoved DEF BridgeInv, Undisturbed
<1>5. Undisturbed'
  BY <1>1, <1>3, <1>4 DEF Undisturbed, OnlyTargetPending, StartsClean, Reached,
     BeforeKnown, Unmoved, Restored, Before, Checks, Forward, Back, PastB, PastA
<1> QED BY <1>2, <1>5

\* So does the end by the time limit.
LEMMA KillKeeps == Kill => Undisturbed' /\ Order'
BY DEF Kill, Goto, Undisturbed, Order, OnlyTargetPending, StartsClean, Reached, BeforeKnown,
   Unmoved, Restored, Before, Checks, Forward, Back, PastB, PastA

\* So does the beginning of an alignment.
LEMMA AlignKeeps ==
  ASSUME NEW frequency \in Targets, Align(frequency)
  PROVE  Undisturbed' /\ Order'
BY DEF Align, Undisturbed, Order, OnlyTargetPending, StartsClean, Reached, BeforeKnown,
   Unmoved, Restored, Before, Checks, Forward, Back, PastB, PastA

\* So does a write that OmniRig executes.
LEMMA ExecutionKeeps ==
  ASSUME BridgeInv, OmniRigExecutes
  PROVE  Undisturbed' /\ Order'
<1>1. /\ UNCHANGED <<pc, target, original, moved, fresh, before, excused>>
      /\ commands \in Seq(Write) /\ commands # <<>> /\ commands' = Tail(commands)
      /\ vfo \in Tunings
      /\ vfo' = [vfo EXCEPT ![Head(commands).vfo] = Head(commands).frequency]
  BY DEF OmniRigExecutes, script_vars, BridgeInv, TypeOK
<1>2. Order'
  BY <1>1 DEF BridgeInv, Order
<1>3. ASSUME ~excused'
      PROVE /\ OnlyTargetPending /\ StartsClean /\ Reached
            /\ BeforeKnown /\ Unmoved /\ Restored
  BY <1>1, <1>3 DEF BridgeInv, Undisturbed
<1>4. ASSUME ~excused' PROVE OnlyTargetPending'
  <2>1. \A i \in Pending' : i + 1 \in Pending /\ commands'[i] = commands[i + 1]
    BY <1>1 DEF Pending
  <2> QED BY <1>1, <1>3, <1>4, <2>1 DEF OnlyTargetPending
<1>5. ASSUME ~excused' PROVE Reached'
  <2>1. CASE pc \in PastB
    <3>1. Head(commands).frequency = target
      <4>1. 1 \in Pending /\ Head(commands) = commands[1]
        BY <1>1 DEF Pending
      <4> QED BY <1>3, <1>5, <2>1, <4>1 DEF OnlyTargetPending, PastB, Forward
    <3>2. OnTarget(target)
      BY FrequencyAssumption DEF OnTarget, BridgeInv, TypeOK
    <3>3. \A name \in Vfos : vfo'[name] = vfo[name] \/ vfo'[name] = target
      BY <1>1, <3>1 DEF Tunings
    <3> QED BY <1>1, <1>3, <1>5, <3>2, <3>3 DEF Reached, OnTarget, Vfos
  <2>2. CASE pc \notin PastB
    BY <1>1, <2>2 DEF Reached, PastB, PastA
  <2> QED BY <2>1, <2>2
<1>6. ASSUME ~excused' PROVE StartsClean' /\ BeforeKnown'
  BY <1>1, <1>3, <1>6 DEF StartsClean, BeforeKnown
<1>7. ASSUME ~excused' PROVE Unmoved'
  BY <1>1, <1>3, <1>7, ExecutionSettles DEF Unmoved, BridgeInv
<1>8. ASSUME ~excused' PROVE Restored'
  BY <1>1, <1>3, <1>8, ExecutionSettles DEF Restored, BridgeInv, Vfos
<1> QED BY <1>2, <1>4, <1>5, <1>6, <1>7, <1>8 DEF Undisturbed

\* So does a write that OmniRig loses.
LEMMA LossKeeps ==
  ASSUME BridgeInv, OmniRigLoses
  PROVE  Undisturbed' /\ Order'
<1>1. /\ UNCHANGED <<pc, target, original, moved, vfo, fresh, before>>
      /\ commands \in Seq(Write) /\ commands # <<>> /\ commands' = Tail(commands)
      /\ ~excused' => ~excused /\ pc \in Forward
  BY DEF OmniRigLoses, script_vars, BridgeInv, TypeOK
<1>2. \A i \in Pending' : i + 1 \in Pending /\ commands'[i] = commands[i + 1]
  BY <1>1 DEF Pending
<1>3. Order'
  BY <1>1 DEF BridgeInv, Order
<1>4. ASSUME ~excused' PROVE OnlyTargetPending /\ Reached /\ BeforeKnown /\ Unmoved
  BY <1>1, <1>4 DEF BridgeInv, Undisturbed
<1>5. ASSUME ~excused' PROVE Unmoved'
  <2>1. \A name \in Vfos : Untouched(name) => Untouched(name)'
    BY <1>1, <1>2 DEF Untouched
  <2> QED BY <1>1, <1>4, <1>5, <2>1 DEF Unmoved
<1>6. ASSUME ~excused' PROVE OnlyTargetPending'
  BY <1>1, <1>2, <1>4, <1>6 DEF OnlyTargetPending
<1>7. ASSUME ~excused' PROVE Reached' /\ BeforeKnown'
  BY <1>1, <1>4, <1>7 DEF Reached, BeforeKnown, OnTarget
<1>8. ASSUME ~excused' PROVE StartsClean' /\ Restored'
  BY <1>1, <1>8 DEF StartsClean, Restored, Forward, Before, Checks
<1> QED BY <1>3, <1>5, <1>6, <1>7, <1>8 DEF Undisturbed

\* So does what the operator does at the radio.
LEMMA OperatorKeeps ==
  ASSUME BridgeInv,
         \/ \E name \in Vfos, frequency \in Frequencies : OperatorTunes(name, frequency)
         \/ \E control \in {"tx", "split", "routing"} : OperatorSets(control)
         \/ UNCHANGED vars
  PROVE  Undisturbed' /\ Order'
<1>1. CASE \E name \in Vfos, frequency \in Frequencies : OperatorTunes(name, frequency)
  BY <1>1 DEF OperatorTunes, script_vars, BridgeInv, Undisturbed, Order
<1>2. CASE (\E control \in {"tx", "split", "routing"} : OperatorSets(control)) \/ UNCHANGED vars
  <2>1. UNCHANGED <<script_vars, vfo, commands, fresh, before, excused>>
    BY <1>2 DEF OperatorSets, vars
  <2>2. Order'
    BY <2>1 DEF BridgeInv, Order, script_vars
  <2>3. \A name \in Vfos : (Untouched(name)' <=> Untouched(name))
                           /\ (Settled(name)' <=> Settled(name))
    BY <2>1, NothingWritten
  <2>4. Undisturbed'
    BY <2>1, <2>3 DEF BridgeInv, Undisturbed, OnlyTargetPending, StartsClean, Reached,
       BeforeKnown, Unmoved, Restored, script_vars, Pending, OnTarget, Vfos
  <2> QED BY <2>2, <2>4
<1> QED BY <1>1, <1>2

\* The invariant holds in every reachable state.
LEMMA BridgeInvariant == Spec => []BridgeInv
<1>1. Init => Undisturbed /\ Order
  BY DEF Init, Undisturbed, Order, OnlyTargetPending, StartsClean, Reached, BeforeKnown,
     Unmoved, Restored, Before, Checks, Forward, Back, PastB, PastA
<1>2. ASSUME BridgeInv, [Next]_vars PROVE Undisturbed' /\ Order'
  <2>1. CASE \E frequency \in Targets : Align(frequency)
    BY <2>1, AlignKeeps
  <2>2. CASE Script
    BY <1>2, <2>2, ChecksKeep, RememberKeeps, MoveKeeps, VerifyKeeps, SnapshotKeeps, CatchKeeps,
       RestoreKeeps, ThrowKeeps DEF Script
  <2>3. CASE Kill
    BY <2>3, KillKeeps
  <2>4. CASE OmniRigExecutes
    BY <1>2, <2>4, ExecutionKeeps
  <2>5. CASE OmniRigLoses
    BY <1>2, <2>5, LossKeeps
  <2>6. CASE \/ \E name \in Vfos, frequency \in Frequencies : OperatorTunes(name, frequency)
             \/ \E control \in {"tx", "split", "routing"} : OperatorSets(control)
             \/ UNCHANGED vars
    BY <1>2, <2>6, OperatorKeeps
  <2> QED BY <1>2, <2>1, <2>2, <2>3, <2>4, <2>5, <2>6 DEF Next
<1>3. Spec => []TypeOK
  BY TypeCorrect
<1>4. TypeOK /\ (Undisturbed /\ Order) /\ [Next]_vars => (Undisturbed /\ Order)'
  BY <1>2 DEF BridgeInv
<1>5. Spec => [](Undisturbed /\ Order)
  BY <1>1, <1>3, <1>4, PTL DEF Spec
<1>6. TypeOK /\ (Undisturbed /\ Order) => BridgeInv
  BY DEF BridgeInv
<1> QED BY <1>3, <1>5, <1>6, PTL

-----------------------------------------------------------------------------
(* What it gives.                                                          *)

\* An undisturbed alignment reported as done has both VFOs on target.
THEOREM VerifiedIsAligned == Spec => []VerifiedMeansAligned
<1>1. BridgeInv => VerifiedMeansAligned
  BY DEF BridgeInv, Undisturbed, Reached, VerifiedMeansAligned, PastB, PastA
<1> QED BY <1>1, BridgeInvariant, PTL

\* The receive VFO follows the transmit VFO, never the other way round.
THEOREM TransmitMovesFirst == Spec => []TransmitVfoFirst
<1>1. BridgeInv => TransmitVfoFirst
  BY DEF BridgeInv, Undisturbed, Order, Reached, TransmitVfoFirst, PastB, Forward, Before
<1> QED BY <1>1, BridgeInvariant, PTL

\* A rollback that was allowed to run undoes the alignment.
THEOREM FailureRollsBack == Spec => []RolledBack
<1>1. BridgeInv => RolledBack
  <2> SUFFICES ASSUME BridgeInv, pc = "failed", ~excused, commands = <<>>
               PROVE  vfo = before
    BY DEF RolledBack
  <2>1. \A name \in Vfos : vfo[name] = before[name]
    BY DEF BridgeInv, Undisturbed, Restored, Settled, Untouched, Pending
  <2> QED BY <2>1 DEF BridgeInv, TypeOK, Tunings
<1> QED BY <1>1, BridgeInvariant, PTL

\* No VFO is moved forward on a reading of receive older than the last move.
THEOREM MovesAreFresh == Spec => FreshMoves
<1>1. BridgeInv /\ [Next]_vars => [(MoveB \/ MoveA) /\ commands' # commands => fresh]_vars
  BY DEF BridgeInv, Order, MoveB, MoveA, Move
<1> QED BY <1>1, BridgeInvariant, PTL DEF Spec, FreshMoves
=============================================================================
