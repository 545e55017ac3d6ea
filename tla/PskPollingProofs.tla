--------------------------- MODULE PskPollingProofs ---------------------------
(***************************************************************************)
(* Proofs about PskPolling, for every set of targets and areas and every   *)
(* interval: its safety.  That polls go on is left to TLC.                 *)
(***************************************************************************)
EXTENDS PskPolling, SequenceTheorems, TLAPS

\* Every reachable state is well typed (dashboard.py:85-89, 1229-1308).
THEOREM TypeCorrect == Spec => []TypeOK
<1> USE DEF settings, request, history
<1>1. Init => TypeOK
  <2> SUFFICES ASSUME Init PROVE TypeOK
    OBVIOUS
  <2>1. wait \in 0 .. Interval /\ since \in 0 .. Interval
    BY PollAssumption DEF Init, PollAssumption
  <2>2. in_progress \in BOOLEAN /\ undisturbed \in BOOLEAN
    BY DEF Init
  <2>3. results \in Seq(Results)
    BY EmptySeq DEF Init
  <2> QED BY <2>1, <2>2, <2>3 DEF Init, TypeOK
<1>2. TypeOK /\ [Next]_vars => TypeOK'
  <2> SUFFICES ASSUME TypeOK, [Next]_vars PROVE TypeOK'
    OBVIOUS
  <2> USE DEF TypeOK
  <2>1. Interval \in Nat
    BY PollAssumption DEF PollAssumption
  <2>0. ASSUME AskAfresh
        PROVE  /\ wait' \in 0 .. Interval /\ focus' \in Queries \cup {Nothing}
               /\ undisturbed' \in BOOLEAN
    <3>1. wait' \in 0 .. Interval
      BY <2>0, <2>1 DEF AskAfresh
    <3> QED BY <2>0, <3>1 DEF AskAfresh
  <2>2. CASE Start \/ Stop \/ ListenerEvent
    BY <2>0, <2>2 DEF Start, Stop, ListenerEvent
  <2>3. CASE ChangeTarget \/ ApplyPskSearchArea
    <3>1. query' \in Queries
      BY <2>3 DEF ChangeTarget, ApplyPskSearchArea, Queries
    <3> QED BY <2>0, <2>3, <3>1 DEF ChangeTarget, ApplyPskSearchArea
  <2>4. CASE Tick
    BY <2>1, <2>4 DEF Tick
  <2>5. CASE PskrTick
    BY <2>1, <2>5 DEF PskrTick
  <2>6. CASE WorkerReturns
    <3>1. PICK priorities \in {"some", "none", "error"} :
            results' = Append(results, [query |-> worker, priorities |-> priorities])
      BY <2>6 DEF WorkerReturns
    <3>2. [query |-> worker, priorities |-> priorities] \in Results
      BY <2>6 DEF WorkerReturns, Results
    <3>3. results' \in Seq(Results)
      BY <3>1, <3>2, AppendProperties
    <3> QED BY <2>6, <3>3 DEF WorkerReturns
  <2>7. CASE HandlePskrResult
    <3>1. Head(results) \in Results /\ Tail(results) \in Seq(Results)
      BY <2>7, HeadTailProperties DEF HandlePskrResult
    <3>2. focus' \in Queries \cup {Nothing}
      BY <2>7, <3>1 DEF HandlePskrResult, Results
    <3> QED BY <2>7, <3>1, <3>2 DEF HandlePskrResult
  <2>8. CASE UNCHANGED vars
    BY <2>8 DEF vars
  <2> QED BY <2>2, <2>3, <2>4, <2>5, <2>6, <2>7, <2>8 DEF Next
<1> QED BY <1>1, <1>2, PTL DEF Spec

-----------------------------------------------------------------------------
(* The inductive invariant.  Spacing is what makes OnlyTheOperatorHurries  *)
(* hold: as long as nobody resets the wait, it and the time since the last *)
(* request make up the interval.                                           *)

Spacing == undisturbed => wait + since >= Interval
IInv    == TypeOK /\ OneRequest /\ FocusIsCurrent /\ Spacing

\* Every step keeps the invariant.
LEMMA InvariantKept == IInv /\ TypeOK' /\ [Next]_vars => IInv'
<1> SUFFICES ASSUME IInv, TypeOK', [Next]_vars
             PROVE  OneRequest' /\ FocusIsCurrent' /\ Spacing'
  BY DEF IInv
<1> USE DEF IInv, TypeOK, settings, request, history
<1>1. Interval \in Nat /\ Nothing \notin Queries
  BY PollAssumption DEF PollAssumption, Queries
<1>2. CASE Start \/ Stop \/ ChangeTarget \/ ApplyPskSearchArea \/ ListenerEvent
  <2>1. OneRequest'
    BY <1>2 DEF Start, Stop, ChangeTarget, ApplyPskSearchArea, ListenerEvent, OneRequest
  <2>2. FocusIsCurrent'
    BY <1>2
    DEF Start, Stop, ChangeTarget, ApplyPskSearchArea, ListenerEvent, AskAfresh, FocusIsCurrent
  <2>3. Spacing'
    BY <1>2 DEF Start, Stop, ChangeTarget, ApplyPskSearchArea, ListenerEvent, AskAfresh, Spacing
  <2> QED BY <2>1, <2>2, <2>3
<1>3. CASE Tick
  BY <1>1, <1>3 DEF Tick, OneRequest, FocusIsCurrent, Spacing
<1>4. CASE PskrTick
  BY <1>1, <1>4 DEF PskrTick, Due, OneRequest, FocusIsCurrent, Spacing
<1>5. CASE WorkerReturns
  <2>1. results = <<>> /\ worker # Nothing
    BY <1>5 DEF WorkerReturns, OneRequest
  <2>2. results' # <<>> /\ Len(results') = 1
    BY <1>5, <2>1 DEF WorkerReturns
  <2> QED
    BY <1>5, <2>1, <2>2 DEF WorkerReturns, OneRequest, FocusIsCurrent, Spacing
<1>6. CASE HandlePskrResult
  <2>1. results # <<>> /\ Len(results) <= 1 /\ worker = Nothing
    BY <1>6 DEF HandlePskrResult, OneRequest
  <2>2. Head(results) \in Results /\ Len(Tail(results)) = Len(results) - 1
    BY <2>1, HeadTailProperties
  <2>3. results' = <<>>
    BY <1>6, <2>1, <2>2, HeadTailProperties, EmptySeq DEF HandlePskrResult
  <2>4. OneRequest'
    BY <1>6, <2>1, <2>3 DEF HandlePskrResult, OneRequest
  <2>5. FocusIsCurrent'
    BY <1>6 DEF HandlePskrResult, FocusIsCurrent, Accept
  <2> QED BY <1>6, <2>4, <2>5 DEF HandlePskrResult, Spacing
<1>7. CASE UNCHANGED vars
  BY <1>7 DEF vars, OneRequest, FocusIsCurrent, Spacing
<1> QED BY <1>2, <1>3, <1>4, <1>5, <1>6, <1>7 DEF Next

\* It holds in every reachable state.
LEMMA InvariantHolds == Spec => []IInv
<1>1. Init /\ TypeOK => IInv
  BY DEF Init, IInv, OneRequest, FocusIsCurrent, Spacing
<1>2. IInv /\ TypeOK' /\ [Next]_vars => IInv'
  BY InvariantKept
<1> QED BY <1>1, <1>2, TypeCorrect, PTL DEF Spec

\* At most one request is on its way (dashboard.py:1236, 1244, 1282).
THEOREM SingleRequest == Spec => []OneRequest
<1>1. IInv => OneRequest
  BY DEF IInv
<1> QED BY <1>1, InvariantHolds, PTL

\* The bands in focus answer the present question (dashboard.py:1283-1289).
THEOREM NoLateAnswer == Spec => []FocusIsCurrent
<1>1. IInv => FocusIsCurrent
  BY DEF IInv
<1> QED BY <1>1, InvariantHolds, PTL

\* A request before its time is the operator's doing (dashboard.py:1236-1247).
THEOREM HurriedByOperator == Spec => OnlyTheOperatorHurries
<1>1. IInv /\ [Next]_vars =>
        [worker = Nothing /\ worker' # Nothing /\ undisturbed => since = Interval]_vars
  <2> SUFFICES ASSUME IInv, Next, worker = Nothing, worker' # Nothing, undisturbed
               PROVE  since = Interval
    BY DEF vars
  <2>1. PskrTick
    BY DEF Next, Start, Stop, ChangeTarget, ApplyPskSearchArea, ListenerEvent, Tick,
           WorkerReturns, HandlePskrResult, request
  <2> QED
    BY <2>1, PollAssumption DEF PskrTick, Due, IInv, TypeOK, Spacing, PollAssumption
<1> QED BY <1>1, InvariantHolds, PTL DEF Spec, OnlyTheOperatorHurries
=============================================================================
