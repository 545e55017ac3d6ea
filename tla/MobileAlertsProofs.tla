-------------------------- MODULE MobileAlertsProofs --------------------------
(***************************************************************************)
(* Proofs about MobileAlerts, for every number of notifications and every  *)
(* set of accounts: types, whom a notification reaches, how often.  That   *)
(* each is answered is left to TLC.                                        *)
(***************************************************************************)
EXTENDS MobileAlerts, SequenceTheorems, TLAPS

-----------------------------------------------------------------------------
(* The inductive invariant.  The stage of a thread bounds its attempts,    *)
(* and until it has ended whatever reached the phone was taken for lost.   *)

Fine(s) ==
  /\ s.account = s.asked
  /\ \A n \in DOMAIN s.reached : s.reached[n] = s.asked
  /\ s.attempt <= MaxAttempts(s.purpose)
  /\ s.stage = "sleeping" => s.attempt < MaxAttempts(s.purpose)
  /\ s.lost <= s.attempt
  /\ s.stage = "pushing" => s.lost < s.attempt
  /\ Len(s.reached) <= 1 + s.lost
  /\ s.stage # "ended" => Len(s.reached) = s.lost

SendsFine ==
  /\ \A i \in DOMAIN sends : Fine(sends[i]) /\ sends[i].alarm <= alarms
  /\ \A i, j \in DOMAIN sends :
       sends[i].alarm = sends[j].alarm /\ i # j => sends[i].alarm = 0

ResultsTrue ==
  \A n \in DOMAIN results :
    /\ results[n].send \in DOMAIN sends
    /\ ~results[n].error => sends[results[n].send].reached # <<>>

IInv == AlertTypeOK /\ SendsFine /\ ResultsTrue

Result == [send : Nat, error : BOOLEAN]

-----------------------------------------------------------------------------
(* What the steps do to the list of notifications.                         *)

\* A step of one thread, or the handling of its result, that keeps what matters.
LEMMA SendUpdated ==
  ASSUME IInv, NEW i \in DOMAIN sends, NEW s \in Sends,
         sends' = [sends EXCEPT ![i] = s],
         Fine(s), s.alarm = sends[i].alarm, alarms' = alarms,
         sends[i].reached # <<>> => s.reached # <<>>
  PROVE  /\ sends' \in Seq(Sends) /\ SendsFine'
         /\ DOMAIN sends' = DOMAIN sends /\ sends'[i] = s
         /\ \A j \in DOMAIN sends : sends[j].reached # <<>> => sends'[j].reached # <<>>
<1>1. sends \in Seq(Sends) /\ i \in 1 .. Len(sends) /\ DOMAIN sends = 1 .. Len(sends)
  BY LenProperties DEF IInv, AlertTypeOK
<1>2. sends' \in Seq(Sends) /\ Len(sends') = Len(sends) /\ DOMAIN sends' = DOMAIN sends
  <2>1. sends' \in Seq(Sends) /\ Len(sends') = Len(sends)
    BY <1>1, ExceptSeq
  <2> QED BY <1>1, <2>1, LenProperties
<1>3. \A j \in DOMAIN sends : sends'[j] = IF j = i THEN s ELSE sends[j]
  BY <1>1
<1>4. SendsFine'
  <2>1. \A j \in DOMAIN sends : sends'[j].alarm = sends[j].alarm
    BY <1>3
  <2>2. \A j \in DOMAIN sends : Fine(sends'[j])
    BY <1>3 DEF IInv, SendsFine
  <2>3. \A j \in DOMAIN sends' : Fine(sends[j])' /\ sends'[j].alarm <= alarms'
    BY <1>2, <2>1, <2>2 DEF IInv, SendsFine, Fine, MaxAttempts
  <2> QED BY <1>2, <2>1, <2>3 DEF IInv, SendsFine
<1> QED BY <1>2, <1>3, <1>4

\* A notification is begun, for a test or for an alarm that is new.
LEMMA SendBegun ==
  ASSUME IInv, NEW purpose \in {"target", "test"}, NEW credentials \in Accounts,
         NEW alarm \in Nat, Begin(purpose, credentials, alarm),
         alarms' \in Nat, alarms' >= alarms, alarm <= alarms',
         alarm = 0 \/ alarm > alarms
  PROVE  /\ sends' \in Seq(Sends) /\ SendsFine'
         /\ \A j \in DOMAIN sends : j \in DOMAIN sends' /\ sends'[j] = sends[j]
<1> DEFINE new == [purpose |-> purpose, account |-> credentials, stage |-> "pushing",
                   attempt |-> 1, asked |-> credentials, alarm |-> alarm,
                   reached |-> <<>>, lost |-> 0, handled |-> 0]
<1>1. sends \in Seq(Sends) /\ Len(sends) \in Nat /\ DOMAIN sends = 1 .. Len(sends)
         /\ alarms \in Nat
  BY LenProperties DEF IInv, AlertTypeOK
<1>2. new \in Sends /\ Len(new.reached) = 0 /\ DOMAIN new.reached = {}
  <2>1. <<>> \in Seq(Accounts) /\ Len(<<>>) = 0 /\ DOMAIN <<>> = {}
    BY EmptySeq
  <2> QED BY <2>1 DEF Sends
<1>3. Fine(new) /\ new.alarm = alarm
  BY <1>2 DEF Fine, MaxAttempts
<1>4. sends' = Append(sends, new)
  BY DEF Begin
<1> HIDE DEF new
<1>5. /\ sends' \in Seq(Sends) /\ Len(sends') = Len(sends) + 1
      /\ \A j \in 1 .. Len(sends) : sends'[j] = sends[j]
      /\ sends'[Len(sends) + 1] = new
  BY <1>1, <1>2, <1>4, AppendProperties
<1>6. DOMAIN sends' = 1 .. Len(sends) + 1
  BY <1>5, LenProperties
<1>7. SendsFine'
  <2>1. \A j \in 1 .. Len(sends) + 1 : j \in 1 .. Len(sends) \/ j = Len(sends) + 1
    BY <1>1
  <2>2. \A j \in 1 .. Len(sends) : sends[j].alarm \in Nat /\ sends[j].alarm <= alarms
    <3> SUFFICES ASSUME NEW j \in 1 .. Len(sends)
                 PROVE  sends[j].alarm \in Nat /\ sends[j].alarm <= alarms
      OBVIOUS
    <3>1. sends[j] \in Sends
      BY <1>1, ElementOfSeq
    <3> QED BY <1>1, <3>1 DEF IInv, SendsFine, Sends
  <2>3. \A j \in 1 .. Len(sends) + 1 : Fine(sends'[j]) /\ sends'[j].alarm <= alarms'
    BY <1>1, <1>3, <1>5, <2>1, <2>2 DEF IInv, SendsFine
  <2>4. \A j \in DOMAIN sends' : Fine(sends[j])' /\ sends'[j].alarm <= alarms'
    BY <1>6, <2>3 DEF Fine, MaxAttempts
  <2>5. ASSUME NEW j \in 1 .. Len(sends) + 1, NEW k \in 1 .. Len(sends) + 1,
               sends'[j].alarm = sends'[k].alarm, j # k
        PROVE  sends'[j].alarm = 0
    <3>1. CASE j \in 1 .. Len(sends) /\ k \in 1 .. Len(sends)
      BY <1>1, <1>5, <2>5, <3>1 DEF IInv, SendsFine
    <3>2. CASE j = Len(sends) + 1 /\ k \in 1 .. Len(sends)
      BY <1>1, <1>3, <1>5, <2>2, <2>5, <3>2
    <3>3. CASE k = Len(sends) + 1 /\ j \in 1 .. Len(sends)
      BY <1>1, <1>3, <1>5, <2>2, <2>5, <3>3
    <3> QED BY <2>1, <2>5, <3>1, <3>2, <3>3
  <2> QED BY <1>6, <2>4, <2>5 DEF SendsFine
<1> QED BY <1>1, <1>5, <1>6, <1>7

\* A thread puts its result, or goes on.
LEMMA ThreadStep ==
  ASSUME IInv, NEW i, Thread(i)
  PROVE  IInv'
<1> DEFINE old == sends[i]
<1>0. i \in DOMAIN sends /\ UNCHANGED <<machine, settings, alarm_active, alarms>>
         /\ (PushSucceeds(i) \/ PushFails(i) \/ Retry(i))
  BY DEF Thread
<1>1. /\ old \in Sends /\ Fine(old) /\ i \in Nat
      /\ results \in Seq(Result) /\ DOMAIN results = 1 .. Len(results) /\ Len(results) \in Nat
  BY <1>0, ElementOfSeq, LenProperties DEF IInv, AlertTypeOK, SendsFine, Result
<1>2. /\ old.reached \in Seq(Accounts) /\ old.account \in Accounts /\ old.account = old.asked
      /\ old.attempt \in 1 .. 3 /\ old.lost \in 0 .. 3 /\ old.purpose \in {"target", "test"}
      /\ Len(old.reached) \in Nat /\ DOMAIN old.reached = 1 .. Len(old.reached)
  BY <1>1, LenProperties DEF Sends, Fine
<1>3. /\ Append(old.reached, Used(i)) \in Seq(Accounts)
      /\ Len(Append(old.reached, Used(i))) = Len(old.reached) + 1
      /\ Append(old.reached, Used(i)) # <<>>
      /\ \A n \in DOMAIN Append(old.reached, Used(i)) :
           Append(old.reached, Used(i))[n] = old.asked
  <2>1. Used(i) = old.asked /\ Used(i) \in Accounts
    BY <1>2 DEF Used
  <2>2. /\ Append(old.reached, Used(i)) \in Seq(Accounts)
        /\ Len(Append(old.reached, Used(i))) = Len(old.reached) + 1
        /\ \A n \in 1 .. Len(old.reached) : Append(old.reached, Used(i))[n] = old.reached[n]
        /\ Append(old.reached, Used(i))[Len(old.reached) + 1] = Used(i)
    BY <1>2, <2>1, AppendProperties
  <2>3. DOMAIN Append(old.reached, Used(i)) = 1 .. Len(old.reached) + 1
    BY <2>2, LenProperties
  <2>4. Append(old.reached, Used(i)) # <<>>
    BY <1>2, <2>2, EmptySeq
  <2>5. \A n \in 1 .. Len(old.reached) : old.reached[n] = old.asked
    BY <1>1, <1>2 DEF Fine
  <2> QED BY <1>2, <2>1, <2>2, <2>3, <2>4, <2>5
<1>4. ASSUME NEW s \in Sends, sends' = [sends EXCEPT ![i] = s], Fine(s), s.alarm = old.alarm,
             old.reached # <<>> => s.reached # <<>>,
             \/ results' = results
             \/ \E error \in BOOLEAN :
                  /\ results' = Append(results, [send |-> i, error |-> error])
                  /\ ~error => s.reached # <<>>
      PROVE  IInv'
  <2>1. /\ sends' \in Seq(Sends) /\ SendsFine'
        /\ DOMAIN sends' = DOMAIN sends /\ sends'[i] = s
        /\ \A j \in DOMAIN sends : sends[j].reached # <<>> => sends'[j].reached # <<>>
    BY <1>0, <1>4, SendUpdated
  <2>2. CASE results' = results
    BY <1>0, <2>1, <2>2 DEF IInv, AlertTypeOK, ResultsTrue, settings
  <2>3. ASSUME NEW error \in BOOLEAN, ~error => s.reached # <<>>,
               results' = Append(results, [send |-> i, error |-> error])
        PROVE  IInv'
    <3>1. [send |-> i, error |-> error] \in Result
      BY <1>1 DEF Result
    <3>2. /\ results' \in Seq(Result) /\ Len(results') = Len(results) + 1
          /\ \A n \in 1 .. Len(results) : results'[n] = results[n]
          /\ results'[Len(results) + 1] = [send |-> i, error |-> error]
      BY <1>1, <2>3, <3>1, AppendProperties
    <3>3. DOMAIN results' = 1 .. Len(results) + 1
      BY <3>2, LenProperties
    <3>4. ASSUME NEW n \in 1 .. Len(results) + 1
          PROVE  /\ results'[n].send \in DOMAIN sends
                 /\ ~results'[n].error => sends'[results'[n].send].reached # <<>>
      <4>1. CASE n \in 1 .. Len(results)
        BY <1>1, <2>1, <3>2, <4>1 DEF IInv, ResultsTrue
      <4>2. CASE n = Len(results) + 1
        BY <1>0, <2>1, <2>3, <3>2, <4>2
      <4> QED BY <1>1, <4>1, <4>2
    <3>5. ResultsTrue'
      BY <2>1, <3>3, <3>4 DEF ResultsTrue
    <3> QED BY <1>0, <2>1, <3>2, <3>5 DEF IInv, AlertTypeOK, settings, Result
  <2> QED BY <1>4, <2>2, <2>3
<1> HIDE DEF old
<1>5. CASE PushSucceeds(i)
  <2> DEFINE s == [old EXCEPT !.stage = "ended", !.reached = Append(old.reached, Used(i))]
  <2>1. /\ sends' = [sends EXCEPT ![i] = s]
        /\ results' = Append(results, [send |-> i, error |-> FALSE]) /\ old.stage = "pushing"
    BY <1>0, <1>5 DEF PushSucceeds, old
  <2>2. s \in Sends
    BY <1>1, <1>3 DEF Sends
  <2>3. Fine(s) /\ s.alarm = old.alarm /\ s.reached # <<>>
    BY <1>1, <1>2, <1>3, <2>1 DEF Fine, Sends, MaxAttempts
  <2> HIDE DEF s
  <2> QED BY <1>4, <2>1, <2>2, <2>3
<1>6. CASE PushFails(i)
  <2> DEFINE last == old.attempt = MaxAttempts(old.purpose)
  <2>1. PICK answer_lost \in BOOLEAN :
          /\ sends' = [sends EXCEPT ![i] =
               [old EXCEPT !.stage = IF last THEN "ended" ELSE "sleeping",
                           !.reached = IF answer_lost THEN Append(@, Used(i)) ELSE @,
                           !.lost = IF answer_lost THEN @ + 1 ELSE @]]
          /\ results' = IF last THEN Append(results, [send |-> i, error |-> TRUE]) ELSE results
    BY <1>0, <1>6 DEF PushFails, old
  <2> DEFINE s == [old EXCEPT !.stage = IF last THEN "ended" ELSE "sleeping",
                              !.reached = IF answer_lost THEN Append(old.reached, Used(i))
                                          ELSE old.reached,
                              !.lost = IF answer_lost THEN old.lost + 1 ELSE old.lost]
  <2>2. old.stage = "pushing" /\ old.lost < old.attempt /\ Len(old.reached) = old.lost
    BY <1>1, <1>6 DEF PushFails, old, Fine
  <2>3. sends' = [sends EXCEPT ![i] = s]
    BY <1>1, <2>1 DEF Sends
  <2>4. s \in Sends
    <3>1. old.lost + 1 \in 0 .. 3
      BY <1>2, <2>2
    <3> QED BY <1>1, <1>2, <1>3, <3>1 DEF Sends
  <2>5. Fine(s) /\ s.alarm = old.alarm /\ (old.reached # <<>> => s.reached # <<>>)
    <3>1. CASE answer_lost
      BY <1>1, <1>2, <1>3, <2>2, <3>1 DEF Fine, Sends, MaxAttempts
    <3>2. CASE ~answer_lost
      BY <1>1, <1>2, <2>2, <3>2 DEF Fine, Sends, MaxAttempts
    <3> QED BY <3>1, <3>2
  <2> HIDE DEF s
  <2> QED BY <1>4, <2>1, <2>3, <2>4, <2>5
<1>7. CASE Retry(i)
  <2> DEFINE s == [old EXCEPT !.stage = "pushing", !.attempt = old.attempt + 1]
  <2>1. sends' = [sends EXCEPT ![i] = s] /\ results' = results /\ old.stage = "sleeping"
    BY <1>0, <1>7 DEF Retry, old
  <2>2. s \in Sends
    <3>1. old.attempt + 1 \in 1 .. 3
      BY <1>1, <1>2, <2>1 DEF Fine, MaxAttempts
    <3> QED BY <1>1, <3>1 DEF Sends
  <2>3. Fine(s) /\ s.alarm = old.alarm /\ s.reached = old.reached
    BY <1>1, <1>2, <2>1 DEF Fine, Sends, MaxAttempts
  <2> HIDE DEF s
  <2> QED BY <1>4, <2>1, <2>2, <2>3
<1> QED BY <1>0, <1>5, <1>6, <1>7

\* The handling of a result counts it, and shows it.
LEMMA ResultHandled ==
  ASSUME IInv, HandleResult
  PROVE  IInv'
<1> DEFINE i == Head(results).send
           s == [sends[i] EXCEPT !.handled = sends[i].handled + 1]
<1>1. results \in Seq(Result) /\ results # <<>> /\ DOMAIN results = 1 .. Len(results)
         /\ Len(results) \in Nat
  BY LenProperties DEF HandleResult, IInv, AlertTypeOK, Result
<1>2. /\ results' = Tail(results) /\ results' \in Seq(Result)
      /\ Len(results') = Len(results) - 1
      /\ \A n \in 1 .. Len(results') : results'[n] = results[n + 1]
  BY <1>1, HeadTailProperties DEF HandleResult
<1>3. i \in DOMAIN sends
  <2>1. 1 \in DOMAIN results /\ Head(results) = results[1]
    BY <1>1, EmptySeq
  <2> QED BY <2>1 DEF IInv, ResultsTrue
<1>4. sends[i] \in Sends /\ Fine(sends[i])
  BY <1>3, ElementOfSeq, LenProperties DEF IInv, AlertTypeOK, SendsFine
<1>5. /\ sends' = [sends EXCEPT ![i] = s]
      /\ mobile_status' \in {"sent", "failed"}
      /\ UNCHANGED <<machine, enabled, account, alarm_active, alarms>>
  BY DEF HandleResult
<1> HIDE DEF i
<1>6. s \in Sends /\ Fine(s) /\ s.alarm = sends[i].alarm /\ s.reached = sends[i].reached
  BY <1>4 DEF Sends, Fine, MaxAttempts
<1> HIDE DEF s
<1>7. /\ sends' \in Seq(Sends) /\ SendsFine' /\ DOMAIN sends' = DOMAIN sends
      /\ \A j \in DOMAIN sends : sends[j].reached # <<>> => sends'[j].reached # <<>>
  BY <1>3, <1>5, <1>6, SendUpdated
<1>8. ResultsTrue'
  <2>1. DOMAIN results' = 1 .. Len(results) - 1
    BY <1>2, LenProperties
  <2>2. \A n \in 1 .. Len(results) - 1 : results'[n] = results[n + 1] /\ n + 1 \in DOMAIN results
    BY <1>1, <1>2
  <2> QED BY <1>7, <2>1, <2>2 DEF IInv, ResultsTrue
<1> QED BY <1>2, <1>5, <1>7, <1>8 DEF IInv, AlertTypeOK, Result

-----------------------------------------------------------------------------
\* The invariant holds in every reachable state.
LEMMA InvariantHolds == AlertSpec => []IInv
<1>1. NothingSent => IInv
  <2> SUFFICES ASSUME NothingSent PROVE IInv
    OBVIOUS
  <2>1. <<>> \in Seq(Sends) /\ <<>> \in Seq(Result) /\ DOMAIN <<>> = {}
    BY EmptySeq
  <2> QED BY <2>1 DEF NothingSent, IInv, AlertTypeOK, SendsFine, ResultsTrue, Result
<1>2. IInv /\ [AlertNext]_alert_vars => IInv'
  <2> SUFFICES ASSUME IInv, [AlertNext]_alert_vars PROVE IInv'
    OBVIOUS
  <2>1. CASE UNCHANGED <<sends, results, alarms>> /\ machine' \in {"STOPPED", "LISTENING"}
               /\ alarm_active' \in BOOLEAN /\ enabled' \in BOOLEAN /\ account' \in Accounts
               /\ mobile_status' \in {"idle", "sent", "failed"}
    BY <2>1 DEF IInv, AlertTypeOK, SendsFine, ResultsTrue, Fine, MaxAttempts
  <2>2. CASE Start \/ Stop \/ Acknowledge \/ UNCHANGED alert_vars
    BY <2>1, <2>2 DEF Start, Stop, Acknowledge, alert_vars, settings, IInv, AlertTypeOK
  <2>3. ASSUME NEW purpose \in {"target", "test"}, NEW credentials \in Accounts,
               NEW alarm \in Nat, Begin(purpose, credentials, alarm),
               alarms' \in Nat, alarms' >= alarms, alarm <= alarms',
               alarm = 0 \/ alarm > alarms, results' = results
        PROVE  sends' \in Seq(Sends) /\ SendsFine' /\ ResultsTrue'
    <3>1. /\ sends' \in Seq(Sends) /\ SendsFine'
          /\ \A j \in DOMAIN sends : j \in DOMAIN sends' /\ sends'[j] = sends[j]
      BY <2>3, SendBegun
    <3> QED BY <2>3, <3>1 DEF IInv, ResultsTrue
  <2>4. CASE SaveSettings
    <3>1. enabled' \in BOOLEAN /\ account' \in Accounts /\ mobile_status' = "idle"
             /\ UNCHANGED <<machine, alarm_active, results, alarms>>
      BY <2>4 DEF SaveSettings
    <3>2. CASE UNCHANGED sends
      BY <2>1, <3>1, <3>2 DEF IInv, AlertTypeOK
    <3>3. CASE Begin("test", account', 0)
      <4>1. alarms \in Nat
        BY DEF IInv, AlertTypeOK
      <4>2. alarms' \in Nat /\ alarms' >= alarms /\ 0 <= alarms'
        BY <3>1, <4>1
      <4>3. sends' \in Seq(Sends) /\ SendsFine' /\ ResultsTrue'
        BY <2>3, <3>1, <3>3, <4>2
      <4> QED BY <3>1, <4>1, <4>3 DEF IInv, AlertTypeOK
    <3> QED BY <2>4, <3>2, <3>3 DEF SaveSettings
  <2>5. CASE TargetDecoded
    <3>0. alarms \in Nat /\ account \in Accounts
      BY DEF IInv, AlertTypeOK
    <3>1. alarm_active' = TRUE /\ UNCHANGED <<machine, settings, results>>
      BY <2>5 DEF TargetDecoded
    <3>2. CASE enabled
      <4>1. alarms' = alarms + 1 /\ Begin("target", account, alarms')
        BY <2>5, <3>2 DEF TargetDecoded
      <4>2. alarms' \in Nat /\ alarms' >= alarms /\ alarms' > alarms
        BY <3>0, <4>1
      <4>3. sends' \in Seq(Sends) /\ SendsFine' /\ ResultsTrue'
        BY <2>3, <3>0, <3>1, <4>1, <4>2
      <4> QED BY <3>1, <4>2, <4>3 DEF IInv, AlertTypeOK, settings
    <3>3. CASE ~enabled
      <4>1. UNCHANGED <<sends, alarms>>
        BY <2>5, <3>3 DEF TargetDecoded
      <4> QED BY <2>1, <3>1, <4>1 DEF IInv, AlertTypeOK, settings
    <3> QED BY <3>2, <3>3
  <2>6. ASSUME NEW i \in 1 .. MaxSends, Thread(i) PROVE IInv'
    BY <2>6, ThreadStep
  <2>7. CASE HandleResult
    BY <2>7, ResultHandled
  <2> QED BY <2>2, <2>4, <2>5, <2>6, <2>7 DEF AlertNext
<1> QED BY <1>1, <1>2, PTL DEF AlertSpec

\* Every reachable state is well typed; in particular no thread makes more attempts
\* than it may (dashboard.py:1044-1054).
THEOREM TypeCorrect == AlertSpec => []AlertTypeOK
<1>1. IInv => AlertTypeOK
  BY DEF IInv
<1> QED BY <1>1, InvariantHolds, PTL

\* A notification reaches the account it was begun for and no other, and "sent" is
\* said of none that did not (dashboard.py:1040-1055).
THEOREM ReachesTheAccount == AlertSpec => []DeliveredAsAsked
<1>1. IInv => DeliveredAsAsked
  BY DEF IInv, SendsFine, ResultsTrue, Fine, DeliveredAsAsked
<1> QED BY <1>1, InvariantHolds, PTL

\* An alarm begins one notification, which rings once more than its answers were lost
\* at most (dashboard.py:1046-1053, 1378-1382).
THEOREM RingsOnce == AlertSpec => []OneRingPerAlarm
<1>1. IInv => OneRingPerAlarm
  BY DEF IInv, SendsFine, Fine, OneRingPerAlarm
<1> QED BY <1>1, InvariantHolds, PTL
=============================================================================
