----------------------------- MODULE MobileAlerts -----------------------------
(***************************************************************************)
(* Pushover alerts to the operator's phone (dashboard.py, pushover.py): a  *)
(* thread for each notification, with retries, against new settings and    *)
(* new alerts meanwhile.  An attempt may be rejected or fail before it     *)
(* reaches Pushover, or be delivered and its answer lost.                  *)
(***************************************************************************)
EXTENDS Integers, Sequences

CONSTANTS Accounts,    \* pairs of user key and API token
          MaxSends     \* bound: notifications begun

ASSUME AlertAssumption == MaxSends \in Nat

VARIABLES
  machine,        \* "STOPPED" or "LISTENING"
  enabled,        \* pushover_enabled
  account,        \* pushover_user_key and pushover_api_token
  alarm_active,
  sends,          \* the notifications begun, each with its thread
  results,        \* pushover_result messages in the events queue
  mobile_status,  \* "idle", "sent" or "failed"
  alarms          \* history: the alarms raised while enabled, counted

alert_vars == <<machine, enabled, account, alarm_active, sends, results, mobile_status, alarms>>
settings == <<enabled, account, mobile_status>>

MaxAttempts(purpose) == IF purpose = "target" THEN 3 ELSE 1

Sends == [purpose : {"target", "test"}, account : Accounts,
          stage : {"pushing", "sleeping", "ended"}, attempt : 1 .. 3,
          asked : Accounts,     \* history: the account when it was begun
          alarm : Nat,          \* history: the alarm it is for; 0 for a test
          reached : Seq(Accounts), lost : 0 .. 3, handled : Nat]   \* history

AlertTypeOK ==
  /\ machine \in {"STOPPED", "LISTENING"}
  /\ enabled \in BOOLEAN /\ account \in Accounts /\ alarm_active \in BOOLEAN
  /\ sends \in Seq(Sends)
  /\ results \in Seq([send : Nat, error : BOOLEAN])
  /\ mobile_status \in {"idle", "sent", "failed"}
  /\ alarms \in Nat

NothingSent ==
  /\ machine = "STOPPED"
  /\ enabled \in BOOLEAN /\ account \in Accounts
  /\ alarm_active = FALSE /\ sends = <<>> /\ results = <<>>
  /\ mobile_status = "idle" /\ alarms = 0

\* _start_pushover_send: the credentials are read before the thread begins.
Begin(purpose, credentials, alarm) ==
  /\ Len(sends) < MaxSends
  /\ sends' = Append(sends,
       [purpose |-> purpose, account |-> credentials, stage |-> "pushing", attempt |-> 1,
        asked |-> credentials, alarm |-> alarm,
        reached |-> <<>>, lost |-> 0, handled |-> 0])

-----------------------------------------------------------------------------
(* The operator.                                                           *)

Start ==
  /\ machine = "STOPPED" /\ machine' = "LISTENING"
  /\ UNCHANGED <<settings, alarm_active, sends, results, alarms>>

Stop ==
  /\ machine = "LISTENING" /\ machine' = "STOPPED" /\ alarm_active' = FALSE
  /\ UNCHANGED <<settings, sends, results, alarms>>

Acknowledge ==
  /\ alarm_active /\ alarm_active' = FALSE
  /\ UNCHANGED <<machine, settings, sends, results, alarms>>

\* The dialog: Save, or Send test notification, which saves first.
SaveSettings ==
  /\ machine = "STOPPED"
  /\ enabled' \in BOOLEAN /\ account' \in Accounts
  /\ mobile_status' = "idle"
  /\ \/ UNCHANGED sends
     \/ Begin("test", account', 0)
  /\ UNCHANGED <<machine, alarm_active, results, alarms>>

-----------------------------------------------------------------------------
\* A decode of the target on a band that is not suppressed.
EveryDecode ==                                                    \* mutant
  /\ machine = "LISTENING" /\ alarm_active' = TRUE
  /\ alarms' = IF enabled /\ ~alarm_active THEN alarms + 1 ELSE alarms
  /\ IF enabled THEN Begin("target", account, alarms') ELSE UNCHANGED sends
  /\ UNCHANGED <<machine, settings, results>>
TargetDecoded ==
  /\ machine = "LISTENING" /\ ~alarm_active
  /\ alarm_active' = TRUE /\ alarms' = IF enabled THEN alarms + 1 ELSE alarms
  /\ IF enabled THEN Begin("target", account, alarms') ELSE UNCHANGED sends
  /\ UNCHANGED <<machine, settings, results>>

-----------------------------------------------------------------------------
(* The thread of notification i.                                           *)

UsedNow(i) == account                                             \* mutant
Used(i) == sends[i].account

\* push returns: the notification is on the phone.
PushSucceeds(i) ==
  /\ sends[i].stage = "pushing"
  /\ sends' = [sends EXCEPT ![i] =
                 [sends[i] EXCEPT !.stage = "ended", !.reached = Append(@, Used(i))]]
  /\ results' = Append(results, [send |-> i, error |-> FALSE])

\* The thread ends without a word (no except around the last attempt).
PushFailsSilently(i) ==                                           \* mutant
  /\ sends[i].stage = "pushing"
  /\ LET last == sends[i].attempt = MaxAttempts(sends[i].purpose)
     IN  sends' = [sends EXCEPT ![i].stage = IF last THEN "ended" ELSE "sleeping"]
  /\ UNCHANGED results

\* push raises, though the notification may be on the phone.
PushFails(i) ==
  /\ sends[i].stage = "pushing"
  /\ \E answer_lost \in BOOLEAN :
       LET last == sends[i].attempt = MaxAttempts(sends[i].purpose)
       IN  /\ sends' = [sends EXCEPT ![i] =
                [sends[i] EXCEPT !.stage = IF last THEN "ended" ELSE "sleeping",
                                 !.reached = IF answer_lost THEN Append(@, Used(i)) ELSE @,
                                 !.lost = IF answer_lost THEN @ + 1 ELSE @]]
           /\ results' = IF last THEN Append(results, [send |-> i, error |-> TRUE])
                         ELSE results

Retry(i) ==
  /\ sends[i].stage = "sleeping"
  /\ sends' = [sends EXCEPT ![i] = [sends[i] EXCEPT !.stage = "pushing", !.attempt = @ + 1]]
  /\ UNCHANGED results

Thread(i) ==
  /\ i \in DOMAIN sends
  /\ PushSucceeds(i) \/ PushFails(i) \/ Retry(i)
  /\ UNCHANGED <<machine, settings, alarm_active, alarms>>

\* _handle_pushover_result
HandleResult ==
  /\ results # <<>> /\ results' = Tail(results)
  /\ mobile_status' = IF Head(results).error THEN "failed" ELSE "sent"
  /\ LET i == Head(results).send
     IN  sends' = [sends EXCEPT ![i] = [sends[i] EXCEPT !.handled = @ + 1]]
  /\ UNCHANGED <<machine, enabled, account, alarm_active, alarms>>

AlertNext ==
  \/ Start \/ Stop \/ Acknowledge \/ SaveSettings \/ TargetDecoded
  \/ \E i \in 1 .. MaxSends : Thread(i)
  \/ HandleResult

AlertSpec == NothingSent /\ [][AlertNext]_alert_vars

\* A push ends by its timeout (pushover.py:50), the sleeps last one and two seconds, the
\* poll of the queue rearms itself; threads run.
AlertFairness ==
  /\ \A i \in 1 .. MaxSends : WF_alert_vars(Thread(i))
  /\ WF_alert_vars(HandleResult)

-----------------------------------------------------------------------------
\* A notification goes only to the account that was set when it was begun, whatever is
\* saved while it is retried, and "sent" is said only of one that arrived
\* (dashboard.py:1040-1055).
DeliveredAsAsked ==
  /\ \A i \in DOMAIN sends :
       \A n \in DOMAIN sends[i].reached : sends[i].reached[n] = sends[i].asked
  /\ \A n \in DOMAIN results :
       ~results[n].error => sends[results[n].send].reached # <<>>

\* The phone rings once for an alarm, however often the target is decoded while it
\* lasts; only an answer that was lost makes it ring again (source/README.md:35-37,
\* dashboard.py:1046-1053, 1378-1382).
OneRingPerAlarm ==
  \A i, j \in DOMAIN sends :
    /\ Len(sends[i].reached) <= 1 + sends[i].lost
    /\ sends[i].alarm = sends[j].alarm /\ i # j => sends[i].alarm = 0

\* The operator is told of every notification, once, how it ended
\* (dashboard.py:1044-1055, 1059-1074).
EachIsAnswered ==
  \A i \in 1 .. MaxSends : <>[](i \in DOMAIN sends => sends[i].handled = 1)
=============================================================================
