------------------------------ MODULE MCOutputs ------------------------------
(* What the program sends to the phone and keeps in files: notifications,   *)
(* the audit log and the configuration.  They do not meet; a behaviour is   *)
(* about one of them.                                                       *)
EXTENDS MobileAlerts, EventLog, ConfigStore

CONSTANTS a1, a2, v1, v2, b20, b2m

VARIABLE part      \* the one the behaviour is about

TemplateContent ==
  [plain |-> [setting \in Settings |-> v1],
   bands |-> [band \in Bands |-> IF band = b20 THEN Default ELSE NoEntry]]

MCInit ==
  /\ part \in {"alerts", "log", "store"}
  /\ NothingSent /\ (part # "alerts" => ~enabled /\ account = a1)
  /\ NothingLogged
  /\ Init /\ (part # "store" => file = Absent)

MCNext ==
  /\ UNCHANGED part
  /\ \/ part = "alerts" /\ AlertNext /\ UNCHANGED <<log_vars, vars>>
     \/ part = "log" /\ LogNext /\ UNCHANGED <<alert_vars, vars>>
     \/ part = "store" /\ Next /\ UNCHANGED <<alert_vars, log_vars>>

MCSpec ==
  MCInit /\ [][MCNext]_<<part, alert_vars, log_vars, vars>> /\ AlertFairness
=============================================================================
