------------------------- MODULE MCMonitoringSession -------------------------
(* One WSJT-X instance. *)
EXTENDS MonitoringSession

CONSTANT w1

OneInstance == {w1}

\* Status in receive and in transmit, and a Heartbeat or Decode
PacketsOf(instances) ==
  [status : {TRUE}, from : instances, tx : BOOLEAN]
  \cup [status : {FALSE}, from : instances, tx : {FALSE}]

PacketsOfOne == PacketsOf(OneInstance)
=============================================================================
