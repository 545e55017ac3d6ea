----------------------------- MODULE VfoControl -----------------------------
(***************************************************************************)
(* Who may move the radio's VFOs: the promise of the band search.          *)
(*                                                                         *)
(* The operator owns them until an explicit request hands them to the      *)
(* assistant, which starts an alignment at once; WSJT-X reporting transmit *)
(* takes them back in the same step, and transmit ending never hands them  *)
(* over again.  There is one alignment at a time, and only the owner       *)
(* starts one.  BandSearch implements this specification.                  *)
(***************************************************************************)
VARIABLES owner,      \* "operator" or "assistant"
          tx,         \* WSJT-X has Enable Tx on, or transmits
          aligning    \* an alignment of VFO A and B is in flight

vars == <<owner, tx, aligning>>

Init == owner = "operator" /\ tx = FALSE /\ aligning = FALSE

Grant ==
  /\ ~tx /\ ~aligning
  /\ owner' = "assistant" /\ aligning' = TRUE
  /\ UNCHANGED tx

Hop ==
  /\ owner = "assistant" /\ ~tx /\ ~aligning
  /\ aligning' = TRUE
  /\ UNCHANGED <<owner, tx>>

AlignmentEnds ==
  /\ aligning
  /\ aligning' = FALSE
  /\ owner' \in {owner, "operator"}
  /\ UNCHANGED tx

TakeBack ==
  /\ owner' = "operator"
  /\ UNCHANGED <<tx, aligning>>

TxReport(reported) ==
  /\ tx' = reported
  /\ owner' = IF reported THEN "operator" ELSE owner
  /\ UNCHANGED aligning

Next == \/ Grant \/ Hop \/ AlignmentEnds \/ TakeBack
        \/ \E reported \in BOOLEAN : TxReport(reported)

Spec == Init /\ [][Next]_vars
=============================================================================
