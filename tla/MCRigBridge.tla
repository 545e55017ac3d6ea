----------------------------- MODULE MCRigBridge -----------------------------
(* Three frequencies: the target, one within the tolerance, one far from it. *)
EXTENDS RigBridge

NearAndFar == {0, 1, 7}
OneTarget  == {0}
=============================================================================
