---------------------------- MODULE MCBandRotation ----------------------------
(* Instances of BandRotation for TLC.                                       *)
EXTENDS BandRotation, MCBandSearch

AllFocuses == SetToAllKPermutations(Bands)
=============================================================================
