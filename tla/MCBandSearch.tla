---------------------------- MODULE MCBandSearch ----------------------------
(* Instances of BandSearch for TLC.                                         *)
EXTENDS BandSearch

CONSTANTS b20, b17, b15, b60

TwoBands   == <<b20, b17>>
ThreeBands == <<b20, b17, b15>>
NoOthers   == {}
OtherBand  == {b60}

NoFocus     == {<<>>}
OneFocus    == {<<>>, <<b17>>}
TwoFocuses  == {<<>>, <<b17>>, <<b17, b20>>}
=============================================================================
