--------------------------- MODULE MCLiveAuction ----------------------------
(***************************************************************************)
(* Small instances of LiveAuction for TLC.                                 *)
(***************************************************************************)
EXTENDS LiveAuction

CONSTANTS p1, p2

TwoPages == {p1, p2}
OneBidder == {p1}

\* The price starts at 10 cents; 10.4 cents is above it and rounds back to it.
MCAmounts == {104, 110, 120}
TwoAmounts == {110, 120}
=============================================================================
