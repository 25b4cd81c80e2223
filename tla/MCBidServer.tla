---------------------------- MODULE MCBidServer -----------------------------
(***************************************************************************)
(* Small instances of BidServer for TLC.                                   *)
(***************************************************************************)
EXTENDS BidServer

CONSTANTS s1, s2

OneServer == {s1}
TwoServers == {s1, s2}

\* A starting price of 10 cents.  The amounts: 10.4 cents (accepted over 10,
\* rounds back to 10), 10.6 and 11 cents (the same key once rounded), 12
\* cents, 13 cents (what the column refuses), and none at all.
MCStarts == {100}
MCAmounts == {0, 104, 106, 110, 130}
TwoAmounts == {110, 120}
ThreeAmounts == {104, 110, 120}
MCPriceLimit == 13
=============================================================================
