---------------------------- MODULE MCSellerDesk ----------------------------
(***************************************************************************)
(* Small instances of SellerDesk for TLC.                                  *)
(***************************************************************************)
EXTENDS SellerDesk, TLC

CONSTANTS t1, t2, seller, u1, i1, i2

OneTab == {t1}
TwoTabs == {t1, t2}
SellerAndBuyer == {seller, u1}
OneItem == {i1}
TwoItems == {i1, i2}

\* Tabs and items are told apart by nothing but their identity.
TabSymmetry == Permutations(TwoTabs)
ItemSymmetry == Permutations(TwoItems)
=============================================================================
