----------------------------- MODULE MCAccounts -----------------------------
(***************************************************************************)
(* Small instances of Accounts for TLC.                                    *)
(***************************************************************************)
EXTENDS Accounts

CONSTANTS s1, s2, n1, n2, e1, e2, e3, w1

TwoServers == {s1, s2}
TwoNames == {n1, n2}
ThreeEmails == {e1, e2, e3}
OnePassword == {w1}
=============================================================================
