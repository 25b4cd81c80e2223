---------------------------- MODULE MCCrowServer ----------------------------
(***************************************************************************)
(* Small instances of CrowServer for TLC.                                  *)
(***************************************************************************)
EXTENDS CrowServer

CONSTANTS c1, c2

TwoConns == {c1, c2}
=============================================================================
