------------------------------- MODULE MCShareUi -------------------------------
(***************************************************************************)
(* Small instances of ShareUi.                                             *)
(***************************************************************************)
EXTENDS ShareUi, TLC

CONSTANTS f, g

TwoFiles == {f, g}

AllFaults == FaultKinds
NoFaults == {}
=============================================================================
