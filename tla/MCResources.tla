------------------------------ MODULE MCResources ------------------------------
(***************************************************************************)
(* Two workers and one connection.  The files are empty, kept in memory,   *)
(* spilled, larger than announced but accepted, and too large.             *)
(***************************************************************************)
EXTENDS Resources, TLC

CONSTANTS w1, w2

TwoWorkers == {w1, w2}
FiveSizes == 0 .. 4
=============================================================================
