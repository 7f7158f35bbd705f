---------------------------- MODULE MCTransferPage ----------------------------
(***************************************************************************)
(* A small instance of TransferPage.  A key is made of the time in         *)
(* milliseconds and the name of the file: they differ here.  One of the    *)
(* files is empty.                                                         *)
(***************************************************************************)
EXTENDS TransferPage, TLC

CONSTANTS a, b, ka, kb

Two == {a, b}
TwoKeys == (a :> ka) @@ (b :> kb)
AllKeys == {ka, kb}
TwoZero == (a :> 2) @@ (b :> 0)

AllFaults == FaultKinds
=============================================================================
