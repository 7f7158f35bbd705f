----------------------------- MODULE MCFileStore -----------------------------
(***************************************************************************)
(* Small instances of FileStore.  One file is empty, one has two chunks    *)
(* and can be cut in the middle.                                           *)
(***************************************************************************)
EXTENDS FileStoreInv, TLC

CONSTANTS w1, w2, u1, u2, f1, f2

Workers2 == {w1, w2}
Users1 == {u1}
Users2 == {u1, u2}
Files1 == {f1}
Files2 == {f1, f2}
JustTwo == (f1 :> 2)
ZeroTwo == (f1 :> 0) @@ (f2 :> 2)

AllFaults == FaultKinds
OnlyLostAck == {"lostack"}
=============================================================================
