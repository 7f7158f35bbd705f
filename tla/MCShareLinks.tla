----------------------------- MODULE MCShareLinks -----------------------------
(***************************************************************************)
(* Small instances of ShareLinks.                                          *)
(***************************************************************************)
EXTENDS ShareLinksInv, TLC

CONSTANTS w1, w2, w3, u1, u2, f1, s1

Workers2 == {w1, w2}
Workers3 == {w1, w2, w3}
Users2 == {u1, u2}
Files1 == {f1}
Owner1 == (f1 :> u1)
Shares1 == {s1}
TtlShort == {1}
\* What the frontend sends: api.share(file.id), without an expiry.
TtlOfFrontend == {Never}
=============================================================================
