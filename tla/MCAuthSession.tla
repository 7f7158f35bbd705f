---------------------------- MODULE MCAuthSession ----------------------------
(***************************************************************************)
(* Small instances of AuthSession.                                         *)
(***************************************************************************)
EXTENDS AuthSession, TLC

CONSTANTS c1, c2, e1, e2, p1, p2

TwoCalls == {c1, c2}
TwoEmails == {e1, e2}
TwoPasswords == {p1, p2}

Sym == Permutations(Calls) \cup Permutations(Emails) \cup Permutations(Passwords)
=============================================================================
