SPECIFICATION Spec
CONSTANTS
  c1 = c1
  c2 = c2
  e1 = e1
  e2 = e2
  p1 = p1
  p2 = p2
  None = None
  Calls <- TwoCalls
  Emails <- TwoEmails
  Passwords <- TwoPasswords
  Life = 1
  MaxNow = 1
SYMMETRY Sym
CHECK_DEADLOCK FALSE
INVARIANTS PageShowsSession SignOutEndsSession AckedPasswordHolds
