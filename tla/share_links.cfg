SPECIFICATION FairSpec
CONSTANTS
  w1 = w1
  w2 = w2
  w3 = w3
  u1 = u1
  u2 = u2
  f1 = f1
  s1 = s1
  None = None
  Never = Never
  Workers <- Workers3
  Users <- Users2
  FileIds <- Files1
  Owner <- Owner1
  ShareIds <- Shares1
  Ttls <- TtlShort
  MaxNow = 3
CHECK_DEADLOCK FALSE
INVARIANTS TypeOK NoDanglingLink NoServiceFromDeadLink ClosedForGood GrantedLinksWork
PROPERTIES LinksExpire
