SPECIFICATION Spec
CONSTANTS
  w1 = w1
  w2 = w2
  u1 = u1
  u2 = u2
  f1 = f1
  f2 = f2
  None = None
  Workers <- Workers2
  Users <- Users1
  FileIds <- Files1
  Length <- JustTwo
  Faults <- OnlyLostAck
CHECK_DEADLOCK FALSE
INVARIANTS ListedIsServable
