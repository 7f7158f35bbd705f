SPECIFICATION FairSpec
CONSTANTS
  w1 = w1
  w2 = w2
  u1 = u1
  u2 = u2
  f1 = f1
  f2 = f2
  None = None
  Workers <- Workers2
  Users <- Users2
  FileIds <- Files2
  Length <- ZeroTwo
  Faults <- AllFaults
CHECK_DEADLOCK FALSE
INVARIANTS TypeOK RowsAreWhole AckedKept NoShortRead OneDeleter ServableUnlessUnseen MissingOnlyIfErased NoLeak
PROPERTIES KeepsItsPromise Answered
