SPECIFICATION FairSpec
CONSTANTS
  a = a
  b = b
  ka = ka
  kb = kb
  None = None
  Uploads <- Two
  Keys <- AllKeys
  KeyOf <- TwoKeys
  Size <- TwoZero
  Envelope = 1
  Faults <- AllFaults
CHECK_DEADLOCK FALSE
INVARIANTS ActiveIffInFlight CompleteIsListed OneOutcome
PROPERTIES CompleteStaysComplete BarNeverFallsBack JobsSettle
