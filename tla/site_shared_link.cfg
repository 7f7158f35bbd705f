SPECIFICATION MCFairSpec
CONSTANTS
  MaxHist = 2
  None = None
PROPERTY SharedLinkStays
