SPECIFICATION MCFairSpec
CONSTANTS
  MaxHist = 3
  None = None
INVARIANTS FormHasOneState ChosenThemeStays
PROPERTIES GuardIsJustified SkeletonEnds
