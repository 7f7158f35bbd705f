SPECIFICATION Spec
CONSTANTS
  f = f
  g = g
  None = None
  Nowhere = Nowhere
  Space = Space
  Hash = Hash
  Slash = Slash
  Word = Word
  Files <- TwoFiles
  MaxShares = 2
  MaxCalls = 2
  MaxTimers = 2
  Faults <- AllFaults
INVARIANTS BusyIffCall PasteLeadsToItsFile
PROPERTY LinksStay
