SPECIFICATION FairSpec
CONSTANTS
  w1 = w1
  w2 = w2
  None = None
  Workers <- TwoWorkers
  MaxConns = 1
  MaxMemory = 1
  MaxUpload = 2
  Slack = 2
  Envelope = 1
  Sizes <- FiveSizes
  MaxCrashes = 1
INVARIANTS TempFilesAreOwned FitsIfAnnounced NoConnectionLost
PROPERTY UploadsEnd
