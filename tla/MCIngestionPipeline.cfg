SPECIFICATION FairSpec
CONSTANTS
  b1 = b1
  u1 = u1
  u2 = u2
  w1 = w1
  None = None
  Batches <- OneBatch
  Field <- OneBatch
  Uploads <- TwoUploads
  Workers <- OneWorker
  MaxRetries = 1
  MaxCopies = 2
  MaxDeaths = 1
INVARIANTS BatchInv IngestedWithAnnotations
PROPERTIES OutcomeIsFinal ReachesWorker
CHECK_DEADLOCK FALSE
