SPECIFICATION FairSpec
CONSTANTS
  j1 = j1
  w1 = w1
  w2 = w2
  c1 = c1
  d1 = d1
  d2 = d2
  a1 = a1
  a2 = a2
  r1 = r1
  None = None
  Jobs <- OneJob
  TrainWorkers <- TwoWorkers
  Cancels <- OneCancel
  MaxRetries = 1
  MaxCopies = 1
  MaxLosses = 1
  MaxFaults = 3
  Ids <- TwoIds
  Deploys <- TwoDeploys
  Activates <- OneActivate
  Rollbacks <- OneRollback
INVARIANTS RegistryInv TrainedOnce RegistryMatchesJob
PROPERTIES OutcomeIsOfOneRun SentIsStarted
CHECK_DEADLOCK FALSE
