SPECIFICATION FairSpec
CONSTANTS
  Nodes = {n1}
  Beats = {b1, b2}
  Operators = {o1, o2}
  Commands = {1, 2, 3}
  Keep = 2
  Timeout = 2
  Wait = 1
  MaxFaults = 1
INVARIANTS
  AtLeastOnce
PROPERTIES
  OfflineWasSilent
  SilentGoesOffline
