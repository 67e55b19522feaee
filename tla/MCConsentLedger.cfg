SPECIFICATION FairSpec
CONSTANTS
 c1 = c1  c2 = c2  s1 = s1  s2 = s2
 Recorders <- MCRecorders
 Withdrawers <- MCWithdrawers
 Keyed <- MCOneKeyed
 MaxClock = 2
 MaxRetries = 1
CHECK_DEADLOCK FALSE
INVARIANT WithdrawnStaysInvalid
PROPERTY LockGranted
