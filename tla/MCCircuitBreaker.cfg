SPECIFICATION BreakerFairSpec
CONSTANTS
  c1 = c1
  c2 = c2
  c3 = c3
  Calls <- ThreeCalls
  Threshold = 3
  Recovery = 2
  HalfOpenMax = 2
INVARIANTS CountsStreak
PROPERTIES StaysOpen Recovers
