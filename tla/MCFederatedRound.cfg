SPECIFICATION FederatedSpec
CONSTANTS
  Rounds = {1, 2}
  Updates = {u1, u2, u3, u4}
  Aggregators = {a1, a2}
  Target = 3
  LongNames = {2}
  MaxUses = 2
SYMMETRY Symmetry
INVARIANTS
  AggregatedOnce
  CountKept
  CompletedEnough
