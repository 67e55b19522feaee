-------------------------- MODULE MCFederatedRound --------------------------
EXTENDS FederatedRound, TLC
Symmetry == Permutations(Updates) \cup Permutations(Aggregators)
=============================================================================
