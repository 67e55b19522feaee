-------------------------- MODULE MCModelRegistry --------------------------
(* An instance of ModelRegistry for TLC. *)
EXTENDS ModelRegistry

CONSTANTS j1, w1, w2, c1, d1, d2, a1, a2, r1

OneJob == {j1}
TwoWorkers == {w1, w2}
OneCancel == {c1}
TwoDeploys == {d1, d2}
OneActivate == {a1}
TwoActivates == {a1, a2}
OneRollback == {r1}
TwoIds == {1, 2}
=============================================================================
