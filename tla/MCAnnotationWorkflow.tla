------------------------ MODULE MCAnnotationWorkflow ------------------------
(* Instances of AnnotationWorkflow for TLC. *)
EXTENDS AnnotationWorkflow, TLC

CONSTANTS u1, u2, op, v1, q1, q2, s1, s2

One == {1}
Two == {1, 2}
NoLive == {}
TwoAnnotators == {u1, u2}
Operator == {op}
OneReviewer == {v1}
\* u2 became a reviewer while a job was assigned to them
PromotedReviewer == {u2, v1}
TwoSchedulers == {q1, q2}
TwoSessions == {s1, s2}
WithdrawOnly == {"withdraw"}
AllHandlers == HandlerNames
Symmetry == Permutations(TwoSchedulers) \cup Permutations(TwoSessions)
=============================================================================
