SPECIFICATION Spec
CONSTANTS
 u1 = u1  u2 = u2  op = op  v1 = v1  q1 = q1  q2 = q2  s1 = s1  s2 = s2  None = None
 Annotations <- Two
 Live <- NoLive
 Capturers <- Operator
 Annotators <- TwoAnnotators
 Reviewers <- PromotedReviewer
 Schedulers <- TwoSchedulers
 Sessions <- TwoSessions
 Handlers <- WithdrawOnly
 MaxRework = 1
CHECK_DEADLOCK FALSE
INVARIANT QueueInv
SYMMETRY Symmetry
