SPECIFICATION Spec
CONSTANTS
 u1 = u1  u2 = u2  op = op  v1 = v1  q1 = q1  q2 = q2  s1 = s1  s2 = s2  None = None
 Annotations <- One
 Live <- One
 Capturers <- Operator
 Annotators <- TwoAnnotators
 Reviewers <- OneReviewer
 Schedulers <- TwoSchedulers
 Sessions <- TwoSessions
 Handlers <- AllHandlers
 MaxRework = 2
CHECK_DEADLOCK FALSE
INVARIANTS OneAssigneePerRound AnnotatorIsAssignee
SYMMETRY Symmetry
