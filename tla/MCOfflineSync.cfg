SPECIFICATION FairSpec
CONSTANTS
 c1 = c1  c2 = c2  e1 = e1
 Frames <- TwoFrames
 Clean <- OneFrame
 Calls <- TwoCalls
 Edits <- OneEdit
 MaxRetries = 2
 Cap = 1
 MaxReloads = 1
CHECK_DEADLOCK FALSE
INVARIANTS CallsCounted SettledIsSaved
PROPERTIES UnsavedKept FrameSettles
