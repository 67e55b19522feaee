SPECIFICATION MCSpec
CONSTANTS
  None = None
  MaxFrames = 4
  MaxEvents = 2
  BufferLen = 2
  Pre = 2
  Post = 2
  MaxRuns = 3
  NumTracks = 1
  MaxClock = 8
  MaxStep = 4
  MaxAge = 2
  Gap = 1
  TTL = 3
  Rules = {"dwell", "presence", "confidence_drop", "distance"}
  Dwell = 2
  Cooldown <- Cooldowns
INVARIANTS SessionInv SavedOnce ClientInv TracksInv
PROPERTIES ClipNotLost ImplementsServer Flows CooldownKept
CHECK_DEADLOCK FALSE
