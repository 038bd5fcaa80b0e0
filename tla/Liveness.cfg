SPECIFICATION FairSpec
CONSTANTS
  Sessions = {s1}
  Passes = {"manual", "tick"}
  KeepTurns = 1
  Rewrites = FALSE
  MaxReplyLines = 1
  MaxLines = 2
  MaxSegments = 2
  MaxFailures = 1
  MaxCrashes = 0
VIEW TranscriptView
PROPERTY PassesEnd
CHECK_DEADLOCK FALSE
