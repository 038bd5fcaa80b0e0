SPECIFICATION Spec
CONSTANTS
  Sessions = {s1}
  Passes = {"inline"}
  KeepTurns = 1
  Rewrites = FALSE
  MaxReplyLines = 1
  MaxLines = 5
  MaxSegments = 2
  MaxFailures = 0
  MaxCrashes = 0
INVARIANT NoLossDuringPass
CHECK_DEADLOCK FALSE
