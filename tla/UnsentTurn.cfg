SPECIFICATION Spec
CONSTANTS
  Sessions = {s1}
  Passes = {"inline"}
  KeepTurns = 0
  Rewrites = FALSE
  MaxReplyLines = 1
  MaxLines = 3
  MaxSegments = 1
  MaxFailures = 0
  MaxCrashes = 0
INVARIANT NothingForgotten
VIEW MemoryView
CHECK_DEADLOCK FALSE
