SPECIFICATION Spec
CONSTANTS
  Sessions = {s1}
  Passes = {"inline", "tick"}
  KeepTurns = 1
  Rewrites = FALSE
  MaxReplyLines = 1
  MaxLines = 3
  MaxSegments = 2
  MaxFailures = 1
  MaxCrashes = 0
INVARIANT ArchivedTurnsRemembered
VIEW MemoryView
CHECK_DEADLOCK FALSE
