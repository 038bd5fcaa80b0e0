SPECIFICATION Spec
CONSTANTS
  Sessions = {s1}
  Passes = {"inline"}
  KeepTurns = 1
  Rewrites = TRUE
  MaxReplyLines = 2
  MaxLines = 3
  MaxSegments = 1
  MaxFailures = 1
  MaxCrashes = 0
INVARIANT NoResurrection
INVARIANT MemoryMatchesDisk
VIEW TranscriptView
CHECK_DEADLOCK FALSE
