SPECIFICATION Spec
CONSTANTS
  Sessions = {s1, s2}
  Passes = {"manual", "tick"}
  KeepTurns = 1
  Rewrites = FALSE
  MaxReplyLines = 1
  MaxLines = 2
  MaxSegments = 2
  MaxFailures = 1
  MaxCrashes = 1
INVARIANT TypeOK
INVARIANT NoSilentLoss
PROPERTY ChronicleSpec
SYMMETRY SessionSymmetry
VIEW TranscriptView
CHECK_DEADLOCK FALSE
