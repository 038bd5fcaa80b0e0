SPECIFICATION ScopedSpec
CONSTANTS
  i1 = i1
  Files = {"MEMORY.md"}
  Indexes = {"MEMORY.md"}
  Callers = {i1, "tick", "manual"}
  Inlines = {i1}
  MaxEdits = 2
  MaxFaults = 1
  KeepTurns = 1
  MinTurns = 2
  MaxTurns = 2
  IdleTrigger = 1
  ArchiveAfter = 2
  Inactive = 1
  RetryDelay = 1
  DreamKeep = "keep"
  MaxMessages = 2
INVARIANT TypeOK
INVARIANT FlagIsOwned
PROPERTY EditsActivate
PROPERTY QuietEnds
CHECK_DEADLOCK FALSE
VIEW QueueView
