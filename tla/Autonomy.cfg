SPECIFICATION Spec
CONSTANTS
  opus = opus
  glm = glm
  Models = {opus, glm}
  NoModel = NoModel
  Cadence <- ModelCadence
  Pinned = {glm}
  DefaultInterval = 1
  MinWake = 1
  MaxWake = 2
  MinLatency = 1
  MaxSilent = 4
  MaxTicks = 2
  MaxIdle = 3
  RetryDelay = 1
  Horizon = 4
  MaxEvents = 3
  MaxFaults = 1
INVARIANT TypeOK
INVARIANT BeatsBounded
PROPERTY LatencyKept
PROPERTY PingsStop
PROPERTY PingIsNeeded
CHECK_DEADLOCK FALSE
