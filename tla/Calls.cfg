SPECIFICATION FairSpec
CONSTANTS
  chat = chat
  keepalive = keepalive
  compact = compact
  Callers = {chat, keepalive, compact}
  Chat = {chat}
  Gated <- GatedCallers
  Keys = 3
  Missing <- FirstKey
  Retries = 1
  MaxTurns = 1
  Limit = 2
  MaxCost = 2
  MaxRuns = 1
INVARIANT TypeOK
INVARIANT SpendBounded
INVARIANT EveryStreamHasARow
INVARIANT CleanStreamsFollowed
PROPERTY CallEnds
CHECK_DEADLOCK FALSE
