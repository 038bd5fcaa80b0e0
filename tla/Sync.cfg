SPECIFICATION Spec
CONSTANTS
  Clients = {c1}
  Characters = {a, b}
  None = None
  RingSize = 3
  DirectSize = 1
  MaxLags = 2
  MaxChanges = 3
  MaxFaults = 1
INVARIANT TypeOK
INVARIANT ShowsWhatIsSaved
PROPERTY MessagesNotShadowed
PROPERTY FeedSpec
SYMMETRY Symmetry
CHECK_DEADLOCK FALSE
