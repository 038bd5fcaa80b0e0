SPECIFICATION FairSpec
CONSTANTS
  Characters = {"ann"}
  ControlSize = 1
  MaxEdits = 2
  Services = {"sidecar", "matrix"}
  Checked = {"sidecar"}
  MaxFailures = 2
CONSTRAINT Apart
INVARIANT DaemonTypeOK
INVARIANT CopiesAgree
INVARIANT SettledIsCurrent
INVARIANT NoChildLeftBehind
INVARIANT GivesUpInARow
PROPERTY ConfigConverges
PROPERTY ServiceReturns
CHECK_DEADLOCK FALSE
