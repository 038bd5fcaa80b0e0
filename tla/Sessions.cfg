SPECIFICATION FairSpec
CONSTANTS
  MaxSessions = 2
  MaxRequests = 3
  MaxWork = 4
  RouteSize = 1
  DirectSize = 2
  FanSize = 2
VIEW SessionsView
INVARIANT TypeOK
INVARIANT EndIsFinal
INVARIANT RunningIsReachable
PROPERTY RequestsHandled
PROPERTY AnswerArrives
PROPERTY NobodyLeftNothingRuns
CHECK_DEADLOCK FALSE
