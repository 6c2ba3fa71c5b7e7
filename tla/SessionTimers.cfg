SPECIFICATION Spec
CONSTANTS
  RecvTimeout = 1
  LogonTimeout = 3
  ReadTimeout = 2
  FirstResponse = 4
  Quiet = 2
  LogoutWait = 3
  Interval = 3
  SendTime = 1
  Cap = 12
  MaxLines = 2
  RxBound = 2
INVARIANTS TypeOK SilenceBounded AnsweringPeerKept LogoutOnTime NoMessageLeftBehind HeartbeatInTurn
PROPERTIES ImplementsLoops LogonEnds ScenarioEnds DeadPeerEnds LogoutEnds
CHECK_DEADLOCK FALSE
