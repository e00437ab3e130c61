SPECIFICATION FairSpec
CONSTANTS
  Jobs = {j1}
  Names = {jupyter}
  Ports = {p1, p2}
  NoPort = NoPort
  NoJob = NoJob
  MaxAttempts = 2
  MaxRequests = 1
  KubeMayFail = TRUE
  DbMayFail = TRUE
INVARIANTS
  TypeOK
  RunningIsServed
  StoppedIsGone
PROPERTIES
  EndpointsLiveAsPromised
  EndpointComesUp
  DeadIsCleaned
CONSTRAINT Quiet
CHECK_DEADLOCK FALSE
