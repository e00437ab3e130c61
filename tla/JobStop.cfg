SPECIFICATION Spec
CONSTANTS
  j1 = j1
  j2 = j2
  v1 = v1
  v2 = v2
  NoJob = NoJob
  Jobs = {j1, j2}
  VCs = {v1, v2}
  JobVC <- OneVC
  Preemptible = {j1}
  Distributed = {j1}
  Family <- ParentFirst
  SubmitLimit = 1
  RestartLimit = 1
  RestOps = {"kill", "pause", "resume", "approve", "delete", "addvc", "deletevc"}
  MaxRequests = 1
  MaxDeaths = 0
  MaxRestarts = 0
  DbMayFail = FALSE
INVARIANTS
  TypeOK
CONSTRAINT StopBound
VIEW ButHistory
PROPERTIES
  StopLostOnlyToOlderWork
  StopFreesGpu
  EndLostOnlyToFamily
CHECK_DEADLOCK FALSE
