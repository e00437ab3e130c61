SPECIFICATION FairSpec
CONSTANTS
  j1 = j1
  j2 = j2
  v1 = v1
  v2 = v2
  NoJob = NoJob
  Jobs = {j1}
  VCs = {v1}
  JobVC <- OneVC
  Preemptible = {}
  Distributed = {}
  Family <- OwnFamily
  SubmitLimit = 1
  RestartLimit = 1
  RestOps = {"kill"}
  MaxRequests = 1
  MaxDeaths = 1
  MaxRestarts = 0
  DbMayFail = FALSE
INVARIANTS
  OneTaskPerJob
PROPERTIES
  StopCompletes
CHECK_DEADLOCK FALSE
