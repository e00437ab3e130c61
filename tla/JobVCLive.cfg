SPECIFICATION FairSpec
CONSTANTS
  j1 = j1
  j2 = j2
  v1 = v1
  v2 = v2
  NoJob = NoJob
  Jobs = {j1}
  VCs = {v1, v2}
  JobVC <- OneVC
  Preemptible = {}
  Distributed = {}
  Family <- OwnFamily
  SubmitLimit = 1
  RestartLimit = 1
  RestOps = {"deletevc"}
  MaxRequests = 0
  MaxDeaths = 0
  MaxRestarts = 0
  DbMayFail = FALSE
CONSTRAINT OthersStay
PROPERTIES
  MissingVCJobEnds
CHECK_DEADLOCK FALSE
