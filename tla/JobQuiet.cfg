SPECIFICATION Spec
CONSTANTS
  j1 = j1
  j2 = j2
  v1 = v1
  v2 = v2
  NoJob = NoJob
  Jobs = {j1, j2}
  VCs = {v1}
  JobVC <- OneVC
  Preemptible = {}
  Distributed = {j1}
  Family <- OwnFamily
  SubmitLimit = 1
  RestartLimit = 3
  RestOps = {}
  MaxRequests = 0
  MaxDeaths = 1
  MaxRestarts = 1
  DbMayFail = TRUE
INVARIANTS
  QuietOneOperation
  QuietEndFreesGpu
CONSTRAINT QuietBound
PROPERTIES
  QuietEndIsFinal
  LivesAsPromised
CHECK_DEADLOCK FALSE
