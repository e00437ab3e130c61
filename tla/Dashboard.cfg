SPECIFICATION FairSpec
CONSTANTS
  j1 = j1
  j2 = j2
  Nothing = Nothing
  Order <- TwoJobs
  Mine = {j2}
  Found <- RunningAndNew
  Switches = {"ipython"}
  PortNames = {"port"}
  MaxGets = 2
  MaxMoves = 3
INVARIANTS
  TypeOK
  RefusedOnlyIfMoved
  JobPageRests
  PanelRests
PROPERTIES
  TableSettles
  JobPageSettles
  EndpointsSettle
CHECK_DEADLOCK FALSE
