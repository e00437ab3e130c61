SPECIFICATION FairSpec
CONSTANTS
  d1 = d1
  r1 = r1
  r2 = r2
  Order <- Managers
  Prompt = {"job_manager_running"}
  LoopTime = 1
  Tictoc = 2
  Day = 4
  MaxFaults = 2
  Datasets = {d1}
  Requests = {r1, r2}
  NoRequest = NoRequest
  Of <- BothOfOne
  Duration <- AsLongAsPossible
INVARIANTS
  TypeOK
  HealthyLooksAlive
  EndedTogether
  FinishedIsCurrent
PROPERTIES
  AnsweredOnce
  HungIsRestarted
  ConversionEnds
