SPECIFICATION ReaperSpec
CONSTANTS
  w1 = w1
  w2 = w2
  NoWorker = NoWorker
  NoRun = 0
  Workers = {w1}
  Runs <- TwoRuns
  MaxReclaims = 1
  Concurrencies = {1}
  ServeSets <- AllOrNone
  ReportTries = 1
  MaxLate = 0
  Faults = {"crash", "signal", "silence"}
  Managed = {w1}
PROPERTIES EveryRunEnds DeadWorkerLosesItsRuns UnserviceableRunsExpire
