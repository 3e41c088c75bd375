SPECIFICATION FairSpec
CONSTANTS
  w1 = w1
  w2 = w2
  NoWorker = NoWorker
  NoRun = 0
  Workers = {w1}
  Runs <- OneRun
  MaxReclaims = 1
  Concurrencies = {1}
  ServeSets <- AllOrNone
  ReportTries = 2
  MaxLate = 1
  Faults = {"crash", "prompt", "signal", "timeout", "silence"}
  Managed = {w1}
PROPERTIES ShutdownIsHonoured
