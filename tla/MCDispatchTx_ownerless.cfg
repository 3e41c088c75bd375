SPECIFICATION TxSpec
CONSTANTS
  w1 = w1
  w2 = w2
  NoWorker = NoWorker
  NoRun = 0
  Workers = {w1, w2}
  Runs <- OneRun
  MaxReclaims = 1
  Concurrencies = {1}
  ServeSets <- AllOfThem
  ReportTries = 1
  MaxLate = 0
  Faults = {"silence"}
  Managed = {}
  WebRoutes = {"cancel", "delete"}
  Window = 1
SYMMETRY Symmetric
INVARIANT RunningRunsHaveAWorker
