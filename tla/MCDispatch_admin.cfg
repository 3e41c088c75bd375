SPECIFICATION Spec
CONSTANTS
  w1 = w1
  w2 = w2
  NoWorker = NoWorker
  NoRun = 0
  Workers = {w1}
  Runs <- TwoRuns
  MaxReclaims = 1
  Concurrencies = {1, 2}
  ServeSets <- AllOfThem
  ReportTries = 1
  MaxLate = 1
  Faults = {"crash", "prompt", "signal", "timeout", "silence"}
  Managed = {w1}
INVARIANTS OwnedWhileClaimed NoPhantomLoad
PROPERTIES RunsLiveAsPromised
