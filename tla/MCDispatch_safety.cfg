SPECIFICATION Spec
CONSTANTS
  w1 = w1
  w2 = w2
  NoWorker = NoWorker
  NoRun = 0
  Workers = {w1, w2}
  Runs <- TwoRuns
  MaxReclaims = 1
  Concurrencies = {1}
  ServeSets <- AllOfThem
  ReportTries = 2
  MaxLate = 1
  Faults = {"crash", "prompt", "timeout", "silence"}
  Managed = {}
SYMMETRY Symmetric
INVARIANTS TypeOK AttemptBudget OneExecutor ResultMatchesLifecycle
