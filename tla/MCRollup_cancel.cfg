SPECIFICATION Spec
CONSTANTS
  m1 = m1
  m2 = m2
  j1 = j1
  j2 = j2
  s1 = s1
  t1 = t1
  t2 = t2
  NoRun = NoRun
  Matrices = {m1}
  Jobs = {j1, j2}
  Singles = {}
  Tests = {t1, t2}
  TestOf <- OwnTests
  JobOf <- SingleOfOne
  Outcomes = {"PASS", "FAIL"}
  Expectable = {"PASS"}
  MaxReclaims = 0
  LastCommit = 0
  Uses = {"cancel run"}
SYMMETRY Symmetric
INVARIANTS CompletedWhenDone
