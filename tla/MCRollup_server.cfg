SPECIFICATION FairSpec
CONSTANTS
  m1 = m1
  m2 = m2
  j1 = j1
  j2 = j2
  s1 = s1
  t1 = t1
  t2 = t2
  NoRun = NoRun
  Matrices = {m1}
  Jobs = {j1, j2}
  Singles = {s1}
  Tests = {t1}
  TestOf <- OneTest
  JobOf <- SingleOfOne
  Outcomes = {"PASS"}
  Expectable = {"PASS"}
  MaxReclaims = 1
  LastCommit = 0
  Uses = {}
PROPERTIES EveryMatrixRunCompletes MatrixRunsAsPromised
