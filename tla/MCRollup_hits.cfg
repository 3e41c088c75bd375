SPECIFICATION Spec
CONSTANTS
  m1 = m1
  m2 = m2
  j1 = j1
  j2 = j2
  s1 = s1
  t1 = t1
  t2 = t2
  NoRun = NoRun
  Matrices = {m1, m2}
  Jobs = {j1}
  Singles = {}
  Tests = {t1}
  TestOf <- OneTest
  JobOf <- SingleOfOne
  Outcomes = {"PASS", "FAIL"}
  Expectable = {"PASS"}
  MaxReclaims = 1
  LastCommit = 1
  Uses = {"pinned refs", "literal refs"}
SYMMETRY Symmetric
INVARIANTS VerdictsAreTrue
PROPERTIES HitsAreOfTheirCommit
