SPECIFICATION FairSpec
CONSTANTS
  p1 = p1
  p2 = p2
  a = a
  b = b
  Parts = {"workspaces"}
  Ring = 2
  Batch = 1
  StoreRing = 3
  MaxLines = 4
  MaxLost = 1
  MaxRestarts = 1
  Builders = {p1, p2}
  Trees = {a, b}
  WorkspaceMax = 1
  Hooks = {1, 2}
  Cells = {1, 2}
  HubCodes = {"PASS", "FAIL"}
  GitHubFaults = {"post", "retired", "repeat"}
INVARIANT OneJobInATree
CHECK_DEADLOCK FALSE
