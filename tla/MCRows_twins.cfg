SPECIFICATION Spec
CONSTANTS
  b1 = b1
  b2 = b2
  Parts = {"recipes"}
  LocalUsers = {"ann"}
  HubUsers = {"hub"}
  Browsers = {1}
  Requests = {1, 2}
  Tokens = {b1, b2}
  Memberships = {"submitters", "named"}
  AllowExternal = FALSE
  EveryMember = FALSE
  Loose = {"branch"}
  Pinned = {b1, b2}
  MaxMatrices = 2
  Routes = {1}
INVARIANT OneSnapshotPerContent
CHECK_DEADLOCK FALSE
