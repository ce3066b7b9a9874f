CONSTANTS
  Users = {u1, u2}
  AuthTypes = {"pin", "face"}
  Pin = "pin"
  Ids = {i1, i2}
  MaxUser = 2
  MaxCredential = 2
  MaxAuthType = 1
  Capacity = 2048
  Faults = FALSE
  None = None
  Dangling = Dangling
SPECIFICATION Spec
SYMMETRY Symmetry
INVARIANT CacheAgrees
CHECK_DEADLOCK FALSE
