CONSTANTS
  Users = {u1, u2, u3}
  AuthTypes = {"pin", "face"}
  Pin = "pin"
  Ids = {i1, i2, i3}
  MaxUser = 2
  MaxCredential = 2
  MaxAuthType = 1
  Capacity = 200
  Faults = TRUE
  None = None
  Dangling = Dangling
SPECIFICATION Spec
SYMMETRY Symmetry
VIEW View
INVARIANTS TypeOK WellFormed FileLoads CurrentIsListed AckedSurvive
CHECK_DEADLOCK FALSE
