CONSTANTS
  c1 = c1
  c2 = c2
  c3 = c3
  Registrations = {c1, c2, c3}
  AuthTypes = {"pin"}
  ExecutorTypes = {"collector", "verifier"}
  AuthOf <- MCAuthOf
  TypeOf <- MCTypeOf
  Faults = TRUE
SPECIFICATION FairSpec
INVARIANTS TypeOK OnePerKind ListsAgree
PROPERTIES LiveStays DeadLeave
CHECK_DEADLOCK FALSE
