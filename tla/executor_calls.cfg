CONSTANTS
  c0 = c0
  c1 = c1
  c2 = c2
  r1 = r1
  Registrations = {c1, c2}
  Requests = {r1}
  AuthTypes = {1, 2}
  ExecutorTypes = {"all in one"}
  AuthOf <- MCAuthOf
  TypeOf <- MCTypeOf
  Faults = TRUE
  Settings <- MCSettings
  ScheduleType <- MCScheduleType
  Held <- MCHeld
  Returned <- MCReturned
SPECIFICATION CallsSpec
INVARIANTS CallsTypeOK AsAsked SuccessIsDone IdIsReal
CHECK_DEADLOCK FALSE
