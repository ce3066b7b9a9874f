CONSTANTS
  i1 = i1
  i2 = i2
  e1 = e1
  e2 = e2
  Users = {u1}
  AuthTypes = {"pin"}
  Pin = "pin"
  Ids = {i1, i2}
  MaxCredential = 2
  MaxAuthType = 1
  Contexts = {c1, c2}
  Schedules = {s1, s2}
  Challenges = {h1}
  Executors = {e1, e2, e3}
  AuthOf <- MCAuthOf
  Esl <- MCEsl
  Acl <- MCAcl
  MaxExecutors = 2
  Asked = {20000}
  Skips = FALSE
  Period = 0
  MaxTime = 1
  Faults = TRUE
  None = None
SPECIFICATION AuthSpec
SYMMETRY Symmetry
INVARIANTS AuthTypeOK EachAwaitsItsOwn OneResult LevelIsBacked
PROPERTY EndedStaysEnded
CHECK_DEADLOCK FALSE
