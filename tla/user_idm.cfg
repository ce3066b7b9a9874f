CONSTANTS
  e1 = e1
  e2 = e2
  Users = {u1, u2}
  AuthTypes = {"pin", "face"}
  Pin = "pin"
  Ids = {i1, i2}
  MaxCredential = 5
  MaxAuthType = 2
  Contexts = {c1}
  Schedules = {s1, s2, s3}
  Challenges = {h1, h2}
  Executors = {e1, e2}
  MaxExecutors = 2
  Asked = {0}
  Skips = FALSE
  Period = 1
  SessionPeriod = 1
  MaxTime = 1
  Faults = TRUE
  AuthOf <- MCAuthOf
  Esl <- MCEsl
  Acl <- MCAcl
  None = None
SPECIFICATION Spec
SYMMETRY Symmetry
INVARIANT IdmTypeOK
PROPERTIES EnrolmentIsScheduled OldProofIsRefused
CHECK_DEADLOCK FALSE
