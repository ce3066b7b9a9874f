CONSTANTS
  s1 = s1
  s2 = s2
  Schedules = {s2, s3}
  ExecutorNum <- MCExecutorNum
  Verifiable = {s2}
  MaxExecutors = 2
  Requests = {r1, r2}
  Finishes = {f1, f2}
  Cancels = {}
  Infos = {}
  Reports = {"good"}
  SharedIds = TRUE
  Repeats = FALSE
  Mortal = {}
  Unstable = FALSE
  Monitor = Monitor
  None = None
SPECIFICATION Spec
SYMMETRY Symmetry
VIEW ImmortalView
INVARIANTS OneSuccess OwnerIsTold
PROPERTY TokenSpec
CHECK_DEADLOCK FALSE
