CONSTANTS
  s1 = s1
  s2 = s2
  Schedules = {s2}
  ExecutorNum <- MCExecutorNum
  Verifiable = {s2}
  MaxExecutors = 2
  Requests = {r1}
  Finishes = {f1}
  Cancels = {}
  Infos = {}
  Reports = {"good", "empty"}
  SharedIds = FALSE
  Repeats = FALSE
  Mortal = {}
  Unstable = TRUE
  Monitor = Monitor
  None = None
SPECIFICATION Spec
INVARIANT SuccessIsSigned
