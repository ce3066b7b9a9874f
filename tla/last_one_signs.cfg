CONSTANTS
  s1 = s1
  s2 = s2
  Schedules = {s1}
  ExecutorNum <- MCExecutorNum
  Verifiable = {s1}
  MaxExecutors = 2
  Requests = {r1}
  Finishes = {f1, f2}
  Cancels = {}
  Infos = {}
  Reports = {"good"}
  SharedIds = FALSE
  Repeats = FALSE
  Mortal = {}
  Unstable = TRUE
  Monitor = Monitor
  None = None
SPECIFICATION Spec
INVARIANT LastOneSigns
