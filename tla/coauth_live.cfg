CONSTANTS
  s1 = s1
  s2 = s2
  Schedules = {s1}
  ExecutorNum <- MCExecutorNum
  Verifiable = {s1}
  MaxExecutors = 2
  Requests = {r1}
  Finishes = {f1, f2}
  Cancels = {}
  Infos = {m1}
  Reports = {"good"}
  SharedIds = FALSE
  Repeats = FALSE
  Mortal = {r1}
  Unstable = TRUE
  Monitor = Monitor
  None = None
SPECIFICATION FairSpec
PROPERTIES CallerHears EntriesGo QuietAfterEnd
