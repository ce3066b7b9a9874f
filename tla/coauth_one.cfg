CONSTANTS
  s1 = s1
  s2 = s2
  Schedules = {s1}
  ExecutorNum <- MCExecutorNum
  Verifiable = {s1}
  MaxExecutors = 2
  Requests = {r1}
  Finishes = {f1, f2}
  Cancels = {c1}
  Infos = {}
  Reports = {"good", "failed", "oversized"}
  SharedIds = FALSE
  Repeats = TRUE
  Mortal = {r1}
  Unstable = FALSE
  Monitor = Monitor
  None = None
SPECIFICATION Spec
SYMMETRY Symmetry
INVARIANTS TypeOK AllAnswered NoOrphanEntry
PROPERTY CancelIsFinal
CHECK_DEADLOCK FALSE
