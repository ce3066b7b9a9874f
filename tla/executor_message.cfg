CONSTANTS
  k1 = k1
  NoKey = NoKey
  Keys = {k1}
  Cells <- MCCells
  ScheduleIds <- MCScheduleIds
  KeyOf <- MCKeyOf
  Reports <- MCReports
  Messages <- MCMessages
  MaxSize = 44
  Faults = TRUE
SPECIFICATION Spec
INVARIANTS TypeOK Tiled TokenIsReported HonestIsGranted
CHECK_DEADLOCK FALSE
