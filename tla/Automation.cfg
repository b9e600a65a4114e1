SPECIFICATION FairSpec
CONSTANTS
  AutoId = {a1}
  Caller = {c1}
  Scheduler = Scheduler
  Period = 2
  MaxTime = 4
  MaxManual = 1
  MaxFaults = 1
  MaxCrashes = 1
INVARIANTS SlotOnce RunsOwnTheirRow
PROPERTIES  CancelReachesRun
CHECK_DEADLOCK FALSE
