SPECIFICATION Spec
CONSTANTS
  Agent = {a1, a2}
  Caller = {c1, c2}
  Limit = 1
  MailCap = 1
  None = None
  MaxRuns = 2
  MaxInputs = 1
  MaxFaults = 1
  MaxCrashes = 1
SYMMETRY Symmetry
INVARIANTS SlotsMatchRecords CapHeld RunningIsPersisted  FileIsCurrent 
PROPERTIES ImplementsPool
CHECK_DEADLOCK FALSE
