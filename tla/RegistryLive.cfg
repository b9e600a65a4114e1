SPECIFICATION FairSpec
CONSTANTS
  Agent = {a1, a2}
  Caller = {c1, c2}
  Limit = 2
  MailCap = 1
  None = None
  MaxRuns = 1
  MaxInputs = 0
  MaxFaults = 1
  MaxCrashes = 0
PROPERTIES CloseReturns CloseEndsAgents
CHECK_DEADLOCK FALSE
