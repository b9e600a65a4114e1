SPECIFICATION Spec
CONSTANTS
  None = None
  Request = {r1, r2, r3}
  Scope = {s1}
  Mode = {"default", "auto", "plan"}
  Kind = {"script", "denied", "ahead"}
  Decision = {"allow", "allow_session", "deny"}
  UnattendedAfter = 2
  QueueCap = 1
  MaxFrames = 4
INVARIANTS AskedIsAnswered PolicyDenyKept GrantsAreMeant OnceUsedOnce PlanTurnReads LatchMeansSilence ModeSettles
SYMMETRY Symmetry
CHECK_DEADLOCK FALSE
