SPECIFICATION Spec
CONSTANTS
  None = None
  Request = {r1}
  Scope = {s1}
  Mode = {"default", "yolo"}
  Kind = {"other"}
  Decision = {"allow", "deny"}
  UnattendedAfter = 1
  QueueCap = 2
  MaxFrames = 3
INVARIANT SwitchTakesEffect
CHECK_DEADLOCK FALSE
