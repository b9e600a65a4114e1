SPECIFICATION FairSpec
CONSTANTS
  None = None
  Request = {r1, r2}
  Scope = {s1}
  Mode = {"default", "strict", "allow-edits", "yolo"}
  Kind = {"write", "edit", "outside", "egress"}
  Decision = {"allow", "allow_persistent", "deny"}
  UnattendedAfter = 1
  QueueCap = 1
  MaxFrames = 3
PROPERTIES RequestsEnd ReaderFreed HandlerReturns
CHECK_DEADLOCK FALSE
