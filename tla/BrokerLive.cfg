SPECIFICATION FairSpec
CONSTANTS
  Task = {t1}
  Worker = {w1, w2}
  Handler = {h1, h2}
  Worktree = {x1, x2}
  Outcome = {"completed", "timeout"}
  None = None
  MaxRetries = 1
  MaxAbandoned = 1
  MaxRestarts = 1
INVARIANT WorktreeKept
PROPERTY EventuallySettled
CHECK_DEADLOCK FALSE
