SPECIFICATION Spec
CONSTANTS
  Task = {t1, t2}
  Worker = {w1, w2}
  Handler = {h1, h2}
  Worktree = {}
  Outcome = {"completed", "failed"}
  None = None
  MaxRetries = 1
  MaxAbandoned = 1
  MaxRestarts = 0
SYMMETRY Symmetry
INVARIANTS AttemptRunsOnce ResultOfOwnAttempt RetryBudget
PROPERTY ImplementsQueue
CHECK_DEADLOCK FALSE
