SPECIFICATION WSpec
CONSTANTS
  Task = {t1}
  Worker = {w1, w2}
  Handler = {h1, h2}
  Worktree = {x1}
  Outcome = {"completed", "failed", "timeout"}
  None = None
  MaxRetries = 1
  MaxAbandoned = 1
  Gated = {t1}
  MaxRestarts = 1
SYMMETRY Symmetry
INVARIANT NeverAhead
PROPERTIES DurableFinal CancelBrokerFirst
CHECK_DEADLOCK FALSE
