------------------------------- MODULE Machine -------------------------------
(* What the modules about one machine's processes have in common.            *)
CONSTANTS
  Proc,  \* processes opened on the project, each with a PID of its own
  None   \* nothing: no file, no owner, nobody
=============================================================================
