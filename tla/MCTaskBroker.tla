---------------------------- MODULE MCTaskBroker ----------------------------
(* Small instances of TaskBroker.                                          *)
EXTENDS TaskBroker, TLC

\* Tasks, workers, request slots and worktrees are interchangeable: nothing
\* orders them but the creation stamp, which is part of the row.
Symmetry ==
  Permutations(Task) \cup Permutations(Worker) \cup Permutations(Handler)
    \cup Permutations(Worktree)
=============================================================================
