---------------------------- MODULE MCDurableWork ----------------------------
(* Small instances of DurableWork.                                          *)
EXTENDS DurableWork, TLC

\* See MCTaskBroker.
Symmetry ==
  Permutations(Task) \cup Permutations(Worker) \cup Permutations(Handler)
=============================================================================
