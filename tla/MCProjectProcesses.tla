------------------------- MODULE MCProjectProcesses -------------------------
(* Small instances of ProjectProcesses.                                     *)
EXTENDS ProjectProcesses, TLC

\* Processes, goroutines, lock files and edits are interchangeable.
Symmetry ==
  Permutations(Proc) \cup Permutations(Thread) \cup Permutations(Inode)
    \cup Permutations(Edit)
=============================================================================
