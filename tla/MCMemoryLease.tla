---------------------------- MODULE MCMemoryLease ----------------------------
(* Small instances of MemoryLease.                                           *)
EXTENDS MemoryLease, TLC

\* Nothing orders the processes.
Symmetry == Permutations(Proc)
=============================================================================
