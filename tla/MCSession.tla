------------------------------ MODULE MCSession ------------------------------
(* Small instances of Session.                                               *)
EXTENDS Session, TLC

\* Requests and scopes are interchangeable.
Symmetry == Permutations(Request) \cup Permutations(Scope)
=============================================================================
