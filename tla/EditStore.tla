----------------------------- MODULE EditStore -----------------------------
(***************************************************************************)
(* What autoVCS promises about the edits of one repository's main scope,   *)
(* without processes, locks or lock files: RecordEditMain adds a pending   *)
(* edit, and a commit moves every edit that is pending at that moment into *)
(* the tree of main_head, in one step.  The promise ends when a lane has   *)
(* lost its lock file under its user; from then on nothing is said.        *)
(*                                                                         *)
(* ProjectProcesses implements this specification                          *)
(* (ProjectProcesses!ImplementsStore).                                     *)
(***************************************************************************)
CONSTANT Edit

VARIABLES pending,  \* rows of vcs_uncommitted
          head,     \* the edits in the tree of main_head
          broken    \* a lane descriptor has lost its file under its user

vars == <<pending, head, broken>>

Init == pending = {} /\ head = {} /\ broken = FALSE

Record(e) ==
  /\ ~broken
  /\ e \notin pending \cup head
  /\ pending' = pending \cup {e}
  /\ UNCHANGED <<head, broken>>

Commit ==
  /\ ~broken /\ pending # {}
  /\ head' = head \cup pending
  /\ pending' = {}
  /\ UNCHANGED broken

Break == ~broken /\ broken' = TRUE /\ UNCHANGED <<pending, head>>

Adrift == broken /\ broken'

Next == (\E e \in Edit : Record(e)) \/ Commit \/ Break \/ Adrift

Spec == Init /\ [][Next]_vars
=============================================================================
