----------------------------- MODULE AgentPool -----------------------------
(***************************************************************************)
(* What the sub-agent Manager promises its callers, without its locks, its *)
(* maps, its goroutines or its write protocol: a table of agents and the   *)
(* copy of it on disk, where Spawn and Resume take effect in one step, in  *)
(* the table and in the file at once, and only while fewer than Limit      *)
(* agents run.  An agent may end before the file says so, and what a crash *)
(* leaves is what the file says, with the running agents interrupted.      *)
(*                                                                         *)
(* SubagentRegistry implements this specification                          *)
(* (SubagentRegistry!ImplementsPool).                                      *)
(***************************************************************************)
EXTENDS Naturals, FiniteSets

CONSTANTS Agent,   \* agent identities
          Limit    \* NewManagerOpts.MaxConcurrent

VARIABLES status,  \* status[a]: where agent a is in its life
          file     \* the copy of status a restarted Manager will find

vars == <<status, file>>

Terminal == {"completed", "failed", "cancelled", "interrupted"}

Running == {a \in Agent : status[a] = "running"}

Init ==
  /\ status = [a \in Agent |-> "absent"]
  /\ file = status

\* An agent runs from the moment the file says so, and the limit is met.
Start(a) ==
  /\ Cardinality(Running) < Limit
  /\ status' = [status EXCEPT ![a] = "running"]
  /\ file' = status'

Spawn(a) == status[a] = "absent" /\ Start(a)

Resume(a) == status[a] \in Terminal /\ Start(a)

\* An agent that runs ends, and only the Manager that ran it says how.
End(a, s) ==
  /\ status[a] = "running"
  /\ status' = [status EXCEPT ![a] = s]
  /\ UNCHANGED file

Save ==
  /\ file' = status
  /\ UNCHANGED status

Crash ==
  /\ status' = [a \in Agent |-> IF file[a] = "running" THEN "interrupted" ELSE file[a]]
  /\ UNCHANGED file

Next ==
  \/ \E a \in Agent :
       \/ Spawn(a)
       \/ Resume(a)
       \/ \E s \in {"completed", "failed", "cancelled"} : End(a, s)
  \/ Save
  \/ Crash

Spec == Init /\ [][Next]_vars

-----------------------------------------------------------------------------
\* What an agent that runs owes to the file: it is there, and running, so a
\* crash interrupts it and never forgets it.
OnFile ==
  \A a \in Agent :
    /\ status[a] = "running" => file[a] = "running"
    /\ status[a] # "absent" => file[a] # "absent"
=============================================================================
