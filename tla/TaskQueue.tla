----------------------------- MODULE TaskQueue -----------------------------
(***************************************************************************)
(* What internal/task.Broker promises its callers, without the database,   *)
(* the HTTP handlers or the sweeper: a set of jobs, each held by at most   *)
(* one worker, charged one attempt whenever a run is given up and never    *)
(* moved again once it has ended.                                          *)
(*                                                                         *)
(* TaskBroker implements this specification (TaskBroker!ImplementsQueue).  *)
(***************************************************************************)
EXTENDS Naturals

CONSTANTS Task,        \* job identities
          Worker,      \* worker names
          None,        \* "no worker"
          MaxRetries   \* NewBroker's maxRetries

VARIABLES status,      \* status[t]: the job's place in its life cycle
          holder,      \* holder[t]: the worker running t, None unless running
          attempts     \* attempts[t]: runs of t that were given up

vars == <<status, holder, attempts>>

Final == {"completed", "failed", "timeout", "cancelled"}

Init ==
  /\ status   = [t \in Task |-> "absent"]
  /\ holder   = [t \in Task |-> None]
  /\ attempts = [t \in Task |-> 0]

Submit(t) ==
  /\ status[t] = "absent"
  /\ status' = [status EXCEPT ![t] = "pending"]
  /\ UNCHANGED <<holder, attempts>>

\* A worker takes a job nobody holds.
Claim(t, w) ==
  /\ status[t] = "pending"
  /\ status' = [status EXCEPT ![t] = "running"]
  /\ holder' = [holder EXCEPT ![t] = w]
  /\ UNCHANGED attempts

\* A run is given up and charged; the job waits for another worker.
GiveBack(t) ==
  /\ status[t] = "running"
  /\ status'   = [status EXCEPT ![t] = "pending"]
  /\ holder'   = [holder EXCEPT ![t] = None]
  /\ attempts' = [attempts EXCEPT ![t] = @ + 1]

\* A run is given up and charged, and the retry budget is spent.
GiveUp(t) ==
  /\ status[t] = "running"
  /\ attempts[t] >= MaxRetries
  /\ status'   = [status EXCEPT ![t] = "failed"]
  /\ holder'   = [holder EXCEPT ![t] = None]
  /\ attempts' = [attempts EXCEPT ![t] = @ + 1]

\* The holder's own verdict ends the job.
Finish(t, s) ==
  /\ status[t] = "running"
  /\ status' = [status EXCEPT ![t] = s]
  /\ holder' = [holder EXCEPT ![t] = None]
  /\ UNCHANGED attempts

Cancel(t) ==
  /\ status[t] \in {"pending", "running"}
  /\ status' = [status EXCEPT ![t] = "cancelled"]
  /\ holder' = [holder EXCEPT ![t] = None]
  /\ UNCHANGED attempts

Next ==
  \E t \in Task :
    \/ Submit(t)
    \/ \E w \in Worker : Claim(t, w)
    \/ GiveBack(t)
    \/ GiveUp(t)
    \/ \E s \in Final \ {"cancelled"} : Finish(t, s)
    \/ Cancel(t)

Spec == Init /\ [][Next]_vars
=============================================================================
