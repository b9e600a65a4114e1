----------------------------- MODULE DurableWork -----------------------------
(***************************************************************************)
(* The durable task layer of internal/task/work on top of the broker.      *)
(*                                                                         *)
(* work.Manager keeps a row of its own (task_work) for every durable task  *)
(* and submits one broker task for it.  The broker reports what becomes of *)
(* that task to the LifecycleMirror, AFTER its own statement committed and *)
(* from whichever goroutine ran it; a transition the durable state machine *)
(* refuses is dropped.  The two rows are related only by these reports, by *)
(* Manager.Cancel and by RecoverInterrupted at start-up.                   *)
(*                                                                         *)
(* A durable task and the one broker task submitted for it (parent_task)   *)
(* have the same name here.  The checklist gate is reduced to whether it   *)
(* would find something unmet.                                             *)
(***************************************************************************)
EXTENDS TaskBroker

CONSTANT Gated   \* durable tasks that have a checklist
ASSUME GatedAssumption == Gated \subseteq Task

VARIABLES
  work,      \* the task_work table: status and broker_task_id
  unmet,     \* tasks whose checklist has unmet items
  creator,   \* Manager.Create calls under way
  canceller  \* Manager.Cancel calls under way

workVars == <<work, unmet, creator, canceller>>
allVars == <<vars, workVars>>

WInit ==
  /\ Init
  /\ work = [t \in Task |-> [status |-> "absent", linked |-> FALSE]]
  /\ unmet = {}
  /\ creator = [t \in Task |-> "none"]
  /\ canceller = [t \in Task |-> "none"]

-----------------------------------------------------------------------------
(* Store.Transition.                                                       *)

\* legalTransitions, edge by edge.
Legal == {<<"pending", "running">>, <<"pending", "cancelled">>,
          <<"running", "completed">>, <<"running", "failed">>,
          <<"running", "cancelled">>, <<"running", "pending">>}

\* Mutant of Transition: the UPDATE without CanTransitionTo.
TransitionUnchecked(t, next) == work' = [work EXCEPT ![t].status = next]

\* One transaction that reads the status, checks the edge and updates; an
\* edge that is not legal changes nothing and ErrIllegalTransition is dropped.
Transition(t, next) ==
  work' = IF <<work[t].status, next>> \in Legal
          THEN [work EXCEPT ![t].status = next] ELSE work

-----------------------------------------------------------------------------
(* Manager.Create with Dispatch: insert, Submit, AttachBrokerTask.         *)

CreateRow(t) ==
  /\ work[t].status = "absent"
  /\ work' = [work EXCEPT ![t].status = "pending"]
  /\ creator' = [creator EXCEPT ![t] = "inserted"]
  /\ UNCHANGED <<unmet, canceller>>
  /\ UNCHANGED vars

DispatchSubmit(t) ==
  /\ creator[t] = "inserted"
  /\ Submit(t)
  /\ creator' = [creator EXCEPT ![t] = "submitted"]
  /\ UNCHANGED <<work, unmet, canceller>>

\* Submit fails: the task stays pending and the timeline says why.
DispatchFailed(t) ==
  /\ creator[t] = "inserted"
  /\ creator' = [creator EXCEPT ![t] = "none"]
  /\ UNCHANGED <<work, unmet, canceller>>
  /\ UNCHANGED vars

AttachBrokerTask(t) ==
  /\ creator[t] = "submitted"
  /\ work' = [work EXCEPT ![t].linked = TRUE]
  /\ creator' = [creator EXCEPT ![t] = "none"]
  /\ UNCHANGED <<unmet, canceller>>
  /\ UNCHANGED vars

-----------------------------------------------------------------------------
(* LifecycleMirror, called by the broker.                                  *)

OnRunning(t) == Transition(t, "running")

OnRequeued(t) == Transition(t, "pending")

\* Mutant of OnTerminal: everything that is not "failed" counts as completed.
OnTerminalOptimist(t, s) ==
  IF s # "failed"
  THEN IF t \in unmet THEN UNCHANGED work ELSE Transition(t, "completed")
  ELSE Transition(t, "failed")

\* Finish: "timeout" counts as failed; a completion with unmet checklist
\* items is refused.
OnTerminal(t, s) ==
  IF s = "completed"
  THEN IF t \in unmet THEN UNCHANGED work ELSE Transition(t, "completed")
  ELSE Transition(t, "failed")

\* Claim's last part: OnRunning, then the answer.
ClaimReported(h) ==
  /\ ReplyClaim(h)
  /\ OnRunning(handler[h].task)
  /\ UNCHANGED <<unmet, creator, canceller>>

\* RecordResult's last part.
ResultReported(h) ==
  /\ SettleResult(h)
  /\ IF Retries(h) THEN OnRequeued(handler[h].task)
                   ELSE OnTerminal(handler[h].task, handler[h].outcome)
  /\ UNCHANGED <<unmet, creator, canceller>>

\* RequeueStale's last part for one task.
SweepReported ==
  /\ SettleSwept
  /\ IF sweeper.failed THEN OnTerminal(sweeper.task, "failed") ELSE OnRequeued(sweeper.task)
  /\ UNCHANGED <<unmet, creator, canceller>>

-----------------------------------------------------------------------------
(* Manager.Cancel: Get, Dispatcher.Cancel, Transition.                     *)

\* Get; broker_task_id is remembered from here on.
CancelRead(t) ==
  /\ work[t].status # "absent"
  /\ canceller[t] = "none"
  /\ canceller' = [canceller EXCEPT ![t] = IF work[t].linked THEN "broker" ELSE "row"]
  /\ UNCHANGED <<work, unmet, creator>>
  /\ UNCHANGED vars

\* Mutant of CancelBroker: the broker's refusal is ignored.
CancelRegardless(t) ==
  /\ canceller[t] = "broker"
  /\ canceller' = [canceller EXCEPT ![t] = "linkedRow"]
  /\ IF row[t].status \in {"pending", "running"} THEN CancelTask(t) ELSE UNCHANGED vars
  /\ UNCHANGED <<work, unmet, creator>>

\* Broker.Cancel; its error keeps the durable row as it is.
CancelBroker(t) ==
  /\ canceller[t] = "broker"
  /\ IF row[t].status \in {"pending", "running"}
     THEN /\ CancelTask(t)
          /\ canceller' = [canceller EXCEPT ![t] = "linkedRow"]
     ELSE /\ canceller' = [canceller EXCEPT ![t] = "none"]
          /\ UNCHANGED vars
  /\ UNCHANGED <<work, unmet, creator>>

CancelRow(t) ==
  /\ canceller[t] \in {"row", "linkedRow"}
  /\ t \notin cancelling
  /\ Transition(t, "cancelled")
  /\ canceller' = [canceller EXCEPT ![t] = "none"]
  /\ UNCHANGED <<unmet, creator>>
  /\ UNCHANGED vars

-----------------------------------------------------------------------------
\* AddChecklistItem, PatchChecklistItem, RecordGate, a file coming or going:
\* whether the gate would find something unmet.
ChecklistChanges(t) ==
  /\ t \in Gated
  /\ work[t].status \in {"pending", "running"}
  /\ unmet' = (unmet \cup {t}) \ (unmet \cap {t})
  /\ UNCHANGED <<work, creator, canceller>>
  /\ UNCHANGED vars

\* The server process restarts and, before it serves anybody, RecoverInterrupted
\* puts every running durable row back to pending.
RestartAndRecover ==
  /\ Restart
  /\ work' = [t \in Task |->
                IF work[t].status = "running"
                THEN [work[t] EXCEPT !.status = "pending"] ELSE work[t]]
  /\ creator' = [t \in Task |-> "none"]
  /\ canceller' = [t \in Task |-> "none"]
  /\ UNCHANGED unmet

-----------------------------------------------------------------------------
\* The broker's steps that report nothing.
QuietBrokerStep ==
  \/ \E t \in Task : Expire(t) \/ ReclaimCancelled(t) \/ RequeueStaleTask(t)
  \/ \E w \in Worker, h \in Handler :
       RequestClaim(w, h) \/ \E o \in Outcome : RequestResult(w, h, o)
  \/ \E h \in Handler :
       ClaimTask(h) \/ AssignWorktree(h) \/ SetTaskWorktree(h)
         \/ RegisterWorktree(h) \/ CommitResult(h)
  \/ \E w \in Worker : Heartbeat(w) \/ Abandon(w) \/ CrashWorker(w)
  \/ BeginSweep
  \/ ReadSwept

CreateStep(t) == DispatchSubmit(t) \/ DispatchFailed(t) \/ AttachBrokerTask(t)
CancelStep(t) == CancelBroker(t) \/ CancelRow(t)

WNext ==
  \/ \E t \in Task : CreateRow(t) \/ CreateStep(t) \/ CancelRead(t) \/ CancelStep(t)
                       \/ ChecklistChanges(t)
  \/ \E h \in Handler : ClaimReported(h) \/ ResultReported(h)
  \/ SweepReported
  \/ RestartAndRecover
  \/ /\ QuietBrokerStep
     /\ UNCHANGED workVars

WSpec == WInit /\ [][WNext]_allVars

\* The fairness of FairSpec, for the steps as they are composed here.
WFairness ==
  /\ \A h \in Handler :
       /\ WF_allVars(UNCHANGED workVars /\ (ClaimTask(h) \/ AssignWorktree(h)
                        \/ SetTaskWorktree(h) \/ RegisterWorktree(h) \/ CommitResult(h)))
       /\ WF_allVars(ClaimReported(h) \/ ResultReported(h))
  /\ \A w \in Worker :
       /\ WF_allVars(UNCHANGED workVars /\ \E h \in Handler : RequestClaim(w, h))
       /\ WF_allVars(UNCHANGED workVars /\ \E h \in Handler, o \in Outcome :
                                               RequestResult(w, h, o))
  /\ \A t \in Task :
       /\ WF_allVars(UNCHANGED workVars /\ (Expire(t) \/ ReclaimCancelled(t)))
       /\ WF_allVars(CreateStep(t))
       /\ WF_allVars(CancelStep(t))
  /\ WF_allVars(UNCHANGED workVars /\ BeginSweep)
  /\ WF_allVars(\/ SweepReported
                \/ /\ ReadSwept \/ \E t \in Task : RequeueStaleTask(t)
                   /\ UNCHANGED workVars)

WFairSpec == WSpec /\ WFairness

-----------------------------------------------------------------------------
(* Properties.                                                             *)

WTypeOK ==
  /\ TypeOK
  /\ work \in [Task -> [status: {"absent", "pending", "running", "completed",
                                 "failed", "cancelled"}, linked: BOOLEAN]]
  /\ unmet \subseteq Gated
  /\ creator \in [Task -> {"none", "inserted", "submitted"}]
  /\ canceller \in [Task -> {"none", "broker", "row", "linkedRow"}]

\* The reports come late and in any order, and still the durable row never
\* says more than the broker's: a durable task is completed, failed or
\* running only if the broker's task is completed, has failed or has been
\* given to a worker.
NeverAhead ==
  \A t \in Task :
    /\ work[t].status = "completed" => row[t].status = "completed"
    /\ work[t].status = "failed" => row[t].status \in {"failed", "timeout"}
    /\ work[t].status = "running" =>
         row[t].status # "absent" /\ (row[t].status = "pending" => row[t].attempts > 0)

\* A durable row that has ended stays as it ended, whatever reports, recovery
\* or cancellations are still on their way to it.
DurableFinal ==
  [][\A t \in Task : work[t].status \in Final => work'[t].status = work[t].status]_allVars

\* Manager.Cancel of a task whose broker id it has read marks the durable row
\* cancelled only when the broker's task is cancelled already.
CancelBrokerFirst ==
  [][\A t \in Task :
       /\ canceller[t] \notin {"none", "row"}
       /\ work[t].status # "cancelled"
       /\ work'[t].status = "cancelled"
       => row[t].status = "cancelled"]_allVars
=============================================================================
