----------------------------- MODULE TaskBroker -----------------------------
(***************************************************************************)
(* The task broker of internal/task/broker.go, the task table it keeps in  *)
(* internal/store/task.go, the HTTP handlers of internal/api/http/         *)
(* taskapi.go that call it and the remote workers of internal/agent/worker *)
(* that call those.                                                        *)
(*                                                                         *)
(* Every statement on the task table is one SQLite write transaction, so   *)
(* it is one step here.  A handler is several such statements with broker  *)
(* memory (createdWT) and the VCS in between, so it is several steps, and  *)
(* the steps of all handlers, of the sweeper and of Cancel interleave.     *)
(*                                                                         *)
(* Wall-clock time is abstracted to fresh: TRUE while updated_at is within *)
(* the heartbeat timeout.  The wake-up channel (Broker.notify, the SSE     *)
(* stream) is left out: Worker.Run also polls every five seconds, so a     *)
(* worker may ask for a task at any moment.                                *)
(***************************************************************************)
EXTENDS Naturals, FiniteSets

CONSTANTS
  Task,          \* rows of the task table
  Worker,        \* worker names; a worker is sequential (Worker.drain)
  Handler,       \* HTTP requests being served at one time
  Worktree,      \* worktree ids AddWorktree can hand out; {}: no VCS is set
  Outcome,       \* statuses a worker reports: "completed", "failed", "timeout"
  None,          \* the empty string of assigned_to and of worktree_id
  MaxRetries,    \* NewBroker's maxRetries
  MaxAbandoned,  \* bound: requests whose client went away before the answer
  MaxRestarts    \* bound: deaths of the server process

ASSUME NoneAssumption == None \notin Task \cup Worker \cup Handler \cup Worktree
ASSUME TaskAssumption == IsFiniteSet(Task)
ASSUME MaxRetriesAssumption == MaxRetries \in Nat
ASSUME OutcomeAssumption == Outcome \subseteq {"completed", "failed", "timeout"}

VARIABLES
  row,        \* the task table
  tree,       \* the VCS: for whom a worktree was made and whether it exists
  createdWT,  \* broker memory: the worktree Claim created for a task
  handler,    \* the requests in flight on the server
  worker,     \* the remote workers
  sweeper,    \* the goroutine of StartSweeper
  cancelling, \* Cancel calls between CancelTask and reclaimWorktree
  abandoned,  \* requests abandoned so far
  restarts    \* restarts so far

vars == <<row, tree, createdWT, handler, worker, sweeper, cancelling,
          abandoned, restarts>>

Final == {"completed", "failed", "timeout", "cancelled"}

FreeHandler ==
  [pc |-> "free", by |-> None, task |-> None, att |-> 0, outcome |-> None, wt |-> None]

IdleWorker == [pc |-> "idle", handler |-> None, task |-> None, att |-> 0]

IdleSweeper == [pc |-> "idle", todo |-> {}, task |-> None, failed |-> FALSE]

Init ==
  /\ row = [t \in Task |-> [status |-> "absent", owner |-> None, attempts |-> 0,
                            created |-> 0, fresh |-> TRUE, wt |-> None]]
  /\ tree = [x \in Worktree |-> [task |-> None, live |-> FALSE]]
  /\ createdWT = [t \in Task |-> None]
  /\ handler = [h \in Handler |-> FreeHandler]
  /\ worker = [w \in Worker |-> IdleWorker]
  /\ sweeper = IdleSweeper
  /\ cancelling = {}
  /\ abandoned = 0
  /\ restarts = 0

-----------------------------------------------------------------------------
(* Helpers.                                                                *)

Pending == {t \in Task : row[t].status = "pending"}

\* ListPending(1): ORDER BY created_at ASC LIMIT 1.
OldestPending(t) ==
  /\ t \in Pending
  /\ \A u \in Pending : row[t].created <= row[u].created

Submitted == {t \in Task : row[t].status # "absent"}

\* The statements' common guard: WHERE status='running' AND assigned_to=?.
Holds(t, w) == row[t].status = "running" /\ row[t].owner = w

\* Mutant of Charged: attempts = attempts + 1 is forgotten.
Uncharged(r, s) == [r EXCEPT !.status = s, !.owner = None, !.fresh = TRUE]

\* What RequeueTask and RequeueStaleTask write: a run given up and charged.
Charged(r, s) ==
  [r EXCEPT !.status = s, !.owner = None, !.attempts = @ + 1, !.fresh = TRUE]

\* What FinalizeTask and CancelTask write; assigned_to is kept.
Ended(r, s) == [r EXCEPT !.status = s, !.fresh = TRUE]

\* The request ends: the slot is free again and the client, if it is still
\* there, moves to the given state.
Answer(h, client) ==
  /\ handler' = [handler EXCEPT ![h] = FreeHandler]
  /\ worker' = [w \in Worker |-> IF worker[w].handler = h THEN client ELSE worker[w]]

\* reclaimWorktree: forget the worktree Claim created and remove it.
Reclaim(t) ==
  /\ createdWT' = [createdWT EXCEPT ![t] = None]
  /\ tree' = [x \in Worktree |->
                IF x = createdWT[t] THEN [tree[x] EXCEPT !.live = FALSE] ELSE tree[x]]

-----------------------------------------------------------------------------
(* Submit: one INSERT.                                                     *)

Submit(t) ==
  /\ row[t].status = "absent"
  /\ row' = [row EXCEPT ![t] = [@ EXCEPT !.status = "pending",
                                        !.created = Cardinality(Submitted) + 1]]
  /\ UNCHANGED <<tree, createdWT, handler, worker, sweeper, cancelling, abandoned, restarts>>

-----------------------------------------------------------------------------
(* Claim, called by POST /api/v1/tasks/claim.                              *)

\* The worker asks; the handler reads the oldest pending task.  With nothing
\* pending the answer is 204 and nothing changes.
RequestClaim(w, h) ==
  /\ worker[w].pc = "idle"
  /\ handler[h].pc = "free"
  /\ \E t \in Task :
       /\ OldestPending(t)
       /\ handler' = [handler EXCEPT ![h] =
                        [FreeHandler EXCEPT !.pc = "claim", !.by = w, !.task = t]]
  /\ worker' = [worker EXCEPT ![w] = [@ EXCEPT !.pc = "claiming", !.handler = h]]
  /\ UNCHANGED <<row, tree, createdWT, sweeper, cancelling, abandoned, restarts>>

\* store.ClaimTask: the guarded UPDATE.  Losing the race is an error (500).
\* att remembers which attempt this claim is for.
ClaimTask(h) ==
  LET t == handler[h].task IN
  /\ handler[h].pc = "claim"
  /\ IF row[t].status = "pending"
     THEN /\ row' = [row EXCEPT ![t] = [@ EXCEPT !.status = "running",
                                                !.owner = handler[h].by,
                                                !.fresh = TRUE]]
          /\ handler' = [handler EXCEPT ![h] = [@ EXCEPT !.pc = "assign",
                                                        !.att = row[t].attempts]]
          /\ UNCHANGED worker
     ELSE /\ Answer(h, IdleWorker)
          /\ UNCHANGED row
  /\ UNCHANGED <<tree, createdWT, sweeper, cancelling, abandoned, restarts>>

\* GetTask, then AddWorktree when the row has no worktree yet.  AddWorktree is
\* best effort: without a VCS, or when it fails, the task runs without one.
AssignWorktree(h) ==
  LET t == handler[h].task IN
  /\ handler[h].pc = "assign"
  /\ \/ /\ handler' = [handler EXCEPT ![h].pc = "reply"]
        /\ UNCHANGED tree
     \/ /\ row[t].wt = None
        /\ \E x \in Worktree :
             /\ tree[x].task = None
             /\ tree' = [tree EXCEPT ![x] = [task |-> t, live |-> TRUE]]
             /\ handler' = [handler EXCEPT ![h] = [@ EXCEPT !.pc = "stamp", !.wt = x]]
  /\ UNCHANGED <<row, createdWT, worker, sweeper, cancelling, abandoned, restarts>>

\* store.SetTaskWorktree: by id, whatever has become of the task.
SetTaskWorktree(h) ==
  /\ handler[h].pc = "stamp"
  /\ row' = [row EXCEPT ![handler[h].task].wt = handler[h].wt]
  /\ handler' = [handler EXCEPT ![h].pc = "register"]
  /\ UNCHANGED <<tree, createdWT, worker, sweeper, cancelling, abandoned, restarts>>

\* createdWT[got.ID] = wt.ID, under createdWTMu.
RegisterWorktree(h) ==
  /\ handler[h].pc = "register"
  /\ createdWT' = [createdWT EXCEPT ![handler[h].task] = handler[h].wt]
  /\ handler' = [handler EXCEPT ![h].pc = "reply"]
  /\ UNCHANGED <<row, tree, worker, sweeper, cancelling, abandoned, restarts>>

\* OnRunning and the 200 answer: the worker starts to execute.
ReplyClaim(h) ==
  /\ handler[h].pc = "reply"
  /\ Answer(h, [IdleWorker EXCEPT !.pc = "running", !.task = handler[h].task,
                                  !.att = handler[h].att])
  /\ UNCHANGED <<row, tree, createdWT, sweeper, cancelling, abandoned, restarts>>

-----------------------------------------------------------------------------
(* RecordResult, called by POST /api/v1/tasks/{id}/result.                 *)

\* The execution ends and the worker reports; the handler reads the row.  A
\* caller that is not the owner of a running task gets 409 and drops its result.
RequestResult(w, h, o) ==
  LET t == worker[w].task IN
  /\ worker[w].pc = "running"
  /\ handler[h].pc = "free"
  /\ IF Holds(t, w)
     THEN /\ handler' = [handler EXCEPT ![h] =
                           [FreeHandler EXCEPT !.pc = "commit", !.by = w, !.task = t,
                                               !.att = row[t].attempts, !.outcome = o]]
          /\ worker' = [worker EXCEPT ![w] = [@ EXCEPT !.pc = "reporting", !.handler = h]]
     ELSE /\ worker' = [worker EXCEPT ![w] = IdleWorker]
          /\ UNCHANGED handler
  /\ UNCHANGED <<row, tree, createdWT, sweeper, cancelling, abandoned, restarts>>

\* Mutant of Retries: <= where the code has <.
RetriesOnceMore(h) == handler[h].outcome # "completed" /\ handler[h].att <= MaxRetries

\* The broker's choice, made on the attempts it READ.
Retries(h) == handler[h].outcome # "completed" /\ handler[h].att < MaxRetries

\* store.RequeueTask.
RequeueTask(t) == row' = [row EXCEPT ![t] = Charged(@, "pending")]

\* store.FinalizeTask.
FinalizeTask(t, s) == row' = [row EXCEPT ![t] = Ended(@, s)]

\* Mutant of CommitResult: the statements without their WHERE status AND owner.
CommitUnguarded(h) ==
  /\ handler[h].pc = "commit"
  /\ IF Retries(h) THEN RequeueTask(handler[h].task)
                   ELSE FinalizeTask(handler[h].task, handler[h].outcome)
  /\ handler' = [handler EXCEPT ![h].pc = "settle"]
  /\ UNCHANGED <<tree, createdWT, worker, sweeper, cancelling, abandoned, restarts>>

\* RequeueTask or FinalizeTask, both guarded by status and owner.
CommitResult(h) ==
  LET t == handler[h].task IN
  /\ handler[h].pc = "commit"
  /\ IF Holds(t, handler[h].by)
     THEN /\ IF Retries(h) THEN RequeueTask(t) ELSE FinalizeTask(t, handler[h].outcome)
          /\ handler' = [handler EXCEPT ![h].pc = "settle"]
          /\ UNCHANGED worker
     ELSE /\ Answer(h, IdleWorker)
          /\ UNCHANGED row
  /\ UNCHANGED <<tree, createdWT, sweeper, cancelling, abandoned, restarts>>

\* Mutant of SettleResult: the worktree is reclaimed on the retry path too.
SettleReclaims(h) ==
  /\ handler[h].pc = "settle"
  /\ Reclaim(handler[h].task)
  /\ Answer(h, IdleWorker)
  /\ UNCHANGED <<row, sweeper, cancelling, abandoned, restarts>>

\* OnRequeued, or OnTerminal and reclaimWorktree; then the 200 answer.
SettleResult(h) ==
  /\ handler[h].pc = "settle"
  /\ IF Retries(h) THEN UNCHANGED <<createdWT, tree>> ELSE Reclaim(handler[h].task)
  /\ Answer(h, IdleWorker)
  /\ UNCHANGED <<row, sweeper, cancelling, abandoned, restarts>>

-----------------------------------------------------------------------------
(* Heartbeats, and the clock.                                              *)

\* Mutant of Heartbeat: the touch renews the claim as well.
HeartbeatClaims(w) ==
  /\ worker[w].pc \in {"running", "reporting"}
  /\ row' = [row EXCEPT ![worker[w].task] = [@ EXCEPT !.fresh = TRUE, !.owner = w]]
  /\ UNCHANGED <<tree, createdWT, handler, worker, sweeper, cancelling, abandoned, restarts>>

\* RunOnce's ticker, until RunOnce returns; TouchTask is by id alone.
Heartbeat(w) ==
  /\ worker[w].pc \in {"running", "reporting"}
  /\ row' = [row EXCEPT ![worker[w].task].fresh = TRUE]
  /\ UNCHANGED <<tree, createdWT, handler, worker, sweeper, cancelling, abandoned, restarts>>

\* The heartbeat timeout passes with no touch.  The sweep under way compares
\* with the cutoff it computed when it began, which a row touched since then
\* cannot fall behind again.
Expire(t) ==
  /\ row[t].status = "running"
  /\ row[t].fresh
  /\ t \notin sweeper.todo
  /\ row' = [row EXCEPT ![t].fresh = FALSE]
  /\ UNCHANGED <<tree, createdWT, handler, worker, sweeper, cancelling, abandoned, restarts>>

-----------------------------------------------------------------------------
(* RequeueStale, called by the sweeper's ticker.                           *)

Stale == {t \in Task : row[t].status = "running" /\ ~row[t].fresh}

\* ListStaleRunning.
BeginSweep ==
  /\ sweeper.pc = "idle"
  /\ Stale # {}
  /\ sweeper' = [sweeper EXCEPT !.pc = "scan", !.todo = Stale]
  /\ UNCHANGED <<row, tree, createdWT, handler, worker, cancelling, abandoned, restarts>>

\* The sweeper after the tasks in rest are all it still has to look at.
Proceed(rest) ==
  IF rest = {} THEN IdleSweeper ELSE [IdleSweeper EXCEPT !.pc = "scan", !.todo = rest]

\* store.RequeueStaleTask on the oldest of the snapshot: guarded by status
\* and by updated_at, it fails the task once attempts exceeds maxRetries.
RequeueStaleTask(t) ==
  LET exhausted == row[t].attempts + 1 > MaxRetries IN
  /\ sweeper.pc = "scan"
  /\ t \in sweeper.todo
  /\ \A u \in sweeper.todo : row[t].created <= row[u].created
  /\ IF t \in Stale
     THEN /\ row' = [row EXCEPT ![t] = Charged(@, IF exhausted THEN "failed" ELSE "pending")]
          /\ sweeper' = [sweeper EXCEPT !.pc = "read", !.todo = @ \ {t}, !.task = t]
     ELSE /\ sweeper' = Proceed(sweeper.todo \ {t})
          /\ UNCHANGED row
  /\ UNCHANGED <<tree, createdWT, handler, worker, cancelling, abandoned, restarts>>

\* GetTask, to see which of the two it became.
ReadSwept ==
  /\ sweeper.pc = "read"
  /\ sweeper' = [sweeper EXCEPT !.pc = "settle",
                                !.failed = row[sweeper.task].status = "failed"]
  /\ UNCHANGED <<row, tree, createdWT, handler, worker, cancelling, abandoned, restarts>>

\* reclaimWorktree and OnTerminal, or OnRequeued.
SettleSwept ==
  /\ sweeper.pc = "settle"
  /\ IF sweeper.failed THEN Reclaim(sweeper.task) ELSE UNCHANGED <<createdWT, tree>>
  /\ sweeper' = Proceed(sweeper.todo)
  /\ UNCHANGED <<row, handler, worker, cancelling, abandoned, restarts>>

-----------------------------------------------------------------------------
(* Cancel.                                                                 *)

\* store.CancelTask.
CancelTask(t) ==
  /\ row[t].status \in {"pending", "running"}
  /\ row' = [row EXCEPT ![t] = Ended(@, "cancelled")]
  /\ cancelling' = cancelling \cup {t}
  /\ UNCHANGED <<tree, createdWT, handler, worker, sweeper, abandoned, restarts>>

ReclaimCancelled(t) ==
  /\ t \in cancelling
  /\ Reclaim(t)
  /\ cancelling' = cancelling \ {t}
  /\ UNCHANGED <<row, handler, worker, sweeper, abandoned, restarts>>

-----------------------------------------------------------------------------
(* Failures.                                                               *)

\* The client's 30 s timeout fires, or the worker dies, before the answer: the
\* handler goes on without it, RunOnce reports an error and starts over.
Abandon(w) ==
  /\ worker[w].pc \in {"claiming", "reporting"}
  /\ abandoned < MaxAbandoned
  /\ abandoned' = abandoned + 1
  /\ worker' = [worker EXCEPT ![w] = IdleWorker]
  /\ UNCHANGED <<row, tree, createdWT, handler, sweeper, cancelling, restarts>>

\* The worker dies while it executes and comes back under the same name.
CrashWorker(w) ==
  /\ worker[w].pc = "running"
  /\ worker' = [worker EXCEPT ![w] = IdleWorker]
  /\ UNCHANGED <<row, tree, createdWT, handler, sweeper, cancelling, abandoned, restarts>>

\* The server process dies and comes back: the tables and the worktrees stay,
\* everything in memory is gone and waiting clients see a broken connection.
Restart ==
  /\ restarts < MaxRestarts
  /\ restarts' = restarts + 1
  /\ createdWT' = [t \in Task |-> None]
  /\ handler' = [h \in Handler |-> FreeHandler]
  /\ worker' = [w \in Worker |->
                  IF worker[w].handler # None THEN IdleWorker ELSE worker[w]]
  /\ sweeper' = IdleSweeper
  /\ cancelling' = {}
  /\ UNCHANGED <<row, tree, abandoned>>

-----------------------------------------------------------------------------
ClaimStep(h) ==
  \/ ClaimTask(h) \/ AssignWorktree(h) \/ SetTaskWorktree(h)
  \/ RegisterWorktree(h) \/ ReplyClaim(h)

ResultStep(h) == CommitResult(h) \/ SettleResult(h)

SweepStep == (\E t \in Task : RequeueStaleTask(t)) \/ ReadSwept \/ SettleSwept

Next ==
  \/ \E t \in Task : Submit(t) \/ Expire(t) \/ CancelTask(t) \/ ReclaimCancelled(t)
  \/ \E w \in Worker, h \in Handler :
       RequestClaim(w, h) \/ \E o \in Outcome : RequestResult(w, h, o)
  \/ \E h \in Handler : ClaimStep(h) \/ ResultStep(h)
  \/ \E w \in Worker : Heartbeat(w) \/ Abandon(w) \/ CrashWorker(w)
  \/ BeginSweep
  \/ SweepStep
  \/ Restart

Spec == Init /\ [][Next]_vars

\* What the code's scheduling gives: a served request and a sweep go on, the
\* ticker starts sweeps, an idle worker polls, an execution ends, time passes.
\* Nobody is obliged to submit, to cancel, to fail or to send a heartbeat.
Fairness ==
  /\ \A h \in Handler : WF_vars(ClaimStep(h)) /\ WF_vars(ResultStep(h))
  /\ \A w \in Worker :
       /\ WF_vars(\E h \in Handler : RequestClaim(w, h))
       /\ WF_vars(\E h \in Handler, o \in Outcome : RequestResult(w, h, o))
  /\ \A t \in Task : WF_vars(Expire(t)) /\ WF_vars(ReclaimCancelled(t))
  /\ WF_vars(BeginSweep)
  /\ WF_vars(SweepStep)

FairSpec == Spec /\ Fairness

-----------------------------------------------------------------------------
(* Properties.                                                             *)

RowType ==
  [status: {"absent", "pending", "running"} \cup Final, owner: Worker \cup {None},
   attempts: Nat, created: Nat, fresh: BOOLEAN, wt: Worktree \cup {None}]

\* A request under way names its caller, its task and what it is about to store.
HandlerType ==
  {r \in [pc: {"free", "claim", "assign", "stamp", "register", "reply", "commit", "settle"},
           by: Worker \cup {None}, task: Task \cup {None}, att: Nat,
           outcome: Outcome \cup {None}, wt: Worktree \cup {None}] :
     /\ r.pc # "free" => r.task \in Task /\ r.by \in Worker
     /\ r.pc \in {"commit", "settle"} => r.outcome \in Outcome
     /\ r.pc \in {"stamp", "register"} => r.wt \in Worktree}

\* A worker has a task while it runs or reports it, a request while it waits.
WorkerType ==
  {r \in [pc: {"idle", "claiming", "running", "reporting"}, handler: Handler \cup {None},
           task: Task \cup {None}, att: Nat] :
     /\ r.pc \in {"running", "reporting"} <=> r.task \in Task
     /\ r.pc \in {"claiming", "reporting"} <=> r.handler \in Handler}

SweeperType ==
  {r \in [pc: {"idle", "scan", "read", "settle"}, todo: SUBSET Task,
           task: Task \cup {None}, failed: BOOLEAN] :
     r.pc \in {"read", "settle"} => r.task \in Task}

\* Every variable keeps its type, and a request, a run and a sweep under way
\* name the task, the caller and the worktree they are about.
TypeOK ==
  /\ row \in [Task -> RowType]
  /\ tree \in [Worktree -> [task: Task \cup {None}, live: BOOLEAN]]
  /\ createdWT \in [Task -> Worktree \cup {None}]
  /\ handler \in [Handler -> HandlerType]
  /\ worker \in [Worker -> WorkerType]
  /\ sweeper \in SweeperType
  /\ cancelling \subseteq Task
  /\ abandoned \in Nat
  /\ restarts \in Nat

\* The worker is executing t, or is still reporting what came of it.
Busy(w, t) == worker[w].task = t /\ worker[w].pc \in {"running", "reporting"}

\* Two workers may run the same task at once (one was only slow, not dead),
\* but never as the same attempt: between two claims of a task somebody has
\* charged an attempt.  Claim, RecordResult and RequeueStale keep this
\* together, across stale heartbeats, lost answers and restarts.
AttemptRunsOnce ==
  \A t \in Task : \A v, w \in Worker :
    v # w /\ Busy(v, t) /\ Busy(w, t) => worker[v].att # worker[w].att

\* A worker whose claim has been swept and given out again cannot have its
\* old result taken for the new run's: RecordResult compares names only, and
\* as long as no client gave up on a request the server still serves, owning
\* the row by name means having claimed the attempt it is at.
ResultOfOwnAttempt ==
  abandoned = 0 =>
    \A t \in Task, w \in Worker :
      Busy(w, t) /\ Holds(t, w) => worker[w].att = row[t].attempts

\* The retry budget: RecordResult decides on the attempts it read earlier and
\* RequeueStale on the ones it updates; together they never let a task run
\* again after maxRetries runs were charged, as long as no client gave up on a
\* request the server still serves.
RetryBudget ==
  abandoned = 0 =>
    \A t \in Task :
      /\ row[t].attempts <= MaxRetries + 1
      /\ row[t].status \in {"pending", "running"} => row[t].attempts <= MaxRetries

\* No worktree is taken away under a task that is queued or running: the four
\* callers of reclaimWorktree come only after a status that is final.  A task
\* keeps the worktree made for it across retries, and shares it with no other.
WorktreeKept ==
  \A t \in Task :
    row[t].status \in {"pending", "running"} /\ row[t].wt # None =>
      tree[row[t].wt] = [task |-> t, live |-> TRUE]

\* The refinement mapping: the owner a finished or cancelled row still names
\* holds nothing.
QueueStatus   == [t \in Task |-> row[t].status]
QueueHolder   == [t \in Task |-> IF row[t].status = "running" THEN row[t].owner ELSE None]
QueueAttempts == [t \in Task |-> row[t].attempts]

Queue == INSTANCE TaskQueue WITH
  status <- QueueStatus, holder <- QueueHolder, attempts <- QueueAttempts

\* The broker, its handlers, its sweeper and its failures implement the queue:
\* a final status is never left, one worker holds a task at a time and every
\* run that is given up is charged exactly once.
ImplementsQueue == Queue!Spec

\* Every task that is submitted comes to an end, whatever workers and servers
\* die on the way: the sweeper takes it from a worker that is gone, and the
\* retry budget takes it from the sweeper.
EventuallySettled ==
  \A t \in Task : row[t].status = "pending" ~> row[t].status \in Final
=============================================================================
