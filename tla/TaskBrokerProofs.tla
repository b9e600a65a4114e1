-------------------------- MODULE TaskBrokerProofs --------------------------
(***************************************************************************)
(* What holds of TaskBroker for every number of tasks, workers, requests   *)
(* and worktrees and for every retry budget.                               *)
(***************************************************************************)
EXTENDS TaskBroker, FiniteSetTheorems, TLAPS

-----------------------------------------------------------------------------
(* The inductive invariant, in parts.                                      *)

\* A handler that has claimed its task and has not answered yet.
Claiming(h) == handler[h].pc \in {"assign", "stamp", "register", "reply"}

\* A worker waits for a request of its own that the server still serves.
ClientsMatch ==
  \A w \in Worker :
    LET h == worker[w].handler IN
      /\ worker[w].pc = "claiming" =>
           /\ handler[h].by = w
           /\ handler[h].pc \in {"claim", "assign", "stamp", "register", "reply"}
      /\ worker[w].pc = "reporting" =>
           /\ handler[h].by = w
           /\ handler[h].pc \in {"commit", "settle"}
           /\ handler[h].task = worker[w].task

\* A claim is for the attempt the row is at or for an earlier one, and in the
\* first case the row has not gone back to pending since.
ClaimsBelow ==
  /\ \A h \in Handler : Claiming(h) =>
       LET r == row[handler[h].task] IN
         /\ handler[h].att <= r.attempts
         /\ r.status \in {"absent", "pending"} => handler[h].att < r.attempts
  /\ \A w \in Worker : worker[w].task # None =>
       LET r == row[worker[w].task] IN
         /\ worker[w].att <= r.attempts
         /\ r.status \in {"absent", "pending"} => worker[w].att < r.attempts

\* No two claims of a task are for the same attempt.
ClaimsDiffer ==
  /\ \A g, h \in Handler :
       g # h /\ Claiming(g) /\ Claiming(h) /\ handler[g].task = handler[h].task
         => handler[g].att # handler[h].att
  /\ \A h \in Handler, w \in Worker :
       Claiming(h) /\ worker[w].task # None /\ handler[h].task = worker[w].task
         => handler[h].att # worker[w].att
  /\ \A v, w \in Worker :
       v # w /\ worker[v].task # None /\ worker[v].task = worker[w].task
         => worker[v].att # worker[w].att

AttemptInv == ClientsMatch /\ ClaimsBelow /\ ClaimsDiffer

-----------------------------------------------------------------------------
(* Types.                                                                  *)

LEMMA SubmittedFinite == Cardinality(Submitted) \in Nat
  <1>1. Submitted \subseteq Task
    BY DEF Submitted
  <1>2. IsFiniteSet(Submitted)
    BY <1>1, TaskAssumption, FS_Subset
  <1>3. QED
    BY <1>2, FS_CardinalityType

\* The rows the requeueing statements write.
LEMMA ChargedType ==
  ASSUME NEW r \in RowType, NEW s \in {"pending"} \cup Final
  PROVE  Charged(r, s) \in RowType
  <1> DEFINE n == r.attempts + 1
  <1>1. n \in Nat
    BY DEF RowType
  <1>2. [r EXCEPT !.status = s, !.owner = None, !.attempts = n, !.fresh = TRUE] \in RowType
    <2> HIDE DEF n
    <2>1. QED
      BY <1>1 DEF RowType
  <1>3. QED
    BY <1>2 DEF Charged

\* The rows the finalizing statements write.
LEMMA EndedType ==
  ASSUME NEW r \in RowType, NEW s \in Final
  PROVE  Ended(r, s) \in RowType
  BY DEF RowType, Ended

\* The rows the other statements write.
LEMMA TouchedType ==
  ASSUME NEW r \in RowType, NEW f \in BOOLEAN
  PROVE  [r EXCEPT !.fresh = f] \in RowType
  BY DEF RowType

LEMMA StampedType ==
  ASSUME NEW r \in RowType, NEW x \in Worktree
  PROVE  [r EXCEPT !.wt = x] \in RowType
  BY DEF RowType

LEMMA TakenType ==
  ASSUME NEW r \in RowType, NEW w \in Worker
  PROVE  [r EXCEPT !.status = "running", !.owner = w, !.fresh = TRUE] \in RowType
  BY DEF RowType

\* The requests that have claimed a row, and go on.
LEMMA WonType ==
  ASSUME NEW r \in HandlerType, NEW n \in Nat, r.pc = "claim"
  PROVE  [r EXCEPT !.pc = "assign", !.att = n] \in HandlerType
  BY DEF HandlerType

LEMMA RepliesType ==
  ASSUME NEW r \in HandlerType, r.pc # "free"
  PROVE  [r EXCEPT !.pc = "reply"] \in HandlerType
  BY DEF HandlerType

LEMMA AssignedType ==
  ASSUME NEW r \in HandlerType, r.pc # "free", NEW x \in Worktree
  PROVE  [r EXCEPT !.pc = "stamp", !.wt = x] \in HandlerType
  BY DEF HandlerType

LEMMA FreeHandlerType == FreeHandler \in HandlerType
  BY DEF FreeHandler, HandlerType

LEMMA IdleWorkerType == IdleWorker \in WorkerType
  BY NoneAssumption DEF IdleWorker, WorkerType

\* Freeing a handler keeps the types of handlers and of workers.
LEMMA AnswerType ==
  ASSUME TypeOK, NEW h \in Handler, NEW client \in WorkerType, Answer(h, client)
  PROVE  handler' \in [Handler -> HandlerType] /\ worker' \in [Worker -> WorkerType]
  BY FreeHandlerType DEF TypeOK, Answer

LEMMA ReclaimType ==
  ASSUME TypeOK, NEW t \in Task, Reclaim(t)
  PROVE  /\ createdWT' \in [Task -> Worktree \cup {None}]
         /\ tree' \in [Worktree -> [task: Task \cup {None}, live: BOOLEAN]]
  BY DEF TypeOK, Reclaim

LEMMA TypeInit == Init => TypeOK
  <1> SUFFICES ASSUME Init PROVE TypeOK
    OBVIOUS
  <1>1. row \in [Task -> RowType]
    BY DEF Init, RowType
  <1>2. handler \in [Handler -> HandlerType] /\ worker \in [Worker -> WorkerType]
    BY FreeHandlerType, IdleWorkerType DEF Init
  <1>3. sweeper \in SweeperType
    BY DEF Init, IdleSweeper, SweeperType
  <1>4. QED
    BY <1>1, <1>2, <1>3 DEF Init, TypeOK

LEMMA TypeStep == TypeOK /\ [Next]_vars => TypeOK'
  <1> SUFFICES ASSUME TypeOK, [Next]_vars PROVE TypeOK'
    OBVIOUS
  <1>1. ASSUME NEW t \in Task, Submit(t) PROVE TypeOK'
    <2> DEFINE n == Cardinality(Submitted) + 1
    <2>1. n \in Nat
      BY SubmittedFinite
    <2>2. [row[t] EXCEPT !.status = "pending", !.created = n] \in RowType
      <3> HIDE DEF n
      <3>1. QED
        BY <2>1 DEF TypeOK, RowType
    <2>3. row' = [row EXCEPT ![t] = [@ EXCEPT !.status = "pending", !.created = n]]
      BY <1>1 DEF Submit
    <2> HIDE DEF n
    <2>4. QED
      BY <1>1, <2>2, <2>3 DEF Submit, TypeOK
  <1>2. ASSUME NEW t \in Task, Expire(t) PROVE TypeOK'
    <2>1. row' = [row EXCEPT ![t] = [row[t] EXCEPT !.fresh = FALSE]]
      BY <1>2 DEF Expire
    <2>2. row' \in [Task -> RowType]
      BY <2>1, TouchedType DEF TypeOK
    <2>3. QED
      BY <1>2, <2>2 DEF Expire, TypeOK
  <1>3. ASSUME NEW t \in Task, CancelTask(t) PROVE TypeOK'
    <2>1. Ended(row[t], "cancelled") \in RowType
      BY EndedType DEF TypeOK, Final
    <2>2. QED
      BY <1>3, <2>1 DEF CancelTask, TypeOK
  <1>4. ASSUME NEW t \in Task, ReclaimCancelled(t) PROVE TypeOK'
    BY <1>4, ReclaimType DEF ReclaimCancelled, TypeOK
  <1>5. ASSUME NEW w \in Worker, NEW h \in Handler, RequestClaim(w, h) PROVE TypeOK'
    <2>1. PICK t \in Task :
            handler' = [handler EXCEPT ![h] =
                          [FreeHandler EXCEPT !.pc = "claim", !.by = w, !.task = t]]
      BY <1>5 DEF RequestClaim
    <2>2. [FreeHandler EXCEPT !.pc = "claim", !.by = w, !.task = t] \in HandlerType
      BY DEF FreeHandler, HandlerType
    <2>3. [worker[w] EXCEPT !.pc = "claiming", !.handler = h] \in WorkerType
      <3>1. worker[w] \in WorkerType /\ worker[w].pc = "idle"
        BY <1>5 DEF RequestClaim, TypeOK
      <3>2. QED
        BY <3>1 DEF WorkerType
    <2>4. QED
      BY <1>5, <2>1, <2>2, <2>3 DEF RequestClaim, TypeOK
  <1>6. ASSUME NEW w \in Worker, NEW h \in Handler, NEW o \in Outcome, RequestResult(w, h, o)
        PROVE TypeOK'
    <2> DEFINE t == worker[w].task
               asked == [FreeHandler EXCEPT !.pc = "commit", !.by = w, !.task = t,
                                            !.att = row[t].attempts, !.outcome = o]
               waits == [worker[w] EXCEPT !.pc = "reporting", !.handler = h]
    <2>1. t \in Task /\ row[t].attempts \in Nat
      BY <1>6 DEF RequestResult, TypeOK, WorkerType, RowType
    <2>2. asked \in HandlerType
      BY <2>1 DEF FreeHandler, HandlerType
    <2>3. waits \in WorkerType
      BY <1>6, <2>1, NoneAssumption DEF TypeOK, WorkerType
    <2>4. CASE Holds(t, w)
      <3>1. handler' = [handler EXCEPT ![h] = asked] /\ worker' = [worker EXCEPT ![w] = waits]
        BY <1>6, <2>4 DEF RequestResult
      <3>2. QED
        BY <1>6, <2>2, <2>3, <3>1 DEF RequestResult, TypeOK
    <2>5. CASE ~Holds(t, w)
      BY <1>6, <2>5, IdleWorkerType DEF RequestResult, TypeOK
    <2>6. QED
      BY <2>4, <2>5
  <1>7. ASSUME NEW h \in Handler, ClaimTask(h) PROVE TypeOK'
    <2> DEFINE t == handler[h].task
               claimed == [row[t] EXCEPT !.status = "running", !.owner = handler[h].by,
                                         !.fresh = TRUE]
               won == [handler[h] EXCEPT !.pc = "assign", !.att = row[t].attempts]
    <2>1. t \in Task /\ handler[h].by \in Worker
      BY <1>7 DEF ClaimTask, TypeOK, HandlerType
    <2>2. claimed \in RowType
      BY <2>1, TakenType DEF TypeOK
    <2>3. won \in HandlerType
      <3>1. row[t].attempts \in Nat
        BY <2>1 DEF TypeOK, RowType
      <3>2. handler[h] \in HandlerType /\ handler[h].pc = "claim"
        BY <1>7 DEF ClaimTask, TypeOK
      <3>3. QED
        BY <3>1, <3>2, WonType
    <2>4. CASE row[t].status = "pending"
      <3>1. /\ row' = [row EXCEPT ![t] = claimed]
            /\ handler' = [handler EXCEPT ![h] = won]
            /\ UNCHANGED worker
        BY <1>7, <2>4 DEF ClaimTask
      <3>2. QED
        BY <1>7, <2>1, <2>2, <2>3, <3>1 DEF ClaimTask, TypeOK
    <2>5. CASE row[t].status # "pending"
      BY <1>7, <2>5, AnswerType, IdleWorkerType DEF ClaimTask, TypeOK
    <2>6. QED
      BY <2>4, <2>5
  <1>8. ASSUME NEW h \in Handler, AssignWorktree(h) PROVE TypeOK'
    <2>0. handler[h] \in HandlerType /\ handler[h].pc = "assign"
      BY <1>8 DEF AssignWorktree, TypeOK
    <2>1. handler[h].task \in Task /\ [handler[h] EXCEPT !.pc = "reply"] \in HandlerType
      BY <2>0, RepliesType DEF HandlerType
    <2>2. CASE handler' = [handler EXCEPT ![h].pc = "reply"] /\ UNCHANGED tree
      BY <1>8, <2>1, <2>2 DEF AssignWorktree, TypeOK
    <2>3. ASSUME NEW x \in Worktree,
                 tree' = [tree EXCEPT ![x] = [task |-> handler[h].task, live |-> TRUE]],
                 handler' = [handler EXCEPT ![h] = [@ EXCEPT !.pc = "stamp", !.wt = x]]
          PROVE TypeOK'
      <3>1. [handler[h] EXCEPT !.pc = "stamp", !.wt = x] \in HandlerType
        BY <2>0, AssignedType
      <3>2. QED
        BY <1>8, <2>1, <2>3, <3>1 DEF AssignWorktree, TypeOK
    <2>4. QED
      BY <1>8, <2>2, <2>3 DEF AssignWorktree
  <1>9. ASSUME NEW h \in Handler, SetTaskWorktree(h) PROVE TypeOK'
    <2> DEFINE t == handler[h].task
    <2>1. t \in Task /\ handler[h].wt \in Worktree
      BY <1>9 DEF SetTaskWorktree, TypeOK, HandlerType
    <2>2. \A x \in Worktree : [row[t] EXCEPT !.wt = x] \in RowType
      BY <2>1, StampedType DEF TypeOK
    <2>3. [handler[h] EXCEPT !.pc = "register"] \in HandlerType
      BY <1>9, <2>1 DEF SetTaskWorktree, TypeOK, HandlerType
    <2>4. QED
      BY <1>9, <2>1, <2>2, <2>3 DEF SetTaskWorktree, TypeOK
  <1>10. ASSUME NEW h \in Handler, RegisterWorktree(h) PROVE TypeOK'
    <2>1. /\ handler[h].task \in Task /\ handler[h].wt \in Worktree
          /\ [handler[h] EXCEPT !.pc = "reply"] \in HandlerType
      BY <1>10 DEF RegisterWorktree, TypeOK, HandlerType
    <2>2. QED
      BY <1>10, <2>1 DEF RegisterWorktree, TypeOK
  <1>11. ASSUME NEW h \in Handler, ReplyClaim(h) PROVE TypeOK'
    <2> DEFINE client == [IdleWorker EXCEPT !.pc = "running", !.task = handler[h].task,
                                            !.att = handler[h].att]
    <2>1. client \in WorkerType
      BY <1>11, NoneAssumption DEF ReplyClaim, TypeOK, HandlerType, IdleWorker, WorkerType
    <2>2. Answer(h, client)
      BY <1>11 DEF ReplyClaim
    <2>3. QED
      BY <1>11, <2>1, <2>2, AnswerType DEF ReplyClaim, TypeOK
  <1>12. ASSUME NEW h \in Handler, CommitResult(h) PROVE TypeOK'
    <2> DEFINE t == handler[h].task
    <2>1. t \in Task /\ handler[h].outcome \in Outcome
      BY <1>12 DEF CommitResult, TypeOK, HandlerType
    <2>2. Charged(row[t], "pending") \in RowType
      BY <2>1, ChargedType DEF TypeOK
    <2>3. Ended(row[t], handler[h].outcome) \in RowType
      BY <2>1, OutcomeAssumption, EndedType DEF TypeOK, Final
    <2>4. [handler[h] EXCEPT !.pc = "settle"] \in HandlerType
      BY <1>12, <2>1 DEF CommitResult, TypeOK, HandlerType
    <2>5. CASE Holds(t, handler[h].by)
      <3>1. /\ RequeueTask(t) \/ FinalizeTask(t, handler[h].outcome)
            /\ handler' = [handler EXCEPT ![h].pc = "settle"]
            /\ UNCHANGED worker
        BY <1>12, <2>5 DEF CommitResult
      <3>2. QED
        BY <1>12, <2>1, <2>2, <2>3, <2>4, <3>1
        DEF CommitResult, RequeueTask, FinalizeTask, TypeOK
    <2>6. CASE ~Holds(t, handler[h].by)
      BY <1>12, <2>6, AnswerType, IdleWorkerType DEF CommitResult, TypeOK
    <2>7. QED
      BY <2>5, <2>6
  <1>13. ASSUME NEW h \in Handler, SettleResult(h) PROVE TypeOK'
    <2>1. handler[h].task \in Task
      BY <1>13 DEF SettleResult, TypeOK, HandlerType
    <2>2. /\ createdWT' \in [Task -> Worktree \cup {None}]
          /\ tree' \in [Worktree -> [task: Task \cup {None}, live: BOOLEAN]]
      BY <1>13, <2>1, ReclaimType DEF SettleResult, TypeOK
    <2>3. QED
      BY <1>13, <2>2, AnswerType, IdleWorkerType DEF SettleResult, TypeOK
  <1>14. ASSUME NEW w \in Worker, Heartbeat(w) PROVE TypeOK'
    <2> DEFINE t == worker[w].task
    <2>1. t \in Task
      BY <1>14 DEF Heartbeat, TypeOK, WorkerType
    <2>2. row' = [row EXCEPT ![t] = [row[t] EXCEPT !.fresh = TRUE]]
      BY <1>14 DEF Heartbeat
    <2>3. row' \in [Task -> RowType]
      BY <2>1, <2>2, TouchedType DEF TypeOK
    <2>4. QED
      BY <1>14, <2>3 DEF Heartbeat, TypeOK
  <1>15. ASSUME NEW w \in Worker, Abandon(w) PROVE TypeOK'
    BY <1>15, IdleWorkerType DEF Abandon, TypeOK
  <1>16. ASSUME NEW w \in Worker, CrashWorker(w) PROVE TypeOK'
    BY <1>16, IdleWorkerType DEF CrashWorker, TypeOK
  <1>17. CASE BeginSweep
    BY <1>17 DEF BeginSweep, Stale, TypeOK, SweeperType
  <1>18. ASSUME NEW t \in Task, RequeueStaleTask(t) PROVE TypeOK'
    <2>1. /\ Proceed(sweeper.todo \ {t}) \in SweeperType
          /\ [sweeper EXCEPT !.pc = "read", !.todo = @ \ {t}, !.task = t] \in SweeperType
      BY DEF TypeOK, Proceed, IdleSweeper, SweeperType
    <2>2. \A s \in {"failed", "pending"} : Charged(row[t], s) \in RowType
      BY ChargedType DEF TypeOK, Final
    <2>3. CASE t \in Stale
      BY <1>18, <2>1, <2>2, <2>3 DEF RequeueStaleTask, TypeOK
    <2>4. CASE t \notin Stale
      BY <1>18, <2>1, <2>4 DEF RequeueStaleTask, TypeOK
    <2>5. QED
      BY <2>3, <2>4
  <1>19. CASE ReadSwept
    <2>1. [sweeper EXCEPT !.pc = "settle",
                          !.failed = row[sweeper.task].status = "failed"] \in SweeperType
      BY <1>19 DEF ReadSwept, TypeOK, SweeperType
    <2>2. QED
      BY <1>19, <2>1 DEF ReadSwept, TypeOK
  <1>20. CASE SettleSwept
    <2>1. sweeper.task \in Task /\ Proceed(sweeper.todo) \in SweeperType
      BY <1>20 DEF SettleSwept, TypeOK, Proceed, IdleSweeper, SweeperType
    <2>2. /\ createdWT' \in [Task -> Worktree \cup {None}]
          /\ tree' \in [Worktree -> [task: Task \cup {None}, live: BOOLEAN]]
      BY <1>20, <2>1, ReclaimType DEF SettleSwept, TypeOK
    <2>3. QED
      BY <1>20, <2>1, <2>2 DEF SettleSwept, TypeOK
  <1>21. CASE Restart
    <2>1. IdleSweeper \in SweeperType
      BY DEF IdleSweeper, SweeperType
    <2>2. QED
      BY <1>21, <2>1, FreeHandlerType, IdleWorkerType DEF Restart, TypeOK
  <1>22. CASE UNCHANGED vars
    BY <1>22 DEF vars, TypeOK
  <1>23. QED
    BY <1>1, <1>2, <1>3, <1>4, <1>5, <1>6, <1>7, <1>8, <1>9, <1>10, <1>11, <1>12, <1>13,
       <1>14, <1>15, <1>16, <1>17, <1>18, <1>19, <1>20, <1>21, <1>22
    DEF Next, ClaimStep, ResultStep, SweepStep

\* Every reachable state of the broker is well typed: rows, requests, workers,
\* sweeper and worktrees stay within their types, and what is under way names
\* the task it is about.
THEOREM TypeCorrect == Spec => []TypeOK
  BY TypeInit, TypeStep, PTL DEF Spec

-----------------------------------------------------------------------------
(* What the assignments to several fields leave alone.                     *)

LEMMA WorkerUpdate ==
  ASSUME NEW r \in WorkerType, NEW p, NEW h
  PROVE  LET n == [r EXCEPT !.pc = p, !.handler = h] IN
           n.pc = p /\ n.handler = h /\ n.task = r.task /\ n.att = r.att
  BY DEF WorkerType

LEMMA HandlerMoves ==
  ASSUME NEW r \in HandlerType, NEW p
  PROVE  LET n == [r EXCEPT !.pc = p] IN
           /\ n.pc = p /\ n.by = r.by /\ n.task = r.task /\ n.att = r.att
           /\ n.outcome = r.outcome /\ n.wt = r.wt
  BY DEF HandlerType

LEMMA HandlerClaims ==
  ASSUME NEW r \in HandlerType, NEW p, NEW a
  PROVE  LET n == [r EXCEPT !.pc = p, !.att = a] IN
           /\ n.pc = p /\ n.by = r.by /\ n.task = r.task /\ n.att = a
           /\ n.outcome = r.outcome /\ n.wt = r.wt
  BY DEF HandlerType

LEMMA HandlerStamps ==
  ASSUME NEW r \in HandlerType, NEW p, NEW x
  PROVE  LET n == [r EXCEPT !.pc = p, !.wt = x] IN
           /\ n.pc = p /\ n.by = r.by /\ n.task = r.task /\ n.att = r.att
           /\ n.outcome = r.outcome /\ n.wt = x
  BY DEF HandlerType

LEMMA ClaimedRow ==
  ASSUME NEW r \in RowType, NEW w
  PROVE  LET n == [r EXCEPT !.status = "running", !.owner = w, !.fresh = TRUE] IN
           /\ n.status = "running" /\ n.owner = w /\ n.attempts = r.attempts
           /\ n.created = r.created /\ n.wt = r.wt
  BY DEF RowType

\* A waiting client waits for a handler, a busy one has a task.
LEMMA ClientTypes ==
  ASSUME TypeOK, NEW w \in Worker
  PROVE  /\ worker[w].pc \in {"claiming", "reporting"} <=> worker[w].handler \in Handler
         /\ worker[w].handler # None <=> worker[w].handler \in Handler
         /\ worker[w].pc \in {"running", "reporting"} <=> worker[w].task \in Task
         /\ worker[w].task # None <=> worker[w].task \in Task
         /\ worker[w].pc \in {"idle", "claiming", "running", "reporting"}
         /\ worker[w].att \in Nat
  BY NoneAssumption DEF TypeOK, WorkerType

-----------------------------------------------------------------------------
(* Two workers never run the same attempt.                                 *)

\* No task goes back to pending, or loses attempts, without being charged.
RowsAdvance ==
  \A t \in Task :
    /\ row[t].attempts <= row'[t].attempts
    /\ row'[t].status \in {"absent", "pending"} =>
         row[t].status \in {"absent", "pending"} \/ row[t].attempts < row'[t].attempts

\* Every claim of the new state is one of the old.
NoNewClaims ==
  /\ \A h \in Handler : Claiming(h)' =>
       Claiming(h) /\ handler'[h].task = handler[h].task /\ handler'[h].att = handler[h].att
  /\ \A w \in Worker : worker'[w].task # None =>
       worker'[w].task = worker[w].task /\ worker'[w].att = worker[w].att

LEMMA ClaimsKept ==
  ASSUME TypeOK, TypeOK', ClaimsBelow, ClaimsDiffer, RowsAdvance, NoNewClaims
  PROVE  ClaimsBelow' /\ ClaimsDiffer'
  <1>1. ASSUME NEW t \in Task, NEW a \in Nat,
               a <= row[t].attempts,
               row[t].status \in {"absent", "pending"} => a < row[t].attempts
        PROVE  /\ a <= row'[t].attempts
               /\ row'[t].status \in {"absent", "pending"} => a < row'[t].attempts
    <2>1. row[t].attempts \in Nat /\ row'[t].attempts \in Nat
      BY DEF TypeOK, RowType
    <2>2. QED
      BY <1>1, <2>1 DEF RowsAdvance
  <1>2. ASSUME NEW h \in Handler, Claiming(h)
        PROVE  handler[h].task \in Task /\ handler[h].att \in Nat
    BY <1>2 DEF Claiming, TypeOK, HandlerType
  <1>3. ASSUME NEW w \in Worker, worker[w].task # None
        PROVE  worker[w].task \in Task /\ worker[w].att \in Nat
    BY <1>3 DEF TypeOK, WorkerType
  <1>4. ClaimsBelow'
    BY <1>1, <1>2, <1>3 DEF ClaimsBelow, NoNewClaims, Claiming
  <1>5. ClaimsDiffer'
    BY DEF ClaimsDiffer, NoNewClaims, Claiming
  <1>6. QED
    BY <1>4, <1>5

\* A row that is charged, ended or left alone has advanced.
LEMMA AdvanceCharged ==
  ASSUME TypeOK, NEW t \in Task, NEW s, row' = [row EXCEPT ![t] = Charged(@, s)]
  PROVE  RowsAdvance
  BY DEF RowsAdvance, Charged, TypeOK, RowType

LEMMA AdvanceEnded ==
  ASSUME TypeOK, NEW t \in Task, NEW s \in Final, row' = [row EXCEPT ![t] = Ended(@, s)]
  PROVE  RowsAdvance
  BY DEF RowsAdvance, Ended, Final, TypeOK, RowType

LEMMA AdvanceSame ==
  ASSUME TypeOK, \A t \in Task : /\ row'[t].attempts = row[t].attempts
                                  /\ row'[t].status = row[t].status
  PROVE  RowsAdvance
  BY DEF RowsAdvance, TypeOK, RowType

\* A request that is answered frees its handler, and its client if it is there.
LEMMA AnswerIdle ==
  ASSUME TypeOK, NEW h \in Handler, Answer(h, IdleWorker), ClientsMatch
  PROVE  NoNewClaims /\ ClientsMatch'
  <1>1. \A g \in Handler : handler'[g] = IF g = h THEN FreeHandler ELSE handler[g]
    BY DEF Answer, TypeOK
  <1>2. \A w \in Worker : worker'[w] = IF worker[w].handler = h THEN IdleWorker ELSE worker[w]
    BY DEF Answer
  <1>3. NoNewClaims
    BY <1>1, <1>2 DEF NoNewClaims, Claiming, FreeHandler, IdleWorker
  <1>4. ClientsMatch'
    BY <1>1, <1>2, ClientTypes DEF ClientsMatch, IdleWorker
  <1>5. QED
    BY <1>3, <1>4

LEMMA AttemptInit == Init => AttemptInv
  BY DEF Init, AttemptInv, ClientsMatch, ClaimsBelow, ClaimsDiffer, Claiming,
     FreeHandler, IdleWorker

LEMMA AttemptStep == TypeOK /\ TypeOK' /\ AttemptInv /\ [Next]_vars => AttemptInv'
  <1> SUFFICES ASSUME TypeOK, TypeOK', AttemptInv, [Next]_vars PROVE AttemptInv'
    OBVIOUS
  <1> USE DEF AttemptInv
  <1>0. ASSUME RowsAdvance, UNCHANGED <<handler, worker>> PROVE AttemptInv'
    <2>1. NoNewClaims /\ ClientsMatch'
      BY <1>0 DEF NoNewClaims, Claiming, ClientsMatch
    <2>2. QED
      BY <1>0, <2>1, ClaimsKept
  <1>1. ASSUME NEW t \in Task, Submit(t) PROVE AttemptInv'
    <2>1. RowsAdvance
      BY <1>1 DEF Submit, RowsAdvance, TypeOK, RowType
    <2>2. QED
      BY <1>0, <1>1, <2>1 DEF Submit
  <1>2. ASSUME NEW t \in Task, Expire(t) PROVE AttemptInv'
    <2>1. RowsAdvance
      BY <1>2, AdvanceSame DEF Expire, TypeOK, RowType
    <2>2. QED
      BY <1>0, <1>2, <2>1 DEF Expire
  <1>3. ASSUME NEW t \in Task, CancelTask(t) PROVE AttemptInv'
    <2>1. "cancelled" \in Final
      BY DEF Final
    <2>2. QED
      BY <1>0, <1>3, <2>1, AdvanceEnded DEF CancelTask
  <1>4. ASSUME NEW t \in Task, ReclaimCancelled(t) PROVE AttemptInv'
    BY <1>0, <1>4, AdvanceSame DEF ReclaimCancelled
  <1>5. ASSUME NEW w \in Worker, NEW h \in Handler, RequestClaim(w, h) PROVE AttemptInv'
    <2>1. PICK t \in Task :
            handler' = [handler EXCEPT ![h] =
                          [FreeHandler EXCEPT !.pc = "claim", !.by = w, !.task = t]]
      BY <1>5 DEF RequestClaim
    <2>2. /\ handler'[h].pc = "claim" /\ handler'[h].by = w
          /\ \A g \in Handler : g # h => handler'[g] = handler[g]
      BY <2>1 DEF FreeHandler, TypeOK
    <2>3. /\ worker'[w].pc = "claiming" /\ worker'[w].handler = h
          /\ worker'[w].task = worker[w].task /\ worker'[w].att = worker[w].att
          /\ \A v \in Worker : v # w => worker'[v] = worker[v]
      BY <1>5, WorkerUpdate DEF RequestClaim, TypeOK
    <2>4. NoNewClaims
      BY <2>2, <2>3 DEF NoNewClaims, Claiming
    <2>5. ClientsMatch'
      BY <1>5, <2>2, <2>3, ClientTypes DEF RequestClaim, ClientsMatch
    <2>6. QED
      BY <1>5, <2>4, <2>5, ClaimsKept, AdvanceSame DEF RequestClaim
  <1>6. ASSUME NEW w \in Worker, NEW h \in Handler, NEW o \in Outcome, RequestResult(w, h, o)
        PROVE AttemptInv'
    <2> DEFINE t == worker[w].task
    <2>1. RowsAdvance
      BY <1>6, AdvanceSame DEF RequestResult
    <2>2. CASE Holds(t, w)
      <3>1. /\ handler'[h].pc = "commit" /\ handler'[h].by = w /\ handler'[h].task = t
            /\ \A g \in Handler : g # h => handler'[g] = handler[g]
        <4> DEFINE asked == [FreeHandler EXCEPT !.pc = "commit", !.by = w, !.task = t,
                                                !.att = row[t].attempts, !.outcome = o]
        <4>1. handler' = [handler EXCEPT ![h] = asked]
          BY <1>6, <2>2 DEF RequestResult
        <4>2. asked.pc = "commit" /\ asked.by = w /\ asked.task = t
          BY DEF FreeHandler
        <4> HIDE DEF asked
        <4>3. QED
          BY <4>1, <4>2 DEF TypeOK
      <3>2. /\ worker'[w].pc = "reporting" /\ worker'[w].handler = h
            /\ worker'[w].task = worker[w].task /\ worker'[w].att = worker[w].att
            /\ \A v \in Worker : v # w => worker'[v] = worker[v]
        <4>1. worker' = [worker EXCEPT ![w] = [@ EXCEPT !.pc = "reporting", !.handler = h]]
          BY <1>6, <2>2 DEF RequestResult
        <4>2. worker[w] \in WorkerType
          BY DEF TypeOK
        <4>3. QED
          BY <4>1, <4>2, WorkerUpdate DEF TypeOK
      <3>3. NoNewClaims
        BY <3>1, <3>2 DEF NoNewClaims, Claiming
      <3>4. ClientsMatch'
        BY <1>6, <3>1, <3>2, ClientTypes DEF RequestResult, ClientsMatch
      <3>5. QED
        BY <2>1, <3>3, <3>4, ClaimsKept
    <2>3. CASE ~Holds(t, w)
      <3>1. NoNewClaims /\ ClientsMatch'
        BY <1>6, <2>3 DEF RequestResult, NoNewClaims, ClientsMatch, Claiming, IdleWorker, TypeOK
      <3>2. QED
        BY <2>1, <3>1, ClaimsKept
    <2>4. QED
      BY <2>2, <2>3
  <1>7. ASSUME NEW h \in Handler, ClaimTask(h) PROVE AttemptInv'
    <2> DEFINE t == handler[h].task
    <2>1. CASE row[t].status = "pending"
      <3>1. t \in Task /\ row[t].attempts \in Nat /\ ~Claiming(h)
        BY <1>7 DEF ClaimTask, TypeOK, HandlerType, RowType, Claiming
      <3>2. /\ handler'[h].pc = "assign" /\ handler'[h].att = row[t].attempts
            /\ handler'[h].task = t /\ handler'[h].by = handler[h].by
            /\ \A g \in Handler : g # h => handler'[g] = handler[g]
        <4>1. handler' = [handler EXCEPT ![h] = [@ EXCEPT !.pc = "assign",
                                                         !.att = row[t].attempts]]
          BY <1>7, <2>1 DEF ClaimTask
        <4>2. handler[h] \in HandlerType
          BY DEF TypeOK
        <4>3. QED
          BY <4>1, <4>2, HandlerClaims DEF TypeOK
      <3>3. /\ row'[t].status = "running" /\ row'[t].attempts = row[t].attempts
            /\ \A u \in Task : u # t => row'[u] = row[u]
            /\ worker' = worker
        <4>1. /\ row' = [row EXCEPT ![t] = [@ EXCEPT !.status = "running",
                                                     !.owner = handler[h].by,
                                                     !.fresh = TRUE]]
              /\ worker' = worker
          BY <1>7, <2>1 DEF ClaimTask
        <4>2. row[t] \in RowType
          BY <3>1 DEF TypeOK
        <4>3. QED
          BY <3>1, <4>1, <4>2, ClaimedRow DEF TypeOK
      <3>4. ClientsMatch'
        BY <1>7, <3>2, <3>3, ClientTypes DEF ClaimTask, ClientsMatch
      <3>5. ClaimsBelow'
        <4>1. ASSUME NEW g \in Handler, Claiming(g)'
              PROVE  LET r == row'[handler'[g].task] IN
                       /\ handler'[g].att <= r.attempts
                       /\ r.status \in {"absent", "pending"} => handler'[g].att < r.attempts
          <5>1. CASE g = h
            BY <3>1, <3>2, <3>3, <5>1
          <5>2. CASE g # h
            <6>1. Claiming(g) /\ handler'[g] = handler[g] /\ handler[g].task \in Task
              BY <3>2, <4>1, <5>2 DEF Claiming, TypeOK, HandlerType
            <6>2. QED
              BY <2>1, <3>3, <6>1 DEF ClaimsBelow
          <5>3. QED
            BY <5>1, <5>2
        <4>2. ASSUME NEW w \in Worker, worker'[w].task # None
              PROVE  LET r == row'[worker'[w].task] IN
                       /\ worker'[w].att <= r.attempts
                       /\ r.status \in {"absent", "pending"} => worker'[w].att < r.attempts
          BY <2>1, <3>1, <3>3, <4>2 DEF ClaimsBelow, TypeOK, WorkerType
        <4>3. QED
          BY <4>1, <4>2 DEF ClaimsBelow
      <3>6. ClaimsDiffer'
        <4>1. \A g \in Handler : Claiming(g) /\ handler[g].task = t =>
                handler[g].att # row[t].attempts
          BY <2>1, <3>1 DEF ClaimsBelow, Claiming, TypeOK, HandlerType
        <4>2. \A w \in Worker : worker[w].task = t => worker[w].att # row[t].attempts
          BY <2>1, <3>1, NoneAssumption DEF ClaimsBelow, TypeOK, WorkerType
        <4>3. QED
          BY <3>1, <3>2, <3>3, <4>1, <4>2 DEF ClaimsDiffer, Claiming
      <3>7. QED
        BY <3>4, <3>5, <3>6
    <2>2. CASE row[t].status # "pending"
      BY <1>7, <2>2, AnswerIdle, ClaimsKept, AdvanceSame DEF ClaimTask
    <2>3. QED
      BY <2>1, <2>2
  <1>8. ASSUME NEW h \in Handler, NEW f \in HandlerType,
               handler' = [handler EXCEPT ![h] = f], UNCHANGED worker, RowsAdvance,
               Claiming(h), f.pc \in {"stamp", "register", "reply"},
               f.by = handler[h].by, f.task = handler[h].task, f.att = handler[h].att
        PROVE  AttemptInv'
    <2>1. /\ handler'[h] = f /\ worker' = worker
          /\ \A g \in Handler : g # h => handler'[g] = handler[g]
      BY <1>8 DEF TypeOK
    <2>2. NoNewClaims
      BY <1>8, <2>1 DEF NoNewClaims, Claiming
    <2>3. ClientsMatch'
      BY <1>8, <2>1 DEF ClientsMatch, Claiming
    <2>4. QED
      BY <1>8, <2>2, <2>3, ClaimsKept
  <1>9. ASSUME NEW h \in Handler, AssignWorktree(h) PROVE AttemptInv'
    <2>1. RowsAdvance /\ UNCHANGED worker /\ Claiming(h) /\ handler[h] \in HandlerType
      BY <1>9, AdvanceSame DEF AssignWorktree, Claiming, TypeOK
    <2>2. PICK f : /\ handler' = [handler EXCEPT ![h] = f]
                   /\ \/ f = [handler[h] EXCEPT !.pc = "reply"]
                      \/ \E x \in Worktree : f = [handler[h] EXCEPT !.pc = "stamp", !.wt = x]
      BY <1>9 DEF AssignWorktree
    <2>3. f \in HandlerType
      BY <2>2 DEF TypeOK
    <2>4. /\ f.pc \in {"stamp", "register", "reply"}
          /\ f.by = handler[h].by /\ f.task = handler[h].task /\ f.att = handler[h].att
      <3>1. CASE f = [handler[h] EXCEPT !.pc = "reply"]
        BY <2>1, <3>1, HandlerMoves
      <3>2. ASSUME NEW x \in Worktree, f = [handler[h] EXCEPT !.pc = "stamp", !.wt = x]
            PROVE  /\ f.pc = "stamp" /\ f.by = handler[h].by
                   /\ f.task = handler[h].task /\ f.att = handler[h].att
        BY <2>1, <3>2, HandlerStamps
      <3>3. QED
        BY <2>2, <3>1, <3>2
    <2>5. QED
      BY <1>8, <2>1, <2>2, <2>3, <2>4
  <1>10. ASSUME NEW h \in Handler, SetTaskWorktree(h) PROVE AttemptInv'
    <2> DEFINE f == [handler[h] EXCEPT !.pc = "register"]
    <2>1. UNCHANGED worker /\ Claiming(h) /\ handler[h] \in HandlerType
      BY <1>10 DEF SetTaskWorktree, Claiming, TypeOK
    <2>2. RowsAdvance
      <3>1. \A r \in RowType, x \in Worktree \cup {None} :
              LET n == [r EXCEPT !.wt = x] IN n.attempts = r.attempts /\ n.status = r.status
        BY DEF RowType
      <3>2. handler[h].wt \in Worktree \cup {None}
        BY <2>1 DEF HandlerType
      <3>3. QED
        BY <1>10, <3>1, <3>2, AdvanceSame DEF SetTaskWorktree, TypeOK
    <2>3. handler' = [handler EXCEPT ![h] = f]
      BY <1>10 DEF SetTaskWorktree
    <2>4. f \in HandlerType
      BY <2>3 DEF TypeOK
    <2>5. QED
      BY <1>8, <2>1, <2>2, <2>3, <2>4, HandlerMoves
  <1>11. ASSUME NEW h \in Handler, RegisterWorktree(h) PROVE AttemptInv'
    <2> DEFINE f == [handler[h] EXCEPT !.pc = "reply"]
    <2>1. RowsAdvance /\ UNCHANGED worker /\ Claiming(h) /\ handler[h] \in HandlerType
      BY <1>11, AdvanceSame DEF RegisterWorktree, Claiming, TypeOK
    <2>2. handler' = [handler EXCEPT ![h] = f]
      BY <1>11 DEF RegisterWorktree
    <2>3. f \in HandlerType
      BY <2>2 DEF TypeOK
    <2>4. QED
      BY <1>8, <2>1, <2>2, <2>3, HandlerMoves
  <1>12. ASSUME NEW h \in Handler, ReplyClaim(h) PROVE AttemptInv'
    <2> DEFINE client == [IdleWorker EXCEPT !.pc = "running", !.task = handler[h].task,
                                            !.att = handler[h].att]
               w == handler[h].by
    <2>1. /\ RowsAdvance /\ row' = row /\ Answer(h, client)
          /\ Claiming(h) /\ handler[h].pc = "reply"
          /\ handler[h].task \in Task /\ handler[h].att \in Nat
      BY <1>12, AdvanceSame DEF ReplyClaim, Claiming, TypeOK, HandlerType
    <2>2. /\ client.pc = "running" /\ client.handler = None
          /\ client.task = handler[h].task /\ client.att = handler[h].att
      BY DEF IdleWorker
    <2> HIDE DEF client
    <2>3. /\ handler'[h].pc = "free"
          /\ \A g \in Handler : g # h => handler'[g] = handler[g]
      BY <2>1 DEF Answer, FreeHandler, TypeOK
    <2>4. /\ \A v \in Worker : worker'[v] = IF worker[v].handler = h THEN client ELSE worker[v]
          /\ \A v \in Worker : worker[v].handler = h => v = w
      BY <2>1, ClientTypes DEF Answer, ClientsMatch
    <2>5. ClientsMatch'
      BY <2>2, <2>3, <2>4, ClientTypes DEF ClientsMatch
    <2>6. ClaimsBelow'
      BY <2>1, <2>2, <2>3, <2>4 DEF ClaimsBelow, Claiming
    <2>7. ClaimsDiffer'
      BY <2>1, <2>2, <2>3, <2>4 DEF ClaimsDiffer, Claiming
    <2>8. QED
      BY <2>5, <2>6, <2>7
  <1>13. ASSUME NEW h \in Handler, CommitResult(h) PROVE AttemptInv'
    <2> DEFINE t == handler[h].task
    <2>1. CASE Holds(t, handler[h].by)
      <3>1. t \in Task /\ handler[h].outcome \in Final
        BY <1>13, OutcomeAssumption DEF CommitResult, TypeOK, HandlerType, Final
      <3>2. RequeueTask(t) \/ FinalizeTask(t, handler[h].outcome)
        BY <1>13, <2>1 DEF CommitResult
      <3>3. RowsAdvance
        BY <3>1, <3>2, AdvanceCharged, AdvanceEnded DEF RequeueTask, FinalizeTask
      <3>4. /\ handler'[h].pc = "settle" /\ handler'[h].by = handler[h].by
            /\ handler'[h].task = t
            /\ \A g \in Handler : g # h => handler'[g] = handler[g]
            /\ UNCHANGED worker /\ handler[h].pc = "commit"
        <4>1. /\ handler' = [handler EXCEPT ![h] = [@ EXCEPT !.pc = "settle"]]
              /\ UNCHANGED worker /\ handler[h].pc = "commit"
          BY <1>13, <2>1 DEF CommitResult
        <4>2. handler[h] \in HandlerType
          BY DEF TypeOK
        <4>3. QED
          BY <4>1, <4>2, HandlerMoves DEF TypeOK
      <3>5. NoNewClaims
        BY <3>4 DEF NoNewClaims, Claiming
      <3>6. ClientsMatch'
        BY <3>4, ClientTypes DEF ClientsMatch
      <3>7. QED
        BY <3>3, <3>5, <3>6, ClaimsKept
    <2>2. CASE ~Holds(t, handler[h].by)
      BY <1>13, <2>2, AnswerIdle, ClaimsKept, AdvanceSame DEF CommitResult
    <2>3. QED
      BY <2>1, <2>2
  <1>14. ASSUME NEW h \in Handler, SettleResult(h) PROVE AttemptInv'
    BY <1>14, AnswerIdle, ClaimsKept, AdvanceSame DEF SettleResult
  <1>15. ASSUME NEW w \in Worker, Heartbeat(w) PROVE AttemptInv'
    <2>1. RowsAdvance
      BY <1>15, AdvanceSame DEF Heartbeat, TypeOK, RowType
    <2>2. QED
      BY <1>0, <1>15, <2>1 DEF Heartbeat
  <1>16. ASSUME NEW w \in Worker, Abandon(w) \/ CrashWorker(w) PROVE AttemptInv'
    <2>1. /\ worker'[w] = IdleWorker /\ UNCHANGED <<row, handler>>
          /\ \A v \in Worker : v # w => worker'[v] = worker[v]
      BY <1>16 DEF Abandon, CrashWorker, TypeOK
    <2>2. NoNewClaims /\ ClientsMatch'
      BY <2>1 DEF NoNewClaims, ClientsMatch, Claiming, IdleWorker
    <2>3. QED
      BY <2>1, <2>2, ClaimsKept, AdvanceSame
  <1>17. CASE BeginSweep \/ ReadSwept \/ SettleSwept
    <2>1. UNCHANGED <<row, handler, worker>>
      BY <1>17 DEF BeginSweep, ReadSwept, SettleSwept
    <2>2. QED
      BY <1>0, <2>1, AdvanceSame
  <1>18. ASSUME NEW t \in Task, RequeueStaleTask(t) PROVE AttemptInv'
    <2>1. CASE t \in Stale
      BY <1>0, <1>18, <2>1, AdvanceCharged DEF RequeueStaleTask
    <2>2. CASE t \notin Stale
      BY <1>0, <1>18, <2>2, AdvanceSame DEF RequeueStaleTask
    <2>3. QED
      BY <2>1, <2>2
  <1>19. CASE Restart
    <2>1. /\ \A h \in Handler : handler'[h] = FreeHandler
          /\ \A w \in Worker :
               worker'[w] = IF worker[w].handler # None THEN IdleWorker ELSE worker[w]
          /\ UNCHANGED row
      BY <1>19 DEF Restart
    <2>2. NoNewClaims
      BY <2>1 DEF NoNewClaims, Claiming, FreeHandler, IdleWorker
    <2>3. ClientsMatch'
      BY <2>1, ClientTypes DEF ClientsMatch, IdleWorker
    <2>4. QED
      BY <2>1, <2>2, <2>3, ClaimsKept, AdvanceSame
  <1>20. CASE UNCHANGED vars
    BY <1>0, <1>20, AdvanceSame DEF vars
  <1>21. QED
    BY <1>1, <1>2, <1>3, <1>4, <1>5, <1>6, <1>7, <1>9, <1>10, <1>11, <1>12, <1>13, <1>14,
       <1>15, <1>16, <1>17, <1>18, <1>19, <1>20
    DEF Next, ClaimStep, ResultStep, SweepStep

LEMMA AttemptsDiffer == TypeOK /\ AttemptInv => AttemptRunsOnce
  BY NoneAssumption DEF AttemptInv, ClaimsDiffer, AttemptRunsOnce, Busy

\* Two workers never run the same attempt of a task at once, for any number of
\* workers, requests, abandoned requests and restarts.
THEOREM AttemptsAreExclusive == Spec => []AttemptRunsOnce
  BY TypeInit, TypeStep, AttemptInit, AttemptStep, AttemptsDiffer, PTL DEF Spec

Executors(t) == {w \in Worker : Busy(w, t)}

\* However often the sweeper gives a task away from workers that are only slow,
\* and however often they are asked again, no more of them execute it at one
\* time than attempts were made at it.
ExecutorsCounted ==
  \A t \in Task :
    /\ IsFiniteSet(Executors(t))
    /\ Cardinality(Executors(t)) <= row[t].attempts + 1

LEMMA ExecutorsAreFew == TypeOK /\ AttemptInv => ExecutorsCounted
  <1> SUFFICES ASSUME TypeOK, AttemptInv, NEW t \in Task
               PROVE  /\ IsFiniteSet(Executors(t))
                      /\ Cardinality(Executors(t)) <= row[t].attempts + 1
    BY DEF ExecutorsCounted
  <1> DEFINE E == Executors(t)
             n == row[t].attempts
             f == [w \in E |-> worker[w].att]
  <1>1. n \in Nat
    BY DEF TypeOK, RowType
  <1>2. E \subseteq Worker /\ \A w \in E : worker[w].task = t /\ Busy(w, t)
    BY DEF Executors, Busy
  <1>3. \A w \in E : worker[w].att \in 0..n
    <2> TAKE w \in E
    <2>1. worker[w].task = t /\ worker[w].att \in Nat /\ t # None
      BY <1>2, NoneAssumption DEF TypeOK, WorkerType
    <2>2. worker[w].att <= n
      BY <1>2, <2>1 DEF AttemptInv, ClaimsBelow
    <2>3. QED
      BY <1>1, <2>1, <2>2
  <1>4. \A v, w \in E : worker[v].att = worker[w].att => v = w
    BY <1>2, AttemptsDiffer DEF AttemptRunsOnce
  <1>5. f \in Injection(E, 0..n)
    BY <1>3, <1>4 DEF Injection, IsInjective
  <1>6. IsFiniteSet(0..n) /\ Cardinality(0..n) = n + 1
    <2> HIDE DEF n
    <2>1. /\ IsFiniteSet(0..n)
          /\ Cardinality(0..n) = IF 0 > n THEN 0 ELSE n - 0 + 1
      BY <1>1, FS_Interval, 0 \in Int, n \in Int
    <2>2. QED
      BY <1>1, <2>1
  <1>7. IsFiniteSet(E) /\ Cardinality(E) <= Cardinality(0..n)
    BY <1>5, <1>6, FS_Injection
  <1>8. QED
    BY <1>6, <1>7

\* No task is executed by more workers at once than attempts were made at it.
THEOREM ExecutorsAreBounded == Spec => []ExecutorsCounted
  BY TypeInit, TypeStep, AttemptInit, AttemptStep, ExecutorsAreFew, PTL DEF Spec

\* A client that waits for an answer waits for a request that the server is
\* serving, that it sent itself and that is about what it asked; no two clients
\* wait for the same one.  Whatever is abandoned, lost with the server or served
\* after its client is gone, no answer reaches a client it is not meant for.
NobodyWaitsInVain ==
  /\ \A w \in Worker : worker[w].handler # None =>
       LET r == handler[worker[w].handler] IN
         /\ r.by = w
         /\ \/ worker[w].pc = "claiming"
               /\ r.pc \in {"claim", "assign", "stamp", "register", "reply"}
            \/ worker[w].pc = "reporting"
               /\ r.pc \in {"commit", "settle"} /\ r.task = worker[w].task
  /\ \A v, w \in Worker :
       worker[v].handler # None /\ worker[v].handler = worker[w].handler => v = w

LEMMA ClientsAreServed == TypeOK /\ AttemptInv => NobodyWaitsInVain
  <1> SUFFICES ASSUME TypeOK, AttemptInv PROVE NobodyWaitsInVain
    OBVIOUS
  <1>1. \A w \in Worker : worker[w].handler # None => worker[w].pc \in {"claiming", "reporting"}
    BY NoneAssumption DEF TypeOK, WorkerType
  <1>2. QED
    BY <1>1 DEF NobodyWaitsInVain, AttemptInv, ClientsMatch

\* Every answer goes to the one client that waits for it.
THEOREM AnswersGoHome == Spec => []NobodyWaitsInVain
  BY TypeInit, TypeStep, AttemptInit, AttemptStep, ClientsAreServed, PTL DEF Spec

-----------------------------------------------------------------------------
(* The broker implements the queue of TaskQueue.                           *)

\* Writing one row changes the queue at that task alone.
LEMMA QueueRow ==
  ASSUME TypeOK, NEW t \in Task, NEW r \in RowType, row' = [row EXCEPT ![t] = r]
  PROVE  /\ QueueStatus' = [QueueStatus EXCEPT ![t] = r.status]
         /\ r.status = "running" => QueueHolder' = [QueueHolder EXCEPT ![t] = r.owner]
         /\ r.status # "running" => QueueHolder' = [QueueHolder EXCEPT ![t] = None]
         /\ r.attempts = row[t].attempts => QueueAttempts' = QueueAttempts
         /\ r.attempts = row[t].attempts + 1 =>
              QueueAttempts' = [QueueAttempts EXCEPT ![t] = @ + 1]
  <1>1. row \in [Task -> RowType]
    BY DEF TypeOK
  <1>2. QueueStatus' = [QueueStatus EXCEPT ![t] = r.status]
    BY <1>1 DEF QueueStatus
  <1>3. QueueHolder' = [QueueHolder EXCEPT ![t] =
                          IF r.status = "running" THEN r.owner ELSE None]
    BY <1>1 DEF QueueHolder
  <1>4. QueueAttempts' = [QueueAttempts EXCEPT ![t] = r.attempts]
    BY <1>1 DEF QueueAttempts
  <1>5. QueueAttempts[t] = row[t].attempts /\ QueueAttempts = [QueueAttempts EXCEPT ![t] = @]
    BY DEF QueueAttempts
  <1>6. QED
    BY <1>2, <1>3, <1>4, <1>5

LEMMA QueueAt ==
  ASSUME NEW t \in Task
  PROVE  /\ QueueStatus[t] = row[t].status
         /\ QueueHolder[t] = IF row[t].status = "running" THEN row[t].owner ELSE None
         /\ QueueAttempts[t] = row[t].attempts
  BY DEF QueueStatus, QueueHolder, QueueAttempts

\* A step that leaves status, owner and attempts of every row alone stutters.
LEMMA QueueStutter ==
  ASSUME \A t \in Task : /\ row'[t].status = row[t].status
                         /\ row'[t].owner = row[t].owner
                         /\ row'[t].attempts = row[t].attempts
  PROVE  UNCHANGED Queue!vars
  BY DEF QueueStatus, QueueHolder, QueueAttempts, Queue!vars

LEMMA QueueCharged ==
  ASSUME TypeOK, NEW t \in Task, NEW s \in {"pending"} \cup Final,
         row' = [row EXCEPT ![t] = Charged(row[t], s)]
  PROVE  /\ QueueStatus' = [QueueStatus EXCEPT ![t] = s]
         /\ QueueHolder' = [QueueHolder EXCEPT ![t] = None]
         /\ QueueAttempts' = [QueueAttempts EXCEPT ![t] = @ + 1]
  <1> DEFINE r == Charged(row[t], s)
  <1>1. r.status = s /\ r.attempts = row[t].attempts + 1
    BY DEF Charged, TypeOK, RowType
  <1>2. r \in RowType /\ row' = [row EXCEPT ![t] = r]
    BY ChargedType DEF TypeOK
  <1>3. s # "running"
    BY DEF Final
  <1> HIDE DEF r
  <1>4. QED
    BY <1>1, <1>2, <1>3, QueueRow

LEMMA QueueEnded ==
  ASSUME TypeOK, NEW t \in Task, NEW s \in Final,
         row' = [row EXCEPT ![t] = Ended(row[t], s)]
  PROVE  /\ QueueStatus' = [QueueStatus EXCEPT ![t] = s]
         /\ QueueHolder' = [QueueHolder EXCEPT ![t] = None]
         /\ QueueAttempts' = QueueAttempts
  <1> DEFINE r == Ended(row[t], s)
  <1>1. r.status = s /\ r.attempts = row[t].attempts
    BY DEF Ended, TypeOK, RowType
  <1>2. r \in RowType /\ row' = [row EXCEPT ![t] = r]
    BY EndedType DEF TypeOK
  <1>3. s # "running"
    BY DEF Final
  <1> HIDE DEF r
  <1>4. QED
    BY <1>1, <1>2, <1>3, QueueRow

LEMMA QueueInit == Init => Queue!Init
  BY DEF Init, Queue!Init, QueueStatus, QueueHolder, QueueAttempts

LEMMA QueueStep == TypeOK /\ TypeOK' /\ [Next]_vars => [Queue!Next]_(Queue!vars)
  <1> SUFFICES ASSUME TypeOK, TypeOK', [Next]_vars
               PROVE  Queue!Next \/ UNCHANGED Queue!vars
    OBVIOUS
  <1>0. /\ \A t \in Task : row[t] \in RowType
        /\ \A t \in Task : QueueAttempts[t] \in Nat
    BY QueueAt DEF TypeOK, RowType
  <1>1. ASSUME NEW t \in Task, Submit(t) PROVE Queue!Next
    <2> DEFINE r == [row[t] EXCEPT !.status = "pending", !.created = Cardinality(Submitted) + 1]
    <2>1. row[t].status = "absent" /\ row' = [row EXCEPT ![t] = r]
      BY <1>1 DEF Submit
    <2>2. r.status = "pending" /\ r.owner = row[t].owner /\ r.attempts = row[t].attempts
      BY <1>0 DEF RowType
    <2>3. r \in RowType
      BY <2>1 DEF TypeOK
    <2> HIDE DEF r
    <2>4. /\ QueueStatus' = [QueueStatus EXCEPT ![t] = "pending"]
          /\ QueueAttempts' = QueueAttempts
      BY <2>1, <2>2, <2>3, QueueRow
    <2>5. QueueHolder' = QueueHolder
      BY <2>1, <2>2 DEF QueueHolder, TypeOK
    <2>6. Queue!Submit(t)
      BY <2>1, <2>4, <2>5, QueueAt DEF Queue!Submit
    <2>7. QED
      BY <2>6 DEF Queue!Next
  <1>2. ASSUME NEW t \in Task, Expire(t) PROVE UNCHANGED Queue!vars
    BY <1>2, QueueStutter DEF Expire, TypeOK, RowType
  <1>3. ASSUME NEW t \in Task, CancelTask(t) PROVE Queue!Next
    <2>1. row' = [row EXCEPT ![t] = Ended(row[t], "cancelled")]
      BY <1>3 DEF CancelTask
    <2>2. /\ QueueStatus' = [QueueStatus EXCEPT ![t] = "cancelled"]
          /\ QueueHolder' = [QueueHolder EXCEPT ![t] = None]
          /\ QueueAttempts' = QueueAttempts
      BY <2>1, QueueEnded DEF Final
    <2>3. Queue!Cancel(t)
      BY <1>3, <2>2, QueueAt DEF CancelTask, Queue!Cancel
    <2>4. QED
      BY <2>3 DEF Queue!Next
  <1>4. ASSUME NEW h \in Handler, ClaimTask(h) PROVE Queue!Next \/ UNCHANGED Queue!vars
    <2> DEFINE t == handler[h].task
               w == handler[h].by
               r == [row[t] EXCEPT !.status = "running", !.owner = w, !.fresh = TRUE]
    <2>1. t \in Task /\ w \in Worker
      BY <1>4 DEF ClaimTask, TypeOK, HandlerType
    <2>2. CASE row[t].status = "pending"
      <3>1. row' = [row EXCEPT ![t] = r]
        BY <1>4, <2>2 DEF ClaimTask
      <3>2. r.status = "running" /\ r.owner = w /\ r.attempts = row[t].attempts
        BY <1>0, <2>1, ClaimedRow
      <3>3. r \in RowType
        BY <2>1, <3>1 DEF TypeOK
      <3> HIDE DEF r, t, w
      <3>4. /\ QueueStatus' = [QueueStatus EXCEPT ![t] = "running"]
            /\ QueueHolder' = [QueueHolder EXCEPT ![t] = w]
            /\ QueueAttempts' = QueueAttempts
        <4>1. /\ QueueStatus' = [QueueStatus EXCEPT ![t] = r.status]
              /\ QueueHolder' = [QueueHolder EXCEPT ![t] = r.owner]
              /\ QueueAttempts' = QueueAttempts
          BY <2>1, <3>1, <3>2, <3>3, QueueRow
        <4>2. QED
          BY <3>2, <4>1
      <3>5. Queue!Claim(t, w)
        BY <2>1, <2>2, <3>4, QueueAt DEF Queue!Claim
      <3>6. QED
        BY <2>1, <3>5 DEF Queue!Next
    <2>3. CASE row[t].status # "pending"
      BY <1>4, <2>3, QueueStutter DEF ClaimTask
    <2>4. QED
      BY <2>2, <2>3
  <1>5. ASSUME NEW h \in Handler, SetTaskWorktree(h) PROVE UNCHANGED Queue!vars
    <2>1. \A r \in RowType, x \in Worktree \cup {None} :
            LET n == [r EXCEPT !.wt = x] IN
              n.status = r.status /\ n.owner = r.owner /\ n.attempts = r.attempts
      BY DEF RowType
    <2>2. handler[h].wt \in Worktree \cup {None}
      BY DEF TypeOK, HandlerType
    <2>3. QED
      BY <1>5, <2>1, <2>2, QueueStutter DEF SetTaskWorktree, TypeOK
  <1>6. ASSUME NEW t \in Task, row[t].status = "running",
               row' = [row EXCEPT ![t] = Charged(row[t], "pending")]
        PROVE  Queue!Next
    <2>1. /\ QueueStatus' = [QueueStatus EXCEPT ![t] = "pending"]
          /\ QueueHolder' = [QueueHolder EXCEPT ![t] = None]
          /\ QueueAttempts' = [QueueAttempts EXCEPT ![t] = @ + 1]
      BY <1>6, QueueCharged
    <2>2. Queue!GiveBack(t)
      BY <1>6, <2>1, QueueAt DEF Queue!GiveBack
    <2>3. QED
      BY <2>2 DEF Queue!Next
  <1>7. ASSUME NEW h \in Handler, CommitResult(h) PROVE Queue!Next \/ UNCHANGED Queue!vars
    <2> DEFINE t == handler[h].task
               o == handler[h].outcome
    <2>1. t \in Task /\ o \in Final \ {"cancelled"}
      BY <1>7, OutcomeAssumption DEF CommitResult, TypeOK, HandlerType, Final
    <2>2. CASE Holds(t, handler[h].by) /\ Retries(h)
      <3>1. row' = [row EXCEPT ![t] = Charged(row[t], "pending")]
        BY <1>7, <2>2 DEF CommitResult, RequeueTask
      <3>2. QED
        BY <1>6, <2>1, <2>2, <3>1 DEF Holds
    <2>3. CASE Holds(t, handler[h].by) /\ ~Retries(h)
      <3>1. row' = [row EXCEPT ![t] = Ended(row[t], o)]
        BY <1>7, <2>3 DEF CommitResult, FinalizeTask
      <3>2. Queue!Finish(t, o)
        <4>1. row[t].status = "running" /\ o # "running"
          BY <2>1, <2>3 DEF Holds, Final
        <4>2. /\ QueueStatus' = [QueueStatus EXCEPT ![t] = o]
              /\ QueueHolder' = [QueueHolder EXCEPT ![t] = None]
              /\ QueueAttempts' = QueueAttempts
          BY <2>1, <3>1, <4>1, QueueEnded
        <4>3. QED
          BY <2>1, <4>1, <4>2, QueueAt DEF Queue!Finish
      <3>3. o \in Queue!Final \ {"cancelled"}
        BY <2>1 DEF Final, Queue!Final
      <3>4. QED
        BY <2>1, <3>2, <3>3 DEF Queue!Next
    <2>4. CASE ~Holds(t, handler[h].by)
      BY <1>7, <2>4, QueueStutter DEF CommitResult
    <2>5. QED
      BY <2>2, <2>3, <2>4
  <1>8. ASSUME NEW w \in Worker, Heartbeat(w) PROVE UNCHANGED Queue!vars
    BY <1>8, QueueStutter DEF Heartbeat, TypeOK, RowType
  <1>9. ASSUME NEW t \in Task, RequeueStaleTask(t) PROVE Queue!Next \/ UNCHANGED Queue!vars
    <2>1. CASE t \in Stale /\ row[t].attempts + 1 > MaxRetries
      <3>1. row[t].status = "running" /\ row' = [row EXCEPT ![t] = Charged(row[t], "failed")]
        BY <1>9, <2>1 DEF RequeueStaleTask, Stale
      <3>2. row[t].attempts >= MaxRetries
        BY <1>0, <2>1, MaxRetriesAssumption, QueueAt
      <3>3. /\ QueueStatus' = [QueueStatus EXCEPT ![t] = "failed"]
            /\ QueueHolder' = [QueueHolder EXCEPT ![t] = None]
            /\ QueueAttempts' = [QueueAttempts EXCEPT ![t] = @ + 1]
        BY <3>1, QueueCharged DEF Final
      <3>4. Queue!GiveUp(t)
        BY <3>1, <3>2, <3>3, QueueAt DEF Queue!GiveUp
      <3>5. QED
        BY <3>4 DEF Queue!Next
    <2>2. CASE t \in Stale /\ ~(row[t].attempts + 1 > MaxRetries)
      <3>1. row[t].status = "running" /\ row' = [row EXCEPT ![t] = Charged(row[t], "pending")]
        BY <1>9, <2>2 DEF RequeueStaleTask, Stale
      <3>2. QED
        BY <1>6, <3>1
    <2>3. CASE t \notin Stale
      BY <1>9, <2>3, QueueStutter DEF RequeueStaleTask
    <2>4. QED
      BY <2>1, <2>2, <2>3
  <1>10. CASE UNCHANGED row
    BY <1>10, QueueStutter
  <1>11. QED
    <2>1. CASE UNCHANGED vars
      BY <1>10, <2>1 DEF vars
    <2>2. CASE Next
      BY <1>1, <1>2, <1>3, <1>4, <1>5, <1>7, <1>8, <1>9, <1>10, <2>2
      DEF Next, ClaimStep, ResultStep, SweepStep, ReclaimCancelled, RequestClaim,
          RequestResult, AssignWorktree, RegisterWorktree, ReplyClaim, SettleResult,
          Abandon, CrashWorker, BeginSweep, ReadSwept, SettleSwept, Restart
    <2>3. QED
      BY <2>1, <2>2

\* Every behaviour of broker, handlers, sweeper, workers and failures is one of
\* the queue: a task has one holder at most, a final status is never left and a
\* run that is given up is charged exactly once.
THEOREM BrokerImplementsQueue == Spec => ImplementsQueue
  <1>1. Spec => []TypeOK
    BY TypeCorrect
  <1>2. QED
    BY <1>1, QueueInit, QueueStep, PTL DEF Spec, ImplementsQueue, Queue!Spec
=============================================================================
