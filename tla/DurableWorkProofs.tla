-------------------------- MODULE DurableWorkProofs --------------------------
(***************************************************************************)
(* Theorems about DurableWork, for every number of durable tasks, workers  *)
(* and requests and every retry budget.  What the durable layer needs to   *)
(* know of the broker it has from the queue the broker implements: which   *)
(* way a row can go.                                                       *)
(***************************************************************************)
EXTENDS DurableWork, TaskBrokerProofs

-----------------------------------------------------------------------------
(* The inductive invariant, in parts.                                      *)

\* What a call is about to report is what the row says: an end stays.
ReportsTrue ==
  /\ \A h \in Handler : handler[h].pc = "settle" /\ ~Retries(h) =>
       row[handler[h].task].status = handler[h].outcome
  /\ sweeper.pc = "settle" /\ sweeper.failed => row[sweeper.task].status = "failed"

\* A task that has not been submitted has not been charged.
AbsentUncharged == \A t \in Task : row[t].status = "absent" => row[t].attempts = 0

\* A Cancel that has been to the broker left the broker's row cancelled.
LinkedCancelled == \A t \in Task : canceller[t] = "linkedRow" => row[t].status = "cancelled"

Statuses == {"absent", "pending", "running", "completed", "failed", "cancelled"}
WorkType == [status: Statuses, linked: BOOLEAN]

WorkTyped ==
  /\ work \in [Task -> WorkType]
  /\ unmet \subseteq Gated
  /\ creator \in [Task -> {"none", "inserted", "submitted"}]
  /\ canceller \in [Task -> {"none", "broker", "row", "linkedRow"}]

BrokerInv == TypeOK /\ AttemptInv /\ ReportsTrue /\ AbsentUncharged

DurableInv == BrokerInv /\ WorkTyped /\ NeverAhead /\ LinkedCancelled

-----------------------------------------------------------------------------
(* The broker's side.                                                      *)

\* Which way a row goes: its end stays, it is not forgotten, and it comes back
\* to pending only by being charged.
RowGoesOn(t) ==
  /\ row[t].status \in Final => row'[t].status = row[t].status
  /\ row[t].status # "absent" => row'[t].status # "absent"
  /\ row[t].attempts <= row'[t].attempts
  /\ row'[t].status = "absent" => row'[t].attempts = row[t].attempts
  /\ row'[t].status = "pending" /\ row[t].status \notin {"absent", "pending"} =>
       row[t].attempts < row'[t].attempts

\* The queue allows nothing else.
LEMMA RowsGoOn ==
  ASSUME TypeOK, TypeOK', [Next]_vars
  PROVE  \A t \in Task : RowGoesOn(t)
<1>. SUFFICES ASSUME NEW t \in Task PROVE RowGoesOn(t)
  OBVIOUS
<1>1. [Queue!Next]_(Queue!vars)
  BY QueueStep
<1>2. /\ QueueStatus \in [Task -> {"absent", "pending", "running"} \cup Final]
      /\ QueueAttempts \in [Task -> Nat]
      /\ QueueStatus[t] = row[t].status /\ QueueAttempts[t] = row[t].attempts
  BY DEF QueueStatus, QueueAttempts, TypeOK, RowType
<1>3. QueueStatus'[t] = row'[t].status /\ QueueAttempts'[t] = row'[t].attempts
  BY DEF QueueStatus, QueueAttempts
<1>4. CASE UNCHANGED Queue!vars
  BY <1>2, <1>3, <1>4 DEF Queue!vars, RowGoesOn
<1>5. CASE Queue!Next
  <2>1. PICK u \in Task :
          \/ Queue!Submit(u) \/ (\E w \in Worker : Queue!Claim(u, w))
          \/ Queue!GiveBack(u) \/ Queue!GiveUp(u)
          \/ (\E s \in Queue!Final \ {"cancelled"} : Queue!Finish(u, s)) \/ Queue!Cancel(u)
    BY <1>5 DEF Queue!Next
  <2>2. CASE Queue!Submit(u) \/ (\E w \in Worker : Queue!Claim(u, w)) \/ Queue!Cancel(u)
    BY <1>2, <1>3, <2>2 DEF Queue!Submit, Queue!Claim, Queue!Cancel, RowGoesOn, Final
  <2>3. CASE Queue!GiveBack(u) \/ Queue!GiveUp(u)
    BY <1>2, <1>3, <2>3 DEF Queue!GiveBack, Queue!GiveUp, RowGoesOn, Final
  <2>4. CASE \E s \in Queue!Final \ {"cancelled"} : Queue!Finish(u, s)
    BY <1>2, <1>3, <2>4 DEF Queue!Finish, Queue!Final, RowGoesOn, Final
  <2>. QED BY <2>1, <2>2, <2>3, <2>4
<1>. QED BY <1>1, <1>4, <1>5

\* Every report that is due was due before.
ReportsKept ==
  /\ \A h \in Handler : handler'[h].pc = "settle" => handler'[h] = handler[h]
  /\ sweeper'.pc = "settle" => sweeper' = sweeper

LEMMA ReportsStay ==
  ASSUME TypeOK, ReportsTrue, ReportsKept, \A t \in Task : RowGoesOn(t)
  PROVE  ReportsTrue'
<1>1. ASSUME NEW h \in Handler, handler'[h].pc = "settle", ~Retries(h)'
      PROVE  row'[handler'[h].task].status = handler'[h].outcome
  <2>1. handler'[h] = handler[h] /\ handler[h].pc = "settle" /\ ~Retries(h)
    BY <1>1 DEF ReportsKept, Retries
  <2>2. handler[h].task \in Task /\ handler[h].outcome \in Final
    BY <2>1, OutcomeAssumption DEF TypeOK, HandlerType, Final
  <2>. QED BY <2>1, <2>2 DEF ReportsTrue, RowGoesOn
<1>2. ASSUME sweeper'.pc = "settle", sweeper'.failed
      PROVE  row'[sweeper'.task].status = "failed"
  <2>1. sweeper' = sweeper /\ sweeper.task \in Task
    BY <1>2 DEF ReportsKept, TypeOK, SweeperType
  <2>. QED BY <1>2, <2>1 DEF ReportsTrue, RowGoesOn, Final
<1>. QED BY <1>1, <1>2 DEF ReportsTrue

\* The verdict a commit has just written is the one it will report.
LEMMA CommitReports ==
  ASSUME TypeOK, ReportsTrue, NEW h \in Handler, CommitResult(h),
         \A t \in Task : RowGoesOn(t)
  PROVE  ReportsTrue'
<1> DEFINE t == handler[h].task
<1>0. handler[h] \in HandlerType /\ t \in Task /\ handler[h].outcome \in Outcome
  BY DEF CommitResult, TypeOK, HandlerType
<1>1. CASE ~Holds(t, handler[h].by)
  <2>1. handler' = [handler EXCEPT ![h] = FreeHandler] /\ UNCHANGED sweeper
    BY <1>1 DEF CommitResult, Answer
  <2>2. ReportsKept
    BY <2>1 DEF ReportsKept, FreeHandler, TypeOK
  <2>. QED BY <2>2, ReportsStay
<1>2. CASE Holds(t, handler[h].by)
  <2>1. /\ handler' = [handler EXCEPT ![h].pc = "settle"] /\ UNCHANGED sweeper
        /\ handler'[h] = [handler[h] EXCEPT !.pc = "settle"]
        /\ \A g \in Handler \ {h} : handler'[g] = handler[g]
    BY <1>2 DEF CommitResult, TypeOK
  <2>2. handler'[h].task = t /\ handler'[h].outcome = handler[h].outcome
        /\ handler'[h].att = handler[h].att
    BY <1>0, <2>1, HandlerMoves
  <2>3. ASSUME NEW g \in Handler, handler'[g].pc = "settle", ~Retries(g)'
        PROVE  row'[handler'[g].task].status = handler'[g].outcome
    <3>1. CASE g = h
      <4>1. ~Retries(h)
        BY <2>2, <2>3, <3>1 DEF Retries
      <4>2. row' = [row EXCEPT ![t] = Ended(@, handler[h].outcome)]
        BY <1>2, <4>1 DEF CommitResult, FinalizeTask
      <4>3. row'[t].status = handler[h].outcome
        BY <1>0, <4>2 DEF Ended, TypeOK, RowType
      <4>. QED BY <2>2, <3>1, <4>3
    <3>2. CASE g # h
      <4>1. handler'[g] = handler[g] /\ handler[g].pc = "settle" /\ ~Retries(g)
        BY <2>1, <2>3, <3>2 DEF Retries
      <4>2. handler[g].task \in Task /\ handler[g].outcome \in Final
        BY <4>1, OutcomeAssumption DEF TypeOK, HandlerType, Final
      <4>. QED BY <4>1, <4>2 DEF ReportsTrue, RowGoesOn
    <3>. QED BY <3>1, <3>2
  <2>4. ASSUME sweeper'.pc = "settle", sweeper'.failed
        PROVE  row'[sweeper'.task].status = "failed"
    <3>1. sweeper' = sweeper /\ sweeper.task \in Task
      BY <2>1, <2>4 DEF TypeOK, SweeperType
    <3>. QED BY <2>4, <3>1 DEF ReportsTrue, RowGoesOn, Final
  <2>. QED BY <2>3, <2>4 DEF ReportsTrue
<1>. QED BY <1>1, <1>2

\* What the handlers do before they settle.
LEMMA RequestsReport ==
  ASSUME TypeOK, ReportsTrue, \A t \in Task : RowGoesOn(t), NEW h \in Handler,
         ClaimStep(h) \/ SettleResult(h)
  PROVE  ReportsTrue'
<1>1. UNCHANGED sweeper /\ \A g \in Handler \ {h} : handler'[g] = handler[g]
  BY DEF ClaimStep, ClaimTask, AssignWorktree, SetTaskWorktree, RegisterWorktree, ReplyClaim,
         SettleResult, Answer, TypeOK
<1>2. handler[h] \in HandlerType
  BY DEF TypeOK
<1>3. handler'[h].pc # "settle"
  <2>0. ASSUME NEW p, p # "settle", handler'[h] = [handler[h] EXCEPT !.pc = p]
        PROVE  handler'[h].pc # "settle"
    BY <1>2, <2>0, HandlerMoves
  <2>1. CASE ClaimTask(h)
    <3>1. handler'[h] = FreeHandler
            \/ \E n : handler'[h] = [handler[h] EXCEPT !.pc = "assign", !.att = n]
      <4>1. CASE row[handler[h].task].status = "pending"
        BY <2>1, <4>1 DEF ClaimTask, TypeOK
      <4>2. CASE row[handler[h].task].status # "pending"
        BY <2>1, <4>2 DEF ClaimTask, Answer, TypeOK
      <4>. QED BY <4>1, <4>2
    <3>2. ASSUME NEW n, handler'[h] = [handler[h] EXCEPT !.pc = "assign", !.att = n]
          PROVE  handler'[h].pc # "settle"
      BY <1>2, <3>2, HandlerClaims
    <3>3. CASE handler'[h] = FreeHandler
      BY <3>3 DEF FreeHandler
    <3>4. CASE \E n : handler'[h] = [handler[h] EXCEPT !.pc = "assign", !.att = n]
      BY <3>2, <3>4, Zenon
    <3>. QED BY <3>1, <3>3, <3>4
  <2>2. CASE AssignWorktree(h)
    <3>1. handler' = [handler EXCEPT ![h].pc = "reply"]
            \/ \E x \in Worktree : handler' = [handler EXCEPT ![h] = [@ EXCEPT !.pc = "stamp", !.wt = x]]
      BY <2>2 DEF AssignWorktree
    <3>2. handler'[h] = [handler[h] EXCEPT !.pc = "reply"]
            \/ \E x \in Worktree : handler'[h] = [handler[h] EXCEPT !.pc = "stamp", !.wt = x]
      BY <3>1 DEF TypeOK
    <3>3. ASSUME NEW x, handler'[h] = [handler[h] EXCEPT !.pc = "stamp", !.wt = x]
          PROVE  handler'[h].pc # "settle"
      BY <1>2, <3>3, HandlerStamps
    <3>. QED BY <2>0, <3>2, <3>3
  <2>3. CASE SetTaskWorktree(h) \/ RegisterWorktree(h)
    <3>1. handler'[h] = [handler[h] EXCEPT !.pc = "register"]
            \/ handler'[h] = [handler[h] EXCEPT !.pc = "reply"]
      BY <2>3 DEF SetTaskWorktree, RegisterWorktree, TypeOK
    <3>. QED BY <2>0, <3>1
  <2>4. CASE ReplyClaim(h) \/ SettleResult(h)
    BY <2>4 DEF ReplyClaim, SettleResult, Answer, FreeHandler, TypeOK
  <2>. QED BY <2>1, <2>2, <2>3, <2>4 DEF ClaimStep
<1>4. ReportsKept
  BY <1>1, <1>3 DEF ReportsKept
<1>. QED BY <1>4, ReportsStay

\* The sweeper reports what it has read.
LEMMA SweepReports ==
  ASSUME TypeOK, ReportsTrue, \A t \in Task : RowGoesOn(t), BeginSweep \/ SweepStep
  PROVE  ReportsTrue'
<1>0. UNCHANGED handler /\ sweeper \in SweeperType
  BY DEF BeginSweep, SweepStep, RequeueStaleTask, ReadSwept, SettleSwept, TypeOK
<1>1. CASE BeginSweep \/ (\E t \in Task : RequeueStaleTask(t)) \/ SettleSwept
  <2>1. sweeper'.pc # "settle"
    <3>1. CASE BeginSweep
      BY <1>0, <3>1 DEF BeginSweep, SweeperType
    <3>2. ASSUME NEW t \in Task, RequeueStaleTask(t) PROVE sweeper'.pc # "settle"
      <4>1. \/ \E todo : sweeper' = [sweeper EXCEPT !.pc = "read", !.todo = todo, !.task = t]
            \/ sweeper' = Proceed(sweeper.todo \ {t})
        BY <3>2 DEF RequeueStaleTask
      <4>2. ASSUME NEW todo, sweeper' = [sweeper EXCEPT !.pc = "read", !.todo = todo, !.task = t]
            PROVE  sweeper'.pc # "settle"
        BY <1>0, <4>2 DEF SweeperType
      <4>3. CASE sweeper' = Proceed(sweeper.todo \ {t})
        BY <4>3 DEF Proceed, IdleSweeper
      <4>. QED BY <4>1, <4>2, <4>3, Zenon
    <3>3. CASE SettleSwept
      BY <3>3 DEF SettleSwept, Proceed, IdleSweeper
    <3>. QED BY <1>1, <3>1, <3>2, <3>3
  <2>2. ReportsKept
    BY <1>0, <2>1 DEF ReportsKept
  <2>. QED BY <2>2, ReportsStay
<1>2. CASE ReadSwept
  <2>1. sweeper'.task = sweeper.task /\ (sweeper'.failed => row[sweeper.task].status = "failed")
    BY <1>0, <1>2 DEF ReadSwept, SweeperType
  <2>2. sweeper'.failed => row'[sweeper'.task].status = "failed"
    BY <1>2, <2>1 DEF ReadSwept
  <2>3. ASSUME NEW h \in Handler, handler'[h].pc = "settle", ~Retries(h)'
        PROVE  row'[handler'[h].task].status = handler'[h].outcome
    BY <1>0, <1>2, <2>3 DEF ReadSwept, ReportsTrue, Retries
  <2>. QED BY <2>2, <2>3 DEF ReportsTrue
<1>. QED BY <1>1, <1>2 DEF SweepStep

LEMMA ReportsStep ==
  ASSUME TypeOK, ReportsTrue, [Next]_vars, \A t \in Task : RowGoesOn(t)
  PROVE  ReportsTrue'
<1>1. CASE \E t \in Task : Submit(t) \/ Expire(t) \/ CancelTask(t) \/ ReclaimCancelled(t)
  BY <1>1, ReportsStay DEF Submit, Expire, CancelTask, ReclaimCancelled, ReportsKept
<1>2. ASSUME NEW w \in Worker, NEW h \in Handler,
             RequestClaim(w, h) \/ \E o \in Outcome : RequestResult(w, h, o)
      PROVE  ReportsTrue'
  <2>1. UNCHANGED sweeper /\ \A g \in Handler \ {h} : handler'[g] = handler[g]
    BY <1>2 DEF RequestClaim, RequestResult, TypeOK
  <2>2. handler'[h].pc # "settle"
    <3>1. CASE RequestClaim(w, h)
      BY <3>1 DEF RequestClaim, FreeHandler, TypeOK
    <3>2. ASSUME NEW o \in Outcome, RequestResult(w, h, o)
          PROVE  handler'[h].pc # "settle"
      <4>1. CASE Holds(worker[w].task, w)
        BY <3>2, <4>1 DEF RequestResult, FreeHandler, TypeOK
      <4>2. CASE ~Holds(worker[w].task, w)
        BY <3>2, <4>2 DEF RequestResult
      <4>. QED BY <4>1, <4>2
    <3>. QED BY <1>2, <3>1, <3>2
  <2>3. ReportsKept
    BY <2>1, <2>2 DEF ReportsKept
  <2>. QED BY <2>3, ReportsStay
<1>3. CASE \E h \in Handler : ClaimStep(h) \/ SettleResult(h)
  BY <1>3, RequestsReport
<1>4. CASE \E h \in Handler : CommitResult(h)
  BY <1>4, CommitReports
<1>5. CASE (\E w \in Worker : Heartbeat(w) \/ Abandon(w) \/ CrashWorker(w)) \/ UNCHANGED vars
  BY <1>5, ReportsStay DEF Heartbeat, Abandon, CrashWorker, vars, ReportsKept
<1>6. CASE BeginSweep \/ SweepStep
  BY <1>6, SweepReports
<1>7. CASE Restart
  BY <1>7, ReportsStay DEF Restart, FreeHandler, IdleSweeper, ReportsKept
<1>. QED BY <1>1, <1>2, <1>3, <1>4, <1>5, <1>6, <1>7 DEF Next, ResultStep

LEMMA BrokerInit == Init => BrokerInv
<1>. SUFFICES ASSUME Init PROVE BrokerInv
  OBVIOUS
<1>1. ReportsTrue
  BY DEF Init, ReportsTrue, FreeHandler, IdleSweeper
<1>2. AbsentUncharged
  BY DEF Init, AbsentUncharged
<1>. QED BY <1>1, <1>2, TypeInit, AttemptInit DEF BrokerInv

LEMMA BrokerStep == BrokerInv /\ [Next]_vars => BrokerInv' /\ \A t \in Task : RowGoesOn(t)
<1>. SUFFICES ASSUME BrokerInv, [Next]_vars
              PROVE  BrokerInv' /\ \A t \in Task : RowGoesOn(t)
  OBVIOUS
<1>1. TypeOK' /\ AttemptInv'
  BY TypeStep, AttemptStep DEF BrokerInv
<1>2. \A t \in Task : RowGoesOn(t)
  BY <1>1, RowsGoOn DEF BrokerInv
<1>3. ReportsTrue'
  BY <1>2, ReportsStep DEF BrokerInv
<1>4. AbsentUncharged'
  BY <1>2 DEF BrokerInv, AbsentUncharged, RowGoesOn
<1>. QED BY <1>1, <1>2, <1>3, <1>4 DEF BrokerInv

-----------------------------------------------------------------------------
(* The durable side.                                                       *)

\* A durable status that is not ahead of a row.
Behind(s, r) ==
  /\ s = "completed" => r.status = "completed"
  /\ s = "failed" => r.status \in {"failed", "timeout"}
  /\ s = "running" => r.status # "absent" /\ (r.status = "pending" => r.attempts > 0)

\* The row goes on and the durable status stays where it is.
LEMMA StaysBehind ==
  ASSUME TypeOK, TypeOK', NEW t \in Task, RowGoesOn(t), NEW s, Behind(s, row[t])
  PROVE  Behind(s, row'[t])
<1>1. row[t].attempts \in Nat /\ row'[t].attempts \in Nat
  BY DEF TypeOK, RowType
<1>. QED BY <1>1 DEF Behind, RowGoesOn, Final

\* A transition goes along an edge of legalTransitions or changes nothing.
LEMMA Transitions ==
  ASSUME WorkTyped, NEW t \in Task, NEW next \in Statuses \ {"absent"}, Transition(t, next)
  PROVE  /\ work' \in [Task -> WorkType]
         /\ \A u \in Task \ {t} : work'[u] = work[u]
         /\ \/ work'[t] = work[t]
            \/ <<work[t].status, next>> \in Legal /\ work'[t].status = next
<1>1. CASE <<work[t].status, next>> \in Legal
  <2>1. work' = [work EXCEPT ![t].status = next]
    BY <1>1 DEF Transition
  <2>2. [work[t] EXCEPT !.status = next] \in WorkType
    BY DEF WorkTyped, WorkType
  <2>3. work'[t] = [work[t] EXCEPT !.status = next] /\ \A u \in Task \ {t} : work'[u] = work[u]
    BY <2>1 DEF WorkTyped
  <2>4. work'[t].status = next
    BY <2>3 DEF WorkTyped, WorkType
  <2>5. work' \in [Task -> WorkType]
    BY <2>1, <2>2 DEF WorkTyped
  <2>. QED BY <1>1, <2>3, <2>4, <2>5
<1>2. CASE <<work[t].status, next>> \notin Legal
  BY <1>2 DEF Transition, WorkTyped
<1>. QED BY <1>1, <1>2

\* Every step of the whole is a step of the broker or leaves it alone.
LEMMA BrokerMoves == [WNext]_allVars => [Next]_vars
<1>. SUFFICES ASSUME [WNext]_allVars PROVE [Next]_vars
  OBVIOUS
<1>1. CASE \E t \in Task : CreateRow(t) \/ CreateStep(t) \/ CancelRead(t) \/ CancelStep(t)
                              \/ ChecklistChanges(t)
  BY <1>1 DEF CreateRow, CreateStep, DispatchSubmit, DispatchFailed, AttachBrokerTask, CancelRead,
       CancelStep, CancelBroker, CancelRow, ChecklistChanges, Next
<1>2. CASE (\E h \in Handler : ClaimReported(h) \/ ResultReported(h)) \/ SweepReported
             \/ RestartAndRecover
  BY <1>2 DEF ClaimReported, ResultReported, SweepReported, RestartAndRecover, Next, ClaimStep,
       ResultStep, SweepStep
<1>3. CASE QuietBrokerStep
  BY <1>3 DEF QuietBrokerStep, Next, ClaimStep, ResultStep, SweepStep
<1>4. CASE UNCHANGED allVars
  BY <1>4 DEF allVars
<1>. QED BY <1>1, <1>2, <1>3, <1>4 DEF WNext

\* Wherever the durable row moves, it moves to where the broker's row lets it.
LEMMA NeverAheadStays ==
  ASSUME TypeOK, TypeOK', NeverAhead, \A t \in Task : RowGoesOn(t),
         \A t \in Task : work'[t].status = work[t].status \/ Behind(work'[t].status, row'[t])
  PROVE  NeverAhead'
<1>1. ASSUME NEW t \in Task PROVE Behind(work'[t].status, row'[t])
  <2>1. CASE work'[t].status = work[t].status
    <3>1. Behind(work[t].status, row[t])
      BY DEF NeverAhead, Behind
    <3>. QED BY <2>1, <3>1, StaysBehind
  <2>. QED BY <2>1
<1>. QED BY <1>1 DEF NeverAhead, Behind

LEMMA ReportedStaysBehind ==
  ASSUME TypeOK, TypeOK', WorkTyped, NeverAhead, \A t \in Task : RowGoesOn(t),
         NEW t \in Task, NEW next \in Statuses \ {"absent"},
         Transition(t, next), Behind(next, row'[t])
  PROVE  work' \in [Task -> WorkType] /\ NeverAhead'
<1>1. /\ work' \in [Task -> WorkType]
      /\ \A u \in Task : work'[u] = work[u] \/ (u = t /\ work'[t].status = next)
  BY Transitions
<1>2. \A u \in Task : work'[u].status = work[u].status \/ Behind(work'[u].status, row'[u])
  BY <1>1
<1>. QED BY <1>1, <1>2, NeverAheadStays

\* Who is told that a task runs is told of one that was claimed.
LEMMA ClaimIsBehind ==
  ASSUME BrokerInv, NEW h \in Handler, handler[h].pc = "reply"
  PROVE  handler[h].task \in Task /\ Behind("running", row[handler[h].task])
<1>1. handler[h].task \in Task /\ handler[h].att \in Nat
  BY DEF BrokerInv, TypeOK, HandlerType
<1>2. row[handler[h].task].attempts \in Nat
  BY <1>1 DEF BrokerInv, TypeOK, RowType
<1>3. row[handler[h].task].status \in {"absent", "pending"} =>
        handler[h].att < row[handler[h].task].attempts
  BY DEF BrokerInv, AttemptInv, ClaimsBelow, Claiming
<1>. QED BY <1>1, <1>2, <1>3 DEF BrokerInv, AbsentUncharged, Behind

\* The verdict is Finish's: a completion that is refused changes nothing.
LEMMA VerdictStaysBehind ==
  ASSUME TypeOK, TypeOK', WorkTyped, NeverAhead, \A t \in Task : RowGoesOn(t),
         NEW t \in Task, NEW s \in {"completed", "failed", "timeout"},
         OnTerminal(t, s), row'[t].status = s
  PROVE  work' \in [Task -> WorkType] /\ NeverAhead'
<1>1. CASE s = "completed" /\ t \in unmet
  <2>1. UNCHANGED work
    BY <1>1 DEF OnTerminal
  <2>. QED BY <2>1, NeverAheadStays DEF WorkTyped
<1>2. CASE s = "completed" /\ t \notin unmet
  <2>1. Transition(t, "completed") /\ Behind("completed", row'[t])
    BY <1>2 DEF OnTerminal, Behind
  <2>. QED BY <2>1, ReportedStaysBehind DEF Statuses
<1>3. CASE s # "completed"
  <2>1. Transition(t, "failed") /\ Behind("failed", row'[t])
    BY <1>3 DEF OnTerminal, Behind
  <2>. QED BY <2>1, ReportedStaysBehind DEF Statuses
<1>. QED BY <1>1, <1>2, <1>3

\* What the broker reports at the end of its calls.
LEMMA ReportsStayBehind ==
  ASSUME DurableInv, BrokerInv', \A t \in Task : RowGoesOn(t),
         (\E h \in Handler : ClaimReported(h) \/ ResultReported(h)) \/ SweepReported
  PROVE  work' \in [Task -> WorkType] /\ NeverAhead'
<1>0. TypeOK /\ TypeOK' /\ WorkTyped /\ NeverAhead /\ UNCHANGED row
  BY DEF DurableInv, BrokerInv, ClaimReported, ResultReported, SweepReported, ReplyClaim,
         SettleResult, SettleSwept
<1>1. ASSUME NEW h \in Handler, ClaimReported(h)
      PROVE  work' \in [Task -> WorkType] /\ NeverAhead'
  <2>1. /\ Transition(handler[h].task, "running")
        /\ handler[h].task \in Task /\ Behind("running", row'[handler[h].task])
    BY <1>0, <1>1, ClaimIsBehind DEF ClaimReported, ReplyClaim, OnRunning, DurableInv
  <2>. QED BY <1>0, <2>1, ReportedStaysBehind DEF Statuses
<1>2. ASSUME NEW h \in Handler, ResultReported(h)
      PROVE  work' \in [Task -> WorkType] /\ NeverAhead'
  <2>1. handler[h].pc = "settle" /\ handler[h].task \in Task /\ handler[h].outcome \in Outcome
    BY <1>0, <1>2 DEF ResultReported, SettleResult, TypeOK, HandlerType
  <2>2. CASE Retries(h)
    <3>1. Transition(handler[h].task, "pending") /\ Behind("pending", row'[handler[h].task])
      BY <1>2, <2>2 DEF ResultReported, OnRequeued, Behind
    <3>. QED BY <1>0, <2>1, <3>1, ReportedStaysBehind DEF Statuses
  <2>3. CASE ~Retries(h)
    <3>1. /\ OnTerminal(handler[h].task, handler[h].outcome)
          /\ row'[handler[h].task].status = handler[h].outcome
      BY <1>0, <1>2, <2>1, <2>3 DEF ResultReported, DurableInv, BrokerInv, ReportsTrue
    <3>. QED BY <1>0, <2>1, <3>1, VerdictStaysBehind, OutcomeAssumption
  <2>. QED BY <2>2, <2>3
<1>3. CASE SweepReported
  <2>1. sweeper.pc = "settle" /\ sweeper.task \in Task
    BY <1>0, <1>3 DEF SweepReported, SettleSwept, TypeOK, SweeperType
  <2>2. CASE sweeper.failed
    <3>1. OnTerminal(sweeper.task, "failed") /\ row'[sweeper.task].status = "failed"
      BY <1>0, <1>3, <2>1, <2>2 DEF SweepReported, DurableInv, BrokerInv, ReportsTrue
    <3>. QED BY <1>0, <2>1, <3>1, VerdictStaysBehind
  <2>3. CASE ~sweeper.failed
    <3>1. Transition(sweeper.task, "pending") /\ Behind("pending", row'[sweeper.task])
      BY <1>3, <2>3 DEF SweepReported, OnRequeued, Behind
    <3>. QED BY <1>0, <2>1, <3>1, ReportedStaysBehind DEF Statuses
  <2>. QED BY <2>2, <2>3
<1>. QED BY <1>1, <1>2, <1>3

\* A cancelled row of the broker stays cancelled.
LEMMA LinkedStays ==
  ASSUME LinkedCancelled, \A t \in Task : RowGoesOn(t),
         \A t \in Task : canceller'[t] = "linkedRow" =>
           canceller[t] = "linkedRow" \/ row'[t].status = "cancelled"
  PROVE  LinkedCancelled'
BY DEF LinkedCancelled, RowGoesOn, Final

\* What follows for the durable side of a step, given the broker's.
WorkKept == WorkTyped' /\ NeverAhead' /\ LinkedCancelled'

LEMMA CreateKeeps ==
  ASSUME DurableInv, BrokerInv', \A t \in Task : RowGoesOn(t), NEW t \in Task,
         CreateRow(t) \/ CreateStep(t)
  PROVE  WorkKept
<1>0. TypeOK /\ TypeOK' /\ WorkTyped /\ NeverAhead /\ LinkedCancelled
  BY DEF DurableInv, BrokerInv
<1>1. UNCHANGED <<unmet, canceller>>
  BY DEF CreateRow, CreateStep, DispatchSubmit, DispatchFailed, AttachBrokerTask
<1>2. creator' \in [Task -> {"none", "inserted", "submitted"}]
  BY <1>0 DEF CreateRow, CreateStep, DispatchSubmit, DispatchFailed, AttachBrokerTask, WorkTyped
<1>3. /\ work' \in [Task -> WorkType]
      /\ \A u \in Task : work'[u].status = work[u].status \/ work'[u].status = "pending"
  <2>1. CASE CreateRow(t)
    <3>1. work' = [work EXCEPT ![t] = [work[t] EXCEPT !.status = "pending"]]
      BY <2>1 DEF CreateRow
    <3>2. [work[t] EXCEPT !.status = "pending"] \in WorkType
      BY <1>0 DEF WorkTyped, WorkType, Statuses
    <3>3. [work[t] EXCEPT !.status = "pending"].status = "pending"
      BY <1>0 DEF WorkTyped, WorkType
    <3>. QED BY <1>0, <3>1, <3>2, <3>3 DEF WorkTyped
  <2>2. CASE AttachBrokerTask(t)
    <3>1. work' = [work EXCEPT ![t] = [work[t] EXCEPT !.linked = TRUE]]
      BY <2>2 DEF AttachBrokerTask
    <3>2. [work[t] EXCEPT !.linked = TRUE] \in WorkType
      BY <1>0 DEF WorkTyped, WorkType
    <3>3. [work[t] EXCEPT !.linked = TRUE].status = work[t].status
      BY <1>0 DEF WorkTyped, WorkType
    <3>. QED BY <1>0, <3>1, <3>2, <3>3 DEF WorkTyped
  <2>3. CASE DispatchSubmit(t) \/ DispatchFailed(t)
    BY <1>0, <2>3 DEF DispatchSubmit, DispatchFailed, WorkTyped
  <2>. QED BY <2>1, <2>2, <2>3 DEF CreateStep
<1>4. NeverAhead'
  BY <1>0, <1>3, NeverAheadStays DEF Behind
<1>. QED BY <1>0, <1>1, <1>2, <1>3, <1>4, LinkedStays DEF WorkKept, WorkTyped

LEMMA CancelKeeps ==
  ASSUME DurableInv, BrokerInv', \A t \in Task : RowGoesOn(t), NEW t \in Task,
         CancelRead(t) \/ CancelStep(t)
  PROVE  WorkKept
<1>0. TypeOK /\ TypeOK' /\ WorkTyped /\ NeverAhead /\ LinkedCancelled
  BY DEF DurableInv, BrokerInv
<1>1. UNCHANGED <<unmet, creator>>
  BY DEF CancelRead, CancelStep, CancelBroker, CancelRow
<1>2. canceller' \in [Task -> {"none", "broker", "row", "linkedRow"}]
  BY <1>0 DEF CancelRead, CancelStep, CancelBroker, CancelRow, WorkTyped
<1>3. work' \in [Task -> WorkType] /\ NeverAhead'
  <2>1. CASE UNCHANGED work
    BY <1>0, <2>1, NeverAheadStays DEF WorkTyped
  <2>2. CASE CancelRow(t)
    <3>1. Transition(t, "cancelled") /\ Behind("cancelled", row'[t])
      BY <2>2 DEF CancelRow, Behind
    <3>. QED BY <1>0, <3>1, ReportedStaysBehind DEF Statuses
  <2>. QED BY <2>1, <2>2 DEF CancelRead, CancelStep, CancelBroker
<1>4. \A u \in Task : canceller'[u] = "linkedRow" =>
        canceller[u] = "linkedRow" \/ row'[u].status = "cancelled"
  <2>1. CASE CancelRead(t) \/ CancelRow(t)
    BY <1>0, <2>1 DEF CancelRead, CancelRow, WorkTyped
  <2>2. CASE CancelBroker(t) /\ row[t].status \in {"pending", "running"}
    <3>1. row' = [row EXCEPT ![t] = Ended(@, "cancelled")]
      BY <2>2 DEF CancelBroker, CancelTask
    <3>2. row'[t].status = "cancelled"
      BY <1>0, <3>1 DEF Ended, TypeOK, RowType
    <3>. QED BY <1>0, <2>2, <3>2 DEF CancelBroker, WorkTyped
  <2>3. CASE CancelBroker(t) /\ row[t].status \notin {"pending", "running"}
    BY <1>0, <2>3 DEF CancelBroker, WorkTyped
  <2>. QED BY <2>1, <2>2, <2>3 DEF CancelStep
<1>. QED BY <1>0, <1>1, <1>2, <1>3, <1>4, LinkedStays DEF WorkKept, WorkTyped

LEMMA RecoveryKeeps ==
  ASSUME DurableInv, BrokerInv', \A t \in Task : RowGoesOn(t), RestartAndRecover
  PROVE  WorkKept
<1>0. TypeOK /\ TypeOK' /\ WorkTyped /\ NeverAhead /\ LinkedCancelled
  BY DEF DurableInv, BrokerInv
<1>1. \A t \in Task :
        work'[t] = IF work[t].status = "running" THEN [work[t] EXCEPT !.status = "pending"]
                                                 ELSE work[t]
  BY DEF RestartAndRecover
<1>2. ASSUME NEW t \in Task
      PROVE  /\ work'[t] \in WorkType
             /\ work'[t].status = work[t].status \/ work'[t].status = "pending"
  <2>1. work[t] \in WorkType
    BY <1>0 DEF WorkTyped
  <2>2. /\ [work[t] EXCEPT !.status = "pending"] \in WorkType
        /\ [work[t] EXCEPT !.status = "pending"].status = "pending"
    BY <2>1 DEF WorkType, Statuses
  <2>. QED BY <1>1, <2>1, <2>2
<1>3. work' \in [Task -> WorkType]
  BY <1>2 DEF RestartAndRecover
<1>4. NeverAhead'
  BY <1>0, <1>2, NeverAheadStays DEF Behind
<1>5. /\ UNCHANGED unmet
      /\ creator' \in [Task -> {"none", "inserted", "submitted"}]
      /\ canceller' \in [Task -> {"none", "broker", "row", "linkedRow"}]
      /\ \A t \in Task : canceller'[t] # "linkedRow"
  BY DEF RestartAndRecover
<1>. QED BY <1>0, <1>3, <1>4, <1>5, LinkedStays DEF WorkKept, WorkTyped

LEMMA DurableStep == DurableInv /\ [WNext]_allVars => DurableInv'
<1>. SUFFICES ASSUME DurableInv, [WNext]_allVars PROVE DurableInv'
  OBVIOUS
<1>1. BrokerInv' /\ \A t \in Task : RowGoesOn(t)
  BY BrokerMoves, BrokerStep DEF DurableInv
<1>2. TypeOK /\ TypeOK' /\ WorkTyped /\ NeverAhead /\ LinkedCancelled
  BY <1>1 DEF DurableInv, BrokerInv
<1>3. ASSUME NEW t \in Task, CreateRow(t) \/ CreateStep(t) PROVE WorkKept
  BY <1>1, <1>3, CreateKeeps
<1>4. ASSUME NEW t \in Task, CancelRead(t) \/ CancelStep(t) PROVE WorkKept
  BY <1>1, <1>4, CancelKeeps
<1>5. ASSUME NEW t \in Task, ChecklistChanges(t) PROVE WorkKept
  <2>1. UNCHANGED <<work, creator, canceller>> /\ unmet' \subseteq Gated
    BY <1>2, <1>5 DEF ChecklistChanges, WorkTyped
  <2>. QED BY <1>1, <1>2, <2>1, NeverAheadStays, LinkedStays DEF WorkKept, WorkTyped
<1>6. CASE (\E h \in Handler : ClaimReported(h) \/ ResultReported(h)) \/ SweepReported
  <2>1. work' \in [Task -> WorkType] /\ NeverAhead'
    BY <1>1, <1>6, ReportsStayBehind
  <2>2. UNCHANGED <<unmet, creator, canceller>>
    BY <1>6 DEF ClaimReported, ResultReported, SweepReported
  <2>3. WorkKept
    BY <1>1, <1>2, <2>1, <2>2, LinkedStays DEF WorkKept, WorkTyped
  <2>. QED BY <1>1, <2>3 DEF DurableInv, WorkKept
<1>7. CASE RestartAndRecover
  BY <1>1, <1>7, RecoveryKeeps DEF DurableInv, WorkKept
<1>8. CASE UNCHANGED workVars
  <2>1. WorkKept
    BY <1>1, <1>2, <1>8, NeverAheadStays, LinkedStays DEF workVars, WorkKept, WorkTyped
  <2>. QED BY <1>1, <2>1 DEF DurableInv, WorkKept
<1>9. CASE \E t \in Task : CreateRow(t) \/ CreateStep(t) \/ CancelRead(t) \/ CancelStep(t)
                              \/ ChecklistChanges(t)
  BY <1>1, <1>3, <1>4, <1>5, <1>9 DEF DurableInv, WorkKept
<1>. QED BY <1>6, <1>7, <1>8, <1>9 DEF WNext, allVars

LEMMA DurableStarts == WInit => DurableInv
<1>. SUFFICES ASSUME WInit PROVE DurableInv
  OBVIOUS
<1>1. BrokerInv
  BY BrokerInit DEF WInit
<1>. QED BY <1>1 DEF WInit, DurableInv, WorkTyped, WorkType, Statuses, NeverAhead, LinkedCancelled

LEMMA DurableInvariant == WSpec => []DurableInv
<1>. QED BY DurableStarts, DurableStep, PTL DEF WSpec

-----------------------------------------------------------------------------
(* Steps.                                                                  *)

\* The ways a durable status goes: a new row, recovery and the edges of
\* legalTransitions, of which only Cancel takes the ones to cancelled.
StatusMoves(t) ==
  \/ work'[t].status = work[t].status
  \/ work[t].status = "absent" /\ work'[t].status = "pending"
  \/ /\ <<work[t].status, work'[t].status>> \in Legal
     /\ work'[t].status = "cancelled" => canceller[t] \in {"row", "linkedRow"}

LEMMA TransitionMoves ==
  ASSUME WorkTyped, NEW t \in Task, NEW next \in Statuses \ {"absent"}, Transition(t, next),
         next = "cancelled" => canceller[t] \in {"row", "linkedRow"}
  PROVE  \A u \in Task : StatusMoves(u)
BY Transitions DEF StatusMoves

LEMMA VerdictMoves ==
  ASSUME WorkTyped, NEW t \in Task, NEW s, OnTerminal(t, s)
  PROVE  \A u \in Task : StatusMoves(u)
<1>1. CASE UNCHANGED work
  BY <1>1 DEF StatusMoves
<1>2. CASE Transition(t, "completed") \/ Transition(t, "failed")
  BY <1>2, TransitionMoves DEF Statuses
<1>. QED BY <1>1, <1>2 DEF OnTerminal

LEMMA StatusesMove ==
  ASSUME DurableInv, [WNext]_allVars
  PROVE  \A t \in Task : StatusMoves(t)
<1>0. TypeOK /\ WorkTyped
  BY DEF DurableInv, BrokerInv
<1>1. CASE UNCHANGED work
  BY <1>1 DEF StatusMoves
<1>2. ASSUME NEW t \in Task, CreateRow(t) PROVE \A u \in Task : StatusMoves(u)
  <2>1. /\ work[t].status = "absent"
        /\ work' = [work EXCEPT ![t] = [work[t] EXCEPT !.status = "pending"]]
    BY <1>2 DEF CreateRow
  <2>2. [work[t] EXCEPT !.status = "pending"].status = "pending"
    BY <1>0 DEF WorkTyped, WorkType
  <2>. QED BY <1>0, <2>1, <2>2 DEF StatusMoves, WorkTyped
<1>3. ASSUME NEW t \in Task, AttachBrokerTask(t) PROVE \A u \in Task : StatusMoves(u)
  <2>1. work' = [work EXCEPT ![t] = [work[t] EXCEPT !.linked = TRUE]]
    BY <1>3 DEF AttachBrokerTask
  <2>2. [work[t] EXCEPT !.linked = TRUE].status = work[t].status
    BY <1>0 DEF WorkTyped, WorkType
  <2>. QED BY <1>0, <2>1, <2>2 DEF StatusMoves, WorkTyped
<1>4. ASSUME NEW t \in Task, CancelRow(t) PROVE \A u \in Task : StatusMoves(u)
  BY <1>0, <1>4, TransitionMoves DEF CancelRow, Statuses
<1>5. ASSUME NEW h \in Handler, ClaimReported(h) \/ ResultReported(h)
      PROVE  \A u \in Task : StatusMoves(u)
  <2>1. handler[h].task \in Task
    BY <1>0, <1>5 DEF ClaimReported, ReplyClaim, ResultReported, SettleResult, TypeOK, HandlerType
  <2>2. \/ Transition(handler[h].task, "running") \/ Transition(handler[h].task, "pending")
        \/ OnTerminal(handler[h].task, handler[h].outcome)
    BY <1>5 DEF ClaimReported, ResultReported, OnRunning, OnRequeued
  <2>. QED BY <1>0, <2>1, <2>2, TransitionMoves, VerdictMoves DEF Statuses
<1>6. CASE SweepReported
  <2>1. sweeper.task \in Task
    BY <1>0, <1>6 DEF SweepReported, SettleSwept, TypeOK, SweeperType
  <2>2. Transition(sweeper.task, "pending") \/ OnTerminal(sweeper.task, "failed")
    BY <1>6 DEF SweepReported, OnRequeued
  <2>. QED BY <1>0, <2>1, <2>2, TransitionMoves, VerdictMoves DEF Statuses
<1>7. CASE RestartAndRecover
  <2>1. ASSUME NEW t \in Task PROVE StatusMoves(t)
    <3>1. work'[t] = IF work[t].status = "running" THEN [work[t] EXCEPT !.status = "pending"]
                                                   ELSE work[t]
      BY <1>7 DEF RestartAndRecover
    <3>2. [work[t] EXCEPT !.status = "pending"].status = "pending"
      BY <1>0 DEF WorkTyped, WorkType
    <3>. QED BY <3>1, <3>2 DEF StatusMoves, Legal
  <2>. QED BY <2>1
<1>8. CASE \E t \in Task : DispatchSubmit(t) \/ DispatchFailed(t) \/ CancelRead(t)
                           \/ CancelBroker(t) \/ ChecklistChanges(t)
  BY <1>1, <1>8 DEF DispatchSubmit, DispatchFailed, CancelRead, CancelBroker, ChecklistChanges
<1>. QED BY <1>1, <1>2, <1>3, <1>4, <1>5, <1>6, <1>7, <1>8
     DEF WNext, CreateStep, CancelStep, workVars, allVars

-----------------------------------------------------------------------------
(* The theorems.                                                           *)

\* Both tables and the calls between them keep their types.
THEOREM DurableTypes == WSpec => []WTypeOK
<1>1. DurableInv => WTypeOK
  BY DEF DurableInv, BrokerInv, WorkTyped, WorkType, Statuses, WTypeOK
<1>. QED BY <1>1, DurableInvariant, PTL

\* However late and in whatever order the broker reports, the durable row never
\* says more than the broker's.
THEOREM DurableIsNeverAhead == WSpec => []NeverAhead
<1>1. DurableInv => NeverAhead
  BY DEF DurableInv
<1>. QED BY <1>1, DurableInvariant, PTL

\* A durable row that has ended stays as it ended.
THEOREM DurableEndsStay == WSpec => DurableFinal
<1>1. ASSUME DurableInv, [WNext]_allVars
      PROVE  \A t \in Task : work[t].status \in Final => work'[t].status = work[t].status
  BY <1>1, StatusesMove DEF StatusMoves, Legal, Final
<1>. QED BY <1>1, DurableInvariant, PTL DEF WSpec, DurableFinal

\* Cancel of a task whose broker id it has read marks the durable row only after
\* the broker's.
THEOREM BrokerIsCancelledFirst == WSpec => CancelBrokerFirst
<1>1. ASSUME DurableInv, [WNext]_allVars
      PROVE  \A t \in Task :
               /\ canceller[t] \notin {"none", "row"}
               /\ work[t].status # "cancelled"
               /\ work'[t].status = "cancelled"
               => row[t].status = "cancelled"
  BY <1>1, StatusesMove DEF StatusMoves, DurableInv, LinkedCancelled
<1>. QED BY <1>1, DurableInvariant, PTL DEF WSpec, CancelBrokerFirst
=============================================================================
