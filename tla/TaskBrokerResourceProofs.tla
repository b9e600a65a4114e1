---------------------- MODULE TaskBrokerResourceProofs ----------------------
(***************************************************************************)
(* What the broker hands out and takes back: attempts out of the retry     *)
(* budget, and worktrees.                                                  *)
(***************************************************************************)
EXTENDS TaskBrokerProofs

-----------------------------------------------------------------------------
(* The inductive invariants, in parts.                                     *)

\* While no client has given up, every request has its client waiting.
ClientsPresent ==
  \A h \in Handler : handler[h].pc # "free" => worker[handler[h].by].handler = h

\* While no client has given up, who owns a row by name owns its attempt.
OwnersCurrent ==
  /\ \A h \in Handler :
       (Claiming(h) \/ handler[h].pc = "commit") /\ Holds(handler[h].task, handler[h].by)
         => handler[h].att = row[handler[h].task].attempts
  /\ \A w \in Worker :
       worker[w].task # None /\ Holds(worker[w].task, w)
         => worker[w].att = row[worker[w].task].attempts

WithinBudget ==
  \A t \in Task :
    /\ row[t].attempts <= MaxRetries + 1
    /\ row[t].status \in {"pending", "running"} => row[t].attempts <= MaxRetries
    /\ row[t].status = "absent" => row[t].attempts = 0

BudgetInv == abandoned = 0 => ClientsPresent /\ OwnersCurrent /\ WithinBudget

\* A worktree is known only to the task it was made for.
WorktreesOwned ==
  /\ \A t \in Task :
       /\ row[t].wt # None => tree[row[t].wt].task = t
       /\ createdWT[t] # None => tree[createdWT[t]].task = t
  /\ \A h \in Handler : handler[h].pc \in {"stamp", "register"} =>
       tree[handler[h].wt] = [task |-> handler[h].task, live |-> TRUE]

\* A worktree Claim has not registered yet is out of reclaimWorktree's reach.
WorktreesFresh ==
  \A h \in Handler : handler[h].pc \in {"stamp", "register"} =>
    /\ \A t \in Task : createdWT[t] # handler[h].wt
    /\ \A g \in Handler : g # h /\ handler[g].pc \in {"stamp", "register"} =>
         handler[g].wt # handler[h].wt

\* reclaimWorktree is called for tasks that have ended, only.
ReclaimsFinal ==
  /\ \A h \in Handler : handler[h].pc = "settle" /\ ~Retries(h) =>
       row[handler[h].task].status \in Final
  /\ sweeper.pc = "settle" /\ sweeper.failed => row[sweeper.task].status \in Final
  /\ \A t \in cancelling : row[t].status \in Final

\* WorktreeKept, and as much of a task that is still to be submitted.
KeptUntilFinal ==
  \A t \in Task :
    row[t].status \notin Final /\ row[t].wt # None => tree[row[t].wt].live

WorktreeInv == WorktreesOwned /\ WorktreesFresh /\ KeptUntilFinal /\ ReclaimsFinal


-----------------------------------------------------------------------------
(* Worktrees.                                                              *)

\* No row leaves a final status or changes its worktree.
RowsKept ==
  \A t \in Task :
    /\ row'[t].wt = row[t].wt
    /\ row[t].status \in Final => row'[t].status \in Final

Unregistered(h) == handler[h].pc \in {"stamp", "register"}

\* Every worktree on its way to createdWT was so before.
StampsKept ==
  \A h \in Handler : Unregistered(h)' =>
    Unregistered(h) /\ handler'[h].task = handler[h].task /\ handler'[h].wt = handler[h].wt

\* Every reclaim that is due was due before.
ReclaimsKept ==
  /\ \A h \in Handler : handler'[h].pc = "settle" =>
       handler[h].pc = "settle" /\ handler'[h] = handler[h]
  /\ sweeper'.pc = "settle" /\ sweeper'.failed =>
       sweeper.pc = "settle" /\ sweeper.failed /\ sweeper'.task = sweeper.task
  /\ cancelling' \subseteq cancelling

LEMMA OwnedKept ==
  ASSUME TypeOK, WorktreeInv, RowsKept, StampsKept, UNCHANGED <<tree, createdWT>>
  PROVE  WorktreesOwned' /\ WorktreesFresh' /\ KeptUntilFinal'
  <1>1. WorktreesOwned'
    BY DEF WorktreeInv, WorktreesOwned, RowsKept, StampsKept, Unregistered
  <1>2. WorktreesFresh'
    BY DEF WorktreeInv, WorktreesFresh, StampsKept, Unregistered
  <1>3. KeptUntilFinal'
    BY DEF WorktreeInv, KeptUntilFinal, RowsKept
  <1>4. QED
    BY <1>1, <1>2, <1>3

LEMMA FinalKept ==
  ASSUME TypeOK, WorktreeInv, RowsKept, ReclaimsKept
  PROVE  ReclaimsFinal'
  <1>1. ASSUME NEW h \in Handler, handler'[h].pc = "settle", ~Retries(h)'
        PROVE  row'[handler'[h].task].status \in Final
    <2>1. handler[h].pc = "settle" /\ handler'[h] = handler[h] /\ ~Retries(h)
      BY <1>1 DEF ReclaimsKept, Retries
    <2>2. handler[h].task \in Task
      BY <2>1 DEF TypeOK, HandlerType
    <2>3. QED
      BY <2>1, <2>2 DEF WorktreeInv, ReclaimsFinal, RowsKept
  <1>2. ASSUME sweeper'.pc = "settle", sweeper'.failed
        PROVE  row'[sweeper'.task].status \in Final
    <2>1. sweeper.task \in Task
      BY <1>2 DEF ReclaimsKept, TypeOK, SweeperType
    <2>2. QED
      BY <1>2, <2>1 DEF ReclaimsKept, WorktreeInv, ReclaimsFinal, RowsKept
  <1>3. \A t \in cancelling' : row'[t].status \in Final
    BY DEF ReclaimsKept, WorktreeInv, ReclaimsFinal, RowsKept, TypeOK
  <1>4. QED
    BY <1>1, <1>2, <1>3 DEF ReclaimsFinal

\* Reclaiming for a task that has ended takes no worktree another task needs.
LEMMA OwnedReclaimed ==
  ASSUME TypeOK, WorktreeInv, RowsKept, StampsKept,
         NEW t \in Task, Reclaim(t), row[t].status \in Final
  PROVE  WorktreesOwned' /\ WorktreesFresh' /\ KeptUntilFinal'
  <1>1. /\ \A u \in Task : createdWT'[u] = IF u = t THEN None ELSE createdWT[u]
        /\ \A x \in Worktree :
             /\ tree'[x].task = tree[x].task
             /\ x # createdWT[t] => tree'[x] = tree[x]
    BY DEF Reclaim, TypeOK
  <1>2. \A h \in Handler : Unregistered(h) => handler[h].wt \in Worktree
    BY DEF Unregistered, TypeOK, HandlerType
  <1>3. \A u \in Task : /\ row[u].wt # None => row[u].wt \in Worktree
                        /\ createdWT[u] # None => createdWT[u] \in Worktree
    BY DEF TypeOK, RowType
  <1>4. WorktreesOwned'
    <2>1. \A u \in Task : /\ row'[u].wt # None => tree'[row'[u].wt].task = u
                          /\ createdWT'[u] # None => tree'[createdWT'[u]].task = u
      BY <1>1, <1>3 DEF WorktreeInv, WorktreesOwned, RowsKept
    <2>2. \A h \in Handler : Unregistered(h)' =>
            tree'[handler'[h].wt] = [task |-> handler'[h].task, live |-> TRUE]
      BY <1>1, <1>2 DEF WorktreeInv, WorktreesOwned, WorktreesFresh, StampsKept, Unregistered
    <2>3. QED
      BY <2>1, <2>2 DEF WorktreesOwned, Unregistered
  <1>5. WorktreesFresh'
    BY <1>1, <1>2, NoneAssumption DEF WorktreeInv, WorktreesFresh, StampsKept, Unregistered
  <1>6. KeptUntilFinal'
    BY <1>1, <1>3 DEF WorktreeInv, KeptUntilFinal, WorktreesOwned, RowsKept
  <1>7. QED
    BY <1>4, <1>5, <1>6

\* The steps on rows that RowsKept allows.
LEMMA KeptCharged ==
  ASSUME TypeOK, NEW t \in Task, NEW s, row[t].status \notin Final,
         row' = [row EXCEPT ![t] = Charged(@, s)]
  PROVE  RowsKept
  BY DEF RowsKept, Charged, TypeOK, RowType

LEMMA KeptEnded ==
  ASSUME TypeOK, NEW t \in Task, NEW s \in Final, row' = [row EXCEPT ![t] = Ended(@, s)]
  PROVE  RowsKept
  BY DEF RowsKept, Ended, TypeOK, RowType

\* An answered request has nothing on its way.
LEMMA KeptAnswered ==
  ASSUME TypeOK, NEW h \in Handler, NEW client, Answer(h, client)
  PROVE  /\ StampsKept
         /\ \A g \in Handler : handler'[g].pc = "settle" =>
              handler[g].pc = "settle" /\ handler'[g] = handler[g]
  <1>1. \A g \in Handler : handler'[g] = IF g = h THEN FreeHandler ELSE handler[g]
    BY DEF Answer, TypeOK
  <1>2. QED
    BY <1>1 DEF StampsKept, Unregistered, FreeHandler

LEMMA WorktreeInit == Init => WorktreeInv
  BY DEF Init, WorktreeInv, WorktreesOwned, WorktreesFresh, KeptUntilFinal, ReclaimsFinal,
     FreeHandler, IdleSweeper

LEMMA WorktreeStep == TypeOK /\ TypeOK' /\ WorktreeInv /\ [Next]_vars => WorktreeInv'
  <1> SUFFICES ASSUME TypeOK, TypeOK', WorktreeInv, [Next]_vars PROVE WorktreeInv'
    OBVIOUS
  <1>0. ASSUME RowsKept, StampsKept, ReclaimsKept, UNCHANGED <<tree, createdWT>>
        PROVE  WorktreeInv'
    BY <1>0, OwnedKept, FinalKept DEF WorktreeInv
  <1>00. ASSUME UNCHANGED handler
         PROVE  /\ StampsKept
                /\ UNCHANGED <<sweeper, cancelling>> => ReclaimsKept
    BY <1>00 DEF StampsKept, ReclaimsKept, Unregistered
  <1>1. ASSUME NEW t \in Task, Submit(t) PROVE WorktreeInv'
    <2>1. RowsKept
      BY <1>1 DEF Submit, RowsKept, Final, TypeOK, RowType
    <2>2. QED
      BY <1>0, <1>00, <1>1, <2>1 DEF Submit
  <1>2. ASSUME NEW t \in Task, Expire(t) PROVE WorktreeInv'
    <2>1. RowsKept
      BY <1>2 DEF Expire, RowsKept, TypeOK, RowType
    <2>2. QED
      BY <1>0, <1>00, <1>2, <2>1 DEF Expire
  <1>3. ASSUME NEW t \in Task, CancelTask(t) PROVE WorktreeInv'
    <2>1. RowsKept
      BY <1>3, KeptEnded DEF CancelTask, Final
    <2>2. row'[t].status \in Final
      BY <1>3 DEF CancelTask, Ended, Final, TypeOK, RowType
    <2>3. ReclaimsFinal'
      <3>1. \A u \in cancelling' : row'[u].status \in Final
        BY <1>3, <2>1, <2>2 DEF CancelTask, RowsKept, WorktreeInv, ReclaimsFinal, TypeOK
      <3>2. \A h \in Handler : handler'[h].pc = "settle" /\ ~Retries(h)' =>
              row'[handler'[h].task].status \in Final
        BY <1>3, <2>1 DEF CancelTask, RowsKept, WorktreeInv, ReclaimsFinal, Retries, TypeOK, HandlerType
      <3>3. sweeper'.pc = "settle" /\ sweeper'.failed => row'[sweeper'.task].status \in Final
        BY <1>3, <2>1 DEF CancelTask, RowsKept, WorktreeInv, ReclaimsFinal, TypeOK, SweeperType
      <3>4. QED
        BY <3>1, <3>2, <3>3 DEF ReclaimsFinal
    <2>4. QED
      BY <1>00, <1>3, <2>1, <2>3, OwnedKept DEF CancelTask, WorktreeInv
  <1>4. ASSUME NEW t \in Task, ReclaimCancelled(t) PROVE WorktreeInv'
    <2>1. RowsKept /\ StampsKept /\ ReclaimsKept
      BY <1>4 DEF ReclaimCancelled, RowsKept, StampsKept, ReclaimsKept, Unregistered
    <2>2. Reclaim(t) /\ row[t].status \in Final
      BY <1>4 DEF ReclaimCancelled, WorktreeInv, ReclaimsFinal
    <2>3. QED
      BY <2>1, <2>2, OwnedReclaimed, FinalKept DEF WorktreeInv
  <1>5. ASSUME NEW w \in Worker, NEW h \in Handler, RequestClaim(w, h) PROVE WorktreeInv'
    <2>1. RowsKept /\ StampsKept /\ ReclaimsKept
      BY <1>5 DEF RequestClaim, RowsKept, StampsKept, ReclaimsKept, Unregistered, FreeHandler, TypeOK
    <2>2. QED
      BY <1>0, <1>5, <2>1 DEF RequestClaim
  <1>6. ASSUME NEW w \in Worker, NEW h \in Handler, NEW o \in Outcome, RequestResult(w, h, o)
        PROVE  WorktreeInv'
    <2>0. /\ UNCHANGED <<row, sweeper, cancelling>>
          /\ \A g \in Handler : g # h => handler'[g] = handler[g]
          /\ handler'[h] = handler[h] \/ handler'[h].pc = "commit"
      <3>1. CASE Holds(worker[w].task, w)
        BY <1>6, <3>1 DEF RequestResult, FreeHandler, TypeOK
      <3>2. CASE ~Holds(worker[w].task, w)
        BY <1>6, <3>2 DEF RequestResult
      <3>3. QED
        BY <3>1, <3>2
    <2>1. RowsKept /\ StampsKept /\ ReclaimsKept
      BY <2>0 DEF RowsKept, StampsKept, ReclaimsKept, Unregistered
    <2>2. QED
      BY <1>0, <1>6, <2>1 DEF RequestResult
  <1>7. ASSUME NEW h \in Handler, ClaimTask(h) PROVE WorktreeInv'
    <2>1. CASE row[handler[h].task].status = "pending"
      <3>0. handler[h].task \in Task
        BY <1>7 DEF ClaimTask, TypeOK, HandlerType
      <3>1. RowsKept
        <4>1. row' = [row EXCEPT ![handler[h].task] =
                        [row[handler[h].task] EXCEPT !.status = "running",
                                                     !.owner = handler[h].by, !.fresh = TRUE]]
          BY <1>7, <2>1 DEF ClaimTask
        <4>2. /\ row'[handler[h].task].wt = row[handler[h].task].wt
              /\ \A t \in Task : t # handler[h].task => row'[t] = row[t]
          BY <3>0, <4>1, ClaimedRow DEF TypeOK
        <4>3. QED
          BY <2>1, <4>2 DEF RowsKept, Final
      <3>2. StampsKept /\ ReclaimsKept
        <4>0. handler' = [handler EXCEPT ![h] = [handler[h] EXCEPT
                            !.pc = "assign", !.att = row[handler[h].task].attempts]]
          BY <1>7, <2>1 DEF ClaimTask
        <4>1. /\ handler'[h].pc = "assign"
              /\ \A g \in Handler : g # h => handler'[g] = handler[g]
          BY <4>0, HandlerClaims DEF TypeOK
        <4>2. QED
          BY <1>7, <4>1 DEF ClaimTask, StampsKept, ReclaimsKept, Unregistered
      <3>3. QED
        BY <1>0, <1>7, <3>1, <3>2 DEF ClaimTask
    <2>2. CASE row[handler[h].task].status # "pending"
      <3>1. Answer(h, IdleWorker) /\ UNCHANGED <<row, tree, createdWT, sweeper, cancelling>>
        BY <1>7, <2>2 DEF ClaimTask
      <3>2. RowsKept /\ StampsKept /\ ReclaimsKept
        BY <3>1, KeptAnswered DEF RowsKept, ReclaimsKept
      <3>3. QED
        BY <1>0, <3>1, <3>2
    <2>3. QED
      BY <2>1, <2>2
  <1>8. ASSUME NEW h \in Handler, AssignWorktree(h) PROVE WorktreeInv'
    <2>0. UNCHANGED <<row, createdWT, sweeper, cancelling>>
      BY <1>8 DEF AssignWorktree
    <2>1. RowsKept
      BY <2>0 DEF RowsKept
    <2>2. ASSUME handler' = [handler EXCEPT ![h].pc = "reply"], UNCHANGED tree
          PROVE  WorktreeInv'
      <3>1. /\ handler'[h].pc = "reply"
            /\ \A g \in Handler : g # h => handler'[g] = handler[g]
        BY <2>2, HandlerMoves DEF TypeOK
      <3>2. StampsKept /\ ReclaimsKept
        BY <2>0, <3>1 DEF StampsKept, ReclaimsKept, Unregistered
      <3>3. QED
        BY <1>0, <2>0, <2>1, <2>2, <3>2
    <2>3. ASSUME NEW x \in Worktree,
                 tree[x].task = None,
                 tree' = [tree EXCEPT ![x] = [task |-> handler[h].task, live |-> TRUE]],
                 handler' = [handler EXCEPT ![h] = [@ EXCEPT !.pc = "stamp", !.wt = x]]
          PROVE  WorktreeInv'
      <3>1. /\ handler'[h].pc = "stamp" /\ handler'[h].wt = x
            /\ handler'[h].task = handler[h].task
            /\ \A g \in Handler : g # h => handler'[g] = handler[g]
        BY <2>3, HandlerStamps DEF TypeOK
      <3>2. /\ tree'[x] = [task |-> handler[h].task, live |-> TRUE]
            /\ \A y \in Worktree : y # x => tree'[y] = tree[y]
        BY <2>3 DEF TypeOK
      <3>3. ASSUME NEW y \in Worktree, tree[y].task \in Task PROVE y # x
        BY <2>3, <3>3, NoneAssumption
      <3>4. \A t \in Task : /\ row[t].wt # None => row[t].wt \in Worktree /\ row[t].wt # x
                            /\ createdWT[t] # None => createdWT[t] \in Worktree /\ createdWT[t] # x
                            /\ createdWT[t] # x
        <4>1. ASSUME NEW t \in Task, row[t].wt # None PROVE row[t].wt \in Worktree /\ row[t].wt # x
          BY <3>3, <4>1 DEF WorktreeInv, WorktreesOwned, TypeOK, RowType
        <4>2. ASSUME NEW t \in Task, createdWT[t] # None
              PROVE  createdWT[t] \in Worktree /\ createdWT[t] # x
          BY <3>3, <4>2 DEF WorktreeInv, WorktreesOwned, TypeOK
        <4>3. x # None
          BY NoneAssumption
        <4>4. QED
          BY <4>1, <4>2, <4>3
      <3>5. ASSUME NEW g \in Handler, Unregistered(g)
            PROVE  handler[g].wt \in Worktree /\ handler[g].wt # x
        <4>1. handler[g].wt \in Worktree /\ handler[g].task \in Task
          BY <3>5 DEF Unregistered, TypeOK, HandlerType
        <4>2. tree[handler[g].wt] = [task |-> handler[g].task, live |-> TRUE]
          BY <3>5 DEF Unregistered, WorktreeInv, WorktreesOwned
        <4>3. tree[handler[g].wt].task = handler[g].task
          BY <4>2
        <4>4. QED
          BY <3>3, <4>1, <4>3
      <3>6. WorktreesOwned'
        <4>1. ASSUME NEW t \in Task
              PROVE  /\ row'[t].wt # None => tree'[row'[t].wt].task = t
                     /\ createdWT'[t] # None => tree'[createdWT'[t]].task = t
          BY <2>0, <3>2, <3>4 DEF WorktreeInv, WorktreesOwned
        <4>2. ASSUME NEW g \in Handler, Unregistered(g)'
              PROVE  tree'[handler'[g].wt] = [task |-> handler'[g].task, live |-> TRUE]
          <5>1. CASE g = h
            BY <3>1, <3>2, <5>1
          <5>2. CASE g # h
            BY <3>1, <3>2, <3>5, <4>2, <5>2 DEF WorktreeInv, WorktreesOwned, Unregistered
          <5>3. QED
            BY <5>1, <5>2
        <4>3. QED
          BY <4>1, <4>2 DEF WorktreesOwned, Unregistered
      <3>7. WorktreesFresh'
        BY <2>0, <3>1, <3>4, <3>5 DEF WorktreeInv, WorktreesFresh, Unregistered
      <3>8. KeptUntilFinal'
        BY <2>0, <3>2, <3>4 DEF WorktreeInv, KeptUntilFinal
      <3>10. ReclaimsKept
        BY <2>0, <3>1 DEF ReclaimsKept
      <3>11. QED
        BY <2>1, <3>6, <3>7, <3>8, <3>10, FinalKept DEF WorktreeInv
    <2>4. QED
      BY <1>8, <2>2, <2>3 DEF AssignWorktree
  <1>9. ASSUME NEW h \in Handler, SetTaskWorktree(h) PROVE WorktreeInv'
    <2>1. /\ Unregistered(h) /\ handler[h].task \in Task /\ handler[h].wt \in Worktree
          /\ UNCHANGED <<tree, createdWT, sweeper, cancelling>>
      BY <1>9 DEF SetTaskWorktree, Unregistered, TypeOK, HandlerType
    <2>2. /\ row'[handler[h].task].wt = handler[h].wt
          /\ \A t \in Task : /\ row'[t].status = row[t].status
                             /\ t # handler[h].task => row'[t] = row[t]
      BY <1>9, <2>1 DEF SetTaskWorktree, TypeOK, RowType
    <2>3. /\ handler'[h].pc = "register" /\ handler'[h].wt = handler[h].wt
          /\ handler'[h].task = handler[h].task
          /\ \A g \in Handler : g # h => handler'[g] = handler[g]
      BY <1>9, HandlerMoves DEF SetTaskWorktree, TypeOK
    <2>0. tree[handler[h].wt] = [task |-> handler[h].task, live |-> TRUE]
      BY <2>1 DEF WorktreeInv, WorktreesOwned, Unregistered
    <2>4. WorktreesOwned' /\ KeptUntilFinal'
      <3>1. ASSUME NEW t \in Task
            PROVE  /\ row'[t].wt # None => tree'[row'[t].wt].task = t
                   /\ createdWT'[t] # None => tree'[createdWT'[t]].task = t
                   /\ row'[t].status \notin Final /\ row'[t].wt # None => tree'[row'[t].wt].live
        BY <2>0, <2>1, <2>2 DEF WorktreeInv, WorktreesOwned, KeptUntilFinal
      <3>2. \A g \in Handler : Unregistered(g)' =>
              tree'[handler'[g].wt] = [task |-> handler'[g].task, live |-> TRUE]
        BY <2>0, <2>1, <2>3 DEF WorktreeInv, WorktreesOwned, Unregistered
      <3>3. QED
        BY <3>1, <3>2 DEF WorktreesOwned, KeptUntilFinal, Unregistered
    <2>5. WorktreesFresh'
      BY <2>1, <2>3 DEF WorktreeInv, WorktreesFresh, Unregistered
    <2>6. ReclaimsFinal'
      <3>1. ASSUME NEW g \in Handler, handler'[g].pc = "settle", ~Retries(g)'
            PROVE  row'[handler'[g].task].status \in Final
        <4>1. handler'[g] = handler[g] /\ ~Retries(g)
          BY <2>3, <3>1 DEF Retries
        <4>2. handler[g].task \in Task
          BY <3>1, <4>1 DEF TypeOK, HandlerType
        <4>3. QED
          BY <2>2, <3>1, <4>1, <4>2 DEF WorktreeInv, ReclaimsFinal
      <3>2. sweeper'.pc = "settle" /\ sweeper'.failed => row'[sweeper'.task].status \in Final
        BY <2>1, <2>2 DEF WorktreeInv, ReclaimsFinal, TypeOK, SweeperType
      <3>3. \A t \in cancelling' : row'[t].status \in Final
        BY <2>1, <2>2 DEF WorktreeInv, ReclaimsFinal, TypeOK
      <3>4. QED
        BY <3>1, <3>2, <3>3 DEF ReclaimsFinal
    <2>7. QED
      BY <2>4, <2>5, <2>6 DEF WorktreeInv
  <1>10. ASSUME NEW h \in Handler, RegisterWorktree(h) PROVE WorktreeInv'
    <2>1. /\ Unregistered(h) /\ handler[h].task \in Task /\ handler[h].wt \in Worktree
          /\ UNCHANGED <<row, tree, sweeper, cancelling>>
      BY <1>10 DEF RegisterWorktree, Unregistered, TypeOK, HandlerType
    <2>2. /\ handler'[h].pc = "reply"
          /\ \A g \in Handler : g # h => handler'[g] = handler[g]
      BY <1>10, HandlerMoves DEF RegisterWorktree, TypeOK
    <2>3. \A t \in Task :
            createdWT'[t] = IF t = handler[h].task THEN handler[h].wt ELSE createdWT[t]
      BY <1>10, <2>1 DEF RegisterWorktree, TypeOK
    <2>4. WorktreesOwned' /\ KeptUntilFinal'
      <3>1. tree[handler[h].wt] = [task |-> handler[h].task, live |-> TRUE]
        BY <2>1 DEF WorktreeInv, WorktreesOwned, Unregistered
      <3>2. ASSUME NEW t \in Task
            PROVE  /\ row'[t].wt # None => tree'[row'[t].wt].task = t
                   /\ createdWT'[t] # None => tree'[createdWT'[t]].task = t
        BY <2>1, <2>3, <3>1 DEF WorktreeInv, WorktreesOwned
      <3>3. \A g \in Handler : Unregistered(g)' =>
              tree'[handler'[g].wt] = [task |-> handler'[g].task, live |-> TRUE]
        BY <2>1, <2>2 DEF WorktreeInv, WorktreesOwned, Unregistered
      <3>4. QED
        BY <2>1, <3>2, <3>3 DEF WorktreeInv, WorktreesOwned, KeptUntilFinal, Unregistered
    <2>5. WorktreesFresh'
      BY <2>1, <2>2, <2>3 DEF WorktreeInv, WorktreesFresh, Unregistered
    <2>6. ReclaimsKept /\ RowsKept
      BY <2>1, <2>2 DEF ReclaimsKept, RowsKept
    <2>7. QED
      BY <2>4, <2>5, <2>6, FinalKept DEF WorktreeInv
  <1>11. ASSUME NEW h \in Handler, ReplyClaim(h) PROVE WorktreeInv'
    <2>1. RowsKept /\ StampsKept /\ ReclaimsKept
      BY <1>11, KeptAnswered DEF ReplyClaim, RowsKept, ReclaimsKept
    <2>2. QED
      BY <1>0, <1>11, <2>1 DEF ReplyClaim
  <1>12. ASSUME NEW h \in Handler, CommitResult(h) PROVE WorktreeInv'
    <2>1. CASE ~Holds(handler[h].task, handler[h].by)
      <3>1. Answer(h, IdleWorker) /\ UNCHANGED <<row, tree, createdWT, sweeper, cancelling>>
        BY <1>12, <2>1 DEF CommitResult
      <3>2. RowsKept /\ StampsKept /\ ReclaimsKept
        BY <3>1, KeptAnswered DEF RowsKept, ReclaimsKept
      <3>3. QED
        BY <1>0, <3>1, <3>2
    <2>2. CASE Holds(handler[h].task, handler[h].by)
      <3>1. /\ handler[h].task \in Task /\ handler[h].outcome \in Final
            /\ handler[h].pc = "commit"
            /\ row[handler[h].task].status \notin Final
        BY <1>12, <2>2, OutcomeAssumption
           DEF CommitResult, TypeOK, HandlerType, Final, Holds
      <3>2. /\ handler' = [handler EXCEPT ![h].pc = "settle"]
            /\ UNCHANGED <<tree, createdWT, sweeper, cancelling>>
        BY <1>12, <2>2 DEF CommitResult
      <3>3. /\ handler'[h].pc = "settle" /\ handler'[h].task = handler[h].task
            /\ handler'[h].outcome = handler[h].outcome /\ handler'[h].att = handler[h].att
            /\ \A g \in Handler : g # h => handler'[g] = handler[g]
        BY <3>2, HandlerMoves DEF TypeOK
      <3>4. RowsKept /\ (~Retries(h) => row'[handler[h].task].status \in Final)
        <4>1. CASE Retries(h)
          BY <1>12, <2>2, <3>1, <4>1, KeptCharged DEF CommitResult, RequeueTask
        <4>2. CASE ~Retries(h)
          <5>1. row' = [row EXCEPT ![handler[h].task] =
                          Ended(row[handler[h].task], handler[h].outcome)]
            BY <1>12, <2>2, <4>2 DEF CommitResult, FinalizeTask
          <5>2. row'[handler[h].task].status = handler[h].outcome
            BY <3>1, <5>1 DEF Ended, TypeOK, RowType
          <5>3. QED
            BY <3>1, <5>1, <5>2, KeptEnded
        <4>3. QED
          BY <4>1, <4>2
      <3>5. StampsKept
        BY <3>3 DEF StampsKept, Unregistered
      <3>6. ReclaimsFinal'
        BY <3>1, <3>2, <3>3, <3>4
           DEF WorktreeInv, ReclaimsFinal, RowsKept, Retries, TypeOK, HandlerType, SweeperType
      <3>7. QED
        BY <3>2, <3>4, <3>5, <3>6, OwnedKept DEF WorktreeInv
    <2>3. QED
      BY <2>1, <2>2
  <1>13. ASSUME NEW h \in Handler, SettleResult(h) PROVE WorktreeInv'
    <2>1. RowsKept /\ StampsKept /\ ReclaimsKept
      BY <1>13, KeptAnswered DEF SettleResult, RowsKept, ReclaimsKept
    <2>2. CASE Retries(h)
      BY <1>0, <1>13, <2>1, <2>2 DEF SettleResult
    <2>3. CASE ~Retries(h)
      <3>1. /\ handler[h].task \in Task /\ row[handler[h].task].status \in Final
            /\ Reclaim(handler[h].task)
        BY <1>13, <2>3 DEF SettleResult, WorktreeInv, ReclaimsFinal, TypeOK, HandlerType
      <3>2. QED
        BY <2>1, <3>1, OwnedReclaimed, FinalKept DEF WorktreeInv
    <2>4. QED
      BY <2>2, <2>3
  <1>14. ASSUME NEW w \in Worker, Heartbeat(w) PROVE WorktreeInv'
    <2>1. RowsKept
      BY <1>14 DEF Heartbeat, RowsKept, TypeOK, RowType
    <2>2. QED
      BY <1>0, <1>00, <1>14, <2>1 DEF Heartbeat
  <1>15. ASSUME NEW w \in Worker, Abandon(w) \/ CrashWorker(w) PROVE WorktreeInv'
    BY <1>0, <1>00, <1>15 DEF Abandon, CrashWorker, RowsKept
  <1>16. CASE BeginSweep
    <2>1. RowsKept /\ StampsKept /\ ReclaimsKept
      BY <1>16 DEF BeginSweep, RowsKept, StampsKept, ReclaimsKept, Unregistered, TypeOK, SweeperType
    <2>2. QED
      BY <1>0, <1>16, <2>1 DEF BeginSweep
  <1>17. ASSUME NEW t \in Task, RequeueStaleTask(t) PROVE WorktreeInv'
    <2>1. ReclaimsKept /\ StampsKept
      <3>1. UNCHANGED <<handler, cancelling>>
        BY <1>17 DEF RequeueStaleTask
      <3>2. sweeper'.pc # "settle"
        <4>1. CASE t \in Stale
          BY <1>17, <4>1 DEF RequeueStaleTask, TypeOK, SweeperType
        <4>2. CASE t \notin Stale
          <5>1. sweeper' = Proceed(sweeper.todo \ {t})
            BY <1>17, <4>2 DEF RequeueStaleTask
          <5>2. Proceed(sweeper.todo \ {t}).pc \in {"idle", "scan"}
            BY DEF Proceed, IdleSweeper
          <5>3. QED
            BY <5>1, <5>2
        <4>3. QED
          BY <4>1, <4>2
      <3>3. QED
        BY <3>1, <3>2 DEF ReclaimsKept, StampsKept, Unregistered
    <2>2. RowsKept
      <3>1. CASE t \in Stale
        BY <1>17, <3>1, KeptCharged DEF RequeueStaleTask, Stale, Final
      <3>2. CASE t \notin Stale
        BY <1>17, <3>2 DEF RequeueStaleTask, RowsKept
      <3>3. QED
        BY <3>1, <3>2
    <2>3. QED
      BY <1>0, <1>17, <2>1, <2>2 DEF RequeueStaleTask
  <1>18. CASE ReadSwept
    <2>1. /\ sweeper'.task = sweeper.task /\ sweeper.task \in Task
          /\ sweeper'.failed = (row[sweeper.task].status = "failed")
      BY <1>18 DEF ReadSwept, TypeOK, SweeperType
    <2>2. UNCHANGED <<row, tree, createdWT, handler, cancelling>>
      BY <1>18 DEF ReadSwept
    <2>3. ReclaimsFinal'
      BY <2>1, <2>2 DEF WorktreeInv, ReclaimsFinal, Retries, Final
    <2>4. QED
      BY <1>00, <2>2, <2>3, OwnedKept DEF WorktreeInv, RowsKept
  <1>19. CASE SettleSwept
    <2>1. RowsKept /\ StampsKept /\ ReclaimsKept
      BY <1>19 DEF SettleSwept, RowsKept, StampsKept, ReclaimsKept, Unregistered, Proceed, IdleSweeper
    <2>2. CASE ~sweeper.failed
      BY <1>0, <1>19, <2>1, <2>2 DEF SettleSwept
    <2>3. CASE sweeper.failed
      <3>1. sweeper.task \in Task /\ row[sweeper.task].status \in Final /\ Reclaim(sweeper.task)
        BY <1>19, <2>3 DEF SettleSwept, WorktreeInv, ReclaimsFinal, TypeOK, SweeperType
      <3>2. QED
        BY <2>1, <3>1, OwnedReclaimed, FinalKept DEF WorktreeInv
    <2>4. QED
      BY <2>2, <2>3
  <1>20. CASE Restart
    <2>1. RowsKept /\ StampsKept /\ ReclaimsKept
      BY <1>20 DEF Restart, RowsKept, StampsKept, ReclaimsKept, Unregistered, FreeHandler, IdleSweeper
    <2>2. WorktreesOwned' /\ WorktreesFresh' /\ KeptUntilFinal'
      BY <1>20, NoneAssumption
         DEF Restart, WorktreeInv, WorktreesOwned, WorktreesFresh, KeptUntilFinal, FreeHandler
    <2>3. QED
      BY <2>1, <2>2, FinalKept DEF WorktreeInv
  <1>21. CASE UNCHANGED vars
    BY <1>0, <1>00, <1>21 DEF vars, RowsKept
  <1>22. QED
    BY <1>1, <1>2, <1>3, <1>4, <1>5, <1>6, <1>7, <1>8, <1>9, <1>10, <1>11, <1>12, <1>13,
       <1>14, <1>15, <1>16, <1>17, <1>18, <1>19, <1>20, <1>21
       DEF Next, ClaimStep, ResultStep, SweepStep

\* No worktree is removed under a task that is queued or running, however
\* claims, results, sweeps, cancellations and restarts interleave.
THEOREM WorktreesAreKept == Spec => []WorktreeKept
  <1>1. TypeOK /\ WorktreeInv => WorktreeKept
    <2> SUFFICES ASSUME TypeOK, WorktreeInv, NEW t \in Task,
                        row[t].status \in {"pending", "running"}, row[t].wt # None
                 PROVE  tree[row[t].wt] = [task |-> t, live |-> TRUE]
      BY DEF WorktreeKept
    <2>1. row[t].wt \in Worktree /\ row[t].status \notin Final
      BY DEF TypeOK, RowType, Final
    <2>2. tree[row[t].wt] \in [task: Task \cup {None}, live: BOOLEAN]
      BY <2>1 DEF TypeOK
    <2>3. tree[row[t].wt].task = t /\ tree[row[t].wt].live = TRUE
      BY <2>1, <2>2 DEF WorktreeInv, WorktreesOwned, KeptUntilFinal
    <2>4. QED
      BY <2>2, <2>3
  <1>2. QED
    BY <1>1, TypeCorrect, WorktreeInit, WorktreeStep, PTL DEF Spec

-----------------------------------------------------------------------------
(* The retry budget.                                                       *)

\* A request that goes on for its owner's sake: it will answer a claim, or it
\* is about to decide on the attempts it read.
Deciding(h) == Claiming(h) \/ handler[h].pc = "commit"

\* Nobody comes to hold a task, and the tasks held keep their attempts.
NoNewHolds ==
  \A t \in Task, w \in Worker :
    Holds(t, w)' => Holds(t, w) /\ row'[t].attempts = row[t].attempts

\* No request and no worker comes to speak for an attempt.
NoNewOwners ==
  /\ \A h \in Handler : Deciding(h)' =>
       /\ Deciding(h)
       /\ handler'[h].by = handler[h].by
       /\ handler'[h].task = handler[h].task
       /\ handler'[h].att = handler[h].att
  /\ \A w \in Worker : worker'[w].task # None =>
       worker'[w].task = worker[w].task /\ worker'[w].att = worker[w].att

\* Nothing is charged and nothing that has ended runs again.
NothingCharged ==
  \A t \in Task :
    /\ row'[t].attempts = row[t].attempts
    /\ row'[t].status \in {"pending", "running"} =>
         row[t].status \in {"absent", "pending", "running"}
    /\ row'[t].status = "absent" => row[t].status = "absent"

LEMMA OwnersKept ==
  ASSUME TypeOK, OwnersCurrent, NoNewHolds, NoNewOwners
  PROVE  OwnersCurrent'
  <1>1. ASSUME NEW h \in Handler, Deciding(h)', Holds(handler[h].task, handler[h].by)'
        PROVE  handler'[h].att = row'[handler'[h].task].attempts
    <2>1. /\ Deciding(h)
          /\ handler'[h].by = handler[h].by
          /\ handler'[h].task = handler[h].task
          /\ handler'[h].att = handler[h].att
      BY <1>1 DEF NoNewOwners
    <2>2. handler[h].task \in Task /\ handler[h].by \in Worker
      BY <2>1 DEF Deciding, Claiming, TypeOK, HandlerType
    <2>3. /\ Holds(handler[h].task, handler[h].by)
          /\ row'[handler[h].task].attempts = row[handler[h].task].attempts
      BY <1>1, <2>1, <2>2 DEF NoNewHolds, Holds
    <2>4. QED
      BY <2>1, <2>2, <2>3 DEF OwnersCurrent, Deciding
  <1>2. ASSUME NEW w \in Worker, worker'[w].task # None, Holds(worker[w].task, w)'
        PROVE  worker'[w].att = row'[worker'[w].task].attempts
    <2>1. worker'[w].task = worker[w].task /\ worker'[w].att = worker[w].att
      BY <1>2 DEF NoNewOwners
    <2>2. worker[w].task \in Task
      BY <1>2, <2>1, ClientTypes
    <2>3. /\ Holds(worker[w].task, w)
          /\ row'[worker[w].task].attempts = row[worker[w].task].attempts
      BY <1>2, <2>1, <2>2 DEF NoNewHolds, Holds
    <2>4. QED
      BY <1>2, <2>1, <2>3 DEF OwnersCurrent
  <1>3. QED
    BY <1>1, <1>2 DEF OwnersCurrent, Deciding, Claiming, Holds

LEMMA BudgetKept ==
  ASSUME TypeOK, WithinBudget, NothingCharged
  PROVE  WithinBudget'
  BY MaxRetriesAssumption DEF WithinBudget, NothingCharged, TypeOK, RowType

\* A waiting worker is the one its request is by.
LEMMA OwnRequest ==
  ASSUME TypeOK, ClientsMatch, NEW w \in Worker, NEW h \in Handler, worker[w].handler = h
  PROVE  handler[h].by = w /\ handler[h].pc # "free"
  BY ClientTypes DEF ClientsMatch

\* Answering a request takes no other client away.
LEMMA AnswerPresent ==
  ASSUME TypeOK, ClientsPresent, NEW h \in Handler, NEW client, Answer(h, client)
  PROVE  /\ ClientsPresent'
         /\ \A g \in Handler : handler'[g] = IF g = h THEN FreeHandler ELSE handler[g]
         /\ \A w \in Worker : worker'[w] = IF worker[w].handler = h THEN client ELSE worker[w]
  <1>1. \A g \in Handler : handler'[g] = IF g = h THEN FreeHandler ELSE handler[g]
    BY DEF Answer, TypeOK
  <1>2. \A w \in Worker : worker'[w] = IF worker[w].handler = h THEN client ELSE worker[w]
    BY DEF Answer
  <1>3. ASSUME NEW g \in Handler, handler'[g].pc # "free"
        PROVE  worker'[handler'[g].by].handler = g
    <2>1. g # h /\ handler'[g] = handler[g] /\ handler[g].pc # "free"
      BY <1>1, <1>3 DEF FreeHandler
    <2>2. handler[g].by \in Worker /\ worker[handler[g].by].handler = g
      BY <2>1 DEF ClientsPresent, TypeOK, HandlerType
    <2>3. QED
      BY <1>2, <2>1, <2>2
  <1>4. QED
    BY <1>1, <1>2, <1>3 DEF ClientsPresent

LEMMA AnswerNoOwners ==
  ASSUME TypeOK, ClientsPresent, NEW h \in Handler, Answer(h, IdleWorker)
  PROVE  ClientsPresent' /\ NoNewOwners
  BY AnswerPresent DEF NoNewOwners, Deciding, Claiming, FreeHandler, IdleWorker

\* What the statements on the table leave within the budget.
LEMMA HoldsCharged ==
  ASSUME TypeOK, NEW t \in Task, NEW s, s # "running",
         row' = [row EXCEPT ![t] = Charged(@, s)]
  PROVE  NoNewHolds
  BY DEF NoNewHolds, Holds, Charged, TypeOK, RowType

LEMMA ChargedAgain ==
  ASSUME TypeOK, WithinBudget, NEW t \in Task, row[t].attempts < MaxRetries,
         row' = [row EXCEPT ![t] = Charged(@, "pending")]
  PROVE  WithinBudget'
  <1>1. /\ row'[t].status = "pending" /\ row'[t].attempts = row[t].attempts + 1
        /\ \A u \in Task : u # t => row'[u] = row[u]
    BY DEF Charged, TypeOK, RowType
  <1>2. row[t].attempts \in Nat
    BY DEF TypeOK, RowType
  <1>3. QED
    BY <1>1, <1>2, MaxRetriesAssumption DEF WithinBudget

LEMMA ChargedLast ==
  ASSUME TypeOK, WithinBudget, NEW t \in Task, row[t].status = "running",
         row' = [row EXCEPT ![t] = Charged(@, "failed")]
  PROVE  WithinBudget'
  <1>1. /\ row'[t].status = "failed" /\ row'[t].attempts = row[t].attempts + 1
        /\ \A u \in Task : u # t => row'[u] = row[u]
    BY DEF Charged, TypeOK, RowType
  <1>2. row[t].attempts \in Nat /\ row[t].attempts <= MaxRetries
    BY DEF WithinBudget, TypeOK, RowType
  <1>3. QED
    BY <1>1, <1>2, MaxRetriesAssumption DEF WithinBudget

LEMMA HoldsEnded ==
  ASSUME TypeOK, NEW t \in Task, NEW s \in Final, row' = [row EXCEPT ![t] = Ended(@, s)]
  PROVE  NoNewHolds /\ NothingCharged
  BY DEF NoNewHolds, NothingCharged, Holds, Ended, Final, TypeOK, RowType

LEMMA HoldsSame ==
  ASSUME TypeOK, \A t \in Task : /\ row'[t].attempts = row[t].attempts
                                  /\ row'[t].status = row[t].status
                                  /\ row'[t].owner = row[t].owner
  PROVE  NoNewHolds /\ NothingCharged
  BY DEF NoNewHolds, NothingCharged, Holds, TypeOK, RowType

BudgetParts == ClientsPresent /\ OwnersCurrent /\ WithinBudget

LEMMA BudgetStep == TypeOK /\ TypeOK' /\ ClientsMatch /\ BudgetInv /\ [Next]_vars => BudgetInv'
  <1> SUFFICES ASSUME TypeOK, TypeOK', ClientsMatch, BudgetInv, [Next]_vars, abandoned' = 0
               PROVE  BudgetParts'
    BY DEF BudgetInv, BudgetParts
  <1>0. ASSUME abandoned = 0 PROVE ClientsPresent /\ OwnersCurrent /\ WithinBudget
    BY <1>0 DEF BudgetInv
  <1>00. ASSUME abandoned = 0, ClientsPresent', NoNewHolds, NoNewOwners, NothingCharged
         PROVE  BudgetParts'
    BY <1>0, <1>00, OwnersKept, BudgetKept DEF BudgetParts
  <1>000. ASSUME abandoned = 0, UNCHANGED <<handler, worker>>
          PROVE  ClientsPresent' /\ NoNewOwners
    BY <1>0, <1>000 DEF ClientsPresent, NoNewOwners, Deciding, Claiming
  <1>1. ASSUME NEW t \in Task, Submit(t) PROVE BudgetParts'
    <2>1. NoNewHolds /\ NothingCharged
      BY <1>1 DEF Submit, NoNewHolds, NothingCharged, Holds, TypeOK, RowType
    <2>2. QED
      BY <1>00, <1>000, <1>1, <2>1 DEF Submit
  <1>2. ASSUME NEW t \in Task, Expire(t) PROVE BudgetParts'
    <2>1. NoNewHolds /\ NothingCharged
      BY <1>2, HoldsSame DEF Expire, TypeOK, RowType
    <2>2. QED
      BY <1>00, <1>000, <1>2, <2>1 DEF Expire
  <1>3. ASSUME NEW t \in Task, CancelTask(t) PROVE BudgetParts'
    <2>1. NoNewHolds /\ NothingCharged
      BY <1>3, HoldsEnded DEF CancelTask, Final
    <2>2. QED
      BY <1>00, <1>000, <1>3, <2>1 DEF CancelTask
  <1>4. ASSUME NEW t \in Task, ReclaimCancelled(t) PROVE BudgetParts'
    BY <1>00, <1>000, <1>4, HoldsSame DEF ReclaimCancelled
  <1>5. ASSUME NEW w \in Worker, NEW h \in Handler, RequestClaim(w, h) PROVE BudgetParts'
    <2>1. PICK t \in Task :
            handler' = [handler EXCEPT ![h] =
                          [FreeHandler EXCEPT !.pc = "claim", !.by = w, !.task = t]]
      BY <1>5 DEF RequestClaim
    <2>2. /\ handler'[h].pc = "claim" /\ handler'[h].by = w
          /\ \A g \in Handler : g # h => handler'[g] = handler[g]
      BY <2>1 DEF FreeHandler, TypeOK
    <2>3. /\ worker'[w].handler = h
          /\ worker'[w].task = worker[w].task /\ worker'[w].att = worker[w].att
          /\ \A v \in Worker : v # w => worker'[v] = worker[v]
      BY <1>5, WorkerUpdate DEF RequestClaim, TypeOK
    <2>4. worker[w].handler = None /\ None \notin Handler
      BY <1>5, ClientTypes, NoneAssumption DEF RequestClaim
    <2>5. abandoned = 0 /\ UNCHANGED row
      BY <1>5 DEF RequestClaim
    <2>6. ClientsPresent'
      <3>1. ASSUME NEW g \in Handler, handler'[g].pc # "free"
            PROVE  worker'[handler'[g].by].handler = g
        <4>1. CASE g = h
          BY <2>2, <2>3, <4>1
        <4>2. CASE g # h
          <5>1. handler'[g] = handler[g] /\ worker[handler[g].by].handler = g
            BY <1>0, <2>2, <2>5, <3>1, <4>2 DEF ClientsPresent
          <5>2. handler[g].by \in Worker /\ handler[g].by # w
            BY <2>4, <3>1, <5>1 DEF TypeOK, HandlerType
          <5>3. QED
            BY <2>3, <5>1, <5>2
        <4>3. QED
          BY <4>1, <4>2
      <3>2. QED
        BY <3>1 DEF ClientsPresent
    <2>7. NoNewOwners
      BY <2>2, <2>3 DEF NoNewOwners, Deciding, Claiming
    <2>8. QED
      BY <1>00, <2>5, <2>6, <2>7, HoldsSame
  <1>6. ASSUME NEW w \in Worker, NEW h \in Handler, NEW o \in Outcome, RequestResult(w, h, o)
        PROVE  BudgetParts'
    <2>1. abandoned = 0 /\ UNCHANGED row /\ worker[w].handler = None /\ None \notin Handler
          /\ worker[w].task \in Task
      BY <1>6, ClientTypes, NoneAssumption DEF RequestResult
    <2>2. CASE ~Holds(worker[w].task, w)
      <3>1. handler' = handler /\ \A v \in Worker :
               worker'[v] = IF v = w THEN IdleWorker ELSE worker[v]
        BY <1>6, <2>2 DEF RequestResult, TypeOK
      <3>2. ClientsPresent'
        <4>1. ASSUME NEW g \in Handler, handler[g].pc # "free"
              PROVE  worker'[handler[g].by].handler = g
          <5>1. worker[handler[g].by].handler = g /\ handler[g].by \in Worker
            BY <1>0, <2>1, <4>1 DEF ClientsPresent, TypeOK, HandlerType
          <5>2. QED
            BY <2>1, <3>1, <5>1
        <4>2. QED
          BY <3>1, <4>1 DEF ClientsPresent
      <3>3. NoNewOwners
        BY <3>1 DEF NoNewOwners, Deciding, Claiming, IdleWorker
      <3>4. QED
        BY <1>00, <2>1, <3>2, <3>3, HoldsSame
    <2>3. CASE Holds(worker[w].task, w)
      <3>1. handler' = [handler EXCEPT ![h] =
              [FreeHandler EXCEPT !.pc = "commit", !.by = w, !.task = worker[w].task,
                                  !.att = row[worker[w].task].attempts, !.outcome = o]]
        BY <1>6, <2>3 DEF RequestResult
      <3>2. /\ handler'[h].pc = "commit" /\ handler'[h].by = w
            /\ handler'[h].task = worker[w].task
            /\ handler'[h].att = row[worker[w].task].attempts
            /\ \A g \in Handler : g # h => handler'[g] = handler[g]
        BY <3>1 DEF FreeHandler, TypeOK
      <3>3. /\ worker'[w].handler = h
            /\ worker'[w].task = worker[w].task /\ worker'[w].att = worker[w].att
            /\ \A v \in Worker : v # w => worker'[v] = worker[v]
        <4>1. worker' = [worker EXCEPT ![w] =
                           [worker[w] EXCEPT !.pc = "reporting", !.handler = h]]
          BY <1>6, <2>3 DEF RequestResult
        <4>2. QED
          BY <4>1, WorkerUpdate DEF TypeOK
      <3>4. ClientsPresent'
        <4>1. ASSUME NEW g \in Handler, g # h, handler'[g].pc # "free"
              PROVE  worker'[handler'[g].by].handler = g
          <5>1. handler'[g] = handler[g] /\ worker[handler[g].by].handler = g
            BY <1>0, <2>1, <3>2, <4>1 DEF ClientsPresent
          <5>2. handler[g].by \in Worker /\ handler[g].by # w
            BY <2>1, <4>1, <5>1 DEF TypeOK, HandlerType
          <5>3. QED
            BY <3>3, <5>1, <5>2
        <4>2. QED
          BY <3>2, <3>3, <4>1 DEF ClientsPresent
      <3>5. OwnersCurrent'
        <4>1. ASSUME NEW g \in Handler, Deciding(g)', Holds(handler[g].task, handler[g].by)'
              PROVE  handler'[g].att = row'[handler'[g].task].attempts
          <5>1. CASE g = h
            BY <2>1, <3>2, <5>1
          <5>2. CASE g # h
            BY <1>0, <2>1, <3>2, <4>1, <5>2 DEF OwnersCurrent, Deciding, Claiming, Holds
          <5>3. QED
            BY <5>1, <5>2
        <4>2. ASSUME NEW v \in Worker, worker'[v].task # None, Holds(worker[v].task, v)'
              PROVE  worker'[v].att = row'[worker'[v].task].attempts
          BY <1>0, <2>1, <3>3, <4>2 DEF OwnersCurrent, Holds
        <4>3. QED
          BY <4>1, <4>2 DEF OwnersCurrent, Deciding, Claiming, Holds
      <3>6. QED
        BY <1>0, <2>1, <3>4, <3>5, BudgetKept, HoldsSame DEF BudgetParts
    <2>4. QED
      BY <2>2, <2>3
  <1>7. ASSUME NEW h \in Handler, ClaimTask(h) PROVE BudgetParts'
    <2>1. abandoned = 0 /\ handler[h].pc = "claim" /\ handler[h].task \in Task
          /\ handler[h].by \in Worker
      BY <1>7 DEF ClaimTask, TypeOK, HandlerType
    <2>2. CASE row[handler[h].task].status # "pending"
      <3>1. Answer(h, IdleWorker) /\ UNCHANGED row
        BY <1>7, <2>2 DEF ClaimTask
      <3>2. QED
        BY <1>0, <1>00, <2>1, <3>1, AnswerNoOwners, HoldsSame
    <2>3. CASE row[handler[h].task].status = "pending"
      <3>1. /\ row' = [row EXCEPT ![handler[h].task] =
                         [row[handler[h].task] EXCEPT !.status = "running",
                                                      !.owner = handler[h].by, !.fresh = TRUE]]
            /\ handler' = [handler EXCEPT ![h] = [handler[h] EXCEPT
                             !.pc = "assign", !.att = row[handler[h].task].attempts]]
            /\ UNCHANGED worker
        BY <1>7, <2>3 DEF ClaimTask
      <3>2. /\ row'[handler[h].task].status = "running"
            /\ row'[handler[h].task].owner = handler[h].by
            /\ row'[handler[h].task].attempts = row[handler[h].task].attempts
            /\ \A t \in Task : t # handler[h].task => row'[t] = row[t]
        BY <2>1, <3>1, ClaimedRow DEF TypeOK
      <3>3. /\ handler'[h].pc = "assign" /\ handler'[h].by = handler[h].by
            /\ handler'[h].task = handler[h].task
            /\ handler'[h].att = row[handler[h].task].attempts
            /\ \A g \in Handler : g # h => handler'[g] = handler[g]
        BY <3>1, HandlerClaims DEF TypeOK
      <3>4. ClientsPresent'
        BY <1>0, <2>1, <3>1, <3>3 DEF ClientsPresent
      <3>5. NothingCharged
        BY <2>3, <3>2 DEF NothingCharged
      \* The owner it becomes waits for this request, so it has no other and no task.
      <3>6. \A g \in Handler : g # h /\ handler[g].pc # "free" => handler[g].by # handler[h].by
        BY <1>0, <2>1 DEF ClientsPresent
      <3>7. worker[handler[h].by].task = None
        <4>1. worker[handler[h].by].handler = h
          BY <1>0, <2>1 DEF ClientsPresent
        <4>2. worker[handler[h].by].pc = "claiming"
          BY <2>1, <4>1, ClientTypes DEF ClientsMatch
        <4>3. QED
          BY <2>1, <4>2, ClientTypes
      <3>8. OwnersCurrent'
        <4>1. ASSUME NEW g \in Handler, Deciding(g)', Holds(handler[g].task, handler[g].by)'
              PROVE  handler'[g].att = row'[handler'[g].task].attempts
          <5>1. CASE g = h
            BY <3>2, <3>3, <5>1
          <5>2. CASE g # h
            <6>1. /\ handler'[g] = handler[g] /\ Deciding(g)
                  /\ handler[g].task \in Task /\ handler[g].by # handler[h].by
              BY <3>3, <3>6, <4>1, <5>2 DEF Deciding, Claiming, TypeOK, HandlerType
            <6>2. handler[g].task # handler[h].task
              BY <3>2, <4>1, <6>1 DEF Holds
            <6>3. QED
              BY <1>0, <2>1, <3>2, <4>1, <6>1, <6>2 DEF OwnersCurrent, Deciding, Holds
          <5>3. QED
            BY <5>1, <5>2
        <4>2. ASSUME NEW v \in Worker, worker[v].task # None, Holds(worker[v].task, v)'
              PROVE  worker[v].att = row'[worker[v].task].attempts
          <5>1. worker[v].task \in Task /\ v # handler[h].by
            BY <3>7, <4>2, ClientTypes
          <5>2. worker[v].task # handler[h].task
            BY <3>1, <3>2, <4>2, <5>1 DEF Holds
          <5>3. QED
            BY <1>0, <2>1, <3>1, <3>2, <4>2, <5>1, <5>2 DEF OwnersCurrent, Holds
        <4>3. QED
          BY <3>1, <4>1, <4>2 DEF OwnersCurrent, Deciding, Claiming, Holds
      <3>9. QED
        BY <1>0, <2>1, <3>4, <3>5, <3>8, BudgetKept DEF BudgetParts
    <2>4. QED
      BY <2>2, <2>3
  <1>8. ASSUME NEW h \in Handler, AssignWorktree(h) \/ SetTaskWorktree(h) \/ RegisterWorktree(h)
        PROVE  BudgetParts'
    <2>1. /\ handler[h].pc \in {"assign", "stamp", "register"}
          /\ abandoned = 0 /\ UNCHANGED worker
      BY <1>8 DEF AssignWorktree, SetTaskWorktree, RegisterWorktree
    <2>2. /\ handler'[h].pc \in {"stamp", "register", "reply"}
          /\ handler'[h].by = handler[h].by /\ handler'[h].task = handler[h].task
          /\ handler'[h].att = handler[h].att
          /\ \A g \in Handler : g # h => handler'[g] = handler[g]
      <3>1. CASE handler' = [handler EXCEPT ![h].pc = "reply"]
        BY <3>1, HandlerMoves DEF TypeOK
      <3>2. ASSUME NEW x \in Worktree,
                   handler' = [handler EXCEPT ![h] = [handler[h] EXCEPT !.pc = "stamp", !.wt = x]]
            PROVE  /\ handler'[h].pc = "stamp"
                   /\ handler'[h].by = handler[h].by /\ handler'[h].task = handler[h].task
                   /\ handler'[h].att = handler[h].att
                   /\ \A g \in Handler : g # h => handler'[g] = handler[g]
        BY <3>2, HandlerStamps DEF TypeOK
      <3>3. CASE handler' = [handler EXCEPT ![h].pc = "register"]
        BY <3>3, HandlerMoves DEF TypeOK
      <3>4. QED
        BY <1>8, <3>1, <3>2, <3>3 DEF AssignWorktree, SetTaskWorktree, RegisterWorktree
    <2>3. ClientsPresent'
      BY <1>0, <2>1, <2>2 DEF ClientsPresent
    <2>4. NoNewOwners
      BY <2>1, <2>2 DEF NoNewOwners, Deciding, Claiming
    <2>5. NoNewHolds /\ NothingCharged
      <3>1. CASE UNCHANGED row
        BY <3>1, HoldsSame
      <3>2. CASE row' = [row EXCEPT ![handler[h].task].wt = handler[h].wt]
        BY <3>2, HoldsSame DEF TypeOK, RowType
      <3>3. QED
        BY <1>8, <3>1, <3>2 DEF AssignWorktree, SetTaskWorktree, RegisterWorktree
    <2>6. QED
      BY <1>00, <2>1, <2>3, <2>4, <2>5
  <1>9. ASSUME NEW h \in Handler, ReplyClaim(h) PROVE BudgetParts'
    <2>1. /\ abandoned = 0 /\ UNCHANGED row /\ Claiming(h)
          /\ handler[h].task \in Task /\ handler[h].att \in Nat
      BY <1>9 DEF ReplyClaim, Claiming, TypeOK, HandlerType
    <2> DEFINE c == [IdleWorker EXCEPT !.pc = "running", !.task = handler[h].task,
                                       !.att = handler[h].att]
    <2>2. Answer(h, c) /\ c.task = handler[h].task /\ c.att = handler[h].att
      BY <1>9 DEF ReplyClaim, IdleWorker
    <2> HIDE DEF c
    <2>3. /\ ClientsPresent'
          /\ \A g \in Handler : handler'[g] = IF g = h THEN FreeHandler ELSE handler[g]
          /\ \A w \in Worker : worker'[w] = IF worker[w].handler = h THEN c ELSE worker[w]
      BY <1>0, <2>1, <2>2, AnswerPresent
    <2>4. OwnersCurrent'
      <3>1. ASSUME NEW g \in Handler, Deciding(g)', Holds(handler[g].task, handler[g].by)'
            PROVE  handler'[g].att = row'[handler'[g].task].attempts
        <4>1. g # h /\ handler'[g] = handler[g]
          BY <2>3, <3>1 DEF Deciding, Claiming, FreeHandler
        <4>2. QED
          BY <1>0, <2>1, <3>1, <4>1 DEF OwnersCurrent, Deciding, Claiming, Holds
      <3>2. ASSUME NEW v \in Worker, worker'[v].task # None, Holds(worker[v].task, v)'
            PROVE  worker'[v].att = row'[worker'[v].task].attempts
        <4>1. CASE worker[v].handler = h
          <5>1. handler[h].by = v /\ worker'[v] = c
            BY <2>3, <4>1, OwnRequest
          <5>2. Holds(handler[h].task, handler[h].by)
            BY <2>1, <2>2, <3>2, <5>1 DEF Holds
          <5>3. QED
            BY <1>0, <2>1, <2>2, <5>1, <5>2 DEF OwnersCurrent
        <4>2. CASE worker[v].handler # h
          BY <1>0, <2>1, <2>3, <3>2, <4>2 DEF OwnersCurrent, Holds
        <4>3. QED
          BY <4>1, <4>2
      <3>3. QED
        BY <3>1, <3>2 DEF OwnersCurrent, Deciding, Claiming, Holds
    <2>5. QED
      BY <1>0, <2>1, <2>3, <2>4, HoldsSame, BudgetKept DEF BudgetParts
  <1>10. ASSUME NEW h \in Handler, CommitResult(h) PROVE BudgetParts'
    <2>1. /\ abandoned = 0 /\ handler[h].pc = "commit" /\ handler[h].task \in Task
          /\ handler[h].outcome \in Final
      BY <1>10, OutcomeAssumption DEF CommitResult, TypeOK, HandlerType, Final
    <2>2. CASE ~Holds(handler[h].task, handler[h].by)
      <3>1. Answer(h, IdleWorker) /\ UNCHANGED row
        BY <1>10, <2>2 DEF CommitResult
      <3>2. QED
        BY <1>0, <1>00, <2>1, <3>1, AnswerNoOwners, HoldsSame
    <2>3. CASE Holds(handler[h].task, handler[h].by)
      <3>1. handler' = [handler EXCEPT ![h].pc = "settle"] /\ UNCHANGED worker
        BY <1>10, <2>3 DEF CommitResult
      <3>2. /\ handler'[h].pc = "settle" /\ handler'[h].by = handler[h].by
            /\ \A g \in Handler : g # h => handler'[g] = handler[g]
        BY <3>1, HandlerMoves DEF TypeOK
      <3>3. ClientsPresent' /\ NoNewOwners
        BY <1>0, <2>1, <3>1, <3>2 DEF ClientsPresent, NoNewOwners, Deciding, Claiming
      <3>4. CASE Retries(h)
        \* The attempts it decided on are the ones the row has.
        <4>1. row[handler[h].task].attempts < MaxRetries
          BY <1>0, <2>1, <2>3, <3>4 DEF OwnersCurrent, Retries
        <4>2. row' = [row EXCEPT ![handler[h].task] = Charged(row[handler[h].task], "pending")]
          BY <1>10, <2>3, <3>4 DEF CommitResult, RequeueTask
        <4>3. row[handler[h].task].status = "running"
          BY <2>3 DEF Holds
        <4>4. NoNewHolds /\ WithinBudget'
          BY <1>0, <2>1, <4>1, <4>2, <4>3, HoldsCharged, ChargedAgain
        <4>5. QED
          BY <1>0, <2>1, <3>3, <4>4, OwnersKept DEF BudgetParts
      <3>5. CASE ~Retries(h)
        <4>1. row' = [row EXCEPT ![handler[h].task] =
                        Ended(row[handler[h].task], handler[h].outcome)]
          BY <1>10, <2>3, <3>5 DEF CommitResult, FinalizeTask
        <4>2. QED
          BY <1>00, <2>1, <3>3, <4>1, HoldsEnded
      <3>6. QED
        BY <3>4, <3>5
    <2>4. QED
      BY <2>2, <2>3
  <1>11. ASSUME NEW h \in Handler, SettleResult(h) PROVE BudgetParts'
    <2>1. Answer(h, IdleWorker) /\ UNCHANGED row /\ abandoned = 0
      BY <1>11 DEF SettleResult
    <2>2. QED
      BY <1>0, <1>00, <2>1, AnswerNoOwners, HoldsSame
  <1>12. ASSUME NEW w \in Worker, Heartbeat(w) PROVE BudgetParts'
    <2>1. NoNewHolds /\ NothingCharged
      BY <1>12, HoldsSame DEF Heartbeat, TypeOK, RowType
    <2>2. QED
      BY <1>00, <1>000, <1>12, <2>1 DEF Heartbeat
  <1>13. ASSUME NEW w \in Worker, Abandon(w) PROVE BudgetParts'
    BY <1>13 DEF Abandon, TypeOK
  <1>14. ASSUME NEW w \in Worker, CrashWorker(w) PROVE BudgetParts'
    <2>1. /\ abandoned = 0 /\ UNCHANGED <<row, handler>> /\ worker[w].handler \notin Handler
          /\ \A v \in Worker : worker'[v] = IF v = w THEN IdleWorker ELSE worker[v]
      BY <1>14, ClientTypes DEF CrashWorker, TypeOK
    <2>2. ClientsPresent'
      <3>1. ASSUME NEW g \in Handler, handler[g].pc # "free"
            PROVE  worker'[handler[g].by].handler = g
        <4>1. worker[handler[g].by].handler = g /\ handler[g].by \in Worker
          BY <1>0, <2>1, <3>1 DEF ClientsPresent, TypeOK, HandlerType
        <4>2. QED
          BY <2>1, <4>1
      <3>2. QED
        BY <2>1, <3>1 DEF ClientsPresent
    <2>3. NoNewOwners
      BY <2>1 DEF NoNewOwners, Deciding, Claiming, IdleWorker
    <2>4. QED
      BY <1>00, <2>1, <2>2, <2>3, HoldsSame
  <1>15. CASE BeginSweep \/ ReadSwept \/ SettleSwept
    BY <1>00, <1>000, <1>15, HoldsSame DEF BeginSweep, ReadSwept, SettleSwept
  <1>16. ASSUME NEW t \in Task, RequeueStaleTask(t) PROVE BudgetParts'
    <2>1. abandoned = 0 /\ UNCHANGED <<handler, worker>>
      BY <1>16 DEF RequeueStaleTask
    <2>2. CASE t \notin Stale
      BY <1>00, <1>000, <1>16, <2>1, <2>2, HoldsSame DEF RequeueStaleTask
    <2>3. CASE t \in Stale
      <3> DEFINE s == IF row[t].attempts + 1 > MaxRetries THEN "failed" ELSE "pending"
      <3>1. row' = [row EXCEPT ![t] = Charged(row[t], s)]
        BY <1>16, <2>3 DEF RequeueStaleTask
      <3>2. /\ row[t].status = "running"
            /\ s # "running"
            /\ s = "failed" \/ (s = "pending" /\ row[t].attempts < MaxRetries)
        <4>1. row[t].attempts \in Nat
          BY DEF TypeOK, RowType
        <4>2. QED
          BY <2>3, <4>1, MaxRetriesAssumption DEF Stale
      <3> HIDE DEF s
      <3>3. NoNewHolds
        BY <3>1, <3>2, HoldsCharged
      <3>4. WithinBudget'
        <4>1. CASE s = "failed"
          BY <1>0, <2>1, <3>1, <3>2, <4>1, ChargedLast
        <4>2. CASE s # "failed"
          BY <1>0, <2>1, <3>1, <3>2, <4>2, ChargedAgain
        <4>3. QED
          BY <4>1, <4>2
      <3>5. QED
        BY <1>0, <1>000, <2>1, <3>3, <3>4, OwnersKept DEF BudgetParts
    <2>4. QED
      BY <2>2, <2>3
  <1>17. CASE Restart
    <2>1. /\ abandoned = 0 /\ UNCHANGED row
          /\ \A h \in Handler : handler'[h] = FreeHandler
          /\ \A w \in Worker : worker'[w] = worker[w] \/ worker'[w] = IdleWorker
      BY <1>17 DEF Restart
    <2>2. ClientsPresent' /\ NoNewOwners
      BY <2>1 DEF ClientsPresent, NoNewOwners, Deciding, Claiming, FreeHandler, IdleWorker
    <2>3. QED
      BY <1>00, <2>1, <2>2, HoldsSame
  <1>18. CASE UNCHANGED vars
    BY <1>00, <1>000, <1>18, HoldsSame DEF vars
  <1>19. QED
    BY <1>1, <1>2, <1>3, <1>4, <1>5, <1>6, <1>7, <1>8, <1>9, <1>10, <1>11, <1>12, <1>13,
       <1>14, <1>15, <1>16, <1>17, <1>18
       DEF Next, ClaimStep, ResultStep, SweepStep

LEMMA BudgetInit == Init => BudgetInv
  BY MaxRetriesAssumption DEF Init, BudgetInv, ClientsPresent, OwnersCurrent, WithinBudget,
     Claiming, FreeHandler, IdleWorker, Holds

LEMMA Budgeted == Spec => [](TypeOK /\ BudgetInv)
  <1>1. AttemptInv => ClientsMatch
    BY DEF AttemptInv
  <1>2. QED
    BY <1>1, TypeInit, TypeStep, AttemptInit, AttemptStep, BudgetInit, BudgetStep, PTL DEF Spec

\* As long as no client gave up on a request the server still serves, no task
\* runs again after maxRetries runs were charged: the decision of RecordResult on the attempts
\* it read and that of RequeueStale on those it updates agree.
THEOREM RetriesAreBounded == Spec => []RetryBudget
  <1>1. TypeOK /\ BudgetInv => RetryBudget
    BY DEF BudgetInv, WithinBudget, RetryBudget
  <1>2. QED
    BY <1>1, Budgeted, PTL

\* As long as no client gave up, a worker that owns a task by name has claimed
\* the attempt it is at, so no old result is taken for a new one.
THEOREM ResultsAreOwn == Spec => []ResultOfOwnAttempt
  <1>1. TypeOK /\ BudgetInv => ResultOfOwnAttempt
    BY NoneAssumption DEF BudgetInv, OwnersCurrent, ResultOfOwnAttempt, Busy
  <1>2. QED
    BY <1>1, Budgeted, PTL
=============================================================================
