----------------------------- MODULE Automation -----------------------------
(***************************************************************************)
(* Scheduled automations: internal/agent/automation and the adapter        *)
(* internal/bootstrap/a2_adapter.go, which turns a run into a broker task  *)
(* and a durable work row.                                                 *)
(*                                                                         *)
(* Automations and their runs are one value of the key-value table, read   *)
(* and written back under Manager.mu: such a section is one step here.     *)
(* SubmitRun is called with the mutex released and makes three writes of   *)
(* its own, a step each; between any two of them users change the          *)
(* automations, the store may refuse a write, or the process may die.      *)
(*                                                                         *)
(* Names, prompts and directories are data.  Schedules have one period; a  *)
(* slot is the time it was due.  A run belongs to a key, made of the slot  *)
(* for a scheduled run and of a fresh nonce for a manual one.              *)
(***************************************************************************)
EXTENDS Naturals, FiniteSets

CONSTANTS
  AutoId,     \* ids newID can hand out
  Caller,     \* tool calls that run an automation by hand
  Scheduler,  \* the goroutine of Scheduler.Start
  Period,     \* Schedule.IntervalSec
  MaxTime,    \* bound: the last moment of the model
  MaxManual,  \* bound: manual runs
  MaxFaults,  \* bound: calls that fail
  MaxCrashes  \* bound: deaths of the process

ASSUME PeriodAssumption == Period \in Nat \ {0}
ASSUME SchedulerAssumption == Scheduler \notin Caller

VARIABLES
  clock,
  autos,    \* the persisted automations
  runs,     \* the persisted runs
  idem,     \* the persisted keys of SubmitRun, each with its work row
  jobs,     \* broker tasks of type automation.run
  rows,     \* durable work rows of runs
  sched,    \* the scheduler: where it is and what is due
  sub,      \* the call of SubmitRun an actor is in the middle of
  nonce,    \* random suffixes used so far
  faults, crashes

vars == <<clock, autos, runs, idem, jobs, rows, sched, sub, nonce, faults, crashes>>
bounds == <<nonce, faults, crashes>>

Actor == Caller \cup {Scheduler}

Never == 0  \* NextRunAt = nil; the clock starts at 1

Unset == [life |-> "new", active |-> FALSE, next |-> Never]
NoSub == [pc |-> "none", auto |-> Scheduler, slot |-> 0, nonce |-> 0, row |-> 0, failed |-> FALSE]

Init ==
  /\ clock = 1
  /\ autos = [a \in AutoId |-> Unset]
  /\ runs = {}
  /\ idem = {}
  /\ jobs = {}
  /\ rows = {}
  /\ sched = [pc |-> "wait", last |-> 1, due |-> {}]
  /\ sub = [x \in Actor |-> NoSub]
  /\ nonce = 0
  /\ faults = 0
  /\ crashes = 0

-----------------------------------------------------------------------------
(* The tools: each call is one section of Manager.mu.                      *)

\* Schedule.Next.
NextAfter(t) == t + Period

Scheduled(active) ==
  [life |-> "there", active |-> active, next |-> IF active THEN NextAfter(clock) ELSE Never]

Create(a, active) ==
  /\ autos[a].life = "new"
  /\ autos' = [autos EXCEPT ![a] = Scheduled(active)]
  /\ UNCHANGED <<clock, runs, idem, jobs, rows, sched, sub, bounds>>

\* Update, with Pause and Resume: NextRunAt is computed anew whatever changed.
Update(a, active) ==
  /\ autos[a].life = "there"
  /\ autos' = [autos EXCEPT ![a] = Scheduled(active)]
  /\ UNCHANGED <<clock, runs, idem, jobs, rows, sched, sub, bounds>>

Delete(a) ==
  /\ autos[a].life = "there"
  /\ autos' = [autos EXCEPT ![a] = [Unset EXCEPT !.life = "deleted"]]
  /\ runs' = {r \in runs : r.auto # a}
  /\ UNCHANGED <<clock, idem, jobs, rows, sched, sub, bounds>>

\* RunNow, up to the call of SubmitRun.
RunNow(c, a) ==
  /\ sub[c].pc = "none"
  /\ autos[a].life = "there"
  /\ nonce < MaxManual
  /\ nonce' = nonce + 1
  /\ sub' = [sub EXCEPT ![c] = [NoSub EXCEPT !.pc = "submit", !.auto = a, !.nonce = nonce']]
  /\ UNCHANGED <<clock, autos, runs, idem, jobs, rows, sched, faults, crashes>>

-----------------------------------------------------------------------------
(* Scheduler.Start: Tick, then Reconcile.                                  *)

\* Mutant of Due: a slot that was missed is not due any more.
DueNow(now) == {a \in AutoId : autos[a].active /\ autos[a].next = now}

Due(now) == {a \in AutoId : autos[a].active /\ autos[a].next # Never /\ autos[a].next <= now}

\* Mutant of Tick: the advanced slots are not saved.
TickUnsaved(now) ==
  /\ sched.pc = "wait"
  /\ now > sched.last \/ now = clock
  /\ sched' = [pc |-> "run", last |-> now,
               due |-> {[auto |-> a, slot |-> autos[a].next] : a \in Due(now)}]
  /\ UNCHANGED <<clock, autos, runs, idem, jobs, rows, sub, bounds>>

\* Tick, its locked part.  The time is that of the ticker, which may have
\* waited in the channel while the goroutine was busy; later than the last one.
Tick(now) ==
  /\ sched.pc = "wait"
  /\ now > sched.last \/ now = clock
  /\ autos' = [a \in AutoId |-> IF a \in Due(now)
                              THEN [autos[a] EXCEPT !.next = NextAfter(now)] ELSE autos[a]]
  /\ sched' = [pc |-> "run", last |-> now,
               due |-> {[auto |-> a, slot |-> autos[a].next] : a \in Due(now)}]
  /\ UNCHANGED <<clock, runs, idem, jobs, rows, sub, bounds>>

\* enqueueUnlocked of the next item.  The items are in the order of creation;
\* any order here.
TakeDue ==
  /\ sched.pc = "run"
  /\ sub[Scheduler].pc = "none"
  /\ \E d \in sched.due :
       /\ sched' = [sched EXCEPT !.due = @ \ {d}]
       /\ sub' = [sub EXCEPT ![Scheduler] =
                    [NoSub EXCEPT !.pc = "submit", !.auto = d.auto, !.slot = d.slot]]
  /\ UNCHANGED <<clock, autos, runs, idem, jobs, rows, bounds>>

TickEnds ==
  /\ sched.pc = "run"
  /\ sub[Scheduler].pc = "none"
  /\ sched.due = {}
  /\ sched' = [sched EXCEPT !.pc = "reconcile"]
  /\ UNCHANGED <<clock, autos, runs, idem, jobs, rows, sub, bounds>>

\* Mutant of Mapped: the two spellings of cancelled are not related.
MappedByName(status) == IF status = "pending" THEN "queued" ELSE "failed"

\* MapTaskStatus, for the statuses a row of a run takes.
Mapped(status) ==
  CASE status = "pending" -> "queued"
    [] status = "cancelled" -> "canceled"

\* Reconcile: the open runs take the status of their row.
Reconcile ==
  /\ sched.pc = "reconcile"
  /\ runs' = {IF r.row = 0 \/ r.status # "queued" THEN r
              ELSE [r EXCEPT !.status =
                      Mapped((CHOOSE w \in rows : w.id = r.row).status)] : r \in runs}
  /\ sched' = [sched EXCEPT !.pc = "wait"]
  /\ UNCHANGED <<clock, autos, idem, jobs, rows, sub, bounds>>

\* A failing Lookup ends Reconcile; what it changed is not saved.
ReconcileFails ==
  /\ sched.pc = "reconcile"
  /\ faults < MaxFaults
  /\ faults' = faults + 1
  /\ sched' = [sched EXCEPT !.pc = "wait"]
  /\ UNCHANGED <<clock, autos, runs, idem, jobs, rows, sub, nonce, crashes>>

-----------------------------------------------------------------------------
(* A2Adapter.SubmitRun of actor x, and the record of its run.              *)

Key(s) == [auto |-> s.auto, slot |-> s.slot, nonce |-> s.nonce]

At(x, pc) == sub[x].pc = pc

Become(x, s) == sub' = [sub EXCEPT ![x] = s]

Known(key) == {i.row : i \in {j \in idem : j.key = key}}

\* KVGet: the row of a known key is the answer; else Broker.Submit.  No parent
\* task is named, so the broker will tell no work row.
Submit(x) ==
  /\ At(x, "submit")
  /\ IF Known(Key(sub[x])) # {}
     THEN /\ Become(x, [sub[x] EXCEPT !.pc = "record", !.row = CHOOSE w \in Known(Key(sub[x])) : TRUE])
          /\ UNCHANGED jobs
     ELSE /\ Become(x, [sub[x] EXCEPT !.pc = "create"])
          /\ jobs' = jobs \cup {[id |-> Cardinality(jobs) + 1, key |-> Key(sub[x]), ended |-> FALSE]}
  /\ UNCHANGED <<clock, autos, runs, idem, rows, sched, bounds>>

\* work.Create, not dispatched.
CreateRow(x) ==
  /\ At(x, "create")
  /\ rows' = rows \cup {[id |-> Cardinality(rows) + 1, key |-> Key(sub[x]), status |-> "pending"]}
  /\ Become(x, [sub[x] EXCEPT !.pc = "bind", !.row = Cardinality(rows) + 1])
  /\ UNCHANGED <<clock, autos, runs, idem, jobs, sched, bounds>>

\* Mutant of BindKey: the row is taken to be the newest one.
BindNewest(x) ==
  /\ At(x, "bind")
  /\ idem' = idem \cup {[key |-> Key(sub[x]), row |-> Cardinality(rows)]}
  /\ Become(x, [sub[x] EXCEPT !.pc = "record", !.row = Cardinality(rows)])
  /\ UNCHANGED <<clock, autos, runs, jobs, rows, sched, bounds>>

\* KVSet of the key.
BindKey(x) ==
  /\ At(x, "bind")
  /\ idem' = idem \cup {[key |-> Key(sub[x]), row |-> sub[x].row]}
  /\ Become(x, [sub[x] EXCEPT !.pc = "record"])
  /\ UNCHANGED <<clock, autos, runs, jobs, rows, sched, bounds>>

\* Any of the three fails: SubmitRun returns an error, and the row is dropped.
SubmitFails(x) ==
  /\ At(x, "submit") \/ At(x, "create") \/ At(x, "bind")
  /\ faults < MaxFaults
  /\ faults' = faults + 1
  /\ Become(x, [sub[x] EXCEPT !.pc = "record", !.row = 0, !.failed = TRUE])
  /\ UNCHANGED <<clock, autos, runs, idem, jobs, rows, sched, nonce, crashes>>

\* The call returns; an error ends the Tick, not the scheduler.
Answer(x, ok) ==
  /\ Become(x, NoSub)
  /\ sched' = IF x = Scheduler /\ ~ok THEN [sched EXCEPT !.due = {}, !.pc = "reconcile"] ELSE sched

\* The second section of Manager.mu: a scheduled run of the same key is there
\* already, or the run is appended.
Record(x) ==
  /\ At(x, "record")
  /\ IF x = Scheduler /\ \E r \in runs : r.key = Key(sub[x])
     THEN Answer(x, TRUE) /\ UNCHANGED runs
     ELSE /\ Answer(x, ~sub[x].failed)
          /\ runs' = runs \cup
               {[auto |-> sub[x].auto, key |-> Key(sub[x]), row |-> sub[x].row,
                 status |-> IF sub[x].failed THEN "failed" ELSE "queued"]}
  /\ UNCHANGED <<clock, autos, idem, jobs, rows, bounds>>

\* Load or Save fails: the run goes unrecorded.
RecordFails(x) ==
  /\ At(x, "record")
  /\ faults < MaxFaults
  /\ faults' = faults + 1
  /\ Answer(x, FALSE)
  /\ UNCHANGED <<clock, autos, runs, idem, jobs, rows, nonce, crashes>>

-----------------------------------------------------------------------------
(* Everything else.                                                        *)

Advance ==
  /\ clock < MaxTime
  /\ clock' = clock + 1
  /\ UNCHANGED <<autos, runs, idem, jobs, rows, sched, sub, bounds>>

\* A worker reports the broker task; notifyWork has no parent to tell.
JobEnds(j) ==
  /\ ~j.ended
  /\ jobs' = (jobs \ {j}) \cup {[j EXCEPT !.ended = TRUE]}
  /\ UNCHANGED <<clock, autos, runs, idem, rows, sched, sub, bounds>>

\* A user cancels the work row, which is linked to no broker task.
RowCancelled(w) ==
  /\ w.status = "pending"
  /\ rows' = (rows \ {w}) \cup {[w EXCEPT !.status = "cancelled"]}
  /\ UNCHANGED <<clock, autos, runs, idem, jobs, sched, sub, bounds>>

\* The process dies and comes back with a new scheduler.
Crash ==
  /\ crashes < MaxCrashes
  /\ crashes' = crashes + 1
  /\ sched' = [pc |-> "wait", last |-> clock, due |-> {}]
  /\ sub' = [x \in Actor |-> NoSub]
  /\ UNCHANGED <<clock, autos, runs, idem, jobs, rows, nonce, faults>>

-----------------------------------------------------------------------------
SubmitStep(x) ==
  Submit(x) \/ CreateRow(x) \/ BindKey(x) \/ SubmitFails(x)
    \/ Record(x) \/ RecordFails(x)

SchedulerStep ==
  (\E now \in 1 .. clock : Tick(now)) \/ TakeDue \/ TickEnds \/ Reconcile \/ ReconcileFails

Next ==
  \/ \E a \in AutoId, active \in BOOLEAN : Create(a, active) \/ Update(a, active)
  \/ \E a \in AutoId : Delete(a) \/ \E c \in Caller : RunNow(c, a)
  \/ SchedulerStep
  \/ \E x \in Actor : SubmitStep(x)
  \/ Advance
  \/ \E j \in jobs : JobEnds(j)
  \/ \E w \in rows : RowCancelled(w)
  \/ Crash

Spec == Init /\ [][Next]_vars

\* The ticker goes on ticking and the goroutines that submit are scheduled;
\* nobody has to call a tool, to cancel, or to run a broker task.
Fairness ==
  /\ WF_vars(\E now \in 1 .. clock : Tick(now))
  /\ WF_vars(TakeDue \/ TickEnds \/ Reconcile \/ ReconcileFails)
  /\ \A x \in Actor : WF_vars(SubmitStep(x))

FairSpec == Spec /\ Fairness

-----------------------------------------------------------------------------
(* Properties.                                                             *)

KeyType == [auto : AutoId \cup {Scheduler}, slot : Nat, nonce : Nat]

\* Types; an automation has a next slot exactly while it is active.
TypeOK ==
  /\ clock \in Nat
  /\ autos \in [AutoId -> [life : {"new", "there", "deleted"}, active : BOOLEAN, next : Nat]]
  /\ \A a \in AutoId : autos[a].active <=> autos[a].next # Never
  /\ runs \subseteq [auto : AutoId, key : KeyType, row : Nat,
                     status : {"queued", "canceled", "failed"}]
  /\ idem \subseteq [key : KeyType, row : Nat]
  /\ jobs \subseteq [id : Nat, key : KeyType, ended : BOOLEAN]
  /\ rows \subseteq [id : Nat, key : KeyType, status : {"pending", "cancelled"}]
  /\ sched \in [pc : {"wait", "run", "reconcile"}, last : Nat,
                due : SUBSET [auto : AutoId, slot : Nat]]
  /\ sub \in [Actor -> [pc : {"none", "submit", "create", "bind", "record"},
                        auto : AutoId \cup {Scheduler}, slot : Nat, nonce : Nat,
                        row : Nat, failed : BOOLEAN]]
  /\ nonce \in Nat /\ faults \in Nat /\ crashes \in Nat

\* "The slot's time stamp makes the same slot enqueue only once"
\* (buildIdempotencyKey): however the process dies between the three writes of
\* SubmitRun, no key is given to the broker twice.
SlotOnce == \A j, k \in jobs : j.key = k.key => j = k

\* Manual runs may repeat, scheduled ones may meet a second Tick, and still no
\* two records are of the same run, and a run that was not refused has the row
\* that was made for it.
RunsOwnTheirRow ==
  /\ \A r, q \in runs : r.key = q.key => r = q
  /\ \A r \in runs : r.row # 0 => \E w \in rows : w.id = r.row /\ w.key = r.key

\* Every due slot is taken, however late the ticks come and whatever fails: an
\* error ends a Tick and not the scheduler.
DueIsTaken ==
  \A a \in AutoId :
    autos[a].active /\ autos[a].next <= clock ~> ~autos[a].active \/ autos[a].next > clock

\* A run whose work row is cancelled becomes canceled, the two spellings apart,
\* unless its automation is deleted.
CancelReachesRun ==
  \A n \in 1 .. MaxTime :
    (\E r \in runs, w \in rows : r.row = n /\ w.id = n /\ w.status = "cancelled")
      ~> (\A r \in runs : r.row = n => r.status = "canceled")
=============================================================================
