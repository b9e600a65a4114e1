-------------------------- MODULE SubagentRegistry --------------------------
(***************************************************************************)
(* The sub-agent runtime of internal/agent/registry/manager.go.            *)
(*                                                                         *)
(* Manager guards its maps with mtx and orders the writes of its file with *)
(* persistMu: a mutation takes persistMu, changes the maps and snapshots   *)
(* them under mtx, writes the file with mtx released, releases persistMu.  *)
(* Every critical section of mtx is one step here; persistMu is a variable *)
(* and is held across steps.  What the code does with neither lock held    *)
(* (publishing rt.cancel, calling it, the goroutine's own decisions) is a  *)
(* step of its own.                                                        *)
(*                                                                         *)
(* Callers are the turns that use the agent tools; an agent is named by    *)
(* its id and has one goroutine (runAgentLoop) per run.  Prompts, results, *)
(* usage and events are data; parents and parking are left to their own    *)
(* model, because a managed runner's context carries no Manager.           *)
(***************************************************************************)
EXTENDS Naturals, FiniteSets

CONSTANTS
  Agent,       \* ids nextID can hand out
  Caller,      \* concurrent users of the Manager
  Limit,       \* NewManagerOpts.MaxConcurrent
  MailCap,     \* capacity of a mailbox (8 in the code)
  None,
  MaxRuns,     \* bound: runs of one agent (the first and its resumptions)
  MaxInputs,   \* bound: texts sent or assigned
  MaxFaults,   \* bound: writes of the file that fail
  MaxCrashes   \* bound: deaths of the process

ASSUME LimitAssumption == Limit \in Nat \ {0}
ASSUME MailCapAssumption == MailCap \in Nat \ {0}
ASSUME AgentAssumption == IsFiniteSet(Agent)
ASSUME NamesAssumption == None \notin Agent \cup Caller /\ Agent \cap Caller = {}

VARIABLES
  records,  \* status of every known agent
  runtime,  \* ids with a runtime entry
  run,      \* the run the entry is for: 0 before the id is handed out
  ctx,      \* rt.cancel: "unset" until published, then "live" or "done"
  mailbox,  \* texts queued in the entry's mailbox
  loop,     \* the goroutine of the agent
  done,     \* runs whose done channel is closed
  persist,  \* who holds persistMu
  snap,     \* the snapshot its holder is about to write
  disk,     \* the file
  call,     \* what every caller is in the middle of
  gate,     \* the closed flag, the root context and Close's own progress
  inputs, faults, crashes

vars == <<records, runtime, run, ctx, mailbox, loop, done, persist, snap, disk,
          call, gate, inputs, faults, crashes>>

\* Variables by what changes together.
file == <<persist, snap, disk>>
entry == <<runtime, run, ctx>>
bounds == <<inputs, faults, crashes>>

Terminal == {"completed", "failed", "cancelled", "interrupted"}

NoLoop == [pc |-> "none", turn |-> 0, cut |-> FALSE, err |-> FALSE, status |-> None]

Idle == [op |-> "idle", agent |-> None, run |-> 0, turn |-> 0, old |-> None, queue |-> FALSE]

Init ==
  /\ records = [a \in Agent |-> "absent"]
  /\ runtime = {}
  /\ run = [a \in Agent |-> 0]
  /\ ctx = [a \in Agent |-> "unset"]
  /\ mailbox = [a \in Agent |-> 0]
  /\ loop = [a \in Agent |-> NoLoop]
  /\ done = {}
  /\ persist = None
  /\ snap = records
  /\ disk = records
  /\ call = [c \in Caller |-> Idle]
  /\ gate = [closed |-> FALSE, root |-> "live", returned |-> FALSE]
  /\ inputs = 0
  /\ faults = 0
  /\ crashes = 0

-----------------------------------------------------------------------------
(* Helpers.                                                                *)

\* Mutant of Dead: the agent's context is not derived from the root context.
DeadAlone(a) == ctx[a] = "done"

\* ctx.Err() # nil for the agent's context, a child of the root context.
Dead(a) == ctx[a] = "done" \/ (ctx[a] = "live" /\ gate.root = "done")

\* The capacity gate of Spawn and Resume.
HasSlot == Cardinality(runtime) < Limit

\* persistMu is taken by x and the maps, as they are afterwards, are snapshot.
LockAndSnapshot(x) ==
  /\ persist = None
  /\ persist' = x
  /\ snap' = records'
  /\ UNCHANGED disk

\* writeAtomic succeeds.
Write == disk' = snap /\ UNCHANGED <<snap, faults>>

\* writeAtomic fails and leaves the file as it was.
WriteFails ==
  /\ faults < MaxFaults
  /\ faults' = faults + 1
  /\ UNCHANGED <<snap, disk>>

Goto(c, op) == call' = [call EXCEPT ![c] = [@ EXCEPT !.op = op]]
Return(c) == call' = [call EXCEPT ![c] = Idle]

-----------------------------------------------------------------------------
(* Spawn.                                                                  *)

\* Both locks: the capacity and closed gates, the record and the entry.
SpawnReserve(c, a) ==
  /\ call[c].op = "idle"
  /\ run[a] = 0
  /\ ~gate.closed
  /\ HasSlot
  /\ records' = [records EXCEPT ![a] = "running"]
  /\ runtime' = runtime \cup {a}
  /\ run' = [run EXCEPT ![a] = 1]
  /\ LockAndSnapshot(c)
  /\ call' = [call EXCEPT ![c] = [Idle EXCEPT !.op = "spawnWrite", !.agent = a]]
  /\ UNCHANGED <<ctx, mailbox, loop, done, gate, bounds>>

SpawnWrite(c) ==
  /\ call[c].op = "spawnWrite"
  /\ Write
  /\ persist' = None
  /\ Goto(c, "spawnStart")
  /\ UNCHANGED <<records, entry, mailbox, loop, done, gate, inputs, crashes>>

\* Mutant of SpawnRollback: the failed write is ignored.
SpawnAnyway(c) ==
  /\ call[c].op = "spawnWrite"
  /\ WriteFails
  /\ persist' = None
  /\ Goto(c, "spawnStart")
  /\ UNCHANGED <<records, entry, mailbox, loop, done, gate, inputs, crashes>>

\* Mutant of SpawnRollback: the error path returns without the unlock.
SpawnRollbackLocked(c) ==
  /\ call[c].op = "spawnWrite"
  /\ WriteFails
  /\ records' = [records EXCEPT ![call[c].agent] = "absent"]
  /\ runtime' = runtime \ {call[c].agent}
  /\ Return(c)
  /\ UNCHANGED <<run, ctx, mailbox, loop, done, persist, gate, inputs, crashes>>

\* The write fails: record and entry are taken back.
SpawnRollback(c) ==
  /\ call[c].op = "spawnWrite"
  /\ WriteFails
  /\ records' = [records EXCEPT ![call[c].agent] = "absent"]
  /\ runtime' = runtime \ {call[c].agent}
  /\ persist' = None
  /\ Return(c)
  /\ UNCHANGED <<run, ctx, mailbox, loop, done, gate, inputs, crashes>>

\* No lock: rt.ctx and rt.cancel are published and the goroutine starts.
SpawnStart(c) ==
  LET a == call[c].agent IN
  /\ call[c].op = "spawnStart"
  /\ ctx' = [ctx EXCEPT ![a] = "live"]
  /\ loop' = [loop EXCEPT ![a] = [NoLoop EXCEPT !.pc = "next"]]
  /\ Return(c)
  /\ UNCHANGED <<records, runtime, run, mailbox, done, file, gate, bounds>>

-----------------------------------------------------------------------------
(* Resume.                                                                 *)

\* What Resume sets up under both locks.
TakeSlotAgain(c, a) ==
  /\ records' = [records EXCEPT ![a] = "running"]
  /\ runtime' = runtime \cup {a}
  /\ run' = [run EXCEPT ![a] = @ + 1]
  /\ ctx' = [ctx EXCEPT ![a] = "live"]
  /\ mailbox' = [mailbox EXCEPT ![a] = 0]
  /\ LockAndSnapshot(c)
  /\ call' = [call EXCEPT ![c] = [Idle EXCEPT !.op = "resumeWrite", !.agent = a,
                                              !.old = records[a]]]
  /\ UNCHANGED <<loop, done, gate, bounds>>

\* Mutant of ResumeReserve: no capacity gate.
ResumeUncapped(c, a) ==
  /\ call[c].op = "idle"
  /\ run[a] < MaxRuns
  /\ ~gate.closed
  /\ records[a] \in Terminal
  /\ a \notin runtime
  /\ TakeSlotAgain(c, a)

\* Mutant of ResumeReserve: an agent that is still active is resumed too.
ResumeActive(c, a) ==
  /\ call[c].op = "idle"
  /\ run[a] < MaxRuns
  /\ ~gate.closed
  /\ records[a] # "absent"
  /\ HasSlot \/ a \in runtime
  /\ TakeSlotAgain(c, a)

ResumeReserve(c, a) ==
  /\ call[c].op = "idle"
  /\ run[a] < MaxRuns
  /\ ~gate.closed
  /\ records[a] \in Terminal
  /\ a \notin runtime
  /\ HasSlot
  /\ TakeSlotAgain(c, a)

ResumeWrite(c) ==
  /\ call[c].op = "resumeWrite"
  /\ Write
  /\ persist' = None
  /\ Goto(c, "resumeStart")
  /\ UNCHANGED <<records, entry, mailbox, loop, done, gate, inputs, crashes>>

\* restoreRecord.
ResumeRollback(c) ==
  LET a == call[c].agent IN
  /\ call[c].op = "resumeWrite"
  /\ WriteFails
  /\ records' = [records EXCEPT ![a] = call[c].old]
  /\ runtime' = runtime \ {a}
  /\ ctx' = [ctx EXCEPT ![a] = "done"]
  /\ persist' = None
  /\ Return(c)
  /\ UNCHANGED <<run, mailbox, loop, done, gate, inputs, crashes>>

ResumeStart(c) ==
  /\ call[c].op = "resumeStart"
  /\ loop' = [loop EXCEPT ![call[c].agent] = [NoLoop EXCEPT !.pc = "next"]]
  /\ Return(c)
  /\ UNCHANGED <<records, entry, mailbox, done, file, gate, bounds>>

-----------------------------------------------------------------------------
(* Cancel.                                                                 *)

\* mtx: find the entry.  An agent without one is terminal already.
CancelLookup(c, a) ==
  /\ call[c].op = "idle"
  /\ a \in runtime
  /\ call' = [call EXCEPT ![c] = [Idle EXCEPT !.op = "cancel", !.agent = a, !.run = run[a]]]
  /\ UNCHANGED <<records, entry, mailbox, loop, done, file, gate, bounds>>

\* No lock: if rt.cancel # nil call it.  The entry found may be of a run that
\* is over, whose context is done.
CancelFire(c) ==
  LET a == call[c].agent IN
  /\ call[c].op = "cancel"
  /\ ctx' = IF run[a] = call[c].run /\ ctx[a] # "unset"
            THEN [ctx EXCEPT ![a] = "done"] ELSE ctx
  /\ Return(c)
  /\ UNCHANGED <<records, runtime, run, mailbox, loop, done, file, gate, bounds>>

-----------------------------------------------------------------------------
(* SendInput, Assign, AddUsage.                                            *)

\* mtx: the text goes into the mailbox of a running agent; an interrupting
\* call remembers the turn that is on.
SendInput(c, a, interrupt) ==
  /\ call[c].op = "idle"
  /\ inputs < MaxInputs
  /\ ~gate.closed
  /\ records[a] = "running"
  /\ a \in runtime
  /\ mailbox[a] < MailCap
  /\ mailbox' = [mailbox EXCEPT ![a] = @ + 1]
  /\ inputs' = inputs + 1
  /\ IF interrupt /\ loop[a].pc = "turn"
     THEN call' = [call EXCEPT ![c] = [Idle EXCEPT !.op = "interrupt", !.agent = a,
                                                   !.run = run[a], !.turn = loop[a].turn]]
     ELSE UNCHANGED call
  /\ UNCHANGED <<records, entry, loop, done, file, gate, faults, crashes>>

\* No lock: turnCancel(), which is for that turn alone.
Interrupt(c) ==
  LET a == call[c].agent IN
  /\ call[c].op = "interrupt"
  /\ loop' = IF /\ loop[a].pc = "turn"
                /\ run[a] = call[c].run
                /\ loop[a].turn = call[c].turn
             THEN [loop EXCEPT ![a] = [@ EXCEPT !.cut = TRUE]] ELSE loop
  /\ Return(c)
  /\ UNCHANGED <<records, entry, mailbox, done, file, gate, bounds>>

\* Both locks: a full mailbox is refused, else the record is changed.
AssignReserve(c, a) ==
  /\ call[c].op = "idle"
  /\ inputs < MaxInputs
  /\ records[a] # "absent"
  /\ a \in runtime => mailbox[a] < MailCap
  /\ UNCHANGED records
  /\ LockAndSnapshot(c)
  /\ inputs' = inputs + 1
  /\ call' = [call EXCEPT ![c] = [Idle EXCEPT !.op = "assignWrite", !.agent = a,
                                              !.queue = a \in runtime]]
  /\ UNCHANGED <<entry, mailbox, loop, done, gate, faults, crashes>>

\* Written; a non-blocking send to the mailbox, which drops the text when it
\* has become full.  persistMu is held, so the entry is of the same run.
AssignWrite(c) ==
  LET a == call[c].agent IN
  /\ call[c].op = "assignWrite"
  /\ Write
  /\ mailbox' = IF call[c].queue /\ mailbox[a] < MailCap
                THEN [mailbox EXCEPT ![a] = @ + 1] ELSE mailbox
  /\ persist' = None
  /\ Return(c)
  /\ UNCHANGED <<records, entry, loop, done, gate, inputs, crashes>>

\* AddUsage changes the counters of a record, which are not modelled.
UsageReserve(c, a) ==
  /\ call[c].op = "idle"
  /\ ~gate.closed
  /\ records[a] # "absent"
  /\ UNCHANGED records
  /\ LockAndSnapshot(c)
  /\ call' = [call EXCEPT ![c] = [Idle EXCEPT !.op = "usageWrite", !.agent = a]]
  /\ UNCHANGED <<entry, mailbox, loop, done, gate, bounds>>

UsageWrite(c) ==
  /\ call[c].op = "usageWrite"
  /\ Write
  /\ persist' = None
  /\ Return(c)
  /\ UNCHANGED <<records, entry, mailbox, loop, done, gate, inputs, crashes>>

\* restoreAssignment, restoreUsage: the old value comes back.
UpdateRollback(c) ==
  /\ call[c].op \in {"assignWrite", "usageWrite"}
  /\ WriteFails
  /\ persist' = None
  /\ Return(c)
  /\ UNCHANGED <<records, entry, mailbox, loop, done, gate, inputs, crashes>>

-----------------------------------------------------------------------------
(* Wait.                                                                   *)

\* Result: a terminal record is returned at once.
WaitBegin(c, a) ==
  /\ call[c].op = "idle"
  /\ records[a] = "running"
  /\ call' = [call EXCEPT ![c] = [Idle EXCEPT !.op = "waitLookup", !.agent = a]]
  /\ UNCHANGED <<records, entry, mailbox, loop, done, file, gate, bounds>>

\* mtx: the done channel of the entry, if there is one.
WaitLookup(c) ==
  LET a == call[c].agent IN
  /\ call[c].op = "waitLookup"
  /\ call' = [call EXCEPT ![c] = IF a \in runtime
                                 THEN [@ EXCEPT !.op = "waiting", !.run = run[a]]
                                 ELSE [@ EXCEPT !.op = "waitRead"]]
  /\ UNCHANGED <<records, entry, mailbox, loop, done, file, gate, bounds>>

WaitDone(c) ==
  /\ call[c].op = "waiting"
  /\ <<call[c].agent, call[c].run>> \in done
  /\ Goto(c, "waitRead")
  /\ UNCHANGED <<records, entry, mailbox, loop, done, file, gate, bounds>>

\* Result again, returned with a nil error.
WaitRead(c) ==
  /\ call[c].op = "waitRead"
  /\ Return(c)
  /\ UNCHANGED <<records, entry, mailbox, loop, done, file, gate, bounds>>

\* The caller's own context or timeout ends the wait.
WaitExpires(c) ==
  /\ call[c].op = "waiting"
  /\ Return(c)
  /\ UNCHANGED <<records, entry, mailbox, loop, done, file, gate, bounds>>

-----------------------------------------------------------------------------
(* Close.                                                                  *)

CloseGate(c) ==
  /\ call[c].op = "idle"
  /\ ~gate.closed
  /\ gate' = [gate EXCEPT !.closed = TRUE]
  /\ Goto(c, "closeCancel")
  /\ UNCHANGED <<records, entry, mailbox, loop, done, file, bounds>>

CloseCancel(c) ==
  /\ call[c].op = "closeCancel"
  /\ gate' = [gate EXCEPT !.root = "done"]
  /\ Goto(c, "closeWait")
  /\ UNCHANGED <<records, entry, mailbox, loop, done, file, bounds>>

\* wg.Wait: every goroutine started so far has ended.
CloseWait(c) ==
  /\ call[c].op = "closeWait"
  /\ \A a \in Agent : loop[a].pc = "none"
  /\ Goto(c, "closeSave")
  /\ UNCHANGED <<records, entry, mailbox, loop, done, file, gate, bounds>>

CloseSave(c) ==
  /\ call[c].op = "closeSave"
  /\ UNCHANGED records
  /\ LockAndSnapshot(c)
  /\ Goto(c, "closeWrite")
  /\ UNCHANGED <<entry, mailbox, loop, done, gate, bounds>>

\* The last write is best effort.
CloseWrite(c) ==
  /\ call[c].op = "closeWrite"
  /\ Write \/ WriteFails
  /\ persist' = None
  /\ gate' = [gate EXCEPT !.returned = TRUE]
  /\ Return(c)
  /\ UNCHANGED <<records, entry, mailbox, loop, done, inputs, crashes>>

-----------------------------------------------------------------------------
(* runAgentLoop.                                                           *)

\* mtx: rt.turnCancel is published; the runner is called.
TurnStarts(a) ==
  /\ loop[a].pc = "next"
  /\ loop' = [loop EXCEPT ![a] = [@ EXCEPT !.pc = "turn", !.turn = loop[a].turn + 1, !.cut = FALSE]]
  /\ UNCHANGED <<records, entry, mailbox, done, file, call, gate, bounds>>

\* The runner returns; mtx: rt.turnCancel = nil.  A turn that was cancelled
\* returns context.Canceled, which is no error unless the agent is cancelled.
TurnReturns(a, err) ==
  /\ loop[a].pc = "turn"
  /\ loop' = [loop EXCEPT ![a] = [@ EXCEPT !.pc = "after", !.err = err]]
  /\ UNCHANGED <<records, entry, mailbox, done, file, call, gate, bounds>>

\* An error ends the run; else the mailbox is looked at, without waiting.
TakeInput(a) ==
  /\ loop[a].pc = "after"
  /\ IF ~loop[a].err /\ mailbox[a] > 0
     THEN /\ mailbox' = [mailbox EXCEPT ![a] = @ - 1]
          /\ loop' = [loop EXCEPT ![a] = [@ EXCEPT !.pc = "next"]]
     ELSE /\ loop' = [loop EXCEPT ![a] = [@ EXCEPT !.pc = "verdict"]]
          /\ UNCHANGED mailbox
  /\ UNCHANGED <<records, entry, done, file, call, gate, bounds>>

\* ctx.Err() wins over what the runner returned.
Verdict(a) ==
  /\ loop[a].pc = "verdict"
  /\ loop' = [loop EXCEPT ![a] =
                [@ EXCEPT !.pc = "finish",
                          !.status = IF Dead(a) THEN "cancelled"
                                     ELSE IF loop[a].err THEN "failed" ELSE "completed"]]
  /\ UNCHANGED <<records, entry, mailbox, done, file, call, gate, bounds>>

\* Mutant of FinishMark: the snapshot is taken before the record is changed.
MarkAfterSnapshot(a) ==
  /\ loop[a].pc = "finish"
  /\ records' = [records EXCEPT ![a] = loop[a].status]
  /\ persist = None
  /\ persist' = a
  /\ snap' = records
  /\ loop' = [loop EXCEPT ![a] = [@ EXCEPT !.pc = "detach"]]
  /\ UNCHANGED <<entry, mailbox, done, disk, call, gate, bounds>>

\* finishTerminal, both locks: the record becomes terminal.
FinishMark(a) ==
  /\ loop[a].pc = "finish"
  /\ records' = [records EXCEPT ![a] = loop[a].status]
  /\ LockAndSnapshot(a)
  /\ loop' = [loop EXCEPT ![a] = [@ EXCEPT !.pc = "detach"]]
  /\ UNCHANGED <<entry, mailbox, done, call, gate, bounds>>

\* Mutant of FinishDetach: the entry stays.
DetachForgets(a) ==
  /\ loop[a].pc = "detach"
  /\ ctx' = [ctx EXCEPT ![a] = "done"]
  /\ loop' = [loop EXCEPT ![a] = [@ EXCEPT !.pc = "write"]]
  /\ UNCHANGED <<records, runtime, run, mailbox, done, file, call, gate, bounds>>

\* detachRuntime: the slot is free and the context is cancelled.
FinishDetach(a) ==
  /\ loop[a].pc = "detach"
  /\ runtime' = runtime \ {a}
  /\ ctx' = [ctx EXCEPT ![a] = "done"]
  /\ loop' = [loop EXCEPT ![a] = [@ EXCEPT !.pc = "write"]]
  /\ UNCHANGED <<records, run, mailbox, done, file, call, gate, bounds>>

\* A failed write is reported by an event and otherwise ignored.
FinishWrite(a) ==
  /\ loop[a].pc = "write"
  /\ Write \/ WriteFails
  /\ loop' = [loop EXCEPT ![a] = [@ EXCEPT !.pc = "emit"]]
  /\ UNCHANGED <<records, entry, mailbox, done, persist, call, gate, inputs, crashes>>

\* The terminal event, the unlock, close(rt.done), wg.Done.
FinishEmit(a) ==
  /\ loop[a].pc = "emit"
  /\ persist' = None
  /\ done' = done \cup {<<a, run[a]>>}
  /\ loop' = [loop EXCEPT ![a] = NoLoop]
  /\ UNCHANGED <<records, entry, mailbox, snap, disk, call, gate, bounds>>

-----------------------------------------------------------------------------
\* The process dies; NewManager loads the file and every agent it finds
\* running was interrupted.
Crash ==
  /\ crashes < MaxCrashes
  /\ crashes' = crashes + 1
  /\ records' = [a \in Agent |-> IF disk[a] = "running" THEN "interrupted" ELSE disk[a]]
  /\ runtime' = {}
  /\ ctx' = [a \in Agent |-> "unset"]
  /\ mailbox' = [a \in Agent |-> 0]
  /\ loop' = [a \in Agent |-> NoLoop]
  /\ done' = {}
  /\ persist' = None
  /\ snap' = records'
  /\ call' = [c \in Caller |-> Idle]
  /\ gate' = [closed |-> FALSE, root |-> "live", returned |-> FALSE]
  /\ UNCHANGED <<run, disk, inputs, faults>>

-----------------------------------------------------------------------------
SpawnStep(c) == SpawnWrite(c) \/ SpawnRollback(c) \/ SpawnStart(c)
ResumeStep(c) == ResumeWrite(c) \/ ResumeRollback(c) \/ ResumeStart(c)
UpdateStep(c) == AssignWrite(c) \/ UsageWrite(c) \/ UpdateRollback(c) \/ Interrupt(c)
WaitStep(c) == WaitLookup(c) \/ WaitDone(c) \/ WaitRead(c)
CloseStep(c) == CloseCancel(c) \/ CloseWait(c) \/ CloseSave(c) \/ CloseWrite(c)
CallStep(c) ==
  SpawnStep(c) \/ ResumeStep(c) \/ CancelFire(c) \/ UpdateStep(c) \/ WaitStep(c)
    \/ CloseStep(c)

LoopStep(a) ==
  \/ TurnStarts(a) \/ TakeInput(a) \/ Verdict(a) \/ FinishMark(a)
  \/ FinishDetach(a) \/ FinishWrite(a) \/ FinishEmit(a)

Next ==
  \/ \E c \in Caller, a \in Agent :
       \/ SpawnReserve(c, a) \/ ResumeReserve(c, a) \/ CancelLookup(c, a)
       \/ AssignReserve(c, a) \/ UsageReserve(c, a) \/ WaitBegin(c, a)
       \/ \E interrupt \in BOOLEAN : SendInput(c, a, interrupt)
  \/ \E c \in Caller : CloseGate(c) \/ CallStep(c) \/ WaitExpires(c)
  \/ \E a \in Agent : LoopStep(a) \/ \E err \in BOOLEAN : TurnReturns(a, err)
  \/ Crash

Spec == Init /\ [][Next]_vars

\* Goroutines are scheduled, and a runner returns once the context of its turn
\* is done.  Nobody is obliged to call, and a runner left alone may run for ever.
Fairness ==
  /\ \A c \in Caller : WF_vars(CallStep(c))
  /\ \A a \in Agent :
       /\ WF_vars(LoopStep(a))
       /\ WF_vars((Dead(a) \/ loop[a].cut) /\ \E err \in BOOLEAN : TurnReturns(a, err))

FairSpec == Spec /\ Fairness

-----------------------------------------------------------------------------
(* Properties.                                                             *)

Statuses == Terminal \cup {"absent", "running"}

CallType ==
  [op : {"idle", "spawnWrite", "spawnStart", "resumeWrite", "resumeStart", "cancel",
         "interrupt", "assignWrite", "usageWrite", "waitLookup", "waiting", "waitRead",
         "closeCancel", "closeWait", "closeSave", "closeWrite"},
   agent : Agent \cup {None}, run : Nat, turn : Nat,
   old : Terminal \cup {None}, queue : BOOLEAN]

LoopType ==
  [pc : {"none", "next", "turn", "after", "verdict", "finish", "detach", "write", "emit"},
   turn : Nat, cut : BOOLEAN, err : BOOLEAN,
   status : {"completed", "failed", "cancelled", None}]

\* Types; a mailbox never holds more than its capacity.
TypeOK ==
  /\ records \in [Agent -> Statuses]
  /\ disk \in [Agent -> Statuses]
  /\ snap \in [Agent -> Statuses]
  /\ runtime \subseteq Agent
  /\ run \in [Agent -> Nat]
  /\ ctx \in [Agent -> {"unset", "live", "done"}]
  /\ mailbox \in [Agent -> 0 .. MailCap]
  /\ loop \in [Agent -> LoopType]
  /\ done \subseteq Agent \X Nat
  /\ persist \in Agent \cup Caller \cup {None}
  /\ call \in [Caller -> CallType]
  /\ gate \in [closed : BOOLEAN, root : {"live", "done"}, returned : BOOLEAN]
  /\ inputs \in Nat /\ faults \in Nat /\ crashes \in Nat

\* Every slot taken is accounted for: whenever persistMu is free, the agents
\* with a runtime entry are exactly those whose record says running.  Spawn,
\* Resume, their rollbacks and finishTerminal all change the two apart.
SlotsMatchRecords ==
  persist = None => runtime = {a \in Agent : records[a] = "running"}

\* However Spawn, Resume, their rollbacks and ends interleave, no more agents
\* hold a slot than MaxConcurrent allows.
CapHeld == Cardinality(runtime) <= Limit

\* "Running persisted before returning from Spawn/Resume": an agent whose
\* runner has been started and that has not finished is running in the file,
\* so a crash at any moment finds it and marks it interrupted.
RunningIsPersisted ==
  \A a \in Agent :
    loop[a].pc \notin {"none", "detach", "write", "emit"} => disk[a] = "running"

\* A goroutine is started only for an agent that has none, and the entry it
\* serves is there until it detaches it itself: a resumption never meets the
\* goroutine of the run before.
OneGoroutine ==
  /\ \A c \in Caller :
       call[c].op \in {"spawnStart", "resumeStart"} => loop[call[c].agent].pc = "none"
  /\ \A a \in Agent : loop[a].pc \notin {"none", "write", "emit"} => a \in runtime

\* "To keep an old snapshot from overwriting a new state": while no write has
\* failed, whoever releases persistMu leaves the file equal to the records.
FileIsCurrent ==
  persist = None /\ faults = 0 /\ crashes = 0 => disk = records

\* Close returns: its wait for the goroutines ends although agents may still
\* be starting, and no lock is left taken.
CloseReturns == gate.closed ~> (gate.returned \/ ~gate.closed)

\* Once the root context is cancelled every running agent ends, those whose
\* goroutine starts only afterwards included.
CloseEndsAgents ==
  \A a \in Agent : gate.root = "done" /\ records[a] = "running" ~> records[a] # "running"

\* A run of a is on: its goroutine is there, or the call that will start it.
UnderWay(a) ==
  \/ loop[a].pc # "none"
  \/ \E c \in Caller :
       /\ call[c].op \in {"spawnWrite", "spawnStart", "resumeWrite", "resumeStart"}
       /\ call[c].agent = a

\* A Wait that looked the done channel up finds it closed, or the run still on
\* and so going to close it, while no write has failed: detaching an entry,
\* resuming the agent or closing the Manager strands no waiter.
WaitersHaveARun ==
  faults = 0 =>
    \A c \in Caller : call[c].op = "waiting" =>
      LET a == call[c].agent IN
        \/ <<a, call[c].run>> \in done
        \/ run[a] = call[c].run /\ UnderWay(a)

-----------------------------------------------------------------------------
(* The pool of agents this implements.                                     *)

\* A start counts once it is written: until then the agent is what it was
\* before the call, so that a rollback has nothing to take back.
PoolStatus ==
  [a \in Agent |->
     IF /\ persist \in Caller
        /\ call[persist].op \in {"spawnWrite", "resumeWrite"}
        /\ call[persist].agent = a
     THEN IF call[persist].op = "spawnWrite" THEN "absent" ELSE call[persist].old
     ELSE records[a]]

Pool == INSTANCE AgentPool WITH status <- PoolStatus, file <- disk

\* Spawn and Resume look atomic: in the table and in the file at once, within
\* the limit, and a start that could not be written never happened.
ImplementsPool == Pool!Spec
=============================================================================
