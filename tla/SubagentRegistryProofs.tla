----------------------- MODULE SubagentRegistryProofs -----------------------
(***************************************************************************)
(* That every slot of the sub-agent runtime is accounted for, whatever     *)
(* calls, goroutines, failed writes and crashes do (SlotsMatchRecords and  *)
(* CapHeld), that the runtime implements the pool of AgentPool, and that   *)
(* nobody waits for a run that is not on, whatever the constants are.      *)
(***************************************************************************)
EXTENDS SubagentRegistry, FiniteSetTheorems, TLAPS

-----------------------------------------------------------------------------
(* The inductive invariant.                                                *)

Starting == {"spawnWrite", "spawnStart", "resumeWrite", "resumeStart"}
Writing == {"spawnWrite", "resumeWrite", "assignWrite", "usageWrite", "closeWrite"}
Closing == {"detach", "write", "emit"}
Working == {"next", "turn", "after", "verdict", "finish"}

\* persistMu is held by whoever is between its snapshot and its write.
LockDiscipline ==
  /\ \A c \in Caller : call[c].op \in Writing => persist = c
  /\ \A a \in Agent : loop[a].pc \in Closing => persist = a

\* A call that starts an agent is the only one that does, and no goroutine is
\* there yet.
StartsAlone ==
  \A c \in Caller : call[c].op \in Starting =>
    /\ call[c].agent \in Agent
    /\ records[call[c].agent] = "running"
    /\ loop[call[c].agent].pc = "none"
    /\ \A d \in Caller : call[d].op \in Starting /\ call[d].agent = call[c].agent => d = c

\* An entry is there while the record says running, and until the detach.
SlotsExact ==
  /\ runtime = {a \in Agent : records[a] = "running" \/ loop[a].pc = "detach"}
  /\ \A a \in Agent :
       /\ loop[a].pc \in Working => records[a] = "running"
       /\ loop[a].pc \in Closing => records[a] # "running"

\* A verdict is there when the run finishes.
Decided ==
  \A a \in Agent :
    loop[a].pc = "finish" => loop[a].status \in {"completed", "failed", "cancelled"}

\* Rolling back a resumption brings a terminal status back.
OldIsTerminal ==
  \A c \in Caller : call[c].op = "resumeWrite" => call[c].old \in Terminal

\* An id that was not handed out is not known anywhere.
Unissued ==
  \A a \in Agent : run[a] = 0 =>
    records[a] = "absent" /\ disk[a] = "absent" /\ snap[a] = "absent"

\* The maps change only under persistMu, so what its holder writes is what they
\* are; and what a started agent needs in the file was written before.
SnapshotIsCurrent == persist # None => snap = records

StartedIsWritten ==
  /\ \A c \in Caller :
       call[c].op \in {"spawnStart", "resumeStart"} => disk[call[c].agent] = "running"
  /\ \A a \in Agent : loop[a].pc \in Working => disk[a] = "running"

\* Until a write fails, whoever has written, or holds nothing, leaves the file
\* equal to the records.
WrittenIsCurrent ==
  faults = 0 /\ crashes = 0 /\ (persist = None \/ \E a \in Agent : loop[a].pc = "emit")
    => disk = records

\* Everything but the types.
Discipline ==
  /\ LockDiscipline /\ StartsAlone /\ SlotsExact /\ Decided /\ OldIsTerminal /\ Unissued
  /\ SnapshotIsCurrent /\ StartedIsWritten /\ WrittenIsCurrent

SlotInv == TypeOK /\ Discipline

\* A step frees slots or takes one that was free.
SlotTaken ==
  \/ runtime' \subseteq runtime
  \/ HasSlot /\ \E a \in Agent : runtime' = runtime \cup {a}

Ops == {"idle", "spawnWrite", "spawnStart", "resumeWrite", "resumeStart", "cancel",
        "interrupt", "assignWrite", "usageWrite", "waitLookup", "waiting", "waitRead",
        "closeCancel", "closeWait", "closeSave", "closeWrite"}

Steps == {"none", "next", "turn", "after", "verdict", "finish", "detach", "write", "emit"}

(* Types: the records the actions write are records of the type.            *)

LEMMA IdleRow == Idle \in CallType
  BY DEF Idle, CallType

LEMMA CallGoto ==
  ASSUME NEW r \in CallType, NEW op \in Ops
  PROVE  [r EXCEPT !.op = op] \in CallType
  BY DEF CallType, Ops

LEMMA LoopRow == NoLoop \in LoopType
  BY DEF NoLoop, LoopType

LEMMA LoopGoto ==
  ASSUME NEW r \in LoopType, NEW pc \in Steps
  PROVE  [r EXCEPT !.pc = pc] \in LoopType
  BY DEF LoopType, Steps

LEMMA LoopTurn ==
  ASSUME NEW r \in LoopType, NEW n \in Nat
  PROVE  [r EXCEPT !.pc = "turn", !.turn = n, !.cut = FALSE] \in LoopType
  BY DEF LoopType

LEMMA LoopErr ==
  ASSUME NEW r \in LoopType, NEW e \in BOOLEAN
  PROVE  [r EXCEPT !.pc = "after", !.err = e] \in LoopType
  BY DEF LoopType

LEMMA LoopCut ==
  ASSUME NEW r \in LoopType
  PROVE  [r EXCEPT !.cut = TRUE] \in LoopType
  BY DEF LoopType

LEMMA LoopVerdict ==
  ASSUME NEW r \in LoopType, NEW s \in {"completed", "failed", "cancelled"}
  PROVE  [r EXCEPT !.pc = "finish", !.status = s] \in LoopType
  BY DEF LoopType

LEMMA NewCall ==
  ASSUME NEW op \in Ops, NEW a \in Agent
  PROVE  [Idle EXCEPT !.op = op, !.agent = a] \in CallType
  BY DEF CallType, Ops, Idle

LEMMA NewRunCall ==
  ASSUME NEW op \in Ops, NEW a \in Agent, NEW k \in Nat
  PROVE  [Idle EXCEPT !.op = op, !.agent = a, !.run = k] \in CallType
  BY DEF CallType, Ops, Idle

LEMMA NewTurnCall ==
  ASSUME NEW op \in Ops, NEW a \in Agent, NEW k \in Nat, NEW n \in Nat
  PROVE  [Idle EXCEPT !.op = op, !.agent = a, !.run = k, !.turn = n] \in CallType
  BY DEF CallType, Ops, Idle

LEMMA NewOldCall ==
  ASSUME NEW op \in Ops, NEW a \in Agent, NEW s \in Terminal
  PROVE  [Idle EXCEPT !.op = op, !.agent = a, !.old = s] \in CallType
  BY DEF CallType, Ops, Idle

LEMMA NewQueueCall ==
  ASSUME NEW op \in Ops, NEW a \in Agent, NEW q \in BOOLEAN
  PROVE  [Idle EXCEPT !.op = op, !.agent = a, !.queue = q] \in CallType
  BY DEF CallType, Ops, Idle

LEMMA WaitRun ==
  ASSUME NEW r \in CallType, NEW k \in Nat
  PROVE  [r EXCEPT !.op = "waiting", !.run = k] \in CallType
  BY DEF CallType

\* The two ways most steps of a call change it.
LEMMA ReturnTyped ==
  ASSUME TypeOK, NEW c \in Caller, Return(c)
  PROVE  call' \in [Caller -> CallType]
  BY IdleRow DEF TypeOK, Return

LEMMA GotoTyped ==
  ASSUME TypeOK, NEW c \in Caller, NEW op \in Ops, Goto(c, op)
  PROVE  call' \in [Caller -> CallType]
  <1>1. [call[c] EXCEPT !.op = op] \in CallType
    BY CallGoto DEF TypeOK
  <1> QED
    BY <1>1 DEF TypeOK, Goto

\* Every step keeps the types.
LEMMA TypeStep == SlotInv /\ [Next]_vars => TypeOK'
  <1> SUFFICES ASSUME TypeOK, Decided, OldIsTerminal, [Next]_vars PROVE TypeOK'
    BY DEF SlotInv, Discipline
  <1>1. ASSUME NEW c \in Caller, NEW a \in Agent, SpawnReserve(c, a) PROVE TypeOK'
    <2> DEFINE new == [Idle EXCEPT !.op = "spawnWrite", !.agent = a]
    <2>0. new \in CallType
      BY NewCall DEF Ops
    <2> HIDE DEF new
    <2>1. call' \in [Caller -> CallType]
      BY <1>1, <2>0 DEF SpawnReserve, TypeOK, new
    <2> QED
      BY <1>1, <2>1 DEF SpawnReserve, bounds, Idle, LockAndSnapshot, TypeOK,
        Statuses, Terminal
  <1>2. ASSUME NEW c \in Caller, NEW a \in Agent, ResumeReserve(c, a) PROVE TypeOK'
    <2> DEFINE new == [Idle EXCEPT !.op = "resumeWrite", !.agent = a, !.old = records[a]]
    <2>0. new \in CallType
      BY <1>2, NewOldCall DEF Ops, TypeOK, ResumeReserve
    <2>9. call' = [call EXCEPT ![c] = new]
      BY <1>2 DEF ResumeReserve, TakeSlotAgain
    <2> HIDE DEF new
    <2>1. call' \in [Caller -> CallType]
      BY <2>9, <2>0 DEF TypeOK
    <2> QED
      BY <1>2, <2>1, MailCapAssumption DEF ResumeReserve, TakeSlotAgain, bounds,
        Idle, LockAndSnapshot, TypeOK, Statuses, Terminal
  <1>3. ASSUME NEW c \in Caller, NEW a \in Agent, CancelLookup(c, a) PROVE TypeOK'
    <2> DEFINE new == [Idle EXCEPT !.op = "cancel", !.agent = a, !.run = run[a]]
    <2>0. new \in CallType
      BY <1>3, NewRunCall DEF Ops, TypeOK, CancelLookup
    <2>9. call' = [call EXCEPT ![c] = new]
      BY <1>3 DEF CancelLookup
    <2> HIDE DEF new
    <2>1. call' \in [Caller -> CallType]
      BY <2>9, <2>0 DEF TypeOK
    <2> QED
      BY <1>3, <2>1 DEF CancelLookup, file, entry, bounds, Idle, TypeOK, Statuses,
        Terminal
  <1>4. ASSUME NEW c \in Caller, NEW a \in Agent, AssignReserve(c, a) PROVE TypeOK'
    <2> DEFINE new == [Idle EXCEPT !.op = "assignWrite", !.agent = a, !.queue = a \in runtime]
    <2>0. new \in CallType
      BY <1>4, (a \in runtime) \in BOOLEAN, NewQueueCall DEF Ops, TypeOK, AssignReserve
    <2>9. call' = [call EXCEPT ![c] = new]
      BY <1>4 DEF AssignReserve
    <2> HIDE DEF new
    <2>1. call' \in [Caller -> CallType]
      BY <2>9, <2>0 DEF TypeOK
    <2> QED
      BY <1>4, <2>1 DEF AssignReserve, entry, Idle, LockAndSnapshot, TypeOK,
        Statuses, Terminal
  <1>5. ASSUME NEW c \in Caller, NEW a \in Agent, UsageReserve(c, a) PROVE TypeOK'
    <2> DEFINE new == [Idle EXCEPT !.op = "usageWrite", !.agent = a]
    <2>0. new \in CallType
      BY NewCall DEF Ops
    <2> HIDE DEF new
    <2>1. call' \in [Caller -> CallType]
      BY <1>5, <2>0 DEF UsageReserve, TypeOK, new
    <2> QED
      BY <1>5, <2>1 DEF UsageReserve, entry, bounds, Idle, LockAndSnapshot, TypeOK,
        Statuses, Terminal
  <1>6. ASSUME NEW c \in Caller, NEW a \in Agent, WaitBegin(c, a) PROVE TypeOK'
    <2> DEFINE new == [Idle EXCEPT !.op = "waitLookup", !.agent = a]
    <2>0. new \in CallType
      BY NewCall DEF Ops
    <2> HIDE DEF new
    <2>1. call' \in [Caller -> CallType]
      BY <1>6, <2>0 DEF WaitBegin, TypeOK, new
    <2> QED
      BY <1>6, <2>1 DEF WaitBegin, file, entry, bounds, Idle, TypeOK, Statuses, Terminal
  <1>7. ASSUME NEW c \in Caller, NEW a \in Agent, NEW interrupt \in BOOLEAN, SendInput(c, a, interrupt) PROVE TypeOK'
    <2>1. call' \in [Caller -> CallType]
      <3> DEFINE new == [Idle EXCEPT !.op = "interrupt", !.agent = a, !.run = run[a], !.turn = loop[a].turn]
      <3>1. loop[a].turn \in Nat
        BY DEF TypeOK, LoopType
      <3>2. new \in CallType
        BY <3>1, NewTurnCall DEF Ops, TypeOK
      <3>3. call' = [call EXCEPT ![c] = new] \/ call' = call
        BY <1>7 DEF SendInput
      <3> HIDE DEF new
      <3> QED
        BY <3>2, <3>3 DEF TypeOK
    <2> QED
      BY <1>7, <2>1, MailCapAssumption DEF SendInput, file, entry, Idle, TypeOK,
        Statuses, Terminal
  <1>8. ASSUME NEW c \in Caller, CloseGate(c) PROVE TypeOK'
    <2>1. call' \in [Caller -> CallType]
      BY <1>8, GotoTyped DEF CloseGate, Ops
    <2> QED
      BY <1>8, <2>1 DEF CloseGate, file, entry, bounds, Goto, TypeOK, Statuses, Terminal
  <1>9. ASSUME NEW c \in Caller, SpawnWrite(c) PROVE TypeOK'
    <2>1. call' \in [Caller -> CallType]
      BY <1>9, GotoTyped DEF SpawnWrite, Ops
    <2> QED
      BY <1>9, <2>1 DEF SpawnWrite, entry, Write, Goto, TypeOK, Statuses, Terminal
  <1>10. ASSUME NEW c \in Caller, SpawnRollback(c) PROVE TypeOK'
    <2>1. call' \in [Caller -> CallType]
      BY <1>10, ReturnTyped DEF SpawnRollback
    <2>3. records' \in [Agent -> Statuses]
      BY <1>10 DEF SpawnRollback, TypeOK, Statuses
    <2>4. runtime' \subseteq Agent
      BY <1>10 DEF SpawnRollback, TypeOK
    <2>5. persist' \in Agent \cup Caller \cup {None} /\ faults' \in Nat
      BY <1>10 DEF SpawnRollback, TypeOK, WriteFails
    <2> QED
      BY <1>10, <2>1, <2>3, <2>4, <2>5 DEF SpawnRollback, TypeOK, WriteFails
  <1>11. ASSUME NEW c \in Caller, SpawnStart(c) PROVE TypeOK'
    <2>1. call' \in [Caller -> CallType]
      BY <1>11, ReturnTyped DEF SpawnStart
    <2>2. loop' \in [Agent -> LoopType]
      <3>1. [NoLoop EXCEPT !.pc = "next"] \in LoopType
        BY LoopRow, LoopGoto DEF Steps
      <3> QED
        BY <1>11, <3>1 DEF SpawnStart, TypeOK
    <2> QED
      BY <1>11, <2>1, <2>2 DEF SpawnStart, file, bounds, NoLoop, Return, Idle,
        TypeOK, Statuses, Terminal
  <1>12. ASSUME NEW c \in Caller, ResumeWrite(c) PROVE TypeOK'
    <2>1. call' \in [Caller -> CallType]
      BY <1>12, GotoTyped DEF ResumeWrite, Ops
    <2> QED
      BY <1>12, <2>1 DEF ResumeWrite, entry, Write, Goto, TypeOK, Statuses, Terminal
  <1>13. ASSUME NEW c \in Caller, ResumeRollback(c) PROVE TypeOK'
    <2>1. call' \in [Caller -> CallType]
      BY <1>13, ReturnTyped DEF ResumeRollback
    <2>3. records' \in [Agent -> Statuses]
      BY <1>13 DEF ResumeRollback, TypeOK, OldIsTerminal, Statuses, Terminal
    <2>4. runtime' \subseteq Agent /\ ctx' \in [Agent -> {"unset", "live", "done"}]
      BY <1>13 DEF ResumeRollback, TypeOK
    <2>5. persist' \in Agent \cup Caller \cup {None} /\ faults' \in Nat
      BY <1>13 DEF ResumeRollback, TypeOK, WriteFails
    <2> QED
      BY <1>13, <2>1, <2>3, <2>4, <2>5 DEF ResumeRollback, TypeOK, WriteFails
  <1>14. ASSUME NEW c \in Caller, ResumeStart(c) PROVE TypeOK'
    <2>1. call' \in [Caller -> CallType]
      BY <1>14, ReturnTyped DEF ResumeStart
    <2>2. loop' \in [Agent -> LoopType]
      <3>1. [NoLoop EXCEPT !.pc = "next"] \in LoopType
        BY LoopRow, LoopGoto DEF Steps
      <3> QED
        BY <1>14, <3>1 DEF ResumeStart, TypeOK
    <2> QED
      BY <1>14, <2>1, <2>2 DEF ResumeStart, file, entry, bounds, NoLoop, Return,
        Idle, TypeOK, Statuses, Terminal
  <1>15. ASSUME NEW c \in Caller, CancelFire(c) PROVE TypeOK'
    <2>1. call' \in [Caller -> CallType]
      BY <1>15, ReturnTyped DEF CancelFire
    <2> QED
      BY <1>15, <2>1 DEF CancelFire, file, bounds, Return, Idle, TypeOK, Statuses,
        Terminal
  <1>16. ASSUME NEW c \in Caller, AssignWrite(c) PROVE TypeOK'
    <2>1. call' \in [Caller -> CallType]
      BY <1>16, ReturnTyped DEF AssignWrite
    <2>3. mailbox' \in [Agent -> 0 .. MailCap]
      <3> DEFINE b == call[c].agent
                 n == mailbox[b] + 1
      <3>1. mailbox' = mailbox \/ (mailbox[b] < MailCap /\ mailbox' = [mailbox EXCEPT ![b] = n])
        BY <1>16 DEF AssignWrite
      <3>2. CASE b \in Agent /\ mailbox[b] < MailCap
        <4>1. n \in 0 .. MailCap
          BY <3>2, MailCapAssumption DEF TypeOK
        <4> HIDE DEF n, b
        <4> QED
          BY <3>1, <4>1 DEF TypeOK
      <3>3. CASE ~(b \in Agent /\ mailbox[b] < MailCap)
        <4> HIDE DEF n
        <4> QED
          BY <3>1, <3>3 DEF TypeOK
      <3> QED
        BY <3>2, <3>3
    <2> QED
      BY <1>16, <2>1, <2>3 DEF AssignWrite, entry, TypeOK, Write
  <1>17. ASSUME NEW c \in Caller, UsageWrite(c) PROVE TypeOK'
    <2>1. call' \in [Caller -> CallType]
      BY <1>17, ReturnTyped DEF UsageWrite
    <2> QED
      BY <1>17, <2>1 DEF UsageWrite, entry, Write, Return, Idle, TypeOK, Statuses,
        Terminal
  <1>18. ASSUME NEW c \in Caller, UpdateRollback(c) PROVE TypeOK'
    <2>1. call' \in [Caller -> CallType]
      BY <1>18, ReturnTyped DEF UpdateRollback
    <2> QED
      BY <1>18, <2>1 DEF UpdateRollback, entry, WriteFails, Return, Idle, TypeOK,
        Statuses, Terminal
  <1>19. ASSUME NEW c \in Caller, Interrupt(c) PROVE TypeOK'
    <2>1. call' \in [Caller -> CallType]
      BY <1>19, ReturnTyped DEF Interrupt
    <2>2. loop' \in [Agent -> LoopType]
      <3>1. \A b \in Agent : [loop[b] EXCEPT !.cut = TRUE] \in LoopType
        BY LoopCut DEF TypeOK
      <3> QED
        BY <1>19, <3>1 DEF Interrupt, TypeOK
    <2> QED
      BY <1>19, <2>1, <2>2 DEF Interrupt, file, entry, bounds, Return, Idle, TypeOK,
        Statuses, Terminal
  <1>20. ASSUME NEW c \in Caller, WaitLookup(c) PROVE TypeOK'
    <2>0. CASE call[c].agent \in runtime
      <3>1. [call[c] EXCEPT !.op = "waiting", !.run = run[call[c].agent]] \in CallType
        BY <2>0, WaitRun DEF TypeOK
      <3> QED
        BY <1>20, <2>0, <3>1 DEF WaitLookup, TypeOK, file, entry, bounds
    <2>2. CASE call[c].agent \notin runtime
      <3>1. [call[c] EXCEPT !.op = "waitRead"] \in CallType
        BY CallGoto DEF TypeOK, Ops
      <3> QED
        BY <1>20, <2>2, <3>1 DEF WaitLookup, TypeOK, file, entry, bounds
    <2> QED
      BY <2>0, <2>2
  <1>21. ASSUME NEW c \in Caller, WaitDone(c) PROVE TypeOK'
    <2>1. call' \in [Caller -> CallType]
      BY <1>21, GotoTyped DEF WaitDone, Ops
    <2> QED
      BY <1>21, <2>1 DEF WaitDone, file, entry, bounds, Goto, TypeOK, Statuses, Terminal
  <1>22. ASSUME NEW c \in Caller, WaitRead(c) PROVE TypeOK'
    <2>1. call' \in [Caller -> CallType]
      BY <1>22, ReturnTyped DEF WaitRead
    <2> QED
      BY <1>22, <2>1 DEF WaitRead, file, entry, bounds, Return, Idle, TypeOK,
        Statuses, Terminal
  <1>23. ASSUME NEW c \in Caller, CloseCancel(c) PROVE TypeOK'
    <2>1. call' \in [Caller -> CallType]
      BY <1>23, GotoTyped DEF CloseCancel, Ops
    <2> QED
      BY <1>23, <2>1 DEF CloseCancel, file, entry, bounds, Goto, TypeOK, Statuses,
        Terminal
  <1>24. ASSUME NEW c \in Caller, CloseWait(c) PROVE TypeOK'
    <2>1. call' \in [Caller -> CallType]
      BY <1>24, GotoTyped DEF CloseWait, Ops
    <2> QED
      BY <1>24, <2>1 DEF CloseWait, file, entry, bounds, Goto, TypeOK, Statuses,
        Terminal
  <1>25. ASSUME NEW c \in Caller, CloseSave(c) PROVE TypeOK'
    <2>1. call' \in [Caller -> CallType]
      BY <1>25, GotoTyped DEF CloseSave, Ops
    <2> QED
      BY <1>25, <2>1 DEF CloseSave, entry, bounds, LockAndSnapshot, Goto, TypeOK,
        Statuses, Terminal
  <1>26. ASSUME NEW c \in Caller, CloseWrite(c) PROVE TypeOK'
    <2>1. call' \in [Caller -> CallType]
      BY <1>26, ReturnTyped DEF CloseWrite
    <2>3. gate' \in [closed : BOOLEAN, root : {"live", "done"}, returned : BOOLEAN]
      BY <1>26 DEF CloseWrite, TypeOK
    <2>4. disk' \in [Agent -> Statuses] /\ snap' = snap /\ faults' \in Nat
      BY <1>26 DEF CloseWrite, TypeOK, Write, WriteFails
    <2> QED
      BY <1>26, <2>1, <2>3, <2>4 DEF CloseWrite, entry, TypeOK
  <1>27. ASSUME NEW c \in Caller, WaitExpires(c) PROVE TypeOK'
    <2>1. call' \in [Caller -> CallType]
      BY <1>27, ReturnTyped DEF WaitExpires
    <2> QED
      BY <1>27, <2>1 DEF WaitExpires, file, entry, bounds, Return, Idle, TypeOK,
        Statuses, Terminal
  <1>28. ASSUME NEW a \in Agent, TurnStarts(a) PROVE TypeOK'
    <2>1. loop' \in [Agent -> LoopType]
      <3> DEFINE n == loop[a].turn + 1
      <3>0. loop[a].turn \in Nat
        BY DEF TypeOK, LoopType
      <3>1. n \in Nat
        BY <3>0 DEF TypeOK, LoopType
      <3>2. loop' = [loop EXCEPT ![a] = [@ EXCEPT !.pc = "turn", !.turn = n, !.cut = FALSE]]
        BY <1>28, <3>0 DEF TurnStarts
      <3> HIDE DEF n
      <3>3. [loop[a] EXCEPT !.pc = "turn", !.turn = n, !.cut = FALSE] \in LoopType
        BY <3>1, LoopTurn DEF TypeOK
      <3> QED
        BY <3>2, <3>3 DEF TypeOK
    <2> QED
      BY <1>28, <2>1 DEF TurnStarts, file, entry, bounds, TypeOK, Statuses, Terminal
  <1>29. ASSUME NEW a \in Agent, TakeInput(a) PROVE TypeOK'
    <2>1. loop' \in [Agent -> LoopType]
      <3>1. [loop[a] EXCEPT !.pc = "next"] \in LoopType /\ [loop[a] EXCEPT !.pc = "verdict"] \in LoopType
        BY LoopGoto DEF Steps, TypeOK
      <3> QED
        BY <1>29, <3>1 DEF TakeInput, TypeOK
    <2> QED
      BY <1>29, <2>1, MailCapAssumption DEF TakeInput, file, entry, bounds, TypeOK,
        Statuses, Terminal
  <1>30. ASSUME NEW a \in Agent, Verdict(a) PROVE TypeOK'
    <2>1. loop' \in [Agent -> LoopType]
      <3> DEFINE s == IF Dead(a) THEN "cancelled" ELSE IF loop[a].err THEN "failed" ELSE "completed"
      <3>1. s \in {"completed", "failed", "cancelled"}
        OBVIOUS
      <3>2. loop' = [loop EXCEPT ![a] = [@ EXCEPT !.pc = "finish", !.status = s]]
        BY <1>30 DEF Verdict
      <3> HIDE DEF s
      <3>3. [loop[a] EXCEPT !.pc = "finish", !.status = s] \in LoopType
        BY <3>1, LoopVerdict DEF TypeOK
      <3> QED
        BY <3>2, <3>3 DEF TypeOK
    <2> QED
      BY <1>30, <2>1 DEF Verdict, file, entry, bounds, TypeOK, Statuses, Terminal
  <1>31. ASSUME NEW a \in Agent, FinishMark(a) PROVE TypeOK'
    <2>1. loop' \in [Agent -> LoopType]
      <3>1. [loop[a] EXCEPT !.pc = "detach"] \in LoopType
        BY LoopGoto DEF Steps, TypeOK
      <3> QED
        BY <1>31, <3>1 DEF FinishMark, TypeOK
    <2>3. records' \in [Agent -> Statuses]
      BY <1>31 DEF FinishMark, TypeOK, Decided, Statuses, Terminal
    <2> QED
      BY <1>31, <2>1, <2>3 DEF FinishMark, entry, bounds, TypeOK, LockAndSnapshot
  <1>32. ASSUME NEW a \in Agent, FinishDetach(a) PROVE TypeOK'
    <2>1. loop' \in [Agent -> LoopType]
      <3>1. [loop[a] EXCEPT !.pc = "write"] \in LoopType
        BY LoopGoto DEF Steps, TypeOK
      <3> QED
        BY <1>32, <3>1 DEF FinishDetach, TypeOK
    <2> QED
      BY <1>32, <2>1 DEF FinishDetach, file, bounds, TypeOK, Statuses, Terminal
  <1>33. ASSUME NEW a \in Agent, FinishWrite(a) PROVE TypeOK'
    <2>1. loop' \in [Agent -> LoopType]
      <3>1. [loop[a] EXCEPT !.pc = "emit"] \in LoopType
        BY LoopGoto DEF Steps, TypeOK
      <3> QED
        BY <1>33, <3>1 DEF FinishWrite, TypeOK
    <2> QED
      BY <1>33, <2>1 DEF FinishWrite, entry, Write, WriteFails, TypeOK, Statuses,
        Terminal
  <1>34. ASSUME NEW a \in Agent, FinishEmit(a) PROVE TypeOK'
    <2>1. loop' \in [Agent -> LoopType]
      BY <1>34, LoopRow DEF FinishEmit, TypeOK
    <2> QED
      BY <1>34, <2>1 DEF FinishEmit, entry, bounds, NoLoop, TypeOK, Statuses, Terminal
  <1>35. ASSUME NEW a \in Agent, NEW err \in BOOLEAN, TurnReturns(a, err) PROVE TypeOK'
    <2>1. loop' \in [Agent -> LoopType]
      <3>1. [loop[a] EXCEPT !.pc = "after", !.err = err] \in LoopType
        BY LoopErr DEF TypeOK
      <3> QED
        BY <1>35, <3>1 DEF TurnReturns, TypeOK
    <2> QED
      BY <1>35, <2>1 DEF TurnReturns, file, entry, bounds, TypeOK, Statuses, Terminal
  <1>36. ASSUME Crash PROVE TypeOK'
    <2>1. records' \in [Agent -> Statuses] /\ snap' \in [Agent -> Statuses]
      BY <1>36 DEF Crash, TypeOK, Statuses, Terminal
    <2>2. call' \in [Caller -> CallType] /\ loop' \in [Agent -> LoopType]
      BY <1>36, IdleRow, LoopRow DEF Crash
    <2>3. mailbox' \in [Agent -> 0 .. MailCap] /\ ctx' \in [Agent -> {"unset", "live", "done"}]
      BY <1>36, MailCapAssumption DEF Crash
    <2>4. gate' \in [closed : BOOLEAN, root : {"live", "done"}, returned : BOOLEAN]
      BY <1>36 DEF Crash
    <2> QED
      BY <1>36, <2>1, <2>2, <2>3, <2>4 DEF Crash, TypeOK
  <1>37. CASE UNCHANGED vars
    BY <1>37 DEF vars, TypeOK
  <1> QED
    BY <1>1, <1>2, <1>3, <1>4, <1>5, <1>6, <1>7, <1>8, <1>9, <1>10, <1>11, <1>12,
      <1>13, <1>14, <1>15, <1>16, <1>17, <1>18, <1>19, <1>20, <1>21, <1>22, <1>23,
      <1>24, <1>25, <1>26, <1>27, <1>28, <1>29, <1>30, <1>31, <1>32, <1>33, <1>34,
      <1>35, <1>36, <1>37
      DEF Next, CallStep, SpawnStep, ResumeStep, UpdateStep, WaitStep, CloseStep, LoopStep

\* SendInput and TakeInput by their effect on what the invariant mentions.
LEMMA SendInputEffect ==
  ASSUME TypeOK, NEW c \in Caller, NEW a \in Agent, NEW interrupt \in BOOLEAN,
         SendInput(c, a, interrupt)
  PROVE  \A d \in Caller : call'[d] = call[d] \/ call'[d].op = "interrupt"
  <1> DEFINE new == [Idle EXCEPT !.op = "interrupt", !.agent = a, !.run = run[a],
                                 !.turn = loop[a].turn]
  <1>1. new.op = "interrupt"
    BY DEF Idle
  <1>2. call' = [call EXCEPT ![c] = new] \/ call' = call
    BY DEF SendInput
  <1> HIDE DEF new
  <1> QED
    BY <1>1, <1>2 DEF TypeOK

LEMMA TakeInputEffect ==
  ASSUME TypeOK, NEW a \in Agent, TakeInput(a)
  PROVE  /\ loop[a].pc = "after"
         /\ loop'[a].pc \in {"next", "verdict"}
         /\ \A b \in Agent \ {a} : loop'[b] = loop[b]
  BY DEF TakeInput, TypeOK, LoopType

\* Every step keeps the discipline of the locks, and takes at most one slot.
LEMMA DisciplineStep == SlotInv /\ [Next]_vars => Discipline' /\ SlotTaken
  <1> SUFFICES ASSUME SlotInv, [Next]_vars PROVE Discipline' /\ SlotTaken
    OBVIOUS
  <1> USE NamesAssumption DEF SlotInv, TypeOK, CallType, LoopType,
             Discipline, LockDiscipline, StartsAlone, SlotsExact, Decided, OldIsTerminal, Unissued, SnapshotIsCurrent,
             StartedIsWritten, WrittenIsCurrent, Starting, Writing, Closing, Working, Terminal, SlotTaken
  <1>1. ASSUME NEW c \in Caller, NEW a \in Agent, SpawnReserve(c, a)
        PROVE  Discipline' /\ SlotTaken
    BY <1>1 DEF SpawnReserve, bounds, Idle, LockAndSnapshot
  <1>2. ASSUME NEW c \in Caller, NEW a \in Agent, ResumeReserve(c, a)
        PROVE  Discipline' /\ SlotTaken
    BY <1>2 DEF ResumeReserve, TakeSlotAgain, bounds, Idle, LockAndSnapshot
  <1>3. ASSUME NEW c \in Caller, NEW a \in Agent, CancelLookup(c, a)
        PROVE  Discipline' /\ SlotTaken
    BY <1>3 DEF CancelLookup, file, entry, bounds, Idle
  <1>4. ASSUME NEW c \in Caller, NEW a \in Agent, AssignReserve(c, a)
        PROVE  Discipline' /\ SlotTaken
    BY <1>4 DEF AssignReserve, entry, Idle, LockAndSnapshot
  <1>5. ASSUME NEW c \in Caller, NEW a \in Agent, UsageReserve(c, a)
        PROVE  Discipline' /\ SlotTaken
    BY <1>5 DEF UsageReserve, entry, bounds, Idle, LockAndSnapshot
  <1>6. ASSUME NEW c \in Caller, NEW a \in Agent, WaitBegin(c, a)
        PROVE  Discipline' /\ SlotTaken
    BY <1>6 DEF WaitBegin, file, entry, bounds, Idle
  <1>7. ASSUME NEW c \in Caller, NEW a \in Agent, NEW interrupt \in BOOLEAN, SendInput(c, a, interrupt)
        PROVE  Discipline' /\ SlotTaken
    <2>1. UNCHANGED <<records, runtime, run, loop, persist, snap, disk, faults, crashes>>
      BY <1>7 DEF SendInput, entry, file
    <2>2. \A d \in Caller : call'[d] = call[d] \/ call'[d].op = "interrupt"
      BY <1>7, SendInputEffect
    <2> HIDE DEF TypeOK, CallType, LoopType
    <2> QED
      BY <2>1, <2>2
  <1>8. ASSUME NEW c \in Caller, CloseGate(c)
        PROVE  Discipline' /\ SlotTaken
    BY <1>8 DEF CloseGate, file, entry, bounds, Goto
  <1>9. ASSUME NEW c \in Caller, SpawnWrite(c)
        PROVE  Discipline' /\ SlotTaken
    BY <1>9 DEF SpawnWrite, entry, Write, Goto
  <1>10. ASSUME NEW c \in Caller, SpawnRollback(c)
        PROVE  Discipline' /\ SlotTaken
    BY <1>10 DEF SpawnRollback, WriteFails, Return, Idle
  <1>11. ASSUME NEW c \in Caller, SpawnStart(c)
        PROVE  Discipline' /\ SlotTaken
    BY <1>11 DEF SpawnStart, file, bounds, NoLoop, Return, Idle
  <1>12. ASSUME NEW c \in Caller, ResumeWrite(c)
        PROVE  Discipline' /\ SlotTaken
    BY <1>12 DEF ResumeWrite, entry, Write, Goto
  <1>13. ASSUME NEW c \in Caller, ResumeRollback(c)
        PROVE  Discipline' /\ SlotTaken
    <2>1. LockDiscipline'
      BY <1>13 DEF ResumeRollback, WriteFails, Return, Idle
    <2>2. StartsAlone'
      BY <1>13 DEF ResumeRollback, WriteFails, Return, Idle
    <2>3. SlotsExact'
      <3> DEFINE a == call[c].agent
      <3>1. a \in Agent /\ loop[a].pc = "none" /\ call[c].old \in Terminal
        BY <1>13 DEF ResumeRollback
      <3>2. /\ records' = [records EXCEPT ![a] = call[c].old]
            /\ runtime' = runtime \ {a}
            /\ UNCHANGED loop
        BY <1>13 DEF ResumeRollback
      <3>3. records'[a] # "running" /\ \A b \in Agent : b # a => records'[b] = records[b]
        BY <3>1, <3>2
      <3> QED
        BY <3>1, <3>2, <3>3
    <2>4. Decided'
      BY <1>13 DEF ResumeRollback, WriteFails, Return, Idle
    <2>5. OldIsTerminal'
      BY <1>13 DEF ResumeRollback, WriteFails, Return, Idle
    <2>6. Unissued'
      BY <1>13 DEF ResumeRollback, WriteFails, Return, Idle
    <2>7. SnapshotIsCurrent'
      BY <1>13 DEF ResumeRollback, WriteFails, Return, Idle
    <2>8. StartedIsWritten'
      BY <1>13 DEF ResumeRollback, WriteFails, Return, Idle
    <2>9. WrittenIsCurrent'
      BY <1>13 DEF ResumeRollback, WriteFails, Return, Idle
    <2>10. SlotTaken
      BY <1>13 DEF ResumeRollback, WriteFails, Return, Idle
    <2>11. QED
      BY <2>1, <2>2, <2>3, <2>4, <2>5, <2>6, <2>7, <2>8, <2>9, <2>10 DEF Discipline
  <1>14. ASSUME NEW c \in Caller, ResumeStart(c)
        PROVE  Discipline' /\ SlotTaken
    BY <1>14 DEF ResumeStart, file, entry, bounds, NoLoop, Return, Idle
  <1>15. ASSUME NEW c \in Caller, CancelFire(c)
        PROVE  Discipline' /\ SlotTaken
    BY <1>15 DEF CancelFire, file, bounds, Return, Idle
  <1>16. ASSUME NEW c \in Caller, AssignWrite(c)
        PROVE  Discipline' /\ SlotTaken
    BY <1>16 DEF AssignWrite, entry, Write, Return, Idle
  <1>17. ASSUME NEW c \in Caller, UsageWrite(c)
        PROVE  Discipline' /\ SlotTaken
    BY <1>17 DEF UsageWrite, entry, Write, Return, Idle
  <1>18. ASSUME NEW c \in Caller, UpdateRollback(c)
        PROVE  Discipline' /\ SlotTaken
    BY <1>18 DEF UpdateRollback, entry, WriteFails, Return, Idle
  <1>19. ASSUME NEW c \in Caller, Interrupt(c)
        PROVE  Discipline' /\ SlotTaken
    <2>1. LockDiscipline'
      BY <1>19 DEF Interrupt, file, entry, bounds, Return, Idle
    <2>2. StartsAlone'
      BY <1>19 DEF Interrupt, file, entry, bounds, Return, Idle
    <2>3. SlotsExact'
      BY <1>19 DEF Interrupt, file, entry, bounds, Return, Idle
    <2>4. Decided'
      BY <1>19 DEF Interrupt, file, entry, bounds, Return, Idle
    <2>5. OldIsTerminal'
      BY <1>19 DEF Interrupt, file, entry, bounds, Return, Idle
    <2>6. Unissued'
      BY <1>19 DEF Interrupt, file, entry, bounds, Return, Idle
    <2>7. SnapshotIsCurrent'
      BY <1>19 DEF Interrupt, file, entry, bounds, Return, Idle
    <2>8. StartedIsWritten'
      BY <1>19 DEF Interrupt, file, entry, bounds, Return, Idle
    <2>9. WrittenIsCurrent'
      BY <1>19 DEF Interrupt, file, entry, bounds, Return, Idle
    <2>10. SlotTaken
      BY <1>19 DEF Interrupt, file, entry, bounds, Return, Idle
    <2>11. QED
      BY <2>1, <2>2, <2>3, <2>4, <2>5, <2>6, <2>7, <2>8, <2>9, <2>10 DEF Discipline
  <1>20. ASSUME NEW c \in Caller, WaitLookup(c)
        PROVE  Discipline' /\ SlotTaken
    BY <1>20 DEF WaitLookup, file, entry, bounds
  <1>21. ASSUME NEW c \in Caller, WaitDone(c)
        PROVE  Discipline' /\ SlotTaken
    BY <1>21 DEF WaitDone, file, entry, bounds, Goto
  <1>22. ASSUME NEW c \in Caller, WaitRead(c)
        PROVE  Discipline' /\ SlotTaken
    BY <1>22 DEF WaitRead, file, entry, bounds, Return, Idle
  <1>23. ASSUME NEW c \in Caller, CloseCancel(c)
        PROVE  Discipline' /\ SlotTaken
    BY <1>23 DEF CloseCancel, file, entry, bounds, Goto
  <1>24. ASSUME NEW c \in Caller, CloseWait(c)
        PROVE  Discipline' /\ SlotTaken
    BY <1>24 DEF CloseWait, file, entry, bounds, Goto
  <1>25. ASSUME NEW c \in Caller, CloseSave(c)
        PROVE  Discipline' /\ SlotTaken
    BY <1>25 DEF CloseSave, entry, bounds, LockAndSnapshot, Goto
  <1>26. ASSUME NEW c \in Caller, CloseWrite(c)
        PROVE  Discipline' /\ SlotTaken
    BY <1>26 DEF CloseWrite, entry, Write, WriteFails, Return, Idle
  <1>27. ASSUME NEW c \in Caller, WaitExpires(c)
        PROVE  Discipline' /\ SlotTaken
    BY <1>27 DEF WaitExpires, file, entry, bounds, Return, Idle
  <1>28. ASSUME NEW a \in Agent, TurnStarts(a)
        PROVE  Discipline' /\ SlotTaken
    BY <1>28 DEF TurnStarts, file, entry, bounds
  <1>29. ASSUME NEW a \in Agent, TakeInput(a)
        PROVE  Discipline' /\ SlotTaken
    <2>1. UNCHANGED <<records, runtime, run, call, persist, snap, disk, faults, crashes>>
      BY <1>29 DEF TakeInput, entry, file, bounds
    <2>2. /\ loop[a].pc = "after"
          /\ loop'[a].pc \in {"next", "verdict"}
          /\ \A b \in Agent \ {a} : loop'[b] = loop[b]
      BY <1>29, TakeInputEffect
    <2> HIDE DEF TypeOK, CallType, LoopType
    <2> QED
      BY <2>1, <2>2
  <1>30. ASSUME NEW a \in Agent, Verdict(a)
        PROVE  Discipline' /\ SlotTaken
    BY <1>30 DEF Verdict, file, entry, bounds
  <1>31. ASSUME NEW a \in Agent, FinishMark(a)
        PROVE  Discipline' /\ SlotTaken
    BY <1>31 DEF FinishMark, entry, bounds, LockAndSnapshot
  <1>32. ASSUME NEW a \in Agent, FinishDetach(a)
        PROVE  Discipline' /\ SlotTaken
    BY <1>32 DEF FinishDetach, file, bounds
  <1>33. ASSUME NEW a \in Agent, FinishWrite(a)
        PROVE  Discipline' /\ SlotTaken
    BY <1>33 DEF FinishWrite, entry, Write, WriteFails
  <1>34. ASSUME NEW a \in Agent, FinishEmit(a)
        PROVE  Discipline' /\ SlotTaken
    BY <1>34 DEF FinishEmit, entry, bounds, NoLoop
  <1>35. ASSUME NEW a \in Agent, NEW err \in BOOLEAN, TurnReturns(a, err)
        PROVE  Discipline' /\ SlotTaken
    BY <1>35 DEF TurnReturns, file, entry, bounds
  <1>36. ASSUME Crash
        PROVE  Discipline' /\ SlotTaken
    BY <1>36 DEF Crash, Idle, NoLoop
  <1>37. CASE UNCHANGED vars
    BY <1>37 DEF vars
  <1> HIDE DEF SlotInv, TypeOK, CallType, LoopType,
             Discipline, LockDiscipline, StartsAlone, SlotsExact, Decided, OldIsTerminal, Unissued, SnapshotIsCurrent,
             StartedIsWritten, WrittenIsCurrent, Starting, Writing, Closing, Working, Terminal, SlotTaken
  <1> QED
    BY <1>1, <1>2, <1>3, <1>4, <1>5, <1>6, <1>7, <1>8, <1>9, <1>10, <1>11, <1>12,
      <1>13, <1>14, <1>15, <1>16, <1>17, <1>18, <1>19, <1>20, <1>21, <1>22, <1>23,
      <1>24, <1>25, <1>26, <1>27, <1>28, <1>29, <1>30, <1>31, <1>32, <1>33, <1>34,
      <1>35, <1>36, <1>37
      DEF Next, CallStep, SpawnStep, ResumeStep, UpdateStep, WaitStep, CloseStep, LoopStep

\* The invariant holds at first and is kept by every step.
LEMMA InitInv == Init => SlotInv
  <1> SUFFICES ASSUME Init PROVE SlotInv
    OBVIOUS
  <1>1. TypeOK
    BY IdleRow, LoopRow, MailCapAssumption DEF Init, TypeOK, Statuses
  <1>2. Discipline
    BY NamesAssumption
    DEF Init, Idle, NoLoop, Discipline, LockDiscipline, StartsAlone, SlotsExact, Decided,
        OldIsTerminal, Unissued, SnapshotIsCurrent, StartedIsWritten, WrittenIsCurrent,
        Starting, Writing, Closing, Working
  <1> QED
    BY <1>1, <1>2 DEF SlotInv

LEMMA InvStep == SlotInv /\ [Next]_vars => SlotInv'
  BY TypeStep, DisciplineStep DEF SlotInv

\* The discipline of the two locks holds in every run.
THEOREM Accounted == Spec => []SlotInv
  <1> QED
    BY InitInv, InvStep, PTL DEF Spec

-----------------------------------------------------------------------------
(* What follows from it.                                                   *)

\* Type correctness: every variable of the runtime keeps its type; a mailbox
\* never holds more than its capacity although Assign sends with the lock off.
THEOREM TypeCorrect == Spec => []TypeOK
  <1>1. SlotInv => TypeOK
    BY DEF SlotInv
  <1> QED
    BY <1>1, Accounted, PTL

\* Whenever persistMu is free the agents with a runtime entry are those whose
\* record says running: Spawn, Resume, both rollbacks and finishTerminal.
THEOREM SlotsAccounted == Spec => []SlotsMatchRecords
  <1>1. SlotInv => SlotsMatchRecords
    BY NamesAssumption
    DEF SlotInv, Discipline, TypeOK, LockDiscipline, SlotsExact, Closing, SlotsMatchRecords
  <1> QED
    BY <1>1, Accounted, PTL

\* Spawn and Resume start a goroutine only for an agent that has none, and the
\* goroutine finds its entry until it detaches it.
THEOREM NoSecondGoroutine == Spec => []OneGoroutine
  <1>1. SlotInv => OneGoroutine
    <2> SUFFICES ASSUME SlotInv PROVE OneGoroutine
      OBVIOUS
    <2>1. \A c \in Caller :
            call[c].op \in {"spawnStart", "resumeStart"} => loop[call[c].agent].pc = "none"
      BY DEF SlotInv, Discipline, StartsAlone, Starting
    <2>2. \A a \in Agent : loop[a].pc \notin {"none", "write", "emit"} => a \in runtime
      <3> SUFFICES ASSUME NEW a \in Agent, loop[a].pc \notin {"none", "write", "emit"}
                   PROVE  a \in runtime
        OBVIOUS
      <3>1. loop[a].pc \in Working \cup {"detach"}
        BY DEF SlotInv, TypeOK, LoopType, Working
      <3> QED
        BY <3>1 DEF SlotInv, Discipline, SlotsExact
    <2> QED
      BY <2>1, <2>2 DEF OneGoroutine
  <1> QED
    BY <1>1, Accounted, PTL

\* An agent that runs is running in the file: Spawn and Resume write before they
\* start the goroutine, and no later write takes it back.
THEOREM CrashFindsTheRunning == Spec => []RunningIsPersisted
  <1>1. SlotInv => RunningIsPersisted
    <2> SUFFICES ASSUME SlotInv, NEW a \in Agent,
                        loop[a].pc \notin {"none", "detach", "write", "emit"}
                 PROVE  disk[a] = "running"
      BY DEF RunningIsPersisted
    <2>1. loop[a].pc \in Working
      BY DEF SlotInv, TypeOK, LoopType, Working
    <2> QED
      BY <2>1 DEF SlotInv, Discipline, StartedIsWritten
  <1> QED
    BY <1>1, Accounted, PTL

\* No old snapshot overwrites a newer one: between the writes the file is what
\* the records are.
THEOREM NoLostUpdate == Spec => []FileIsCurrent
  <1>1. SlotInv => FileIsCurrent
    BY DEF SlotInv, Discipline, WrittenIsCurrent, FileIsCurrent
  <1> QED
    BY <1>1, Accounted, PTL

\* Counting the slots.
LEMMA RuntimeFinite ==
  ASSUME TypeOK
  PROVE  IsFiniteSet(runtime) /\ Cardinality(runtime) \in Nat
  BY AgentAssumption, FS_Subset, FS_CardinalityType DEF TypeOK

LEMMA CapStep == SlotInv /\ CapHeld /\ [Next]_vars => CapHeld'
  <1> SUFFICES ASSUME SlotInv, CapHeld, [Next]_vars PROVE CapHeld'
    OBVIOUS
  <1>1. TypeOK /\ SlotTaken
    BY DisciplineStep DEF SlotInv
  <1>2. IsFiniteSet(runtime) /\ Cardinality(runtime) \in Nat
    BY <1>1, RuntimeFinite
  <1>3. CASE runtime' \subseteq runtime
    <2>1. Cardinality(runtime') \in Nat /\ Cardinality(runtime') <= Cardinality(runtime)
      BY <1>2, <1>3, FS_Subset, FS_CardinalityType
    <2> QED
      BY <1>2, <2>1, LimitAssumption DEF CapHeld
  <1>4. ASSUME HasSlot, NEW a \in Agent, runtime' = runtime \cup {a}
        PROVE  CapHeld'
    <2>1. \/ Cardinality(runtime') = Cardinality(runtime)
          \/ Cardinality(runtime') = Cardinality(runtime) + 1
      BY <1>2, <1>4, FS_AddElement
    <2> QED
      BY <1>2, <1>4, <2>1, LimitAssumption DEF HasSlot, CapHeld
  <1> QED
    BY <1>1, <1>3, <1>4 DEF SlotTaken

\* However the spawns, resumptions, rollbacks and ends interleave, no more
\* agents hold a slot than MaxConcurrent allows.
THEOREM CapNeverExceeded == Spec => []CapHeld
  <1>1. Init => CapHeld
    BY FS_EmptySet, LimitAssumption DEF Init, CapHeld
  <1> QED
    BY <1>1, CapStep, Accounted, PTL DEF Spec

-----------------------------------------------------------------------------
(* The runtime implements the pool of AgentPool.                           *)

Deciding == {"spawnWrite", "resumeWrite"}

\* With no start waiting for its write the pool is what the records say.
Decisive == persist \in Caller => call[persist].op \notin Deciding

LEMMA PoolSettled ==
  ASSUME TypeOK, Decisive
  PROVE  PoolStatus = records
  BY DEF TypeOK, Decisive, Deciding, PoolStatus

LEMMA PoolSettles ==
  ASSUME TypeOK', Decisive'
  PROVE  PoolStatus' = records'
  BY DEF TypeOK, Decisive, Deciding, PoolStatus

\* Nothing of the pool changes in a step that leaves the records, the file and
\* persistMu alone and does not touch a call that is waiting for its write.
LEMMA PoolStutter ==
  ASSUME UNCHANGED <<records, disk, persist>>,
         \A c \in Caller : \/ call'[c] = call[c]
                           \/ call[c].op \notin Deciding /\ call'[c].op \notin Deciding
  PROVE  UNCHANGED Pool!vars
  BY DEF PoolStatus, Deciding, Pool!vars

\* The pool counts as the runtime does.
LEMMA PoolCounts == \A S : Pool!Cardinality(S) = Cardinality(S)
  BY DEF Cardinality, Pool!Cardinality

\* A call that is between its reservation and its write is the only one, and
\* its agent, which already holds a slot, is not one the pool counts.
LEMMA PoolBefore ==
  ASSUME SlotInv, CapHeld, NEW c \in Caller, call[c].op \in Deciding
  PROVE  /\ call[c].agent \in Agent
         /\ persist = c
         /\ PoolStatus = [records EXCEPT ![call[c].agent] =
                            IF call[c].op = "spawnWrite" THEN "absent" ELSE call[c].old]
         /\ Cardinality(Pool!Running) < Limit
  <1> DEFINE a == call[c].agent
             before == IF call[c].op = "spawnWrite" THEN "absent" ELSE call[c].old
  <1>1. a \in Agent /\ persist = c /\ records[a] = "running" /\ loop[a].pc = "none"
    BY DEF SlotInv, Discipline, LockDiscipline, StartsAlone, Writing, Starting, Deciding
  <1>2. PoolStatus = [records EXCEPT ![a] = before]
    BY <1>1 DEF SlotInv, TypeOK, PoolStatus, Deciding
  <1>3. before # "running"
    BY DEF SlotInv, Discipline, OldIsTerminal, Deciding, Terminal
  <1>4. Pool!Running \subseteq runtime \ {a}
    BY <1>1, <1>2, <1>3 DEF SlotInv, TypeOK, Discipline, SlotsExact, Pool!Running
  <1>5. a \in runtime
    BY <1>1 DEF SlotInv, Discipline, SlotsExact
  <1>6. IsFiniteSet(runtime) /\ Cardinality(runtime) \in Nat
    BY RuntimeFinite DEF SlotInv
  <1>7. /\ IsFiniteSet(runtime \ {a})
        /\ Cardinality(runtime \ {a}) = Cardinality(runtime) - 1
    BY <1>5, <1>6, FS_RemoveElement
  <1>8. /\ Cardinality(Pool!Running) \in Nat
        /\ Cardinality(Pool!Running) <= Cardinality(runtime) - 1
    BY <1>4, <1>7, FS_Subset, FS_CardinalityType
  <1>9. Cardinality(Pool!Running) < Limit
    BY <1>6, <1>8, LimitAssumption DEF CapHeld
  <1> QED
    BY <1>1, <1>2, <1>9

\* A call that has started nothing holds no undecided start.
LEMMA PoolHolder ==
  ASSUME SlotInv, NEW x, persist = x, x \in Agent \/ (x \in Caller /\ call[x].op \notin Deciding)
  PROVE  Decisive
  BY NamesAssumption DEF Decisive

LEMMA PoolFree ==
  ASSUME persist = None
  PROVE  Decisive
  BY NamesAssumption DEF Decisive

LEMMA PoolInit == Init => Pool!Init
  BY NamesAssumption DEF Init, Pool!Init, PoolStatus

\* Every step of the runtime is a step of the pool, or none of its business.
LEMMA PoolStep ==
  SlotInv /\ SlotInv' /\ CapHeld /\ [Next]_vars => [Pool!Next]_(Pool!vars)
  <1> SUFFICES ASSUME SlotInv, SlotInv', CapHeld, [Next]_vars
               PROVE  Pool!Next \/ UNCHANGED Pool!vars
    OBVIOUS
  <1>a. TypeOK /\ TypeOK'
    BY DEF SlotInv
  <1>b. persist # None => snap = records
    BY DEF SlotInv, Discipline, SnapshotIsCurrent
  <1>c. \A c \in Caller : call[c].op \in Writing => persist = c
    BY DEF SlotInv, Discipline, LockDiscipline
  <1>d. \A a \in Agent : loop[a].pc \in Closing => persist = a
    BY DEF SlotInv, Discipline, LockDiscipline
  <1>1. ASSUME NEW c \in Caller, NEW a \in Agent, SpawnReserve(c, a)
        PROVE  UNCHANGED Pool!vars
    <2>1. PoolStatus = records
      BY <1>1, <1>a, PoolFree, PoolSettled DEF SpawnReserve, LockAndSnapshot
    <2>2. records[a] = "absent"
      BY <1>1 DEF SpawnReserve, SlotInv, Discipline, Unissued
    <2>3. /\ persist' = c /\ disk' = disk
          /\ records' = [records EXCEPT ![a] = "running"]
          /\ call'[c].op = "spawnWrite" /\ call'[c].agent = a
      BY <1>1, <1>a DEF SpawnReserve, LockAndSnapshot, TypeOK, CallType, Idle
    <2>4. PoolStatus' = records
      BY <2>2, <2>3, <1>a DEF PoolStatus, TypeOK
    <2> QED
      BY <2>1, <2>3, <2>4 DEF Pool!vars
  <1>2. ASSUME NEW c \in Caller, NEW a \in Agent, ResumeReserve(c, a)
        PROVE  UNCHANGED Pool!vars
    <2>1. PoolStatus = records
      BY <1>2, <1>a, PoolFree, PoolSettled DEF ResumeReserve, TakeSlotAgain, LockAndSnapshot
    <2>3. /\ persist' = c /\ disk' = disk
          /\ records' = [records EXCEPT ![a] = "running"]
          /\ call'[c].op = "resumeWrite" /\ call'[c].agent = a /\ call'[c].old = records[a]
      BY <1>2, <1>a DEF ResumeReserve, TakeSlotAgain, LockAndSnapshot, TypeOK, CallType, Idle
    <2>4. PoolStatus' = records
      BY <2>3, <1>a DEF PoolStatus, TypeOK
    <2> QED
      BY <2>1, <2>3, <2>4 DEF Pool!vars
  <1>3. ASSUME NEW c \in Caller, NEW a \in Agent, AssignReserve(c, a) \/ UsageReserve(c, a)
        PROVE  UNCHANGED Pool!vars
    <2>1. PoolStatus = records
      BY <1>3, <1>a, PoolFree, PoolSettled DEF AssignReserve, UsageReserve, LockAndSnapshot
    <2>2. persist' = c /\ disk' = disk /\ records' = records
      BY <1>3 DEF AssignReserve, UsageReserve, LockAndSnapshot
    <2>5. call'[c].op \notin Deciding
      <3>1. CASE AssignReserve(c, a)
        BY <3>1, <1>a DEF AssignReserve, TypeOK, Idle, Deciding
      <3>2. CASE UsageReserve(c, a)
        BY <3>2, <1>a DEF UsageReserve, TypeOK, Idle, Deciding
      <3> QED
        BY <1>3, <3>1, <3>2
    <2>3. Decisive'
      BY <2>2, <2>5 DEF Decisive
    <2>4. PoolStatus' = records'
      BY <2>3, <1>a, PoolSettles
    <2> QED
      BY <2>1, <2>2, <2>4 DEF Pool!vars
  <1>4. ASSUME NEW c \in Caller, CloseSave(c)
        PROVE  UNCHANGED Pool!vars
    <2>1. PoolStatus = records
      BY <1>4, <1>a, PoolFree, PoolSettled DEF CloseSave, LockAndSnapshot
    <2>2. /\ persist' = c /\ disk' = disk /\ records' = records
          /\ call'[c].op \notin Deciding
      BY <1>4, <1>a DEF CloseSave, LockAndSnapshot, Goto, TypeOK, CallType, Deciding
    <2>3. Decisive'
      BY <2>2 DEF Decisive
    <2>4. PoolStatus' = records'
      BY <2>3, <1>a, PoolSettles
    <2> QED
      BY <2>1, <2>2, <2>4 DEF Pool!vars
  <1>5. ASSUME NEW c \in Caller, SpawnWrite(c)
        PROVE  Pool!Next
    <2> DEFINE a == call[c].agent
    <2>1. /\ a \in Agent /\ persist = c /\ Cardinality(Pool!Running) < Limit
          /\ PoolStatus = [records EXCEPT ![a] = "absent"]
      BY <1>5, PoolBefore DEF SpawnWrite, Deciding
    <2>2. persist' = None /\ disk' = records /\ records' = records
      BY <1>5, <1>b, <2>1, NamesAssumption DEF SpawnWrite, Write
    <2>3. PoolStatus' = records
      BY <2>2, <1>a, PoolSettles, NamesAssumption DEF Decisive
    <2>4. records[a] = "running"
      BY <1>5 DEF SpawnWrite, SlotInv, Discipline, StartsAlone, Starting
    <2>5. PoolStatus' = [PoolStatus EXCEPT ![a] = "running"] /\ PoolStatus[a] = "absent"
      BY <2>1, <2>3, <2>4, <1>a DEF TypeOK
    <2>6. Pool!Spawn(a)
      BY <2>1, <2>2, <2>3, <2>5, PoolCounts DEF Pool!Spawn, Pool!Start
    <2> QED
      BY <2>1, <2>6 DEF Pool!Next
  <1>6. ASSUME NEW c \in Caller, ResumeWrite(c)
        PROVE  Pool!Next
    <2> DEFINE a == call[c].agent
    <2>1. /\ a \in Agent /\ persist = c /\ Cardinality(Pool!Running) < Limit
          /\ PoolStatus = [records EXCEPT ![a] = call[c].old]
      BY <1>6, PoolBefore DEF ResumeWrite, Deciding
    <2>2. persist' = None /\ disk' = records /\ records' = records
      BY <1>6, <1>b, <2>1, NamesAssumption DEF ResumeWrite, Write
    <2>3. PoolStatus' = records
      BY <2>2, <1>a, PoolSettles, NamesAssumption DEF Decisive
    <2>4. records[a] = "running" /\ call[c].old \in Terminal
      BY <1>6 DEF ResumeWrite, SlotInv, Discipline, StartsAlone, Starting, OldIsTerminal
    <2>5. PoolStatus' = [PoolStatus EXCEPT ![a] = "running"] /\ PoolStatus[a] \in Pool!Terminal
      BY <2>1, <2>3, <2>4, <1>a DEF TypeOK, Terminal, Pool!Terminal
    <2>6. Pool!Resume(a)
      BY <2>1, <2>2, <2>3, <2>5, PoolCounts DEF Pool!Resume, Pool!Start
    <2> QED
      BY <2>1, <2>6 DEF Pool!Next
  <1>7. ASSUME NEW c \in Caller, SpawnRollback(c)
        PROVE  UNCHANGED Pool!vars
    <2>1. PoolStatus = [records EXCEPT ![call[c].agent] = "absent"]
      BY <1>7, PoolBefore DEF SpawnRollback, Deciding
    <2>2. persist' = None /\ disk' = disk
      BY <1>7 DEF SpawnRollback, WriteFails
    <2>3. PoolStatus' = records'
      BY <2>2, <1>a, PoolSettles, NamesAssumption DEF Decisive
    <2> QED
      BY <1>7, <2>1, <2>2, <2>3 DEF SpawnRollback, Pool!vars
  <1>8. ASSUME NEW c \in Caller, ResumeRollback(c)
        PROVE  UNCHANGED Pool!vars
    <2>1. PoolStatus = [records EXCEPT ![call[c].agent] = call[c].old]
      BY <1>8, PoolBefore DEF ResumeRollback, Deciding
    <2>2. persist' = None /\ disk' = disk
      BY <1>8 DEF ResumeRollback, WriteFails
    <2>3. PoolStatus' = records'
      BY <2>2, <1>a, PoolSettles, NamesAssumption DEF Decisive
    <2> QED
      BY <1>8, <2>1, <2>2, <2>3 DEF ResumeRollback, Pool!vars
  <1>9. ASSUME NEW c \in Caller, AssignWrite(c) \/ UsageWrite(c) \/ UpdateRollback(c) \/ CloseWrite(c)
        PROVE  Pool!Next \/ UNCHANGED Pool!vars
    <2>1. persist = c /\ call[c].op \notin Deciding
      BY <1>9, <1>c DEF AssignWrite, UsageWrite, UpdateRollback, CloseWrite, Writing, Deciding
    <2>2. PoolStatus = records
      BY <2>1, <1>a, PoolSettled DEF Decisive
    <2>3. persist' = None /\ records' = records /\ (disk' = snap \/ disk' = disk)
      BY <1>9 DEF AssignWrite, UsageWrite, UpdateRollback, CloseWrite, Write, WriteFails
    <2>4. PoolStatus' = records'
      BY <2>3, <1>a, PoolSettles, NamesAssumption DEF Decisive
    <2>5. disk' = PoolStatus \/ disk' = disk
      BY <2>1, <2>2, <2>3, <1>b, NamesAssumption
    <2> QED
      BY <2>2, <2>3, <2>4, <2>5 DEF Pool!Next, Pool!Save, Pool!vars
  <1>10. ASSUME NEW a \in Agent, FinishMark(a)
         PROVE  Pool!Next
    <2>1. PoolStatus = records
      BY <1>10, <1>a, PoolFree, PoolSettled DEF FinishMark, LockAndSnapshot
    <2>2. /\ persist' = a /\ disk' = disk
          /\ records' = [records EXCEPT ![a] = loop[a].status]
      BY <1>10 DEF FinishMark, LockAndSnapshot
    <2>3. PoolStatus' = records'
      BY <2>2, <1>a, PoolSettles, NamesAssumption DEF Decisive
    <2>4. records[a] = "running" /\ loop[a].status \in {"completed", "failed", "cancelled"}
      BY <1>10 DEF FinishMark, SlotInv, Discipline, SlotsExact, Decided, Working
    <2>5. Pool!End(a, loop[a].status)
      BY <2>1, <2>2, <2>3, <2>4 DEF Pool!End
    <2> QED
      BY <2>4, <2>5 DEF Pool!Next
  <1>11. ASSUME NEW a \in Agent, FinishWrite(a)
         PROVE  Pool!Next \/ UNCHANGED Pool!vars
    <2>1. persist = a
      BY <1>11, <1>d DEF FinishWrite, Closing
    <2>2. PoolStatus = records
      BY <2>1, <1>a, PoolSettled, NamesAssumption DEF Decisive
    <2>3. persist' = a /\ records' = records /\ (disk' = snap \/ disk' = disk)
      BY <1>11, <2>1 DEF FinishWrite, Write, WriteFails
    <2>4. PoolStatus' = records'
      BY <2>3, <1>a, PoolSettles, NamesAssumption DEF Decisive
    <2>5. disk' = PoolStatus \/ disk' = disk
      BY <2>1, <2>2, <2>3, <1>b, NamesAssumption
    <2> QED
      BY <2>2, <2>3, <2>4, <2>5 DEF Pool!Next, Pool!Save, Pool!vars
  <1>12. ASSUME NEW a \in Agent, FinishEmit(a)
         PROVE  UNCHANGED Pool!vars
    <2>1. persist = a
      BY <1>12, <1>d DEF FinishEmit, Closing
    <2>2. PoolStatus = records
      BY <2>1, <1>a, PoolSettled, NamesAssumption DEF Decisive
    <2>3. persist' = None /\ UNCHANGED <<records, disk>>
      BY <1>12 DEF FinishEmit
    <2>4. PoolStatus' = records'
      BY <2>3, <1>a, PoolSettles, NamesAssumption DEF Decisive
    <2> QED
      BY <2>2, <2>3, <2>4 DEF Pool!vars
  <1>13. ASSUME Crash
         PROVE  Pool!Next
    <2>1. PoolStatus' = records'
      BY <1>13, <1>a, PoolSettles, NamesAssumption DEF Crash, Decisive
    <2>2. Pool!Crash
      BY <1>13, <2>1 DEF Crash, Pool!Crash
    <2> QED
      BY <2>2 DEF Pool!Next
  <1>14. ASSUME NEW c \in Caller, NEW a \in Agent, CancelLookup(c, a) \/ WaitBegin(c, a)
         PROVE  UNCHANGED Pool!vars
    <2>1. UNCHANGED <<records, disk, persist>>
      BY <1>14 DEF CancelLookup, WaitBegin, file
    <2>2. call[c].op = "idle" /\ \A d \in Caller \ {c} : call'[d] = call[d]
      BY <1>14, <1>a DEF CancelLookup, WaitBegin, TypeOK
    <2>3. call'[c].op \in {"cancel", "waitLookup"}
      <3>1. CASE CancelLookup(c, a)
        BY <3>1, <1>a DEF CancelLookup, TypeOK, Idle
      <3>2. CASE WaitBegin(c, a)
        BY <3>2, <1>a DEF WaitBegin, TypeOK, Idle
      <3> QED
        BY <1>14, <3>1, <3>2
    <2> QED
      BY <2>1, <2>2, <2>3, PoolStutter DEF Deciding
  <1>15. ASSUME NEW c \in Caller, NEW a \in Agent, NEW interrupt \in BOOLEAN, SendInput(c, a, interrupt)
         PROVE  UNCHANGED Pool!vars
    <2>1. UNCHANGED <<records, disk, persist>>
      BY <1>15 DEF SendInput, file
    <2>2. \A d \in Caller : call'[d] = call[d] \/ call'[d].op = "interrupt"
      BY <1>15, <1>a, SendInputEffect
    <2>3. \A d \in Caller : call'[d] = call[d] \/ call[d].op = "idle"
      BY <1>15, <1>a DEF SendInput, TypeOK
    <2> QED
      BY <2>1, <2>2, <2>3, PoolStutter DEF Deciding
  <1>16. ASSUME NEW c \in Caller, SpawnStart(c) \/ ResumeStart(c) \/ CancelFire(c) \/ Interrupt(c)
         PROVE  UNCHANGED Pool!vars
    <2>1. UNCHANGED <<records, disk, persist>> /\ Return(c) /\ call[c].op \notin Deciding
      BY <1>16 DEF SpawnStart, ResumeStart, CancelFire, Interrupt, file, Deciding
    <2> QED
      BY <1>a, <2>1, PoolStutter DEF Return, Idle, Deciding, TypeOK, CallType
  <1>17. ASSUME NEW c \in Caller, WaitRead(c) \/ WaitExpires(c)
         PROVE  UNCHANGED Pool!vars
    BY <1>17, <1>a, PoolStutter
    DEF WaitRead, WaitExpires, file, Return, Idle, Deciding, TypeOK, CallType
  <1>18. ASSUME NEW c \in Caller, CloseGate(c) \/ CloseCancel(c) \/ CloseWait(c) \/ WaitDone(c)
         PROVE  UNCHANGED Pool!vars
    BY <1>18, <1>a, PoolStutter
    DEF CloseGate, CloseCancel, CloseWait, WaitDone, file, Goto, Deciding, TypeOK, CallType
  <1>19. ASSUME NEW c \in Caller, WaitLookup(c)
         PROVE  UNCHANGED Pool!vars
    BY <1>19, <1>a, PoolStutter DEF WaitLookup, file, Deciding, TypeOK, CallType
  <1>20. ASSUME NEW a \in Agent,
                \/ TurnStarts(a) \/ TakeInput(a) \/ Verdict(a) \/ FinishDetach(a)
                \/ \E err \in BOOLEAN : TurnReturns(a, err)
         PROVE  UNCHANGED Pool!vars
    BY <1>20, PoolStutter DEF TurnStarts, TakeInput, Verdict, FinishDetach, TurnReturns, file
  <1>21. CASE UNCHANGED vars
    BY <1>21, PoolStutter DEF vars
  <1> QED
    BY <1>1, <1>2, <1>3, <1>4, <1>5, <1>6, <1>7, <1>8, <1>9, <1>10, <1>11, <1>12, <1>13,
      <1>14, <1>15, <1>16, <1>17, <1>18, <1>19, <1>20, <1>21
      DEF Next, CallStep, SpawnStep, ResumeStep, UpdateStep, WaitStep, CloseStep, LoopStep

\* Spawn and Resume look atomic to everyone, whatever the order of the locks and
\* writes inside, the writes that fail and the crashes: the Manager implements
\* the pool.
THEOREM RegistryImplementsPool == Spec => ImplementsPool
  <1> QED
    BY PoolInit, PoolStep, Accounted, CapNeverExceeded, PTL DEF Spec, ImplementsPool, Pool!Spec


\* What the pool owes to the file it owes at every moment.
LEMMA PoolOwes == Pool!Spec => []Pool!OnFile
  <1>1. Pool!Init => Pool!OnFile
    BY DEF Pool!Init, Pool!OnFile, PoolStatus
  <1>2. Pool!OnFile /\ [Pool!Next]_(Pool!vars) => Pool!OnFile'
    <2> SUFFICES ASSUME Pool!OnFile, Pool!Next \/ UNCHANGED Pool!vars PROVE Pool!OnFile'
      OBVIOUS
    <2>1. ASSUME NEW a \in Agent, Pool!Spawn(a) \/ Pool!Resume(a) PROVE Pool!OnFile'
      BY <2>1 DEF Pool!Spawn, Pool!Resume, Pool!Start, Pool!OnFile
    <2>2. ASSUME NEW a \in Agent, NEW s \in {"completed", "failed", "cancelled"}, Pool!End(a, s)
          PROVE  Pool!OnFile'
      BY <2>2 DEF Pool!End, Pool!OnFile, PoolStatus
    <2>3. ASSUME Pool!Save PROVE Pool!OnFile'
      BY <2>3 DEF Pool!Save, Pool!OnFile
    <2>4. ASSUME Pool!Crash PROVE Pool!OnFile'
      BY <2>4 DEF Pool!Crash, Pool!OnFile
    <2>5. CASE UNCHANGED Pool!vars
      BY <2>5 DEF Pool!vars, Pool!OnFile
    <2> QED
      BY <2>1, <2>2, <2>3, <2>4, <2>5 DEF Pool!Next
  <1> QED
    BY <1>1, <1>2, PTL DEF Pool!Spec

\* A crash finds every agent that runs, and every agent there ever was, in the
\* file: what the pool owes, the runtime owes too.
THEOREM RegistryOwes == Spec => []Pool!OnFile
  <1> QED
    BY RegistryImplementsPool, PoolOwes, PTL DEF ImplementsPool

\* An agent whose start was written is never forgotten again: neither a failed
\* write nor a crash brings back the state before its Spawn.
NeverForgotten ==
  [][\A a \in Agent : PoolStatus[a] # "absent" => PoolStatus'[a] # "absent"]_vars

\* The id Spawn returned stays known, in this process and the ones after it.
THEOREM AgentsNeverForgotten == Spec => NeverForgotten
  <1> DEFINE Kept == \A a \in Agent : PoolStatus[a] # "absent" => PoolStatus'[a] # "absent"
  <1>1. ASSUME Pool!OnFile, [Pool!Next]_(Pool!vars) PROVE Kept
    <2>1. ASSUME NEW a \in Agent, Pool!Spawn(a) \/ Pool!Resume(a) PROVE Kept
      BY <2>1 DEF Pool!Spawn, Pool!Resume, Pool!Start, PoolStatus
    <2>2. ASSUME NEW a \in Agent, NEW s \in {"completed", "failed", "cancelled"}, Pool!End(a, s)
          PROVE  Kept
      BY <2>2 DEF Pool!End, PoolStatus
    <2>3. ASSUME Pool!Save PROVE Kept
      BY <2>3 DEF Pool!Save
    <2>4. ASSUME Pool!Crash PROVE Kept
      BY <1>1, <2>4 DEF Pool!Crash, Pool!OnFile
    <2>5. CASE UNCHANGED Pool!vars
      BY <2>5 DEF Pool!vars
    <2> QED
      BY <1>1, <2>1, <2>2, <2>3, <2>4, <2>5 DEF Pool!Next
  <1>2. SlotInv /\ SlotInv' /\ CapHeld /\ Pool!OnFile /\ [Next]_vars => [Kept]_vars
    BY <1>1, PoolStep
  <1> QED
    BY <1>2, Accounted, CapNeverExceeded, RegistryOwes, PTL DEF Spec, NeverForgotten

-----------------------------------------------------------------------------
(* Nobody waits for a run that is not there.                               *)

\* An agent that is recorded as running has its run.
RunningIsOn == \A a \in Agent : records[a] = "running" => UnderWay(a)

\* And whoever waits waits for an agent.
WaitersNameAgents == \A c \in Caller : call[c].op = "waiting" => call[c].agent \in Agent

WaitInv == WaitersHaveARun /\ RunningIsOn /\ WaitersNameAgents

\* Steps that end no run, start no wait and lose no channel.
LEMMA WaitKept ==
  ASSUME WaitInv,
         done \subseteq done', run' = run, faults' = 0 => faults = 0,
         \A a \in Agent : UnderWay(a) => UnderWay(a)',
         \A a \in Agent : records'[a] = "running" => records[a] = "running",
         \A c \in Caller : call'[c].op = "waiting" => call'[c] = call[c]
  PROVE  WaitInv'
  BY DEF WaitInv, WaitersHaveARun, RunningIsOn, WaitersNameAgents

\* A run stays under way in a step that leaves its goroutine and the call that
\* starts it where they are.
LEMMA UnderWayKept ==
  ASSUME \A a \in Agent : loop[a].pc # "none" => loop'[a].pc # "none",
         \A c \in Caller : call[c].op \in Starting =>
           call'[c].op \in Starting /\ call'[c].agent = call[c].agent
  PROVE  \A a \in Agent : UnderWay(a) => UnderWay(a)'
  BY DEF UnderWay, Starting


\* The steps of a call that is over or moves on, when it is not one that starts
\* an agent: nothing else of what the waiters need changes.
LEMMA WaitReturns ==
  ASSUME SlotInv, WaitInv, NEW c \in Caller, call[c].op \notin Starting,
         Return(c) \/ \E op \in Ops \ {"waiting"} : Goto(c, op),
         UNCHANGED <<run, loop, done, records>>, faults' = 0 => faults = 0
  PROVE  WaitInv'
  <1>1. /\ \A d \in Caller \ {c} : call'[d] = call[d]
        /\ call'[c].op # "waiting"
    BY DEF SlotInv, TypeOK, CallType, Return, Goto, Idle
  <1>2. \A a \in Agent : UnderWay(a) => UnderWay(a)'
    BY <1>1, UnderWayKept
  <1> QED
    BY <1>1, <1>2, WaitKept

\* A call that begins is not one that starts an agent, nor a wait.
LEMMA WaitBegins ==
  ASSUME SlotInv, WaitInv, NEW c \in Caller, call[c].op = "idle",
         \A d \in Caller : call'[d] = call[d] \/ (d = c /\ call'[d].op # "waiting"),
         UNCHANGED <<run, loop, done, records>>, faults' = 0 => faults = 0
  PROVE  WaitInv'
  <1>1. \A a \in Agent : UnderWay(a) => UnderWay(a)'
    BY UnderWayKept DEF Starting
  <1> QED
    BY <1>1, WaitKept

\* Every step keeps a run, or a closed channel, for whoever waits.
LEMMA WaitStepInv == SlotInv /\ SlotInv' /\ WaitInv /\ [Next]_vars => WaitInv'
  <1> SUFFICES ASSUME SlotInv, SlotInv', WaitInv, [Next]_vars PROVE WaitInv'
    OBVIOUS
  <1>a. TypeOK /\ TypeOK'
    BY DEF SlotInv
  <1>b. \A a \in Agent : persist = None => loop[a].pc \notin Closing
    BY NamesAssumption DEF SlotInv, Discipline, LockDiscipline
  <1>c. \A a \in Agent : loop[a].pc # "none" => loop[a].pc \in Working \cup Closing
    BY DEF SlotInv, TypeOK, LoopType, Working, Closing
  <1>d. \A a \in Agent : loop[a].pc \in Working => records[a] = "running"
    BY DEF SlotInv, Discipline, SlotsExact
  <1>e. \A c \in Caller : call[c].op \in Starting =>
          call[c].agent \in Agent /\ records[call[c].agent] = "running"
    BY DEF SlotInv, Discipline, StartsAlone
  <1>f. \A a \in Agent : persist = None /\ records[a] # "running" => ~UnderWay(a)
    BY <1>b, <1>c, <1>d, <1>e DEF UnderWay, Starting
  <1>1. ASSUME NEW c \in Caller, NEW a \in Agent, SpawnReserve(c, a) \/ ResumeReserve(c, a)
        PROVE  WaitInv'
    <2>1. /\ persist = None /\ call[c].op = "idle" /\ records[a] # "running"
          /\ records' = [records EXCEPT ![a] = "running"]
          /\ \A b \in Agent \ {a} : run'[b] = run[b]
          /\ UNCHANGED <<loop, done, faults>>
      BY <1>1, <1>a DEF SpawnReserve, ResumeReserve, TakeSlotAgain, LockAndSnapshot,
        SlotInv, Discipline, Unissued, TypeOK, Terminal, bounds
    <2>2. \A d \in Caller \ {c} : call'[d] = call[d]
      BY <1>1, <1>a DEF SpawnReserve, ResumeReserve, TakeSlotAgain, TypeOK
    <2>3. call'[c].op \in {"spawnWrite", "resumeWrite"} /\ call'[c].agent = a
      <3>1. CASE SpawnReserve(c, a)
        BY <3>1, <1>a DEF SpawnReserve, TypeOK, Idle
      <3>2. CASE ResumeReserve(c, a)
        BY <3>2, <1>a DEF ResumeReserve, TakeSlotAgain, TypeOK, Idle
      <3> QED
        BY <1>1, <3>1, <3>2
    <2>4. UnderWay(a)'
      BY <2>3 DEF UnderWay
    <2>5. \A b \in Agent : UnderWay(b) => UnderWay(b)'
      BY <2>1, <2>2, UnderWayKept DEF Starting
    <2>6. ~UnderWay(a)
      BY <1>f, <2>1
    <2>7. WaitersHaveARun'
      BY <2>1, <2>2, <2>3, <2>5, <2>6 DEF WaitInv, WaitersHaveARun, WaitersNameAgents
    <2>8. RunningIsOn'
      BY <2>1, <2>4, <2>5, <1>a DEF WaitInv, RunningIsOn, TypeOK
    <2> QED
      BY <2>2, <2>3, <2>7, <2>8 DEF WaitInv, WaitersNameAgents
  <1>2. ASSUME NEW c \in Caller, SpawnWrite(c) \/ ResumeWrite(c)
        PROVE  WaitInv'
    <2>1. UNCHANGED <<run, loop, done, records, faults>>
      BY <1>2 DEF SpawnWrite, ResumeWrite, Write, entry
    <2>2. /\ \A d \in Caller \ {c} : call'[d] = call[d]
          /\ call'[c].op \in {"spawnStart", "resumeStart"} /\ call'[c].agent = call[c].agent
      BY <1>2, <1>a DEF SpawnWrite, ResumeWrite, Goto, TypeOK, CallType
    <2>3. \A a \in Agent : UnderWay(a) => UnderWay(a)'
      BY <2>1, <2>2, UnderWayKept DEF Starting
    <2> QED
      BY <2>1, <2>2, <2>3, WaitKept
  <1>3. ASSUME NEW c \in Caller, SpawnRollback(c) \/ ResumeRollback(c)
        PROVE  WaitInv'
    <2>1. faults' # 0 /\ loop' = loop
      BY <1>3, <1>a DEF SpawnRollback, ResumeRollback, WriteFails, TypeOK
    <2>2. call[c].op \in Starting
      BY <1>3 DEF SpawnRollback, ResumeRollback, Starting
    <2>3. /\ \A d \in Caller \ {c} : call'[d] = call[d]
          /\ call'[c] = Idle
      BY <1>3, <1>a DEF SpawnRollback, ResumeRollback, Return, TypeOK
    <2>4. /\ call[c].agent \in Agent
          /\ \A a \in Agent \ {call[c].agent} : records'[a] = records[a]
          /\ records'[call[c].agent] # "running"
      BY <1>3, <1>a, <2>2 DEF SpawnRollback, ResumeRollback, SlotInv, Discipline, StartsAlone,
        OldIsTerminal, TypeOK, Terminal
    <2>5. \A a \in Agent \ {call[c].agent} : UnderWay(a) => UnderWay(a)'
      BY <2>1, <2>3 DEF UnderWay
    <2>6. RunningIsOn'
      BY <2>4, <2>5 DEF WaitInv, RunningIsOn
    <2>7. WaitersNameAgents'
      BY <2>3 DEF WaitInv, WaitersNameAgents, Idle
    <2> QED
      BY <2>1, <2>6, <2>7 DEF WaitInv, WaitersHaveARun
  <1>4. ASSUME NEW c \in Caller, SpawnStart(c) \/ ResumeStart(c)
        PROVE  WaitInv'
    <2>1. UNCHANGED <<run, done, records, faults>>
      BY <1>4 DEF SpawnStart, ResumeStart, entry, bounds
    <2>2. call[c].agent \in Agent
      BY <1>4, <1>e DEF SpawnStart, ResumeStart, Starting
    <2>3. /\ \A d \in Caller \ {c} : call'[d] = call[d]
          /\ call'[c] = Idle
      BY <1>4, <1>a DEF SpawnStart, ResumeStart, Return, TypeOK
    <2>4. /\ loop'[call[c].agent].pc = "next"
          /\ \A a \in Agent \ {call[c].agent} : loop'[a] = loop[a]
      BY <1>4, <1>a, <2>2 DEF SpawnStart, ResumeStart, TypeOK, NoLoop
    <2>5. \A a \in Agent : UnderWay(a) => UnderWay(a)'
      BY <2>3, <2>4 DEF UnderWay
    <2> QED
      BY <2>1, <2>3, <2>5, WaitKept DEF Idle
  <1>5. ASSUME NEW c \in Caller, WaitLookup(c)
        PROVE  WaitInv'
    <2>1. UNCHANGED <<run, loop, done, records, runtime, faults>>
      BY <1>5 DEF WaitLookup, entry, bounds
    <2>2. \A d \in Caller \ {c} : call'[d] = call[d]
      BY <1>5, <1>a DEF WaitLookup, TypeOK
    <2>3. call[c].op \notin Starting
      BY <1>5 DEF WaitLookup, Starting
    <2>4. \A a \in Agent : UnderWay(a) => UnderWay(a)'
      BY <2>1, <2>2, <2>3, UnderWayKept
    <2>5. call'[c].op = "waiting" =>
            /\ call[c].agent \in runtime /\ call'[c].agent = call[c].agent
            /\ call'[c].run = run[call[c].agent]
      BY <1>5, <1>a DEF WaitLookup, TypeOK, CallType
    <2>6. \A a \in runtime : a \in Agent /\ UnderWay(a)
      BY <1>a DEF SlotInv, Discipline, SlotsExact, WaitInv, RunningIsOn, UnderWay
    <2> QED
      BY <2>1, <2>2, <2>4, <2>5, <2>6
      DEF WaitInv, WaitersHaveARun, RunningIsOn, WaitersNameAgents
  <1>6. ASSUME NEW a \in Agent, FinishMark(a)
        PROVE  WaitInv'
    <2>1. /\ UNCHANGED <<run, done, call, faults>> /\ loop'[a].pc = "detach"
          /\ \A b \in Agent \ {a} : loop'[b] = loop[b]
          /\ \A b \in Agent \ {a} : records'[b] = records[b]
      BY <1>6, <1>a DEF FinishMark, entry, bounds, TypeOK, LoopType
    <2>2. records[a] = "running"
      BY <1>6, <1>d DEF FinishMark, Working
    <2>3. \A b \in Agent : UnderWay(b) => UnderWay(b)'
      BY <2>1, UnderWayKept
    <2> QED
      BY <2>1, <2>2, <2>3, WaitKept
  <1>7. ASSUME NEW a \in Agent, FinishEmit(a)
        PROVE  WaitInv'
    <2>1. /\ UNCHANGED <<run, records, call, faults>>
          /\ done' = done \cup {<<a, run[a]>>}
          /\ \A b \in Agent \ {a} : loop'[b] = loop[b]
      BY <1>7, <1>a DEF FinishEmit, entry, bounds, TypeOK
    <2>2. \A b \in Agent \ {a} : UnderWay(b) => UnderWay(b)'
      BY <2>1 DEF UnderWay
    <2>3. records[a] # "running"
      BY <1>7 DEF FinishEmit, SlotInv, Discipline, SlotsExact, Closing
    <2> QED
      BY <2>1, <2>2, <2>3 DEF WaitInv, WaitersHaveARun, RunningIsOn, WaitersNameAgents
  <1>8. ASSUME NEW a \in Agent,
               \/ TurnStarts(a) \/ TakeInput(a) \/ Verdict(a) \/ FinishDetach(a) \/ FinishWrite(a)
               \/ \E err \in BOOLEAN : TurnReturns(a, err)
        PROVE  WaitInv'
    <2>1. UNCHANGED <<run, done, records, call>> /\ (faults' = 0 => faults = 0)
      <3>1. CASE FinishWrite(a)
        BY <3>1, <1>a DEF FinishWrite, entry, Write, WriteFails, TypeOK
      <3>2. CASE ~FinishWrite(a)
        BY <1>8, <3>2 DEF TurnStarts, TakeInput, Verdict, FinishDetach, TurnReturns, entry, bounds
      <3> QED
        BY <3>1, <3>2
    <2>2. loop'[a].pc # "none" /\ \A b \in Agent \ {a} : loop'[b] = loop[b]
      <3>1. ASSUME NEW r \in LoopType, NEW n \in Nat
            PROVE  [r EXCEPT !.pc = "turn", !.turn = n, !.cut = FALSE].pc = "turn"
        BY DEF LoopType
      <3>2. CASE TurnStarts(a)
        BY <3>1, <3>2, <1>a DEF TurnStarts, TypeOK, LoopType
      <3>3. CASE TakeInput(a)
        BY <3>3, <1>a, TakeInputEffect
      <3>4. CASE Verdict(a)
        BY <3>4, <1>a DEF Verdict, TypeOK, LoopType
      <3>6. CASE FinishDetach(a) \/ FinishWrite(a)
        <4>1. \E pc \in {"write", "emit"} : loop' = [loop EXCEPT ![a] = [@ EXCEPT !.pc = pc]]
          BY <3>6 DEF FinishDetach, FinishWrite
        <4> QED
          BY <4>1, <1>a DEF TypeOK, LoopType
      <3>5. CASE \E err \in BOOLEAN : TurnReturns(a, err)
        BY <3>5, <1>a DEF TurnReturns, TypeOK, LoopType
      <3> QED
        BY <1>8, <3>2, <3>3, <3>4, <3>5, <3>6
    <2>3. \A b \in Agent : UnderWay(b) => UnderWay(b)'
      BY <2>1, <2>2, UnderWayKept
    <2> QED
      BY <2>1, <2>3, WaitKept
  <1>9. ASSUME Crash
        PROVE  WaitInv'
    BY <1>9, <1>a DEF Crash, WaitInv, WaitersHaveARun, RunningIsOn, WaitersNameAgents, Idle, TypeOK
  <1>10. ASSUME NEW c \in Caller,
                CancelFire(c) \/ Interrupt(c) \/ AssignWrite(c) \/ UsageWrite(c) \/ UpdateRollback(c)
                  \/ WaitRead(c) \/ WaitExpires(c) \/ CloseWrite(c)
         PROVE  WaitInv'
    <2>1. /\ call[c].op \notin Starting /\ Return(c) /\ UNCHANGED <<run, done, records>>
          /\ faults' = 0 => faults = 0
      BY <1>10, <1>a DEF CancelFire, Interrupt, AssignWrite, UsageWrite, UpdateRollback, WaitRead,
        WaitExpires, CloseWrite, Starting, entry, bounds, Write, WriteFails, TypeOK
    <2>2. /\ \A d \in Caller \ {c} : call'[d] = call[d]
          /\ call'[c].op = "idle"
      BY <2>1, <1>a DEF Return, TypeOK, Idle
    <2>3. \A b \in Agent : loop[b].pc # "none" => loop'[b].pc # "none"
      <3>1. CASE Interrupt(c)
        BY <3>1, <1>a DEF Interrupt, TypeOK, LoopType
      <3>2. CASE CancelFire(c)
        BY <3>2, <1>a DEF CancelFire, TypeOK, LoopType
      <3>3. CASE AssignWrite(c) \/ UsageWrite(c) \/ UpdateRollback(c) \/ WaitRead(c)
                   \/ WaitExpires(c) \/ CloseWrite(c)
        BY <3>3 DEF AssignWrite, UsageWrite, UpdateRollback, WaitRead, WaitExpires, CloseWrite
      <3> QED
        BY <1>10, <3>1, <3>2, <3>3
    <2>4. \A b \in Agent : UnderWay(b) => UnderWay(b)'
      BY <2>1, <2>2, <2>3, UnderWayKept
    <2> QED
      BY <2>1, <2>2, <2>4, WaitKept
  <1>11. ASSUME NEW c \in Caller,
                CloseGate(c) \/ CloseCancel(c) \/ CloseWait(c) \/ CloseSave(c) \/ WaitDone(c)
         PROVE  WaitInv'
    <2>1. /\ call[c].op \notin Starting /\ UNCHANGED <<run, loop, done, records, faults>>
          /\ \E op \in Ops \ {"waiting"} : Goto(c, op)
      BY <1>11 DEF CloseGate, CloseCancel, CloseWait, CloseSave, WaitDone, Starting, Ops, entry, bounds
    <2> QED
      BY <2>1, WaitReturns
  <1>12. ASSUME NEW c \in Caller, NEW a \in Agent,
                CancelLookup(c, a) \/ AssignReserve(c, a) \/ UsageReserve(c, a) \/ WaitBegin(c, a)
         PROVE  WaitInv'
    <2>1. /\ call[c].op = "idle" /\ UNCHANGED <<run, loop, done, records, faults>>
          /\ \A d \in Caller \ {c} : call'[d] = call[d]
      BY <1>12, <1>a DEF CancelLookup, AssignReserve, UsageReserve, WaitBegin, entry, bounds, TypeOK
    <2>2. call'[c].op # "waiting"
      <3>1. CASE CancelLookup(c, a)
        BY <3>1, <1>a DEF CancelLookup, TypeOK, Idle
      <3>2. CASE AssignReserve(c, a)
        BY <3>2, <1>a DEF AssignReserve, TypeOK, Idle
      <3>3. CASE UsageReserve(c, a)
        BY <3>3, <1>a DEF UsageReserve, TypeOK, Idle
      <3>4. CASE WaitBegin(c, a)
        BY <3>4, <1>a DEF WaitBegin, TypeOK, Idle
      <3> QED
        BY <1>12, <3>1, <3>2, <3>3, <3>4
    <2> QED
      BY <2>1, <2>2, WaitBegins
  <1>13. ASSUME NEW c \in Caller, NEW a \in Agent, NEW interrupt \in BOOLEAN, SendInput(c, a, interrupt)
         PROVE  WaitInv'
    <2>1. call[c].op = "idle" /\ UNCHANGED <<run, loop, done, records, faults>>
      BY <1>13 DEF SendInput, entry
    <2>2. \A d \in Caller : call'[d] = call[d] \/ call'[d].op = "interrupt"
      BY <1>13, <1>a, SendInputEffect
    <2>3. \A d \in Caller \ {c} : call'[d] = call[d]
      BY <1>13, <1>a DEF SendInput, TypeOK
    <2> QED
      BY <2>1, <2>2, <2>3, WaitBegins
  <1>14. CASE UNCHANGED vars
    BY <1>14, WaitKept DEF vars, UnderWay
  <1> QED
    BY <1>1, <1>2, <1>3, <1>4, <1>5, <1>6, <1>7, <1>8, <1>9, <1>10, <1>11, <1>12, <1>13, <1>14
      DEF Next, CallStep, SpawnStep, ResumeStep, UpdateStep, WaitStep, CloseStep, LoopStep

\* Until a write fails, whoever waits for an agent has looked up a channel that
\* is closed or a run that will close it.
THEOREM NobodyIsStranded == Spec => []WaitersHaveARun
  <1>1. Init => WaitInv
    BY DEF Init, Idle, NoLoop, WaitInv, WaitersHaveARun, RunningIsOn, WaitersNameAgents
  <1>2. WaitInv => WaitersHaveARun
    BY DEF WaitInv
  <1> QED
    BY <1>1, <1>2, WaitStepInv, Accounted, PTL DEF Spec

=============================================================================
