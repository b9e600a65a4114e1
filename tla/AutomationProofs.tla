-------------------------- MODULE AutomationProofs --------------------------
(***************************************************************************)
(* What holds of Automation for every number of automations and callers,   *)
(* every period and any number of failures and deaths of the process.      *)
(***************************************************************************)
EXTENDS Automation, FiniteSetTheorems, TLAPS

AutoType == [life : {"new", "there", "deleted"}, active : BOOLEAN, next : Nat]
RunType == [auto : AutoId, key : KeyType, row : Nat, status : {"queued", "canceled", "failed"}]
JobType == [id : Nat, key : KeyType, ended : BOOLEAN]
RowType == [id : Nat, key : KeyType, status : {"pending", "cancelled"}]
DueType == [auto : AutoId, slot : Nat]
SchedType == [pc : {"wait", "run", "reconcile"}, last : Nat, due : SUBSET DueType]
Phases == {"none", "submit", "create", "bind", "record"}
SubType ==
  [pc : Phases, auto : AutoId \cup {Scheduler}, slot : Nat, nonce : Nat, row : Nat,
   failed : BOOLEAN]

-----------------------------------------------------------------------------
(* The inductive invariant, in parts.                                      *)

Busy(x) == sub[x].pc # "none"

\* TypeOK, and what the steps need to stay within it.
Typed ==
  /\ TypeOK
  /\ IsFiniteSet(jobs) /\ IsFiniteSet(rows)
  /\ \A x \in Actor : Busy(x) => sub[x].auto \in AutoId

RowOf(key, n) == \E w \in rows : w.id = n /\ w.key = key

\* A call past CreateRow that was not refused.
HasRow(s) == s.pc = "bind" \/ (s.pc = "record" /\ s.row # 0)

\* Whoever names a row names one that was made for its key.
RowsKnown ==
  /\ \A i \in idem : RowOf(i.key, i.row)
  /\ \A x \in Actor : HasRow(sub[x]) => RowOf(Key(sub[x]), sub[x].row)
  /\ \A r \in runs : r.row # 0 => RowOf(r.key, r.row)

\* A manual run has a nonce of its own, a scheduled run has none.
NoncesOwn ==
  /\ Busy(Scheduler) => sub[Scheduler].nonce = 0
  /\ \A c \in Caller : Busy(c) => sub[c].nonce \in 1 .. nonce
  /\ \A c, d \in Caller : c # d /\ Busy(c) /\ Busy(d) => sub[c].nonce # sub[d].nonce
  /\ \A j \in jobs : j.key.nonce <= nonce
  /\ \A r \in runs : r.key.nonce <= nonce

\* What a manual run is about to make is not there yet.
ManualFresh ==
  \A c \in Caller :
    /\ sub[c].pc = "submit" => \A j \in jobs : j.key.nonce # sub[c].nonce
    /\ Busy(c) => \A r \in runs : r.key.nonce # sub[c].nonce

\* Slot s of automation a was taken, and not given up: where it may be.
Waits(a, s) == [auto |-> a, slot |-> s] \in sched.due
Submits(a, s) ==
  sub[Scheduler].pc = "submit" /\ sub[Scheduler].auto = a /\ sub[Scheduler].slot = s
HasJob(a, s) == \E j \in jobs : j.key = [auto |-> a, slot |-> s, nonce |-> 0]
Taken(a, s) == Waits(a, s) \/ Submits(a, s) \/ HasJob(a, s)

\* Slots are taken when they are due, and the next slot lies after them all.
SlotsAhead ==
  \A a \in AutoId, s \in Nat :
    Taken(a, s) => s <= clock /\ (autos[a].active => s < autos[a].next)

\* A slot is in one place.
SlotsApart ==
  \A a \in AutoId, s \in Nat :
    /\ ~(Waits(a, s) /\ Submits(a, s))
    /\ ~(Waits(a, s) /\ HasJob(a, s))
    /\ ~(Submits(a, s) /\ HasJob(a, s))

RunOnce == \A r, q \in runs : r.key = q.key => r = q

SlotInv ==
  Typed /\ RowsKnown /\ NoncesOwn /\ ManualFresh /\ SlotsAhead /\ SlotsApart
    /\ SlotOnce /\ RunOnce

-----------------------------------------------------------------------------
(* Types.                                                                  *)

\* The types of the variables by name.
LEMMA TypedParts ==
  ASSUME Typed
  PROVE  /\ clock \in Nat /\ nonce \in Nat /\ faults \in Nat /\ crashes \in Nat
         /\ autos \in [AutoId -> AutoType]
         /\ \A a \in AutoId : autos[a].active <=> autos[a].next # Never
         /\ runs \subseteq RunType /\ idem \subseteq [key : KeyType, row : Nat]
         /\ jobs \subseteq JobType /\ rows \subseteq RowType
         /\ sched \in SchedType
         /\ sub \in [Actor -> SubType]
         /\ IsFiniteSet(jobs) /\ IsFiniteSet(rows)
         /\ \A x \in Actor : Busy(x) => sub[x].auto \in AutoId
  <1>1. clock \in Nat /\ nonce \in Nat /\ faults \in Nat /\ crashes \in Nat
    BY DEF Typed, TypeOK
  <1>2. autos \in [AutoId -> AutoType]
    BY DEF Typed, TypeOK, AutoType
  <1>3. \A a \in AutoId : autos[a].active <=> autos[a].next # Never
    BY DEF Typed, TypeOK
  <1>4. runs \subseteq RunType /\ idem \subseteq [key : KeyType, row : Nat]
    BY DEF Typed, TypeOK, RunType
  <1>5. jobs \subseteq JobType /\ rows \subseteq RowType
    BY DEF Typed, TypeOK, JobType, RowType
  <1>6. sched \in SchedType
    BY DEF Typed, TypeOK, DueType, SchedType
  <1>7. sub \in [Actor -> SubType]
    BY DEF Typed, TypeOK, SubType, Phases
  <1>8. IsFiniteSet(jobs) /\ IsFiniteSet(rows) /\ \A x \in Actor : Busy(x) => sub[x].auto \in AutoId
    BY DEF Typed, TypeOK
  <1> QED
    BY <1>1, <1>2, <1>3, <1>4, <1>5, <1>6, <1>7, <1>8

LEMMA TypedFromParts ==
  ASSUME clock' \in Nat, nonce' \in Nat, faults' \in Nat, crashes' \in Nat,
         autos' \in [AutoId -> AutoType],
         \A a \in AutoId : autos'[a].active <=> autos'[a].next # Never,
         runs' \subseteq RunType, idem' \subseteq [key : KeyType, row : Nat],
         jobs' \subseteq JobType, rows' \subseteq RowType,
         sched' \in SchedType,
         sub' \in [Actor -> SubType],
         IsFiniteSet(jobs'), IsFiniteSet(rows'),
         \A x \in Actor : sub'[x].pc # "none" => sub'[x].auto \in AutoId
  PROVE  Typed'
  <1>1. autos' \in [AutoId -> [life : {"new", "there", "deleted"}, active : BOOLEAN, next : Nat]]
    BY DEF AutoType
  <1>2. runs' \subseteq [auto : AutoId, key : KeyType, row : Nat,
                         status : {"queued", "canceled", "failed"}]
    BY DEF RunType
  <1>3. jobs' \subseteq [id : Nat, key : KeyType, ended : BOOLEAN]
    BY DEF JobType
  <1>4. rows' \subseteq [id : Nat, key : KeyType, status : {"pending", "cancelled"}]
    BY DEF RowType
  <1>5. sched' \in [pc : {"wait", "run", "reconcile"}, last : Nat,
                    due : SUBSET [auto : AutoId, slot : Nat]]
    BY DEF SchedType, DueType
  <1>6. sub' \in [Actor -> [pc : {"none", "submit", "create", "bind", "record"},
                            auto : AutoId \cup {Scheduler}, slot : Nat, nonce : Nat,
                            row : Nat, failed : BOOLEAN]]
    BY DEF SubType, Phases
  <1> QED
    BY <1>1, <1>2, <1>3, <1>4, <1>5, <1>6 DEF Typed, TypeOK, Busy

LEMMA PhaseNames ==
  /\ "none" \in Phases /\ "submit" \in Phases /\ "create" \in Phases
  /\ "bind" \in Phases /\ "record" \in Phases
  BY DEF Phases

\* A call of SubmitRun goes on, from s to r: the actor keeps its key.
Moved(r, s, pc, n) ==
  r \in SubType /\ r.pc = pc /\ r.row = n /\ r.auto = s.auto /\ Key(r) = Key(s)

LEMMA SubPc ==
  ASSUME NEW s \in SubType, NEW pc \in Phases
  PROVE  Moved([s EXCEPT !.pc = pc], s, pc, s.row)
  BY DEF SubType, Key, Moved

LEMMA SubRow ==
  ASSUME NEW s \in SubType, NEW pc \in Phases, NEW n \in Nat
  PROVE  Moved([s EXCEPT !.pc = pc, !.row = n], s, pc, n)
  BY DEF SubType, Key, Moved

LEMMA SubRefused ==
  ASSUME NEW s \in SubType, NEW pc \in Phases, NEW n \in Nat, NEW f \in BOOLEAN
  PROVE  Moved([s EXCEPT !.pc = pc, !.row = n, !.failed = f], s, pc, n)
  BY DEF SubType, Key, Moved

LEMMA NoSubType == NoSub \in SubType /\ NoSub.pc = "none" /\ NoSub.nonce = 0 /\ NoSub.slot = 0
  BY DEF NoSub, SubType, Phases

\* An actor enters SubmitRun.
Entered(r, a, s, n) ==
  r \in SubType /\ r.pc = "submit" /\ r.auto = a /\ r.slot = s /\ r.nonce = n

LEMMA ManualEntry ==
  ASSUME NEW a \in AutoId, NEW n \in Nat
  PROVE  Entered([NoSub EXCEPT !.pc = "submit", !.auto = a, !.nonce = n], a, 0, n)
  BY NoSubType DEF SubType, Phases, Entered

LEMMA DueEntry ==
  ASSUME NEW a \in AutoId, NEW s \in Nat
  PROVE  Entered([NoSub EXCEPT !.pc = "submit", !.auto = a, !.slot = s], a, s, 0)
  BY NoSubType DEF SubType, Phases, Entered

\* A key names the automation, the slot and the nonce of a call.
LEMMA KeyParts ==
  ASSUME NEW s \in SubType
  PROVE  /\ Key(s) \in KeyType
         /\ Key(s).auto = s.auto /\ Key(s).slot = s.slot /\ Key(s).nonce = s.nonce
  <1>1. s.auto \in AutoId \cup {Scheduler} /\ s.slot \in Nat /\ s.nonce \in Nat
    BY DEF SubType
  <1>2. Key(s) \in KeyType
    BY <1>1 DEF Key, KeyType
  <1> QED
    BY <1>2 DEF Key

\* The steps of SubmitRun, as far as the actors see: x goes on with its key
\* and is at one of pcs, with row n or with what it had; or its call returns.
Others(x) == \A y \in Actor \ {x} : sub'[y] = sub[y]

Goes(x, pcs) ==
  /\ sub' \in [Actor -> SubType]
  /\ Others(x)
  /\ sub'[x].pc \in pcs
  /\ sub'[x].auto = sub[x].auto
  /\ Key(sub'[x]) = Key(sub[x])

Returns(x) ==
  /\ sub' \in [Actor -> SubType]
  /\ Others(x)
  /\ sub'[x] = NoSub

Enters(x, a, s, n) ==
  /\ sub' \in [Actor -> SubType]
  /\ Others(x)
  /\ sub'[x].pc = "submit" /\ sub'[x].auto = a /\ sub'[x].slot = s /\ sub'[x].nonce = n

LEMMA CardinalityNat ==
  ASSUME Typed
  PROVE  Cardinality(jobs) \in Nat /\ Cardinality(rows) \in Nat
  BY TypedParts, FS_CardinalityType

LEMMA KnownRow ==
  ASSUME Typed, RowsKnown, NEW key, Known(key) # {}
  PROVE  /\ (CHOOSE w \in Known(key) : TRUE) \in Nat
         /\ RowOf(key, CHOOSE w \in Known(key) : TRUE)
  <1> DEFINE n == CHOOSE w \in Known(key) : TRUE
  <1>1. n \in Known(key)
    OBVIOUS
  <1>2. PICK i \in idem : i.key = key /\ i.row = n
    BY <1>1 DEF Known
  <1> QED
    BY <1>2, TypedParts DEF RowsKnown

LEMMA SubmitSub ==
  ASSUME Typed, RowsKnown, NEW x \in Actor, Submit(x)
  PROVE  /\ Goes(x, {"create", "record"})
         /\ sub'[x].pc = "record" => RowOf(Key(sub[x]), sub'[x].row)
         /\ sub'[x].pc = "record" => UNCHANGED jobs
  <1> DEFINE s == sub[x]
             n == CHOOSE w \in Known(Key(s)) : TRUE
  <1>0. sub \in [Actor -> SubType] /\ s \in SubType
    BY TypedParts
  <1>1. CASE Known(Key(s)) # {}
    <2> DEFINE r == [s EXCEPT !.pc = "record", !.row = n]
    <2>1. n \in Nat /\ RowOf(Key(s), n)
      BY <1>1, KnownRow
    <2>2. sub' = [sub EXCEPT ![x] = r] /\ UNCHANGED jobs
      BY <1>1 DEF Submit, Become
    <2>3. Moved(r, s, "record", n)
      BY <1>0, <2>1, SubRow, PhaseNames
    <2> HIDE DEF r, n
    <2>4. sub'[x] = r
      BY <2>2, <1>0
    <2> QED
      BY <2>1, <2>2, <2>3, <2>4, <1>0 DEF Goes, Others, Moved
  <1>2. CASE Known(Key(s)) = {}
    <2> DEFINE r == [s EXCEPT !.pc = "create"]
    <2>1. sub' = [sub EXCEPT ![x] = r]
      BY <1>2 DEF Submit, Become
    <2>2. Moved(r, s, "create", s.row)
      BY <1>0, SubPc, PhaseNames
    <2> HIDE DEF r
    <2>3. sub'[x] = r
      BY <2>1, <1>0
    <2> QED
      BY <2>1, <2>2, <2>3, <1>0 DEF Goes, Others, Moved
  <1> QED
    BY <1>1, <1>2

LEMMA CreateRowSub ==
  ASSUME Typed, NEW x \in Actor, CreateRow(x)
  PROVE  Goes(x, {"bind"}) /\ sub'[x].row = Cardinality(rows) + 1
  <1> DEFINE r == [sub[x] EXCEPT !.pc = "bind", !.row = Cardinality(rows) + 1]
  <1>1. sub \in [Actor -> SubType] /\ sub[x] \in SubType
    BY TypedParts
  <1>2. sub' = [sub EXCEPT ![x] = r]
    BY DEF CreateRow, Become
  <1>3. Moved(r, sub[x], "bind", Cardinality(rows) + 1)
    <2>1. Cardinality(rows) + 1 \in Nat
      BY CardinalityNat
    <2> QED
      BY <1>1, <2>1, PhaseNames, SubRow
  <1> HIDE DEF r
  <1>4. sub'[x] = r
    BY <1>1, <1>2
  <1> QED
    BY <1>1, <1>2, <1>3, <1>4 DEF Goes, Others, Moved

LEMMA BindKeySub ==
  ASSUME Typed, NEW x \in Actor, BindKey(x)
  PROVE  Goes(x, {"record"}) /\ sub'[x].row = sub[x].row
  <1> DEFINE r == [sub[x] EXCEPT !.pc = "record"]
  <1>1. sub \in [Actor -> SubType] /\ sub[x] \in SubType
    BY TypedParts
  <1>2. sub' = [sub EXCEPT ![x] = r]
    BY DEF BindKey, Become
  <1>3. Moved(r, sub[x], "record", sub[x].row)
    BY <1>1, PhaseNames, SubPc
  <1> HIDE DEF r
  <1>4. sub'[x] = r
    BY <1>1, <1>2
  <1> QED
    BY <1>1, <1>2, <1>3, <1>4 DEF Goes, Others, Moved

LEMMA SubmitFailsSub ==
  ASSUME Typed, NEW x \in Actor, SubmitFails(x)
  PROVE  Goes(x, {"record"}) /\ sub'[x].row = 0
  <1> DEFINE r == [sub[x] EXCEPT !.pc = "record", !.row = 0, !.failed = TRUE]
  <1>1. sub \in [Actor -> SubType] /\ sub[x] \in SubType
    BY TypedParts
  <1>2. sub' = [sub EXCEPT ![x] = r]
    BY DEF SubmitFails, Become
  <1>3. Moved(r, sub[x], "record", 0)
    BY <1>1, PhaseNames, SubRefused, TRUE \in BOOLEAN, 0 \in Nat
  <1> HIDE DEF r
  <1>4. sub'[x] = r
    BY <1>1, <1>2
  <1> QED
    BY <1>1, <1>2, <1>3, <1>4 DEF Goes, Others, Moved

LEMMA RecordSub ==
  ASSUME Typed, NEW x \in Actor, Record(x) \/ RecordFails(x)
  PROVE  Returns(x)
  <1>1. sub' = [sub EXCEPT ![x] = NoSub]
    BY DEF Record, RecordFails, Answer, Become
  <1> QED
    BY <1>1, NoSubType, TypedParts DEF Returns, Others

LEMMA RunNowSub ==
  ASSUME Typed, NEW c \in Caller, NEW a \in AutoId, RunNow(c, a)
  PROVE  Enters(c, a, 0, nonce + 1) /\ nonce' = nonce + 1
  <1> DEFINE r == [NoSub EXCEPT !.pc = "submit", !.auto = a, !.nonce = nonce + 1]
  <1>1. sub' = [sub EXCEPT ![c] = r] /\ nonce' = nonce + 1
    BY DEF RunNow
  <1>2. nonce + 1 \in Nat /\ c \in Actor /\ sub \in [Actor -> SubType]
    BY TypedParts DEF Actor
  <1>3. Entered(r, a, 0, nonce + 1)
    BY <1>2, ManualEntry
  <1> HIDE DEF r
  <1> QED
    BY <1>1, <1>2, <1>3 DEF Enters, Entered, Others

LEMMA TakeDueSub ==
  ASSUME Typed, TakeDue
  PROVE  \E d \in sched.due :
           /\ d \in DueType
           /\ Enters(Scheduler, d.auto, d.slot, 0)
           /\ sched' = [sched EXCEPT !.due = sched.due \ {d}]
  <1>1. PICK d \in sched.due :
          /\ sched' = [sched EXCEPT !.due = sched.due \ {d}]
          /\ sub' = [sub EXCEPT ![Scheduler] =
                       [NoSub EXCEPT !.pc = "submit", !.auto = d.auto, !.slot = d.slot]]
    BY DEF TakeDue
  <1>2. d \in DueType /\ d.auto \in AutoId /\ d.slot \in Nat
    BY TypedParts DEF SchedType, DueType
  <1> DEFINE r == [NoSub EXCEPT !.pc = "submit", !.auto = d.auto, !.slot = d.slot]
  <1>3. sub' = [sub EXCEPT ![Scheduler] = r] /\ Scheduler \in Actor /\ sub \in [Actor -> SubType]
    BY <1>1, TypedParts DEF Actor
  <1>4. Entered(r, d.auto, d.slot, 0)
    BY <1>2, DueEntry
  <1> HIDE DEF r
  <1>5. Enters(Scheduler, d.auto, d.slot, 0)
    BY <1>3, <1>4 DEF Enters, Entered, Others
  <1> QED
    BY <1>1, <1>2, <1>5

-----------------------------------------------------------------------------
(* Every step keeps the types.                                             *)

SubTyped ==
  /\ sub' \in [Actor -> SubType]
  /\ \A x \in Actor : sub'[x].pc # "none" => sub'[x].auto \in AutoId

LEMMA SubUnchanged ==
  ASSUME Typed, UNCHANGED sub
  PROVE  SubTyped
  BY TypedParts DEF SubTyped, Busy

LEMMA GoesTyped ==
  ASSUME Typed, NEW x \in Actor, NEW pcs, Goes(x, pcs), Busy(x)
  PROVE  SubTyped
  BY TypedParts DEF SubTyped, Goes, Others, Busy

LEMMA ReturnsTyped ==
  ASSUME Typed, NEW x \in Actor, Returns(x)
  PROVE  SubTyped
  BY TypedParts, NoSubType DEF SubTyped, Returns, Others, Busy

LEMMA EntersTyped ==
  ASSUME Typed, NEW x \in Actor, NEW a \in AutoId, NEW s, NEW n, Enters(x, a, s, n)
  PROVE  SubTyped
  BY TypedParts DEF SubTyped, Enters, Others, Busy

LEMMA SchedRecord ==
  ASSUME NEW s \in SchedType, NEW pc \in {"wait", "run", "reconcile"}, NEW d \in SUBSET DueType
  PROVE  /\ [s EXCEPT !.pc = pc] \in SchedType
         /\ [s EXCEPT !.due = d] \in SchedType
         /\ [s EXCEPT !.due = d, !.pc = pc] \in SchedType
  BY DEF SchedType

\* The status of a run is one of its own, for every status of its row.
LEMMA MappedType ==
  ASSUME NEW w \in RowType
  PROVE  Mapped(w.status) \in {"queued", "canceled", "failed"}
  <1>1. w.status = "pending" \/ w.status = "cancelled"
    BY DEF RowType
  <1>2. Mapped("pending") = "queued" /\ Mapped("cancelled") = "canceled"
    BY DEF Mapped
  <1> QED
    BY <1>1, <1>2

LEMMA RunStatus ==
  ASSUME NEW r \in RunType, NEW st \in {"queued", "canceled", "failed"}
  PROVE  /\ [r EXCEPT !.status = st] \in RunType
         /\ [r EXCEPT !.status = st].key = r.key
         /\ [r EXCEPT !.status = st].row = r.row
         /\ [r EXCEPT !.status = st].auto = r.auto
  BY DEF RunType

\* Reconcile changes the status of runs and nothing else of them.
Reconciled(r) ==
  IF r.row = 0 \/ r.status # "queued" THEN r
  ELSE [r EXCEPT !.status = Mapped((CHOOSE w \in rows : w.id = r.row).status)]

LEMMA ReconciledRun ==
  ASSUME Typed, RowsKnown, NEW r \in runs
  PROVE  Reconciled(r) \in RunType /\ Reconciled(r).key = r.key /\ Reconciled(r).row = r.row
  <1>0. r \in RunType
    BY TypedParts
  <1>1. CASE r.row = 0 \/ r.status # "queued"
    BY <1>0, <1>1 DEF Reconciled
  <1>2. CASE ~(r.row = 0 \/ r.status # "queued")
    <2> DEFINE w == CHOOSE v \in rows : v.id = r.row
    <2>1. \E v \in rows : v.id = r.row
      BY <1>2 DEF RowsKnown, RowOf
    <2>2. w \in RowType
      BY <2>1, TypedParts
    <2>3. Mapped(w.status) \in {"queued", "canceled", "failed"}
      BY <2>2, MappedType
    <2>4. Reconciled(r) = [r EXCEPT !.status = Mapped(w.status)]
      BY <1>2 DEF Reconciled
    <2> HIDE DEF w
    <2> QED
      BY <1>0, <2>3, <2>4, RunStatus
  <1> QED
    BY <1>1, <1>2

LEMMA ReconcileRuns ==
  ASSUME Reconcile
  PROVE  runs' = {Reconciled(r) : r \in runs}
  BY DEF Reconcile, Reconciled

LEMMA AnswerTyped ==
  ASSUME Typed, NEW x, NEW ok, Answer(x, ok)
  PROVE  sched' \in SchedType
  <1>1. sched' = sched \/ sched' = [sched EXCEPT !.due = {}, !.pc = "reconcile"]
    BY DEF Answer
  <1> QED
    BY <1>1, TypedParts, SchedRecord, {} \in SUBSET DueType

LEMMA Gone ==
  /\ [Unset EXCEPT !.life = "deleted"] \in AutoType
  /\ [Unset EXCEPT !.life = "deleted"].active = FALSE
  /\ [Unset EXCEPT !.life = "deleted"].next = Never
  <1>1. Unset \in AutoType /\ Unset.active = FALSE /\ Unset.next = Never
    BY DEF Unset, AutoType, Never
  <1> QED
    BY <1>1 DEF AutoType

THEOREM TypedStep ==
  ASSUME Typed, RowsKnown, [Next]_vars
  PROVE  Typed'
  <1>1. ASSUME NEW a \in AutoId, NEW active \in BOOLEAN, Create(a, active) PROVE Typed'
    <2>0. clock + Period \in Nat \ {0} /\ autos \in [AutoId -> AutoType]
      BY TypedParts, PeriodAssumption
    <2>1. Scheduled(active) \in AutoType /\ (Scheduled(active).active <=> Scheduled(active).next # Never)
      BY <2>0 DEF Scheduled, NextAfter, AutoType, Never
    <2>2. autos' = [autos EXCEPT ![a] = Scheduled(active)]
      BY <1>1 DEF Create
    <2>3. autos' \in [AutoId -> AutoType] /\ \A b \in AutoId : autos'[b].active <=> autos'[b].next # Never
      BY <2>0, <2>1, <2>2, TypedParts
    <2>u. UNCHANGED <<clock, nonce, faults, crashes, runs, idem, jobs, rows, sched, sub>>
      BY <1>1 DEF Create, bounds
    <2>s. SubTyped
      BY <2>u, SubUnchanged
    <2> QED
      BY <2>u, <2>3, <2>s, TypedParts, TypedFromParts DEF SubTyped
  <1>2. ASSUME NEW a \in AutoId, NEW active \in BOOLEAN, Update(a, active) PROVE Typed'
    <2>0. clock + Period \in Nat \ {0} /\ autos \in [AutoId -> AutoType]
      BY TypedParts, PeriodAssumption
    <2>1. Scheduled(active) \in AutoType /\ (Scheduled(active).active <=> Scheduled(active).next # Never)
      BY <2>0 DEF Scheduled, NextAfter, AutoType, Never
    <2>2. autos' = [autos EXCEPT ![a] = Scheduled(active)]
      BY <1>2 DEF Update
    <2>3. autos' \in [AutoId -> AutoType] /\ \A b \in AutoId : autos'[b].active <=> autos'[b].next # Never
      BY <2>0, <2>1, <2>2, TypedParts
    <2>u. UNCHANGED <<clock, nonce, faults, crashes, runs, idem, jobs, rows, sched, sub>>
      BY <1>2 DEF Update, bounds
    <2>s. SubTyped
      BY <2>u, SubUnchanged
    <2> QED
      BY <2>u, <2>3, <2>s, TypedParts, TypedFromParts DEF SubTyped
  <1>3. ASSUME NEW a \in AutoId, Delete(a) PROVE Typed'
    <2>0. autos \in [AutoId -> AutoType] /\ autos' = [autos EXCEPT ![a] = [Unset EXCEPT !.life = "deleted"]]
      BY <1>3, TypedParts DEF Delete
    <2>2. autos' \in [AutoId -> AutoType] /\ \A b \in AutoId : autos'[b].active <=> autos'[b].next # Never
      BY <2>0, Gone, TypedParts
    <2>3. runs' \subseteq RunType
      BY <1>3, TypedParts DEF Delete
    <2>u. UNCHANGED <<clock, nonce, faults, crashes, idem, jobs, rows, sched, sub>>
      BY <1>3 DEF Delete, bounds
    <2>s. SubTyped
      BY <2>u, SubUnchanged
    <2> QED
      BY <2>u, <2>2, <2>3, <2>s, TypedParts, TypedFromParts DEF SubTyped
  <1>4. ASSUME NEW c \in Caller, NEW a \in AutoId, RunNow(c, a) PROVE Typed'
    <2>1. SubTyped /\ nonce' \in Nat
      BY <1>4, RunNowSub, EntersTyped, TypedParts DEF Actor
    <2>u. UNCHANGED <<clock, faults, crashes, autos, runs, idem, jobs, rows, sched>>
      BY <1>4 DEF RunNow
    <2> QED
      BY <2>u, <2>1, TypedParts, TypedFromParts DEF SubTyped
  <1>5. ASSUME NEW now \in 1 .. clock, Tick(now) PROVE Typed'
    <2>0. now \in Nat /\ now + Period \in Nat \ {0} /\ autos \in [AutoId -> AutoType]
      BY TypedParts, PeriodAssumption
    <2>1. \A b \in Due(now) : b \in AutoId /\ autos[b].active /\ [autos[b] EXCEPT !.next = NextAfter(now)] \in AutoType
                               /\ [autos[b] EXCEPT !.next = NextAfter(now)].next = NextAfter(now)
                               /\ [autos[b] EXCEPT !.next = NextAfter(now)].active = autos[b].active
      BY <2>0 DEF Due, NextAfter, AutoType
    <2>2. autos' = [b \in AutoId |-> IF b \in Due(now) THEN [autos[b] EXCEPT !.next = NextAfter(now)] ELSE autos[b]]
      BY <1>5 DEF Tick
    <2>3. \A b \in AutoId : autos'[b] \in AutoType /\ (autos'[b].active <=> autos'[b].next # Never)
      BY <2>0, <2>1, <2>2, TypedParts DEF NextAfter, Never
    <2>4. autos' \in [AutoId -> AutoType] /\ \A b \in AutoId : autos'[b].active <=> autos'[b].next # Never
      BY <2>2, <2>3
    <2>5. {[auto |-> b, slot |-> autos[b].next] : b \in Due(now)} \subseteq DueType
      BY <2>0 DEF Due, DueType, AutoType
    <2>6. sched' \in SchedType
      BY <1>5, <2>0, <2>5 DEF Tick, SchedType
    <2>u. UNCHANGED <<clock, nonce, faults, crashes, runs, idem, jobs, rows, sub>>
      BY <1>5 DEF Tick, bounds
    <2>s. SubTyped
      BY <2>u, SubUnchanged
    <2> QED
      BY <2>u, <2>4, <2>6, <2>s, TypedParts, TypedFromParts DEF SubTyped
  <1>6. ASSUME TakeDue PROVE Typed'
    <2>1. PICK d \in sched.due :
            /\ d \in DueType
            /\ Enters(Scheduler, d.auto, d.slot, 0)
            /\ sched' = [sched EXCEPT !.due = sched.due \ {d}]
      BY <1>6, TakeDueSub
    <2>2. SubTyped
      BY <2>1, EntersTyped DEF Actor, DueType
    <2>3. sched.due \ {d} \in SUBSET DueType /\ sched \in SchedType
      BY TypedParts DEF SchedType
    <2>4. sched' \in SchedType
      BY <2>1, <2>3, SchedRecord
    <2>u. UNCHANGED <<clock, nonce, faults, crashes, autos, runs, idem, jobs, rows>>
      BY <1>6 DEF TakeDue, bounds
    <2> QED
      BY <2>u, <2>2, <2>4, TypedParts, TypedFromParts DEF SubTyped
  <1>7. ASSUME TickEnds PROVE Typed'
    <2>1. sched' \in SchedType
      BY <1>7, TypedParts, SchedRecord, {} \in SUBSET DueType DEF TickEnds
    <2>u. UNCHANGED <<clock, nonce, faults, crashes, autos, runs, idem, jobs, rows, sub>>
      BY <1>7 DEF TickEnds, bounds
    <2>s. SubTyped
      BY <2>u, SubUnchanged
    <2> QED
      BY <2>u, <2>1, <2>s, TypedParts, TypedFromParts DEF SubTyped
  <1>8. ASSUME Reconcile PROVE Typed'
    <2>1. sched' \in SchedType
      BY <1>8, TypedParts, SchedRecord, {} \in SUBSET DueType DEF Reconcile
    <2>2. runs' \subseteq RunType
      BY <1>8, ReconcileRuns, ReconciledRun
    <2>u. UNCHANGED <<clock, nonce, faults, crashes, autos, idem, jobs, rows, sub>>
      BY <1>8 DEF Reconcile, bounds
    <2>s. SubTyped
      BY <2>u, SubUnchanged
    <2> QED
      BY <2>u, <2>1, <2>2, <2>s, TypedParts, TypedFromParts DEF SubTyped
  <1>9. ASSUME ReconcileFails PROVE Typed'
    <2>1. sched' \in SchedType
      BY <1>9, TypedParts, SchedRecord, {} \in SUBSET DueType DEF ReconcileFails
    <2>2. faults' \in Nat
      BY <1>9, TypedParts DEF ReconcileFails
    <2>u. UNCHANGED <<clock, nonce, crashes, autos, runs, idem, jobs, rows, sub>>
      BY <1>9 DEF ReconcileFails
    <2>s. SubTyped
      BY <2>u, SubUnchanged
    <2> QED
      BY <2>u, <2>1, <2>2, <2>s, TypedParts, TypedFromParts DEF SubTyped
  <1>10. ASSUME NEW x \in Actor, Submit(x) PROVE Typed'
    <2>1. SubTyped
      BY <1>10, SubmitSub, GoesTyped DEF Submit, At, Busy
    <2>2. Cardinality(jobs) + 1 \in Nat /\ Key(sub[x]) \in KeyType
      BY CardinalityNat, TypedParts, KeyParts
    <2>3. [id |-> Cardinality(jobs) + 1, key |-> Key(sub[x]), ended |-> FALSE] \in JobType
      BY <2>2 DEF JobType
    <2>4. jobs' = jobs \/ jobs' = jobs \cup {[id |-> Cardinality(jobs) + 1, key |-> Key(sub[x]), ended |-> FALSE]}
      BY <1>10 DEF Submit
    <2>4t. jobs \subseteq JobType /\ IsFiniteSet(jobs)
      BY TypedParts
    <2>4f. IsFiniteSet(jobs')
      BY <2>4, <2>4t, FS_AddElement
    <2>5. jobs' \subseteq JobType /\ IsFiniteSet(jobs')
      BY <2>3, <2>4, <2>4t, <2>4f
    <2>u. UNCHANGED <<clock, nonce, faults, crashes, autos, runs, idem, rows, sched>>
      BY <1>10 DEF Submit, bounds
    <2> QED
      BY <2>u, <2>1, <2>5, TypedParts, TypedFromParts DEF SubTyped
  <1>11. ASSUME NEW x \in Actor, CreateRow(x) PROVE Typed'
    <2>1. SubTyped
      BY <1>11, CreateRowSub, GoesTyped DEF CreateRow, At, Busy
    <2>2. Cardinality(rows) + 1 \in Nat /\ Key(sub[x]) \in KeyType
      BY CardinalityNat, TypedParts, KeyParts
    <2>3. [id |-> Cardinality(rows) + 1, key |-> Key(sub[x]), status |-> "pending"] \in RowType
      BY <2>2 DEF RowType
    <2>4. rows' = rows \cup {[id |-> Cardinality(rows) + 1, key |-> Key(sub[x]), status |-> "pending"]}
      BY <1>11 DEF CreateRow
    <2>4t. rows \subseteq RowType /\ IsFiniteSet(rows)
      BY TypedParts
    <2>4f. IsFiniteSet(rows')
      BY <2>4, <2>4t, FS_AddElement
    <2>5. rows' \subseteq RowType /\ IsFiniteSet(rows')
      BY <2>3, <2>4, <2>4t, <2>4f
    <2>u. UNCHANGED <<clock, nonce, faults, crashes, autos, runs, idem, jobs, sched>>
      BY <1>11 DEF CreateRow, bounds
    <2> QED
      BY <2>u, <2>1, <2>5, TypedParts, TypedFromParts DEF SubTyped
  <1>12. ASSUME NEW x \in Actor, BindKey(x) PROVE Typed'
    <2>1. SubTyped
      BY <1>12, BindKeySub, GoesTyped DEF BindKey, At, Busy
    <2>2. sub[x].row \in Nat /\ Key(sub[x]) \in KeyType
      BY TypedParts, KeyParts DEF SubType
    <2>3. idem' \subseteq [key : KeyType, row : Nat]
      BY <1>12, <2>2, TypedParts DEF BindKey
    <2>u. UNCHANGED <<clock, nonce, faults, crashes, autos, runs, jobs, rows, sched>>
      BY <1>12 DEF BindKey, bounds
    <2> QED
      BY <2>u, <2>1, <2>3, TypedParts, TypedFromParts DEF SubTyped
  <1>13. ASSUME NEW x \in Actor, SubmitFails(x) PROVE Typed'
    <2>1. SubTyped
      BY <1>13, SubmitFailsSub, GoesTyped DEF SubmitFails, At, Busy
    <2>2. faults' \in Nat
      BY <1>13, TypedParts DEF SubmitFails
    <2>u. UNCHANGED <<clock, nonce, crashes, autos, runs, idem, jobs, rows, sched>>
      BY <1>13 DEF SubmitFails
    <2> QED
      BY <2>u, <2>1, <2>2, TypedParts, TypedFromParts DEF SubTyped
  <1>14. ASSUME NEW x \in Actor, Record(x) PROVE Typed'
    <2>1. SubTyped
      BY <1>14, RecordSub, ReturnsTyped
    <2>2. sched' \in SchedType
      BY <1>14, AnswerTyped DEF Record
    <2>3. sub[x].auto \in AutoId /\ sub[x].row \in Nat /\ Key(sub[x]) \in KeyType
      BY <1>14, TypedParts, KeyParts DEF Record, At, Busy, SubType
    <2> DEFINE q == [auto |-> sub[x].auto, key |-> Key(sub[x]), row |-> sub[x].row,
                     status |-> IF sub[x].failed THEN "failed" ELSE "queued"]
    <2>4. q \in RunType
      BY <2>3 DEF RunType
    <2>5. runs' = runs \/ runs' = runs \cup {q}
      BY <1>14 DEF Record
    <2>6. runs' \subseteq RunType
      BY <2>4, <2>5, TypedParts
    <2>u. UNCHANGED <<clock, nonce, faults, crashes, autos, idem, jobs, rows>>
      BY <1>14 DEF Record, bounds
    <2> QED
      BY <2>u, <2>1, <2>2, <2>6, TypedParts, TypedFromParts DEF SubTyped
  <1>15. ASSUME NEW x \in Actor, RecordFails(x) PROVE Typed'
    <2>1. SubTyped
      BY <1>15, RecordSub, ReturnsTyped
    <2>2. sched' \in SchedType
      BY <1>15, AnswerTyped DEF RecordFails
    <2>3. faults' \in Nat
      BY <1>15, TypedParts DEF RecordFails
    <2>u. UNCHANGED <<clock, nonce, crashes, autos, runs, idem, jobs, rows>>
      BY <1>15 DEF RecordFails
    <2> QED
      BY <2>u, <2>1, <2>2, <2>3, TypedParts, TypedFromParts DEF SubTyped
  <1>16. ASSUME Advance PROVE Typed'
    <2>1. clock' \in Nat
      BY <1>16, TypedParts DEF Advance
    <2>u. UNCHANGED <<nonce, faults, crashes, autos, runs, idem, jobs, rows, sched, sub>>
      BY <1>16 DEF Advance, bounds
    <2>s. SubTyped
      BY <2>u, SubUnchanged
    <2> QED
      BY <2>u, <2>1, <2>s, TypedParts, TypedFromParts DEF SubTyped
  <1>17. ASSUME NEW j \in jobs, JobEnds(j) PROVE Typed'
    <2>1. j \in JobType /\ [j EXCEPT !.ended = TRUE] \in JobType
      BY TypedParts DEF JobType
    <2>2. jobs' = (jobs \ {j}) \cup {[j EXCEPT !.ended = TRUE]}
      BY <1>17 DEF JobEnds
    <2>3. jobs' \subseteq JobType /\ IsFiniteSet(jobs')
      BY <2>1, <2>2, TypedParts, FS_RemoveElement, FS_AddElement
    <2>u. UNCHANGED <<clock, nonce, faults, crashes, autos, runs, idem, rows, sched, sub>>
      BY <1>17 DEF JobEnds, bounds
    <2>s. SubTyped
      BY <2>u, SubUnchanged
    <2> QED
      BY <2>u, <2>3, <2>s, TypedParts, TypedFromParts DEF SubTyped
  <1>18. ASSUME NEW w \in rows, RowCancelled(w) PROVE Typed'
    <2>1. w \in RowType /\ [w EXCEPT !.status = "cancelled"] \in RowType
      BY TypedParts DEF RowType
    <2>2. rows' = (rows \ {w}) \cup {[w EXCEPT !.status = "cancelled"]}
      BY <1>18 DEF RowCancelled
    <2>3. rows' \subseteq RowType /\ IsFiniteSet(rows')
      BY <2>1, <2>2, TypedParts, FS_RemoveElement, FS_AddElement
    <2>u. UNCHANGED <<clock, nonce, faults, crashes, autos, runs, idem, jobs, sched, sub>>
      BY <1>18 DEF RowCancelled, bounds
    <2>s. SubTyped
      BY <2>u, SubUnchanged
    <2> QED
      BY <2>u, <2>3, <2>s, TypedParts, TypedFromParts DEF SubTyped
  <1>19. ASSUME Crash PROVE Typed'
    <2>1. sub' = [y \in Actor |-> NoSub]
      BY <1>19 DEF Crash
    <2>2. SubTyped
      BY <2>1, NoSubType DEF SubTyped
    <2>3. sched' \in SchedType
      BY <1>19, TypedParts DEF Crash, SchedType
    <2>4. crashes' \in Nat
      BY <1>19, TypedParts DEF Crash
    <2>u. UNCHANGED <<clock, nonce, faults, autos, runs, idem, jobs, rows>>
      BY <1>19 DEF Crash
    <2> QED
      BY <2>u, <2>2, <2>3, <2>4, TypedParts, TypedFromParts DEF SubTyped
  <1>20. CASE UNCHANGED vars
    <2>1. SubTyped /\ UNCHANGED <<clock, nonce, faults, crashes, autos, runs, idem, jobs, rows, sched, sub>>
      BY <1>20, SubUnchanged DEF vars
    <2> QED
      BY <2>1, TypedParts, TypedFromParts DEF SubTyped
  <1> QED
    BY <1>1, <1>2, <1>3, <1>4, <1>5, <1>6, <1>7, <1>8, <1>9, <1>10, <1>11, <1>12, <1>13, <1>14, <1>15, <1>16, <1>17, <1>18, <1>19, <1>20
    DEF Next, SchedulerStep, SubmitStep

-----------------------------------------------------------------------------
(* What the steps do to keys.                                              *)

\* No row of a key goes away.
RowsKept ==
  \A key, n : RowOf(key, n) => \E w \in rows' : w.id = n /\ w.key = key

\* The steps that make no key, no run and no broker task: they may drop runs.
KeysKept ==
  /\ UNCHANGED <<sub, nonce, idem>>
  /\ \A r \in runs' : \E q \in runs : q.key = r.key /\ q.row = r.row
  /\ \A j \in jobs' : \E k \in jobs : k.key = j.key

LEMMA JobEndsKeys ==
  ASSUME Typed, NEW j \in jobs, JobEnds(j)
  PROVE  /\ \A i \in jobs' : \E k \in jobs : k.key = i.key
         /\ SlotOnce => SlotOnce'
  <1> DEFINE e == [j EXCEPT !.ended = TRUE]
  <1>1. jobs' = (jobs \ {j}) \cup {e}
    BY DEF JobEnds
  <1>2. e.key = j.key
    BY TypedParts DEF JobType
  <1> HIDE DEF e
  <1> QED
    BY <1>1, <1>2 DEF SlotOnce

LEMMA RowCancelledKeys ==
  ASSUME Typed, NEW w \in rows, RowCancelled(w)
  PROVE  RowsKept
  <1> DEFINE e == [w EXCEPT !.status = "cancelled"]
  <1>1. rows' = (rows \ {w}) \cup {e}
    BY DEF RowCancelled
  <1>2. e.key = w.key /\ e.id = w.id
    BY TypedParts DEF RowType
  <1> HIDE DEF e
  <1> QED
    BY <1>1, <1>2 DEF RowsKept, RowOf

LEMMA ReconcileKeys ==
  ASSUME Typed, RowsKnown, Reconcile
  PROVE  \A r \in runs' : \E q \in runs : q.key = r.key /\ q.row = r.row
  BY ReconcileRuns, ReconciledRun

SubmitSteps ==
  \E x \in Actor :
    Submit(x) \/ CreateRow(x) \/ BindKey(x) \/ SubmitFails(x) \/ Record(x) \/ RecordFails(x)

\* A step that touches keys is one of SubmitRun's, enters it or is a crash.
LEMMA StepKinds ==
  ASSUME Typed, RowsKnown, [Next]_vars
  PROVE  \/ KeysKept
         \/ \E c \in Caller, a \in AutoId : RunNow(c, a)
         \/ TakeDue
         \/ SubmitSteps
         \/ Crash
  <1>1. ASSUME NEW a \in AutoId, NEW active \in BOOLEAN, Create(a, active) PROVE KeysKept
    BY <1>1 DEF KeysKept, Create, bounds
  <1>2. ASSUME NEW a \in AutoId, NEW active \in BOOLEAN, Update(a, active) PROVE KeysKept
    BY <1>2 DEF KeysKept, Update, bounds
  <1>3. ASSUME NEW a \in AutoId, Delete(a) PROVE KeysKept
    BY <1>3 DEF KeysKept, Delete, bounds
  <1>4. ASSUME NEW now \in 1 .. clock, Tick(now) PROVE KeysKept
    BY <1>4 DEF KeysKept, Tick, bounds
  <1>5. ASSUME TickEnds PROVE KeysKept
    BY <1>5 DEF KeysKept, TickEnds, bounds
  <1>6. ASSUME Reconcile PROVE KeysKept
    BY <1>6, ReconcileKeys DEF KeysKept, Reconcile, bounds
  <1>7. ASSUME ReconcileFails PROVE KeysKept
    BY <1>7 DEF KeysKept, ReconcileFails, bounds
  <1>8. ASSUME Advance PROVE KeysKept
    BY <1>8 DEF KeysKept, Advance, bounds
  <1>9. ASSUME NEW j \in jobs, JobEnds(j) PROVE KeysKept
    BY <1>9, JobEndsKeys DEF KeysKept, JobEnds, bounds
  <1>10. ASSUME NEW w \in rows, RowCancelled(w) PROVE KeysKept
    BY <1>10 DEF KeysKept, RowCancelled, bounds
  <1>11. CASE UNCHANGED vars
    BY <1>11 DEF KeysKept, vars
  <1> QED
    BY <1>1, <1>2, <1>3, <1>4, <1>5, <1>6, <1>7, <1>8, <1>9, <1>10, <1>11
    DEF Next, SchedulerStep, SubmitStep, SubmitSteps

LEMMA RowsStep ==
  ASSUME Typed, [Next]_vars
  PROVE  RowsKept
  <1>1. ASSUME NEW a \in AutoId, NEW active \in BOOLEAN, Create(a, active) PROVE RowsKept
    BY <1>1 DEF RowsKept, RowOf, Create, bounds
  <1>2. ASSUME NEW a \in AutoId, NEW active \in BOOLEAN, Update(a, active) PROVE RowsKept
    BY <1>2 DEF RowsKept, RowOf, Update, bounds
  <1>3. ASSUME NEW a \in AutoId, Delete(a) PROVE RowsKept
    BY <1>3 DEF RowsKept, RowOf, Delete, bounds
  <1>4. ASSUME NEW c \in Caller, NEW a \in AutoId, RunNow(c, a) PROVE RowsKept
    BY <1>4 DEF RowsKept, RowOf, RunNow
  <1>5. ASSUME NEW now \in 1 .. clock, Tick(now) PROVE RowsKept
    BY <1>5 DEF RowsKept, RowOf, Tick, bounds
  <1>6. ASSUME TakeDue PROVE RowsKept
    BY <1>6 DEF RowsKept, RowOf, TakeDue, bounds
  <1>7. ASSUME TickEnds PROVE RowsKept
    BY <1>7 DEF RowsKept, RowOf, TickEnds, bounds
  <1>8. ASSUME Reconcile PROVE RowsKept
    BY <1>8 DEF RowsKept, RowOf, Reconcile, bounds
  <1>9. ASSUME ReconcileFails PROVE RowsKept
    BY <1>9 DEF RowsKept, RowOf, ReconcileFails
  <1>10. ASSUME NEW x \in Actor, Submit(x) PROVE RowsKept
    BY <1>10 DEF RowsKept, RowOf, Submit, bounds
  <1>11. ASSUME NEW x \in Actor, CreateRow(x) PROVE RowsKept
    BY <1>11 DEF RowsKept, RowOf, CreateRow, bounds
  <1>12. ASSUME NEW x \in Actor, BindKey(x) PROVE RowsKept
    BY <1>12 DEF RowsKept, RowOf, BindKey, bounds
  <1>13. ASSUME NEW x \in Actor, SubmitFails(x) PROVE RowsKept
    BY <1>13 DEF RowsKept, RowOf, SubmitFails
  <1>14. ASSUME NEW x \in Actor, Record(x) PROVE RowsKept
    BY <1>14 DEF RowsKept, RowOf, Record, bounds
  <1>15. ASSUME NEW x \in Actor, RecordFails(x) PROVE RowsKept
    BY <1>15 DEF RowsKept, RowOf, RecordFails
  <1>16. ASSUME Advance PROVE RowsKept
    BY <1>16 DEF RowsKept, RowOf, Advance, bounds
  <1>17. ASSUME NEW j \in jobs, JobEnds(j) PROVE RowsKept
    BY <1>17 DEF RowsKept, RowOf, JobEnds, bounds
  <1>18. ASSUME NEW w \in rows, RowCancelled(w) PROVE RowsKept
    BY <1>18, RowCancelledKeys
  <1>19. ASSUME Crash PROVE RowsKept
    BY <1>19 DEF RowsKept, RowOf, Crash
  <1>20. CASE UNCHANGED vars
    BY <1>20 DEF RowsKept, RowOf, vars
  <1> QED
    BY <1>1, <1>2, <1>3, <1>4, <1>5, <1>6, <1>7, <1>8, <1>9, <1>10, <1>11, <1>12, <1>13, <1>14, <1>15, <1>16, <1>17, <1>18, <1>19, <1>20
    DEF Next, SchedulerStep, SubmitStep

-----------------------------------------------------------------------------
(* The keys keep their rows, and the manual runs their nonces.             *)

\* What the steps of SubmitRun leave alone.
LEMMA SubmitFrames ==
  ASSUME NEW x \in Actor
  PROVE  /\ Submit(x) => UNCHANGED <<idem, runs, rows, nonce, sched, autos, clock>>
         /\ CreateRow(x) => UNCHANGED <<idem, runs, jobs, nonce, sched, autos, clock>>
         /\ BindKey(x) => UNCHANGED <<runs, rows, jobs, nonce, sched, autos, clock>>
         /\ SubmitFails(x) => UNCHANGED <<idem, runs, rows, jobs, nonce, sched, autos, clock>>
         /\ Record(x) => UNCHANGED <<idem, rows, jobs, nonce, autos, clock>>
         /\ RecordFails(x) => UNCHANGED <<idem, runs, rows, jobs, nonce, autos, clock>>
  <1>1. Submit(x) => UNCHANGED <<idem, runs, rows, nonce, sched, autos, clock>>
    BY DEF Submit, bounds
  <1>2. CreateRow(x) => UNCHANGED <<idem, runs, jobs, nonce, sched, autos, clock>>
    BY DEF CreateRow, bounds
  <1>3. BindKey(x) => UNCHANGED <<runs, rows, jobs, nonce, sched, autos, clock>>
    BY DEF BindKey, bounds
  <1>4. SubmitFails(x) => UNCHANGED <<idem, runs, rows, jobs, nonce, sched, autos, clock>>
    BY DEF SubmitFails
  <1>5. Record(x) => UNCHANGED <<idem, rows, jobs, nonce, autos, clock>>
    BY DEF Record, bounds
  <1>6. RecordFails(x) => UNCHANGED <<idem, runs, rows, jobs, nonce, autos, clock>>
    BY DEF RecordFails
  <1> QED
    BY <1>1, <1>2, <1>3, <1>4, <1>5, <1>6

\* The run that Record appends.
NewRun(x) ==
  [auto |-> sub[x].auto, key |-> Key(sub[x]), row |-> sub[x].row,
   status |-> IF sub[x].failed THEN "failed" ELSE "queued"]

LEMMA RecordRuns ==
  ASSUME NEW x \in Actor, Record(x)
  PROVE  /\ runs' = runs \/ runs' = runs \cup {NewRun(x)}
         /\ x = Scheduler /\ runs' # runs => \A r \in runs : r.key # Key(sub[x])
         /\ NewRun(x).key = Key(sub[x]) /\ NewRun(x).row = sub[x].row
         /\ sub[x].pc = "record"
  BY DEF Record, NewRun, At

\* Rows of the next state.
RowNext(key, n) == \E w \in rows' : w.id = n /\ w.key = key

ActorsKnow ==
  \A x \in Actor : HasRow(sub'[x]) => RowNext(Key(sub'[x]), sub'[x].row)

LEMMA RowsKnownFromParts ==
  ASSUME \A i \in idem' : RowNext(i.key, i.row),
         ActorsKnow,
         \A r \in runs' : r.row # 0 => RowNext(r.key, r.row)
  PROVE  RowsKnown'
  BY DEF RowsKnown, RowOf, RowNext, ActorsKnow, Key, HasRow

LEMMA KeptRows ==
  ASSUME RowsKnown, RowsKept
  PROVE  /\ \A i \in idem : RowNext(i.key, i.row)
         /\ \A r \in runs : r.row # 0 => RowNext(r.key, r.row)
         /\ \A x \in Actor : HasRow(sub[x]) => RowNext(Key(sub[x]), sub[x].row)
         /\ \A key, n : RowOf(key, n) => RowNext(key, n)
  <1>1. \A key, n : RowOf(key, n) => RowNext(key, n)
    BY DEF RowsKept, RowNext
  <1> QED
    BY <1>1 DEF RowsKnown

THEOREM RowsKnownStep ==
  ASSUME Typed, RowsKnown, [Next]_vars
  PROVE  RowsKnown'
  <1>0. RowsKept
    BY RowsStep
  <1>1. CASE KeysKept
    <2>1. \A i \in idem' : RowNext(i.key, i.row)
      BY <1>0, <1>1, KeptRows DEF KeysKept
    <2>2. \A r \in runs' : r.row # 0 => RowNext(r.key, r.row)
      BY <1>0, <1>1, KeptRows DEF KeysKept
    <2>3. ActorsKnow
      BY <1>0, <1>1, KeptRows DEF KeysKept, ActorsKnow
    <2> QED
      BY <2>1, <2>2, <2>3, RowsKnownFromParts
  <1>2. ASSUME NEW c \in Caller, NEW a \in AutoId, RunNow(c, a) PROVE RowsKnown'
    <2>1. UNCHANGED <<idem, runs>>
      BY <1>2 DEF RunNow
    <2>2. Enters(c, a, 0, nonce + 1)
      BY <1>2, RunNowSub
    <2>3. ActorsKnow
      BY <1>0, <2>2, KeptRows DEF Enters, Others, ActorsKnow, HasRow
    <2> QED
      BY <1>0, <2>1, <2>3, KeptRows, RowsKnownFromParts
  <1>3. CASE TakeDue
    <2>1. UNCHANGED <<idem, runs>>
      BY <1>3 DEF TakeDue
    <2>2. PICK d \in sched.due : Enters(Scheduler, d.auto, d.slot, 0)
      BY <1>3, TakeDueSub
    <2>3. ActorsKnow
      BY <1>0, <2>2, KeptRows DEF Enters, Others, ActorsKnow, HasRow
    <2> QED
      BY <1>0, <2>1, <2>3, KeptRows, RowsKnownFromParts
  <1>4. ASSUME NEW x \in Actor, Submit(x) PROVE RowsKnown'
    <2>1. UNCHANGED <<idem, runs>>
      BY <1>4, SubmitFrames
    <2>2. /\ Goes(x, {"create", "record"})
          /\ sub'[x].pc = "record" => RowOf(Key(sub[x]), sub'[x].row)
      BY <1>4, SubmitSub
    <2>3. ActorsKnow
      BY <1>0, <2>2, KeptRows DEF Goes, Others, ActorsKnow, HasRow
    <2> QED
      BY <1>0, <2>1, <2>3, KeptRows, RowsKnownFromParts
  <1>5. ASSUME NEW x \in Actor, CreateRow(x) PROVE RowsKnown'
    <2>1. UNCHANGED <<idem, runs>>
      BY <1>5, SubmitFrames
    <2>2. Goes(x, {"bind"}) /\ sub'[x].row = Cardinality(rows) + 1
      BY <1>5, CreateRowSub
    <2>3. RowNext(Key(sub[x]), Cardinality(rows) + 1)
      <3> DEFINE w == [id |-> Cardinality(rows) + 1, key |-> Key(sub[x]), status |-> "pending"]
      <3>1. w \in rows'
        BY <1>5 DEF CreateRow
      <3>2. w.id = Cardinality(rows) + 1 /\ w.key = Key(sub[x])
        OBVIOUS
      <3> HIDE DEF w
      <3> QED
        BY <3>1, <3>2 DEF RowNext
    <2>4. ActorsKnow
      BY <1>0, <2>2, <2>3, KeptRows DEF Goes, Others, ActorsKnow, HasRow
    <2> QED
      BY <1>0, <2>1, <2>4, KeptRows, RowsKnownFromParts
  <1>6. ASSUME NEW x \in Actor, BindKey(x) PROVE RowsKnown'
    <2>1. UNCHANGED runs /\ sub[x].pc = "bind"
      BY <1>6, SubmitFrames DEF BindKey, At
    <2>2. Goes(x, {"record"}) /\ sub'[x].row = sub[x].row
      BY <1>6, BindKeySub
    <2>3. RowNext(Key(sub[x]), sub[x].row)
      BY <1>0, <2>1, KeptRows DEF HasRow
    <2>4. ActorsKnow
      BY <1>0, <2>2, <2>3, KeptRows DEF Goes, Others, ActorsKnow, HasRow
    <2>5. \A i \in idem' : RowNext(i.key, i.row)
      <3> DEFINE e == [key |-> Key(sub[x]), row |-> sub[x].row]
      <3>1. idem' = idem \cup {e}
        BY <1>6 DEF BindKey
      <3>2. e.key = Key(sub[x]) /\ e.row = sub[x].row
        OBVIOUS
      <3> HIDE DEF e
      <3> QED
        BY <1>0, <2>3, <3>1, <3>2, KeptRows
    <2> QED
      BY <1>0, <2>1, <2>4, <2>5, KeptRows, RowsKnownFromParts
  <1>7. ASSUME NEW x \in Actor, SubmitFails(x) PROVE RowsKnown'
    <2>1. UNCHANGED <<idem, runs>>
      BY <1>7, SubmitFrames
    <2>2. Goes(x, {"record"}) /\ sub'[x].row = 0
      BY <1>7, SubmitFailsSub
    <2>3. ActorsKnow
      BY <1>0, <2>2, KeptRows DEF Goes, Others, ActorsKnow, HasRow
    <2> QED
      BY <1>0, <2>1, <2>3, KeptRows, RowsKnownFromParts
  <1>8. ASSUME NEW x \in Actor, Record(x) \/ RecordFails(x) PROVE RowsKnown'
    <2>1. UNCHANGED idem
      BY <1>8, SubmitFrames
    <2>2. Returns(x)
      BY <1>8, RecordSub
    <2>3. ActorsKnow
      BY <1>0, <2>2, KeptRows, NoSubType DEF Returns, Others, ActorsKnow, HasRow
    <2>4. \A r \in runs' : r.row # 0 => RowNext(r.key, r.row)
      <3>1. CASE Record(x)
        <4>1. sub[x].row # 0 => RowNext(NewRun(x).key, NewRun(x).row)
          BY <1>0, <3>1, KeptRows, RecordRuns DEF HasRow
        <4>2. runs' = runs \/ runs' = runs \cup {NewRun(x)}
          BY <3>1, RecordRuns
        <4>3. NewRun(x).row = sub[x].row
          BY <3>1, RecordRuns
        <4> QED
          BY <1>0, <4>1, <4>2, <4>3, KeptRows
      <3>2. CASE RecordFails(x)
        BY <1>0, <3>2, KeptRows, SubmitFrames
      <3> QED
        BY <1>8, <3>1, <3>2
    <2> QED
      BY <1>0, <2>1, <2>3, <2>4, KeptRows, RowsKnownFromParts
  <1>9. CASE Crash
    <2>1. UNCHANGED <<idem, runs>> /\ sub' = [y \in Actor |-> NoSub]
      BY <1>9 DEF Crash
    <2>2. ActorsKnow
      BY <2>1, NoSubType DEF ActorsKnow, HasRow
    <2> QED
      BY <1>0, <2>1, <2>2, KeptRows, RowsKnownFromParts
  <1> QED
    BY <1>1, <1>2, <1>3, <1>4, <1>5, <1>6, <1>7, <1>8, <1>9, StepKinds DEF SubmitSteps

LEMMA GoesParts ==
  ASSUME Typed, NEW x \in Actor, NEW pcs, Goes(x, pcs)
  PROVE  sub'[x].nonce = sub[x].nonce /\ sub'[x].slot = sub[x].slot
  <1>1. sub'[x] \in SubType /\ sub[x] \in SubType /\ Key(sub'[x]) = Key(sub[x])
    BY TypedParts DEF Goes
  <1> QED
    BY <1>1, KeyParts

\* The broker task that Submit makes.
NewJob(x) == [id |-> Cardinality(jobs) + 1, key |-> Key(sub[x]), ended |-> FALSE]

LEMMA SubmitJobs ==
  ASSUME NEW x \in Actor, Submit(x)
  PROVE  /\ jobs' = jobs \/ jobs' = jobs \cup {NewJob(x)}
         /\ NewJob(x).key = Key(sub[x])
         /\ sub[x].pc = "submit"
  BY DEF Submit, NewJob, At

\* The keys of broker tasks and of runs after a step of SubmitRun.
LEMMA KeysAfterSubmit ==
  ASSUME Typed, RowsKnown, NEW x \in Actor,
         Submit(x) \/ CreateRow(x) \/ BindKey(x) \/ SubmitFails(x) \/ Record(x) \/ RecordFails(x)
  PROVE  /\ \A j \in jobs' : j \in jobs \/ (j.key = Key(sub[x]) /\ Submit(x))
         /\ \A r \in runs' : r \in runs \/ (r.key = Key(sub[x]) /\ Record(x))
  BY SubmitFrames, SubmitJobs, RecordRuns

LEMMA Busyness ==
  ASSUME NEW x \in Actor,
         Submit(x) \/ CreateRow(x) \/ BindKey(x) \/ SubmitFails(x) \/ Record(x) \/ RecordFails(x)
  PROVE  Busy(x)
  BY DEF Submit, CreateRow, BindKey, SubmitFails, Record, RecordFails, At, Busy

\* A step of SubmitRun leaves x out of it or where it was, with its nonce, past Submit.
Proceeds(x) ==
  /\ Others(x)
  /\ sub'[x].pc # "submit"
  /\ sub'[x].pc # "none" => sub'[x].nonce = sub[x].nonce

LEMMA SubmitProceeds ==
  ASSUME Typed, RowsKnown, NEW x \in Actor,
         Submit(x) \/ CreateRow(x) \/ BindKey(x) \/ SubmitFails(x) \/ Record(x) \/ RecordFails(x)
  PROVE  Proceeds(x)
  <1>1. CASE Submit(x)
    BY <1>1, SubmitSub, GoesParts DEF Goes, Proceeds
  <1>2. CASE CreateRow(x)
    BY <1>2, CreateRowSub, GoesParts DEF Goes, Proceeds
  <1>3. CASE BindKey(x)
    BY <1>3, BindKeySub, GoesParts DEF Goes, Proceeds
  <1>4. CASE SubmitFails(x)
    BY <1>4, SubmitFailsSub, GoesParts DEF Goes, Proceeds
  <1>5. CASE Record(x) \/ RecordFails(x)
    BY <1>5, RecordSub, NoSubType DEF Returns, Proceeds
  <1> QED
    BY <1>1, <1>2, <1>3, <1>4, <1>5

LEMMA KeyNonces ==
  ASSUME Typed
  PROVE  /\ \A j \in jobs : j.key.nonce \in Nat
         /\ \A r \in runs : r.key.nonce \in Nat
         /\ \A x \in Actor : sub[x].nonce \in Nat /\ Key(sub[x]).nonce = sub[x].nonce
         /\ nonce \in Nat
         /\ Scheduler \in Actor /\ \A c \in Caller : c \in Actor /\ c # Scheduler
  <1>1. \A x \in Actor : sub[x].nonce \in Nat /\ Key(sub[x]).nonce = sub[x].nonce
    BY TypedParts, KeyParts DEF SubType
  <1>2. \A j \in jobs : j.key.nonce \in Nat
    BY TypedParts DEF JobType, KeyType
  <1>3. \A r \in runs : r.key.nonce \in Nat
    BY TypedParts DEF RunType, KeyType
  <1> QED
    BY <1>1, <1>2, <1>3, TypedParts, SchedulerAssumption DEF Actor

THEOREM NoncesOwnStep ==
  ASSUME Typed, RowsKnown, NoncesOwn, [Next]_vars
  PROVE  NoncesOwn'
  <1>1. CASE KeysKept
    <2>1. \A j \in jobs' : j.key.nonce <= nonce
      BY <1>1 DEF KeysKept, NoncesOwn
    <2>2. \A r \in runs' : r.key.nonce <= nonce
      BY <1>1 DEF KeysKept, NoncesOwn
    <2> QED
      BY <1>1, <2>1, <2>2 DEF KeysKept, NoncesOwn, Busy
  <1>2. ASSUME NEW c \in Caller, NEW a \in AutoId, RunNow(c, a) PROVE NoncesOwn'
    <2>1. UNCHANGED <<jobs, runs>> /\ nonce' = nonce + 1
      BY <1>2 DEF RunNow
    <2>2. Others(c) /\ sub'[c].pc = "submit" /\ sub'[c].nonce = nonce + 1
      BY <1>2, RunNowSub DEF Enters
    <2>3. \A d \in Caller : d # c => sub'[d] = sub[d]
      BY <2>2 DEF Others, Actor
    <2>4. sub'[Scheduler] = sub[Scheduler]
      BY <2>2, KeyNonces DEF Others, Actor
    <2>5. /\ \A d \in Caller : sub'[d].pc # "none" => sub'[d].nonce \in 1 .. nonce + 1
          /\ \A d \in Caller : d # c /\ sub'[d].pc # "none" => sub'[d].nonce <= nonce
      BY <2>2, <2>3, KeyNonces DEF NoncesOwn, Busy
    <2>6. \A d, e \in Caller : d # e /\ sub'[d].pc # "none" /\ sub'[e].pc # "none"
                              => sub'[d].nonce # sub'[e].nonce
      BY <2>2, <2>3, <2>5, KeyNonces DEF NoncesOwn, Busy
    <2>7. /\ \A j \in jobs' : j.key.nonce <= nonce + 1
          /\ \A r \in runs' : r.key.nonce <= nonce + 1
      BY <2>1, KeyNonces DEF NoncesOwn
    <2> QED
      BY <2>1, <2>4, <2>5, <2>6, <2>7 DEF NoncesOwn, Busy
  <1>3. CASE TakeDue
    <2>1. UNCHANGED <<jobs, runs, nonce>>
      BY <1>3 DEF TakeDue, bounds
    <2>2. Others(Scheduler) /\ sub'[Scheduler].nonce = 0
      BY <1>3, TakeDueSub DEF Enters
    <2>3. \A d \in Caller : sub'[d] = sub[d]
      BY <2>2, KeyNonces DEF Others
    <2> QED
      BY <2>1, <2>2, <2>3 DEF NoncesOwn, Busy
  <1>4. CASE SubmitSteps
    <2>1. PICK x \in Actor :
            Submit(x) \/ CreateRow(x) \/ BindKey(x) \/ SubmitFails(x) \/ Record(x) \/ RecordFails(x)
      BY <1>4 DEF SubmitSteps
    <2>2. UNCHANGED nonce
      BY <2>1, SubmitFrames
    <2>3. Proceeds(x) /\ Busy(x)
      BY <2>1, SubmitProceeds, Busyness
    <2>4. \A y \in Actor : sub'[y].pc # "none" => Busy(y) /\ sub'[y].nonce = sub[y].nonce
      BY <2>3 DEF Proceeds, Others, Busy
    <2>5. Key(sub[x]).nonce <= nonce
      BY <2>3, KeyNonces DEF NoncesOwn, Actor
    <2>6. \A j \in jobs' : j.key.nonce <= nonce
      BY <2>1, <2>5, KeysAfterSubmit DEF NoncesOwn
    <2>7. \A r \in runs' : r.key.nonce <= nonce
      BY <2>1, <2>5, KeysAfterSubmit DEF NoncesOwn
    <2> QED
      BY <2>2, <2>4, <2>6, <2>7, KeyNonces DEF NoncesOwn, Busy
  <1>5. CASE Crash
    <2>1. UNCHANGED <<jobs, runs, nonce>> /\ sub' = [y \in Actor |-> NoSub]
      BY <1>5 DEF Crash
    <2>2. \A y \in Actor : sub'[y].pc = "none"
      BY <2>1, NoSubType
    <2> QED
      BY <2>1, <2>2, KeyNonces DEF NoncesOwn, Busy
  <1> QED
    BY <1>1, <1>2, <1>3, <1>4, <1>5, StepKinds

THEOREM ManualFreshStep ==
  ASSUME Typed, RowsKnown, NoncesOwn, ManualFresh, [Next]_vars
  PROVE  ManualFresh'
  <1>1. CASE KeysKept
    <2>1. \A c \in Caller : sub'[c].pc = "submit" => \A j \in jobs' : j.key.nonce # sub'[c].nonce
      BY <1>1 DEF KeysKept, ManualFresh
    <2>2. \A c \in Caller : sub'[c].pc # "none" => \A r \in runs' : r.key.nonce # sub'[c].nonce
      BY <1>1 DEF KeysKept, ManualFresh, Busy
    <2> QED
      BY <2>1, <2>2 DEF ManualFresh, Busy
  <1>2. ASSUME NEW c \in Caller, NEW a \in AutoId, RunNow(c, a) PROVE ManualFresh'
    <2>1. UNCHANGED <<jobs, runs>>
      BY <1>2 DEF RunNow
    <2>2. Others(c) /\ sub'[c].nonce = nonce + 1
      BY <1>2, RunNowSub DEF Enters
    <2>3. \A d \in Caller : d # c => sub'[d] = sub[d]
      BY <2>2 DEF Others, Actor
    <2>4. /\ \A j \in jobs : j.key.nonce # nonce + 1
          /\ \A r \in runs : r.key.nonce # nonce + 1
      BY KeyNonces DEF NoncesOwn
    <2> QED
      BY <2>1, <2>2, <2>3, <2>4 DEF ManualFresh, Busy
  <1>3. CASE TakeDue
    <2>1. UNCHANGED <<jobs, runs>>
      BY <1>3 DEF TakeDue
    <2>2. Others(Scheduler)
      BY <1>3, TakeDueSub DEF Enters
    <2>3. \A d \in Caller : sub'[d] = sub[d]
      BY <2>2, KeyNonces DEF Others
    <2> QED
      BY <2>1, <2>3 DEF ManualFresh, Busy
  <1>4. CASE SubmitSteps
    <2>1. PICK x \in Actor :
            Submit(x) \/ CreateRow(x) \/ BindKey(x) \/ SubmitFails(x) \/ Record(x) \/ RecordFails(x)
      BY <1>4 DEF SubmitSteps
    <2>2. Proceeds(x) /\ Busy(x)
      BY <2>1, SubmitProceeds, Busyness
    <2>3. \A c \in Caller : c # x => sub'[c] = sub[c]
      BY <2>2 DEF Proceeds, Others, Actor
    <2>4. Key(sub[x]).nonce = sub[x].nonce
      BY KeyNonces
    <2>5. \A c \in Caller : c # x /\ Busy(c) => sub[c].nonce # sub[x].nonce
      BY <2>2, KeyNonces DEF NoncesOwn, Actor
    <2>6. \A c \in Caller : sub'[c].pc = "submit" => \A j \in jobs' : j.key.nonce # sub'[c].nonce
      BY <2>1, <2>2, <2>3, <2>4, <2>5, KeysAfterSubmit DEF Proceeds, ManualFresh, Busy
    <2>7. \A c \in Caller : sub'[c].pc # "none" => \A r \in runs' : r.key.nonce # sub'[c].nonce
      <3>1. ASSUME NEW c \in Caller, sub'[c].pc # "none", NEW r \in runs'
            PROVE  r.key.nonce # sub'[c].nonce
        <4>1. CASE c # x
          BY <2>1, <2>3, <2>4, <2>5, <3>1, <4>1, KeysAfterSubmit DEF ManualFresh, Busy
        <4>2. CASE c = x
          <5>1. ~Record(x)
            BY <3>1, <4>2, RecordSub, NoSubType DEF Returns
          <5>2. r \in runs
            BY <2>1, <3>1, <5>1, KeysAfterSubmit
          <5> QED
            BY <2>2, <3>1, <4>2, <5>2 DEF Proceeds, ManualFresh, Busy
        <4> QED
          BY <4>1, <4>2
      <3> QED
        BY <3>1
    <2> QED
      BY <2>6, <2>7 DEF ManualFresh, Busy
  <1>5. CASE Crash
    <2>1. sub' = [y \in Actor |-> NoSub]
      BY <1>5 DEF Crash
    <2>2. \A y \in Actor : sub'[y].pc = "none"
      BY <2>1, NoSubType
    <2> QED
      BY <2>2, KeyNonces DEF ManualFresh, Busy
  <1> QED
    BY <1>1, <1>2, <1>3, <1>4, <1>5, StepKinds

-----------------------------------------------------------------------------
(* One run and one broker task for a key.                                  *)

\* The key of a manual run that is being submitted is on no run; only Submit
\* may meet a broker task of it.
LEMMA RunKeyFresh ==
  ASSUME Typed, NoncesOwn, ManualFresh, NEW c \in Caller, Busy(c), NEW r \in runs
  PROVE  r.key # Key(sub[c])
  BY KeyNonces DEF ManualFresh

THEOREM RunOnceStep ==
  ASSUME Typed, RowsKnown, NoncesOwn, ManualFresh, RunOnce, [Next]_vars
  PROVE  RunOnce'
  <1>1. ASSUME NEW a \in AutoId, NEW active \in BOOLEAN, Create(a, active) PROVE RunOnce'
    BY <1>1 DEF Create, bounds, RunOnce
  <1>2. ASSUME NEW a \in AutoId, NEW active \in BOOLEAN, Update(a, active) PROVE RunOnce'
    BY <1>2 DEF Update, bounds, RunOnce
  <1>3. ASSUME NEW a \in AutoId, Delete(a) PROVE RunOnce'
    BY <1>3 DEF Delete, bounds, RunOnce
  <1>4. ASSUME NEW c \in Caller, NEW a \in AutoId, RunNow(c, a) PROVE RunOnce'
    BY <1>4 DEF RunNow, RunOnce
  <1>5. ASSUME NEW now \in 1 .. clock, Tick(now) PROVE RunOnce'
    BY <1>5 DEF Tick, bounds, RunOnce
  <1>6. ASSUME TakeDue PROVE RunOnce'
    BY <1>6 DEF TakeDue, bounds, RunOnce
  <1>7. ASSUME TickEnds PROVE RunOnce'
    BY <1>7 DEF TickEnds, bounds, RunOnce
  <1>8. ASSUME Reconcile PROVE RunOnce'
    <2>1. \A r \in runs : Reconciled(r).key = r.key
      BY ReconciledRun
    <2>2. runs' = {Reconciled(r) : r \in runs}
      BY <1>8, ReconcileRuns
    <2> QED
      BY <2>1, <2>2 DEF RunOnce
  <1>9. ASSUME ReconcileFails PROVE RunOnce'
    BY <1>9 DEF ReconcileFails, RunOnce
  <1>10. ASSUME NEW x \in Actor, Submit(x) PROVE RunOnce'
    BY <1>10 DEF Submit, bounds, RunOnce
  <1>11. ASSUME NEW x \in Actor, CreateRow(x) PROVE RunOnce'
    BY <1>11 DEF CreateRow, bounds, RunOnce
  <1>12. ASSUME NEW x \in Actor, BindKey(x) PROVE RunOnce'
    BY <1>12 DEF BindKey, bounds, RunOnce
  <1>13. ASSUME NEW x \in Actor, SubmitFails(x) PROVE RunOnce'
    BY <1>13 DEF SubmitFails, RunOnce
  <1>14. ASSUME NEW x \in Actor, Record(x) PROVE RunOnce'
    <2>1. Busy(x)
      BY <1>14, Busyness
    <2>2. runs' # runs => \A r \in runs : r.key # Key(sub[x])
      BY <1>14, <2>1, RecordRuns, RunKeyFresh DEF Actor
    <2>3. (runs' = runs \/ runs' = runs \cup {NewRun(x)}) /\ NewRun(x).key = Key(sub[x])
      BY <1>14, RecordRuns
    <2> QED
      BY <2>2, <2>3 DEF RunOnce
  <1>15. ASSUME NEW x \in Actor, RecordFails(x) PROVE RunOnce'
    BY <1>15 DEF RecordFails, RunOnce
  <1>16. ASSUME Advance PROVE RunOnce'
    BY <1>16 DEF Advance, bounds, RunOnce
  <1>17. ASSUME NEW j \in jobs, JobEnds(j) PROVE RunOnce'
    BY <1>17 DEF JobEnds, bounds, RunOnce
  <1>18. ASSUME NEW w \in rows, RowCancelled(w) PROVE RunOnce'
    BY <1>18 DEF RowCancelled, bounds, RunOnce
  <1>19. ASSUME Crash PROVE RunOnce'
    BY <1>19 DEF Crash, RunOnce
  <1>20. CASE UNCHANGED vars
    BY <1>20 DEF vars, RunOnce
  <1> QED
    BY <1>1, <1>2, <1>3, <1>4, <1>5, <1>6, <1>7, <1>8, <1>9, <1>10, <1>11, <1>12, <1>13, <1>14, <1>15, <1>16, <1>17, <1>18, <1>19, <1>20
    DEF Next, SchedulerStep, SubmitStep

\* A broker task of the key that is being submitted would be in two places.
LEMMA JobKeyFresh ==
  ASSUME Typed, NoncesOwn, ManualFresh, SlotsApart, NEW x \in Actor, sub[x].pc = "submit",
         NEW k \in jobs
  PROVE  k.key # Key(sub[x])
  <1>1. CASE x \in Caller
    BY <1>1, KeyNonces DEF ManualFresh
  <1>2. CASE x = Scheduler
    <2> DEFINE a == sub[Scheduler].auto
               s == sub[Scheduler].slot
    <2>1. sub[Scheduler].nonce = 0 /\ a \in AutoId
      BY <1>2, TypedParts DEF NoncesOwn, Busy
    <2>2. s \in Nat
      BY <1>2, TypedParts DEF SubType
    <2>3. Submits(a, s)
      BY <1>2 DEF Submits
    <2>4. ~HasJob(a, s)
      BY <2>1, <2>2, <2>3 DEF SlotsApart
    <2>5. Key(sub[x]) = [auto |-> a, slot |-> s, nonce |-> 0]
      BY <1>2, <2>1 DEF Key
    <2> QED
      BY <2>4, <2>5 DEF HasJob
  <1> QED
    BY <1>1, <1>2 DEF Actor

THEOREM SlotOnceStep ==
  ASSUME Typed, NoncesOwn, ManualFresh, SlotsApart, SlotOnce, [Next]_vars
  PROVE  SlotOnce'
  <1>1. ASSUME NEW a \in AutoId, NEW active \in BOOLEAN, Create(a, active) PROVE SlotOnce'
    BY <1>1 DEF Create, bounds, SlotOnce
  <1>2. ASSUME NEW a \in AutoId, NEW active \in BOOLEAN, Update(a, active) PROVE SlotOnce'
    BY <1>2 DEF Update, bounds, SlotOnce
  <1>3. ASSUME NEW a \in AutoId, Delete(a) PROVE SlotOnce'
    BY <1>3 DEF Delete, bounds, SlotOnce
  <1>4. ASSUME NEW c \in Caller, NEW a \in AutoId, RunNow(c, a) PROVE SlotOnce'
    BY <1>4 DEF RunNow, SlotOnce
  <1>5. ASSUME NEW now \in 1 .. clock, Tick(now) PROVE SlotOnce'
    BY <1>5 DEF Tick, bounds, SlotOnce
  <1>6. ASSUME TakeDue PROVE SlotOnce'
    BY <1>6 DEF TakeDue, bounds, SlotOnce
  <1>7. ASSUME TickEnds PROVE SlotOnce'
    BY <1>7 DEF TickEnds, bounds, SlotOnce
  <1>8. ASSUME Reconcile PROVE SlotOnce'
    BY <1>8 DEF Reconcile, bounds, SlotOnce
  <1>9. ASSUME ReconcileFails PROVE SlotOnce'
    BY <1>9 DEF ReconcileFails, SlotOnce
  <1>10. ASSUME NEW x \in Actor, Submit(x) PROVE SlotOnce'
    <2>1. \A k \in jobs : k.key # Key(sub[x])
      BY <1>10, SubmitJobs, JobKeyFresh
    <2> QED
      BY <1>10, <2>1, SubmitJobs DEF SlotOnce
  <1>11. ASSUME NEW x \in Actor, CreateRow(x) PROVE SlotOnce'
    BY <1>11 DEF CreateRow, bounds, SlotOnce
  <1>12. ASSUME NEW x \in Actor, BindKey(x) PROVE SlotOnce'
    BY <1>12 DEF BindKey, bounds, SlotOnce
  <1>13. ASSUME NEW x \in Actor, SubmitFails(x) PROVE SlotOnce'
    BY <1>13 DEF SubmitFails, SlotOnce
  <1>14. ASSUME NEW x \in Actor, Record(x) PROVE SlotOnce'
    BY <1>14 DEF Record, bounds, SlotOnce
  <1>15. ASSUME NEW x \in Actor, RecordFails(x) PROVE SlotOnce'
    BY <1>15 DEF RecordFails, SlotOnce
  <1>16. ASSUME Advance PROVE SlotOnce'
    BY <1>16 DEF Advance, bounds, SlotOnce
  <1>17. ASSUME NEW j \in jobs, JobEnds(j) PROVE SlotOnce'
    BY <1>17, JobEndsKeys
  <1>18. ASSUME NEW w \in rows, RowCancelled(w) PROVE SlotOnce'
    BY <1>18 DEF RowCancelled, bounds, SlotOnce
  <1>19. ASSUME Crash PROVE SlotOnce'
    BY <1>19 DEF Crash, SlotOnce
  <1>20. CASE UNCHANGED vars
    BY <1>20 DEF vars, SlotOnce
  <1> QED
    BY <1>1, <1>2, <1>3, <1>4, <1>5, <1>6, <1>7, <1>8, <1>9, <1>10, <1>11, <1>12, <1>13, <1>14, <1>15, <1>16, <1>17, <1>18, <1>19, <1>20
    DEF Next, SchedulerStep, SubmitStep

-----------------------------------------------------------------------------
(* Where the taken slots are.                                              *)

\* The steps that take no slot and move none.
SlotsKept ==
  \A a \in AutoId, s \in Nat :
    /\ Waits(a, s)' => Waits(a, s)
    /\ Submits(a, s)' => Submits(a, s)
    /\ HasJob(a, s)' => HasJob(a, s)

DueKept == sched'.due \subseteq sched.due
SchedulerKept == sub'[Scheduler] = sub[Scheduler] \/ sub'[Scheduler].pc # "submit"
JobsKept == \A j \in jobs' : j.key.nonce = 0 => \E k \in jobs : k.key = j.key

LEMMA KeptSlots ==
  ASSUME DueKept, SchedulerKept, JobsKept
  PROVE  SlotsKept
  <1>1. ASSUME NEW a \in AutoId, NEW s \in Nat PROVE Waits(a, s)' => Waits(a, s)
    BY DEF DueKept, Waits
  <1>2. ASSUME NEW a \in AutoId, NEW s \in Nat PROVE Submits(a, s)' => Submits(a, s)
    BY DEF SchedulerKept, Submits
  <1>3. ASSUME NEW a \in AutoId, NEW s \in Nat PROVE HasJob(a, s)' => HasJob(a, s)
    BY DEF JobsKept, HasJob
  <1> QED
    BY <1>1, <1>2, <1>3 DEF SlotsKept

LEMMA DueAfter ==
  ASSUME NEW s \in SchedType, NEW pc
  PROVE  [s EXCEPT !.pc = pc].due = s.due /\ [s EXCEPT !.due = {}, !.pc = pc].due = {}
  BY DEF SchedType

LEMMA AnswerDue ==
  ASSUME Typed, NEW x, NEW ok, Answer(x, ok)
  PROVE  DueKept
  <1>1. sched' = sched \/ sched' = [sched EXCEPT !.due = {}, !.pc = "reconcile"]
    BY DEF Answer
  <1> QED
    BY <1>1, TypedParts, DueAfter DEF DueKept

LEMMA SubmitStepSlots ==
  ASSUME Typed, RowsKnown, NoncesOwn, NEW x \in Actor,
         \/ Submit(x) /\ x # Scheduler
         \/ CreateRow(x) \/ BindKey(x) \/ SubmitFails(x) \/ Record(x) \/ RecordFails(x)
  PROVE  SlotsKept
  <1>1. SchedulerKept
    BY SubmitProceeds, KeyNonces DEF Proceeds, Others, SchedulerKept
  <1>2. JobsKept
    <2>1. CASE Submit(x) /\ x # Scheduler
      <3>1. x \in Caller /\ Busy(x)
        BY <2>1, Busyness DEF Actor
      <3>2. Key(sub[x]).nonce # 0
        BY <3>1, KeyNonces DEF NoncesOwn
      <3> QED
        BY <2>1, <3>2, KeysAfterSubmit DEF JobsKept
    <2>2. CASE CreateRow(x) \/ BindKey(x) \/ SubmitFails(x) \/ Record(x) \/ RecordFails(x)
      BY <2>2, SubmitFrames DEF JobsKept
    <2> QED
      BY <2>1, <2>2
  <1>3. DueKept
    <2>1. Record(x) => DueKept
      BY AnswerDue DEF Record
    <2>2. RecordFails(x) => DueKept
      BY AnswerDue DEF RecordFails
    <2>3. Submit(x) \/ CreateRow(x) \/ BindKey(x) \/ SubmitFails(x) => DueKept
      BY SubmitFrames DEF DueKept
    <2> QED
      BY <2>1, <2>2, <2>3
  <1> QED
    BY <1>1, <1>2, <1>3, KeptSlots

\* What changes the slots: taking them, and submitting one of them.
LEMMA SlotKinds ==
  ASSUME Typed, RowsKnown, NoncesOwn, [Next]_vars
  PROVE  SlotsKept \/ TakeDue \/ Submit(Scheduler) \/ \E now \in 1 .. clock : Tick(now)
  <1>1. ASSUME NEW a \in AutoId, NEW active \in BOOLEAN, Create(a, active) PROVE SlotsKept
    BY <1>1, KeptSlots DEF Create, bounds, DueKept, SchedulerKept, JobsKept
  <1>2. ASSUME NEW a \in AutoId, NEW active \in BOOLEAN, Update(a, active) PROVE SlotsKept
    BY <1>2, KeptSlots DEF Update, bounds, DueKept, SchedulerKept, JobsKept
  <1>3. ASSUME NEW a \in AutoId, Delete(a) PROVE SlotsKept
    BY <1>3, KeptSlots DEF Delete, bounds, DueKept, SchedulerKept, JobsKept
  <1>4. ASSUME NEW c \in Caller, NEW a \in AutoId, RunNow(c, a) PROVE SlotsKept
    <2>1. UNCHANGED <<sched, jobs>>
      BY <1>4 DEF RunNow
    <2>2. SchedulerKept
      BY <1>4, RunNowSub, KeyNonces DEF Enters, Others, SchedulerKept
    <2> QED
      BY <2>1, <2>2, KeptSlots DEF DueKept, JobsKept
  <1>5. ASSUME NEW now \in 1 .. clock, Tick(now) PROVE SlotsKept \/ TakeDue \/ Submit(Scheduler) \/ \E t \in 1 .. clock : Tick(t)
    BY <1>5
  <1>6. ASSUME TakeDue PROVE SlotsKept \/ TakeDue \/ Submit(Scheduler) \/ \E t \in 1 .. clock : Tick(t)
    BY <1>6
  <1>7. ASSUME TickEnds PROVE SlotsKept
    <2>1. UNCHANGED <<sub, jobs>> /\ sched' = [sched EXCEPT !.pc = "reconcile"]
      BY <1>7 DEF TickEnds
    <2>2. DueKept
      BY <2>1, TypedParts, DueAfter DEF DueKept
    <2> QED
      BY <2>1, <2>2, KeptSlots DEF SchedulerKept, JobsKept
  <1>8. ASSUME Reconcile PROVE SlotsKept
    <2>1. UNCHANGED <<sub, jobs>> /\ sched' = [sched EXCEPT !.pc = "wait"]
      BY <1>8 DEF Reconcile
    <2>2. DueKept
      BY <2>1, TypedParts, DueAfter DEF DueKept
    <2> QED
      BY <2>1, <2>2, KeptSlots DEF SchedulerKept, JobsKept
  <1>9. ASSUME ReconcileFails PROVE SlotsKept
    <2>1. UNCHANGED <<sub, jobs>> /\ sched' = [sched EXCEPT !.pc = "wait"]
      BY <1>9 DEF ReconcileFails
    <2>2. DueKept
      BY <2>1, TypedParts, DueAfter DEF DueKept
    <2> QED
      BY <2>1, <2>2, KeptSlots DEF SchedulerKept, JobsKept
  <1>10. ASSUME NEW x \in Actor, Submit(x) PROVE SlotsKept \/ Submit(Scheduler)
    BY <1>10, SubmitStepSlots
  <1>11. ASSUME NEW x \in Actor, CreateRow(x) PROVE SlotsKept
    BY <1>11, SubmitStepSlots
  <1>12. ASSUME NEW x \in Actor, BindKey(x) PROVE SlotsKept
    BY <1>12, SubmitStepSlots
  <1>13. ASSUME NEW x \in Actor, SubmitFails(x) PROVE SlotsKept
    BY <1>13, SubmitStepSlots
  <1>14. ASSUME NEW x \in Actor, Record(x) PROVE SlotsKept
    BY <1>14, SubmitStepSlots
  <1>15. ASSUME NEW x \in Actor, RecordFails(x) PROVE SlotsKept
    BY <1>15, SubmitStepSlots
  <1>16. ASSUME Advance PROVE SlotsKept
    BY <1>16, KeptSlots DEF Advance, bounds, DueKept, SchedulerKept, JobsKept
  <1>17. ASSUME NEW j \in jobs, JobEnds(j) PROVE SlotsKept
    <2>1. UNCHANGED <<sched, sub>>
      BY <1>17 DEF JobEnds
    <2> QED
      BY <1>17, <2>1, JobEndsKeys, KeptSlots DEF DueKept, SchedulerKept, JobsKept
  <1>18. ASSUME NEW w \in rows, RowCancelled(w) PROVE SlotsKept
    BY <1>18, KeptSlots DEF RowCancelled, bounds, DueKept, SchedulerKept, JobsKept
  <1>19. ASSUME Crash PROVE SlotsKept
    <2>1. UNCHANGED jobs /\ sched'.due = {} /\ sub' = [y \in Actor |-> NoSub]
      BY <1>19 DEF Crash
    <2> QED
      BY <2>1, NoSubType, KeyNonces, KeptSlots DEF DueKept, SchedulerKept, JobsKept
  <1>20. CASE UNCHANGED vars
    BY <1>20, KeptSlots DEF vars, DueKept, SchedulerKept, JobsKept
  <1> QED
    BY <1>1, <1>2, <1>3, <1>4, <1>5, <1>6, <1>7, <1>8, <1>9, <1>10, <1>11, <1>12, <1>13, <1>14, <1>15, <1>16, <1>17, <1>18, <1>19, <1>20
    DEF Next, SchedulerStep, SubmitStep

\* The slots after the three steps that take or move one.
LEMMA TakeDueSlots ==
  ASSUME Typed, TakeDue
  PROVE  \E b \in AutoId, t \in Nat :
           /\ Waits(b, t)
           /\ \A a \in AutoId, s \in Nat :
                /\ Waits(a, s)' => Waits(a, s) /\ ~(a = b /\ s = t)
                /\ Submits(a, s)' => a = b /\ s = t
                /\ HasJob(a, s)' => HasJob(a, s)
  <1>1. PICK d \in sched.due :
          /\ d \in DueType
          /\ Enters(Scheduler, d.auto, d.slot, 0)
          /\ sched' = [sched EXCEPT !.due = sched.due \ {d}]
    BY TakeDueSub
  <1>2. d.auto \in AutoId /\ d.slot \in Nat /\ d = [auto |-> d.auto, slot |-> d.slot]
    BY <1>1 DEF DueType
  <1>3. sched'.due = sched.due \ {d}
    BY <1>1, TypedParts DEF SchedType
  <1>4. Waits(d.auto, d.slot)
    BY <1>2 DEF Waits
  <1>5. UNCHANGED jobs
    BY DEF TakeDue
  <1>6. ASSUME NEW a \in AutoId, NEW s \in Nat
        PROVE  /\ Waits(a, s)' => Waits(a, s) /\ ~(a = d.auto /\ s = d.slot)
               /\ Submits(a, s)' => a = d.auto /\ s = d.slot
               /\ HasJob(a, s)' => HasJob(a, s)
    <2>1. Waits(a, s)' => Waits(a, s) /\ ~(a = d.auto /\ s = d.slot)
      BY <1>2, <1>3 DEF Waits
    <2>2. Submits(a, s)' => a = d.auto /\ s = d.slot
      BY <1>1 DEF Enters, Submits
    <2>3. HasJob(a, s)' => HasJob(a, s)
      BY <1>5 DEF HasJob
    <2> QED
      BY <2>1, <2>2, <2>3
  <1> QED
    BY <1>2, <1>4, <1>6

LEMMA SubmitSlots ==
  ASSUME Typed, RowsKnown, NoncesOwn, Submit(Scheduler)
  PROVE  \A a \in AutoId, s \in Nat :
           /\ Waits(a, s)' => Waits(a, s)
           /\ ~Submits(a, s)'
           /\ HasJob(a, s)' => HasJob(a, s) \/ Submits(a, s)
  <1>1. Scheduler \in Actor
    BY DEF Actor
  <1>2. UNCHANGED sched /\ sub[Scheduler].pc = "submit"
    BY <1>1, SubmitFrames, SubmitJobs
  <1>3. sub'[Scheduler].pc # "submit"
    BY <1>1, SubmitProceeds DEF Proceeds
  <1>4. ASSUME NEW a \in AutoId, NEW s \in Nat, NEW j \in jobs',
               j.key = [auto |-> a, slot |-> s, nonce |-> 0]
        PROVE  HasJob(a, s) \/ Submits(a, s)
    <2>1. CASE j \in jobs
      BY <1>4, <2>1 DEF HasJob
    <2>2. CASE j.key = Key(sub[Scheduler])
      <3>1. Key(sub[Scheduler]).auto = a /\ Key(sub[Scheduler]).slot = s
        BY <1>4, <2>2
      <3>2. sub[Scheduler].auto = a /\ sub[Scheduler].slot = s
        BY <3>1, <1>1, TypedParts, KeyParts
      <3> QED
        BY <1>2, <3>2 DEF Submits
    <2> QED
      BY <1>1, <2>1, <2>2, KeysAfterSubmit
  <1> QED
    BY <1>2, <1>3, <1>4 DEF Waits, Submits, HasJob

LEMMA TickSlots ==
  ASSUME Typed, NEW now \in 1 .. clock, Tick(now)
  PROVE  /\ \A a \in AutoId, s \in Nat :
              /\ Waits(a, s)' => autos[a].active /\ s = autos[a].next /\ s <= now /\ a \in Due(now)
              /\ Submits(a, s)' => Submits(a, s)
              /\ HasJob(a, s)' => HasJob(a, s)
         /\ \A a \in AutoId :
              /\ a \in Due(now) => autos'[a].next = now + Period /\ autos[a].next <= now /\ autos[a].active
              /\ a \notin Due(now) => autos'[a] = autos[a]
         /\ UNCHANGED clock
  <1>1. UNCHANGED <<sub, jobs, clock>>
    BY DEF Tick
  <1>2. sched'.due = {[auto |-> b, slot |-> autos[b].next] : b \in Due(now)}
    BY DEF Tick
  <1>3. autos \in [AutoId -> AutoType]
    BY TypedParts
  <1>4. ASSUME NEW a \in AutoId, NEW s \in Nat, Waits(a, s)'
        PROVE  autos[a].active /\ s = autos[a].next /\ s <= now /\ a \in Due(now)
    <2>1. PICK b \in Due(now) : [auto |-> a, slot |-> s] = [auto |-> b, slot |-> autos[b].next]
      BY <1>2, <1>4 DEF Waits
    <2>2. a = b /\ s = autos[b].next
      BY <2>1
    <2> QED
      BY <2>2 DEF Due
  <1>5. ASSUME NEW a \in AutoId
        PROVE  /\ a \in Due(now) => autos'[a].next = now + Period /\ autos[a].next <= now /\ autos[a].active
               /\ a \notin Due(now) => autos'[a] = autos[a]
    <2>1. autos' = [b \in AutoId |-> IF b \in Due(now) THEN [autos[b] EXCEPT !.next = NextAfter(now)] ELSE autos[b]]
      BY DEF Tick
    <2>2. [autos[a] EXCEPT !.next = NextAfter(now)].next = NextAfter(now)
      BY <1>3 DEF AutoType
    <2>3. a \in Due(now) => autos[a].next <= now /\ autos[a].active
      BY DEF Due
    <2> QED
      BY <2>1, <2>2, <2>3 DEF NextAfter
  <1>6. \A a \in AutoId, s \in Nat :
          (Submits(a, s)' => Submits(a, s)) /\ (HasJob(a, s)' => HasJob(a, s))
    BY <1>1 DEF Submits, HasJob
  <1> QED
    BY <1>1, <1>4, <1>5, <1>6

THEOREM SlotsApartStep ==
  ASSUME Typed, RowsKnown, NoncesOwn, SlotsAhead, SlotsApart, [Next]_vars
  PROVE  SlotsApart'
  <1>1. CASE SlotsKept
    BY <1>1 DEF SlotsKept, SlotsApart
  <1>2. CASE TakeDue
    BY <1>2, TakeDueSlots DEF SlotsApart
  <1>3. CASE Submit(Scheduler)
    BY <1>3, SubmitSlots DEF SlotsApart
  <1>4. ASSUME NEW now \in 1 .. clock, Tick(now) PROVE SlotsApart'
    <2>1. \A a \in AutoId : autos[a].next \in Nat
      BY TypedParts DEF AutoType
    <2>2. ASSUME NEW a \in AutoId, NEW s \in Nat, Waits(a, s)'
          PROVE  ~Submits(a, s) /\ ~HasJob(a, s)
      BY <1>4, <2>1, <2>2, TickSlots DEF SlotsAhead, Taken
    <2> QED
      BY <1>4, <2>2, TickSlots DEF SlotsApart
  <1> QED
    BY <1>1, <1>2, <1>3, <1>4, SlotKinds

\* No step but Tick moves a slot back: a schedule is computed from the clock.
SlotsLater ==
  /\ clock' \in Nat /\ clock <= clock'
  /\ \A a \in AutoId : autos'[a].active => autos'[a] = autos[a] \/ clock < autos'[a].next
  /\ \A a \in AutoId : autos'[a].next \in Nat

LEMMA LaterSlots ==
  ASSUME Typed, [Next]_vars
  PROVE  SlotsLater \/ \E now \in 1 .. clock : Tick(now)
  <1>1. ASSUME NEW a \in AutoId, NEW active \in BOOLEAN, Create(a, active) PROVE SlotsLater
    <2>1. autos' = [autos EXCEPT ![a] = Scheduled(active)] /\ UNCHANGED clock
      BY <1>1 DEF Create
    <2>2. /\ Scheduled(active).next \in Nat
          /\ Scheduled(active).active => clock < Scheduled(active).next
      BY TypedParts, PeriodAssumption DEF Scheduled, NextAfter, Never
    <2> QED
      BY <2>1, <2>2, TypedParts DEF SlotsLater, AutoType
  <1>2. ASSUME NEW a \in AutoId, NEW active \in BOOLEAN, Update(a, active) PROVE SlotsLater
    <2>1. autos' = [autos EXCEPT ![a] = Scheduled(active)] /\ UNCHANGED clock
      BY <1>2 DEF Update
    <2>2. /\ Scheduled(active).next \in Nat
          /\ Scheduled(active).active => clock < Scheduled(active).next
      BY TypedParts, PeriodAssumption DEF Scheduled, NextAfter, Never
    <2> QED
      BY <2>1, <2>2, TypedParts DEF SlotsLater, AutoType
  <1>3. ASSUME NEW a \in AutoId, Delete(a) PROVE SlotsLater
    <2>1. autos' = [autos EXCEPT ![a] = [Unset EXCEPT !.life = "deleted"]] /\ UNCHANGED clock
      BY <1>3 DEF Delete
    <2> QED
      BY <2>1, Gone, TypedParts DEF SlotsLater, AutoType
  <1>4. ASSUME NEW c \in Caller, NEW a \in AutoId, RunNow(c, a) PROVE SlotsLater
    BY <1>4, TypedParts DEF RunNow, SlotsLater, AutoType
  <1>5. ASSUME NEW now \in 1 .. clock, Tick(now) PROVE \E t \in 1 .. clock : Tick(t)
    BY <1>5
  <1>6. ASSUME TakeDue PROVE SlotsLater
    BY <1>6, TypedParts DEF TakeDue, bounds, SlotsLater, AutoType
  <1>7. ASSUME TickEnds PROVE SlotsLater
    BY <1>7, TypedParts DEF TickEnds, bounds, SlotsLater, AutoType
  <1>8. ASSUME Reconcile PROVE SlotsLater
    BY <1>8, TypedParts DEF Reconcile, bounds, SlotsLater, AutoType
  <1>9. ASSUME ReconcileFails PROVE SlotsLater
    BY <1>9, TypedParts DEF ReconcileFails, SlotsLater, AutoType
  <1>10. ASSUME NEW x \in Actor, Submit(x) PROVE SlotsLater
    BY <1>10, TypedParts DEF Submit, bounds, SlotsLater, AutoType
  <1>11. ASSUME NEW x \in Actor, CreateRow(x) PROVE SlotsLater
    BY <1>11, TypedParts DEF CreateRow, bounds, SlotsLater, AutoType
  <1>12. ASSUME NEW x \in Actor, BindKey(x) PROVE SlotsLater
    BY <1>12, TypedParts DEF BindKey, bounds, SlotsLater, AutoType
  <1>13. ASSUME NEW x \in Actor, SubmitFails(x) PROVE SlotsLater
    BY <1>13, TypedParts DEF SubmitFails, SlotsLater, AutoType
  <1>14. ASSUME NEW x \in Actor, Record(x) PROVE SlotsLater
    BY <1>14, TypedParts DEF Record, bounds, SlotsLater, AutoType
  <1>15. ASSUME NEW x \in Actor, RecordFails(x) PROVE SlotsLater
    BY <1>15, TypedParts DEF RecordFails, SlotsLater, AutoType
  <1>16. ASSUME Advance PROVE SlotsLater
    BY <1>16, TypedParts DEF Advance, bounds, SlotsLater, AutoType
  <1>17. ASSUME NEW j \in jobs, JobEnds(j) PROVE SlotsLater
    BY <1>17, TypedParts DEF JobEnds, bounds, SlotsLater, AutoType
  <1>18. ASSUME NEW w \in rows, RowCancelled(w) PROVE SlotsLater
    BY <1>18, TypedParts DEF RowCancelled, bounds, SlotsLater, AutoType
  <1>19. ASSUME Crash PROVE SlotsLater
    BY <1>19, TypedParts DEF Crash, SlotsLater, AutoType
  <1>20. CASE UNCHANGED vars
    BY <1>20, TypedParts DEF vars, SlotsLater, AutoType
  <1> QED
    BY <1>1, <1>2, <1>3, <1>4, <1>5, <1>6, <1>7, <1>8, <1>9, <1>10, <1>11, <1>12, <1>13, <1>14, <1>15, <1>16, <1>17, <1>18, <1>19, <1>20
    DEF Next, SchedulerStep, SubmitStep

THEOREM SlotsAheadStep ==
  ASSUME Typed, RowsKnown, NoncesOwn, SlotsAhead, [Next]_vars
  PROVE  SlotsAhead'
  <1>0. clock \in Nat /\ Period \in Nat \ {0} /\ \A a \in AutoId : autos[a].next \in Nat
    BY TypedParts, PeriodAssumption DEF AutoType
  <1>1. ASSUME NEW now \in 1 .. clock, Tick(now) PROVE SlotsAhead'
    <2>1. ASSUME NEW a \in AutoId, NEW s \in Nat, Taken(a, s)'
          PROVE  s <= clock /\ (autos'[a].active => s < autos'[a].next)
      <3>1. CASE Waits(a, s)'
        BY <1>0, <1>1, <3>1, TickSlots
      <3>2. CASE Submits(a, s) \/ HasJob(a, s)
        <4>1. s <= clock /\ (autos[a].active => s < autos[a].next)
          BY <3>2 DEF SlotsAhead, Taken
        <4> QED
          BY <1>0, <1>1, <4>1, TickSlots
      <3> QED
        BY <1>1, <2>1, <3>1, <3>2, TickSlots DEF Taken
    <2> QED
      BY <1>1, <2>1, TickSlots DEF SlotsAhead
  <1>2. ASSUME SlotsLater, \A a \in AutoId, s \in Nat : Taken(a, s)' => Taken(a, s)
        PROVE  SlotsAhead'
    <2>1. ASSUME NEW a \in AutoId, NEW s \in Nat, Taken(a, s)'
          PROVE  s <= clock' /\ (autos'[a].active => s < autos'[a].next)
      <3>1. s <= clock /\ (autos[a].active => s < autos[a].next)
        BY <1>2, <2>1 DEF SlotsAhead
      <3>2. /\ clock' \in Nat /\ clock <= clock'
            /\ autos'[a].active => autos'[a] = autos[a] \/ clock < autos'[a].next
        BY <1>2 DEF SlotsLater
      <3>3. s <= clock'
        BY <1>0, <3>1, <3>2
      <3>4. CASE autos'[a] = autos[a]
        BY <3>1, <3>3, <3>4
      <3>5. CASE autos'[a].active /\ clock < autos'[a].next
        <4>1. autos'[a].next \in Nat
          BY <1>2 DEF SlotsLater
        <4> QED
          BY <1>0, <3>1, <3>3, <3>5, <4>1
      <3> QED
        BY <3>2, <3>3, <3>4, <3>5
    <2> QED
      BY <2>1 DEF SlotsAhead
  <1>3. CASE SlotsKept
    <2>1. \A a \in AutoId, s \in Nat : Taken(a, s)' => Taken(a, s)
      BY <1>3 DEF SlotsKept, Taken
    <2> QED
      BY <1>1, <1>2, <2>1, LaterSlots
  <1>4. CASE TakeDue
    <2>1. \A a \in AutoId, s \in Nat : Taken(a, s)' => Taken(a, s)
      BY <1>4, TakeDueSlots DEF Taken
    <2> QED
      BY <1>1, <1>2, <2>1, LaterSlots
  <1>5. CASE Submit(Scheduler)
    <2>1. \A a \in AutoId, s \in Nat : Taken(a, s)' => Taken(a, s)
      BY <1>5, SubmitSlots DEF Taken
    <2> QED
      BY <1>1, <1>2, <2>1, LaterSlots
  <1> QED
    BY <1>1, <1>3, <1>4, <1>5, SlotKinds

-----------------------------------------------------------------------------
(* The theorems.                                                           *)

LEMMA SlotInvInit ==
  ASSUME Init
  PROVE  SlotInv
  <1>0. NoSub \in [pc : {"none", "submit", "create", "bind", "record"},
                   auto : AutoId \cup {Scheduler}, slot : Nat, nonce : Nat,
                   row : Nat, failed : BOOLEAN] /\ NoSub.pc = "none"
    BY DEF NoSub
  <1>1. Typed
    <2>1. TypeOK
      BY <1>0 DEF Init, TypeOK, Unset, Never
    <2>2. IsFiniteSet(jobs) /\ IsFiniteSet(rows)
      BY FS_EmptySet DEF Init
    <2> QED
      BY <2>1, <2>2, <1>0 DEF Init, Typed, Busy
  <1>2. \A x \in Actor : sub[x].pc = "none"
    BY <1>0 DEF Init
  <1>3. RowsKnown
    BY <1>2 DEF Init, RowsKnown, HasRow
  <1>4. NoncesOwn /\ ManualFresh
    BY <1>2, KeyNonces, <1>1 DEF Init, NoncesOwn, ManualFresh, Busy
  <1>5. \A a \in AutoId, s \in Nat : ~Waits(a, s) /\ ~Submits(a, s) /\ ~HasJob(a, s)
    BY <1>2, KeyNonces, <1>1 DEF Init, Waits, Submits, HasJob
  <1>6. SlotsAhead /\ SlotsApart
    BY <1>5 DEF SlotsAhead, SlotsApart, Taken
  <1>7. SlotOnce /\ RunOnce
    BY DEF Init, SlotOnce, RunOnce
  <1> QED
    BY <1>1, <1>3, <1>4, <1>6, <1>7 DEF SlotInv

LEMMA SlotInvStep ==
  ASSUME SlotInv, [Next]_vars
  PROVE  SlotInv'
  <1>1. Typed' /\ RowsKnown'
    BY TypedStep, RowsKnownStep DEF SlotInv
  <1>2. NoncesOwn' /\ ManualFresh'
    BY NoncesOwnStep, ManualFreshStep DEF SlotInv
  <1>3. SlotsAhead' /\ SlotsApart'
    BY SlotsAheadStep, SlotsApartStep DEF SlotInv
  <1>4. SlotOnce' /\ RunOnce'
    BY SlotOnceStep, RunOnceStep DEF SlotInv
  <1> QED
    BY <1>1, <1>2, <1>3, <1>4 DEF SlotInv

\* The invariant holds of every behaviour of the scheduler, the tools and the
\* calls of SubmitRun, with any failures and deaths.
THEOREM SlotInvariance == Spec => []SlotInv
  BY SlotInvInit, SlotInvStep, PTL DEF Spec

\* The variables keep their types, and an automation has a next slot exactly
\* while it is active.
THEOREM AutomationTypes == Spec => []TypeOK
  <1>1. SlotInv => TypeOK
    BY DEF SlotInv, Typed
  <1> QED
    BY <1>1, SlotInvariance, PTL

\* buildIdempotencyKey keeps its word for any number of automations, callers,
\* failures and deaths between the writes of SubmitRun: no key is given to the
\* broker twice.
THEOREM SlotsAreSubmittedOnce == Spec => []SlotOnce
  <1>1. SlotInv => SlotOnce
    BY DEF SlotInv
  <1> QED
    BY <1>1, SlotInvariance, PTL

\* No two recorded runs are of the same slot or call, and a run that names a
\* work row names the one made for it.
THEOREM RunsKeepTheirRow == Spec => []RunsOwnTheirRow
  <1>1. SlotInv => RunsOwnTheirRow
    BY DEF SlotInv, RunOnce, RowsKnown, RowOf, RunsOwnTheirRow
  <1> QED
    BY <1>1, SlotInvariance, PTL

-----------------------------------------------------------------------------
(* Slots and time.                                                         *)

Ran(j) == j.key.nonce = 0

\* A slot that was given to the broker was due by then, and it does not come
\* again: the next slot of an active automation lies after it, whatever was
\* updated, paused and resumed, or died in between (Tick saves the advanced
\* slots before anything is submitted).
SlotsSpent ==
  \A j \in jobs, a \in AutoId :
    Ran(j) /\ j.key.auto = a =>
      /\ j.key.slot <= clock
      /\ autos[a].active => j.key.slot < autos[a].next

\* The broker gets an automation's slots in the order of time: of two of its
\* tasks the one submitted later is for a later slot.  Ticks come late and
\* twice, submissions fail, the process dies with slots in its hand, and none
\* of it makes the scheduler fall back behind what it has submitted.
JobsInOrder ==
  \A j, k \in jobs :
    Ran(j) /\ Ran(k) /\ j.key.auto = k.key.auto /\ j.id < k.id => j.key.slot < k.key.slot

\* Between two Ticks the scheduler has nothing in its hand.
SchedulerQuiet == sched.pc # "run" => sched.due = {} /\ sub[Scheduler].pc = "none"

\* One slot of an automation at a time is on its way to the broker, and it lies
\* after every slot that was given to it.
OnTheWay(a, s) == Waits(a, s) \/ Submits(a, s)
SlotsBehind ==
  \A a \in AutoId, s, t \in Nat :
    /\ OnTheWay(a, s) /\ OnTheWay(a, t) => s = t
    /\ OnTheWay(a, s) /\ HasJob(a, t) => t < s

\* Tasks are numbered in the order of their submission.
JobsNumbered ==
  /\ \A j, k \in jobs : j.id = k.id => j = k
  /\ \A j \in jobs : j.id <= Cardinality(jobs)

OrderInv == SlotInv /\ SchedulerQuiet /\ SlotsBehind /\ JobsNumbered /\ JobsInOrder

LEMMA SchedulerQuietStep ==
  ASSUME Typed, RowsKnown, SchedulerQuiet, [Next]_vars
  PROVE  SchedulerQuiet'
  <1>0. sched \in SchedType /\ sub \in [Actor -> SubType] /\ Scheduler \in Actor
    BY TypedParts DEF Actor
  <1>1. CASE sched' = sched /\ sub'[Scheduler] = sub[Scheduler]
    BY <1>1 DEF SchedulerQuiet
  <1>2. ASSUME NEW c \in Caller, NEW a \in AutoId, RunNow(c, a) PROVE SchedulerQuiet'
    <2>1. sched' = sched /\ sub'[Scheduler] = sub[Scheduler]
      BY <1>2, RunNowSub, KeyNonces DEF RunNow, Enters, Others
    <2> QED
      BY <1>1, <2>1
  <1>3. CASE TakeDue \/ \E now \in 1 .. clock : Tick(now)
    <2>1. sched'.pc = "run"
      <3>1. CASE TakeDue
        <4>1. sched.pc = "run" /\ \E d : sched' = [sched EXCEPT !.due = d]
          BY <3>1 DEF TakeDue
        <4> QED
          BY <1>0, <4>1 DEF SchedType
      <3>2. CASE \E now \in 1 .. clock : Tick(now)
        BY <3>2 DEF Tick
      <3> QED
        BY <1>3, <3>1, <3>2
    <2> QED
      BY <2>1 DEF SchedulerQuiet
  <1>4. CASE TickEnds \/ Reconcile \/ ReconcileFails
    <2>1. sched.due = {} /\ sub[Scheduler].pc = "none" /\ sub' = sub
      BY <1>4 DEF SchedulerQuiet, TickEnds, Reconcile, ReconcileFails
    <2>2. \E pc : sched' = [sched EXCEPT !.pc = pc]
      BY <1>4 DEF TickEnds, Reconcile, ReconcileFails
    <2>3. sched'.due = sched.due
      BY <1>0, <2>2, DueAfter
    <2> QED
      BY <2>1, <2>3 DEF SchedulerQuiet
  <1>5. ASSUME NEW x \in Actor, Submit(x) \/ CreateRow(x) \/ BindKey(x) \/ SubmitFails(x)
        PROVE  SchedulerQuiet'
    <2>1. sched' = sched /\ Busy(x)
      BY <1>5, SubmitFrames, Busyness
    <2>2. CASE x = Scheduler
      BY <2>1, <2>2 DEF SchedulerQuiet, Busy
    <2>3. CASE x # Scheduler
      <3>1. sub'[Scheduler] = sub[Scheduler]
        BY <1>0, <1>5, <2>3, SubmitProceeds DEF Proceeds, Others
      <3> QED
        BY <1>1, <2>1, <3>1
    <2> QED
      BY <2>2, <2>3
  <1>6. ASSUME NEW x \in Actor, NEW ok, Answer(x, ok), Returns(x) PROVE SchedulerQuiet'
    <2>1. CASE x # Scheduler
      <3>1. sched' = sched /\ sub'[Scheduler] = sub[Scheduler]
        BY <1>0, <1>6, <2>1 DEF Answer, Returns, Others
      <3> QED
        BY <1>1, <3>1
    <2>2. CASE x = Scheduler
      <3>1. sub'[Scheduler].pc = "none"
        BY <1>6, <2>2, NoSubType DEF Returns
      <3>2. sched' = sched \/ sched' = [sched EXCEPT !.due = {}, !.pc = "reconcile"]
        BY <1>6 DEF Answer
      <3>3. sched'.pc # "run" => sched'.due = {}
        BY <1>0, <3>2, DueAfter DEF SchedulerQuiet
      <3> QED
        BY <3>1, <3>3 DEF SchedulerQuiet
    <2> QED
      BY <2>1, <2>2
  <1>7. ASSUME NEW x \in Actor, Record(x) \/ RecordFails(x) PROVE SchedulerQuiet'
    <2>1. \E ok : Answer(x, ok)
      BY <1>7 DEF Record, RecordFails
    <2> QED
      BY <1>6, <1>7, <2>1, RecordSub
  <1>8. CASE Crash
    <2>1. sched'.due = {} /\ sub' = [y \in Actor |-> NoSub]
      BY <1>8 DEF Crash
    <2> QED
      BY <1>0, <2>1, NoSubType DEF SchedulerQuiet
  <1>9. CASE UNCHANGED <<sched, sub>>
    BY <1>1, <1>9
  <1> QED
    BY <1>2, <1>3, <1>4, <1>5, <1>7, <1>8, <1>9
    DEF Next, vars, bounds, SchedulerStep, SubmitStep, Create, Update, Delete, Advance, JobEnds,
        RowCancelled

LEMMA SlotsBehindStep ==
  ASSUME Typed, RowsKnown, NoncesOwn, SlotsAhead, SlotsApart, SchedulerQuiet, SlotsBehind,
         [Next]_vars
  PROVE  SlotsBehind'
  <1>1. CASE SlotsKept
    BY <1>1 DEF SlotsKept, SlotsBehind, OnTheWay
  <1>2. CASE TakeDue
    BY <1>2, TakeDueSlots DEF SlotsBehind, OnTheWay
  <1>3. CASE Submit(Scheduler)
    <2>1. ASSUME NEW a \in AutoId, NEW s \in Nat, OnTheWay(a, s)'
          PROVE  Waits(a, s)
      BY <1>3, <2>1, SubmitSlots DEF OnTheWay
    <2>2. ASSUME NEW a \in AutoId, NEW s \in Nat, NEW t \in Nat, OnTheWay(a, s)', OnTheWay(a, t)'
          PROVE  s = t
      BY <2>1, <2>2 DEF SlotsBehind, OnTheWay
    <2>3. ASSUME NEW a \in AutoId, NEW s \in Nat, NEW t \in Nat, OnTheWay(a, s)', HasJob(a, t)'
          PROVE  t < s
      <3>1. Waits(a, s) /\ (HasJob(a, t) \/ Submits(a, t))
        BY <1>3, <2>1, <2>3, SubmitSlots
      <3>2. Submits(a, t) => s = t
        BY <3>1 DEF SlotsBehind, OnTheWay
      <3> QED
        BY <3>1, <3>2 DEF SlotsApart, SlotsBehind, OnTheWay
    <2> QED
      BY <2>2, <2>3 DEF SlotsBehind
  <1>4. ASSUME NEW now \in 1 .. clock, Tick(now) PROVE SlotsBehind'
    <2>1. \A a \in AutoId : autos[a].next \in Nat
      BY TypedParts DEF AutoType
    <2>2. \A a \in AutoId, s \in Nat : ~Submits(a, s)
      BY <1>4 DEF Tick, SchedulerQuiet, Submits
    <2>3. ASSUME NEW a \in AutoId, NEW s \in Nat, OnTheWay(a, s)'
          PROVE  s = autos[a].next /\ autos[a].active
      BY <1>4, <2>2, <2>3, TickSlots DEF OnTheWay
    <2>4. ASSUME NEW a \in AutoId, NEW t \in Nat, HasJob(a, t)', autos[a].active
          PROVE  t < autos[a].next
      BY <1>4, <2>4, TickSlots DEF SlotsAhead, Taken
    <2> QED
      BY <2>3, <2>4 DEF SlotsBehind
  <1> QED
    BY <1>1, <1>2, <1>3, <1>4, SlotKinds

\* What becomes of the broker's tasks: a step adds one, ends one or leaves them.
LEMMA JobKinds ==
  ASSUME [Next]_vars
  PROVE  UNCHANGED jobs \/ (\E x \in Actor : Submit(x)) \/ \E j \in jobs : JobEnds(j)
  BY DEF Next, vars, bounds, SchedulerStep, SubmitStep, Create, Update, Delete, RunNow, Tick,
         TakeDue, TickEnds, Reconcile, ReconcileFails, CreateRow, BindKey, SubmitFails, Record,
         RecordFails, Advance, RowCancelled, Crash

\* A task that ends keeps its number and its key, and the others stay.
LEMMA EndedJob ==
  ASSUME Typed, JobsNumbered, NEW j \in jobs, JobEnds(j)
  PROVE  /\ JobsNumbered'
         /\ \A i \in jobs' : \E k \in jobs : k.id = i.id /\ k.key = i.key
  <1> DEFINE e == [j EXCEPT !.ended = TRUE]
  <1>1. jobs' = (jobs \ {j}) \cup {e}
    BY DEF JobEnds
  <1>2. e.key = j.key /\ e.id = j.id
    BY TypedParts DEF JobType
  <1> HIDE DEF e
  <1>3. e \notin jobs \ {j}
    BY <1>2 DEF JobsNumbered
  <1>4. IsFiniteSet(jobs) /\ Cardinality(jobs) \in Nat
    BY TypedParts, CardinalityNat
  <1>5. IsFiniteSet(jobs \ {j}) /\ Cardinality(jobs \ {j}) = Cardinality(jobs) - 1
    BY <1>4, FS_RemoveElement
  <1>6. Cardinality((jobs \ {j}) \cup {e}) = (Cardinality(jobs) - 1) + 1
    BY <1>3, <1>5, FS_AddElement
  <1>7. Cardinality(jobs') = Cardinality(jobs)
    BY <1>1, <1>4, <1>6
  <1>8. \A i \in jobs' : i = e \/ i \in jobs \ {j}
    BY <1>1
  <1>9. \A i, k \in jobs' : i.id = k.id => i = k
    BY <1>2, <1>8 DEF JobsNumbered
  <1>10. \A i \in jobs' : i.id <= Cardinality(jobs')
    BY <1>2, <1>7, <1>8 DEF JobsNumbered
  <1> QED
    BY <1>2, <1>8, <1>9, <1>10 DEF JobsNumbered

\* A new task has the next number.
LEMMA AddedJob ==
  ASSUME Typed, JobsNumbered, NEW x \in Actor, Submit(x), jobs' # jobs
  PROVE  /\ JobsNumbered' /\ jobs' = jobs \cup {NewJob(x)}
         /\ \A j \in jobs : j.id < NewJob(x).id
  <1>1. jobs' = jobs \cup {NewJob(x)} /\ NewJob(x) \notin jobs
    BY SubmitJobs
  <1>2. NewJob(x).id = Cardinality(jobs) + 1
    BY DEF NewJob
  <1>3. IsFiniteSet(jobs) /\ Cardinality(jobs) \in Nat /\ \A j \in jobs : j.id \in Nat
    BY TypedParts, CardinalityNat DEF JobType
  <1>4. Cardinality(jobs') = Cardinality(jobs) + 1
    BY <1>1, <1>3, FS_AddElement
  <1>5. \A j \in jobs : j.id < NewJob(x).id
    BY <1>2, <1>3 DEF JobsNumbered
  <1>6. \A j \in jobs' : j = NewJob(x) \/ j \in jobs
    BY <1>1
  <1>7. \A j, k \in jobs' : j.id = k.id => j = k
    BY <1>2, <1>3, <1>5, <1>6 DEF JobsNumbered
  <1>8. \A j \in jobs' : j.id <= Cardinality(jobs')
    BY <1>2, <1>3, <1>4, <1>6 DEF JobsNumbered
  <1> QED
    BY <1>1, <1>5, <1>7, <1>8 DEF JobsNumbered

LEMMA JobsInOrderStep ==
  ASSUME Typed, NoncesOwn, JobsNumbered, SlotsBehind, JobsInOrder, [Next]_vars
  PROVE  JobsNumbered' /\ JobsInOrder'
  <1>1. CASE UNCHANGED jobs
    BY <1>1 DEF JobsNumbered, JobsInOrder, Ran
  <1>2. ASSUME NEW j \in jobs, JobEnds(j) PROVE JobsNumbered' /\ JobsInOrder'
    BY <1>2, EndedJob DEF JobsInOrder, Ran
  <1>3. ASSUME NEW x \in Actor, Submit(x), jobs' # jobs PROVE JobsNumbered' /\ JobsInOrder'
    <2> DEFINE n == NewJob(x)
    <2>1. /\ JobsNumbered' /\ jobs' = jobs \cup {n} /\ \A j \in jobs : j.id < n.id
      BY <1>3, AddedJob
    <2>2. n.key = Key(sub[x]) /\ sub[x].pc = "submit" /\ Busy(x) /\ n.id \in Nat
      BY <1>3, SubmitJobs, CardinalityNat DEF Busy, NewJob
    <2>3. /\ sub[x] \in SubType /\ n.key.auto = sub[x].auto /\ n.key.slot = sub[x].slot
          /\ n.key.nonce = sub[x].nonce /\ sub[x].slot \in Nat /\ sub[x].auto \in AutoId
      BY <2>2, TypedParts, KeyParts DEF SubType
    <2>4. ASSUME NEW j \in jobs, Ran(j), Ran(n), j.key.auto = n.key.auto
          PROVE  j.key.slot < n.key.slot
      <3>1. x = Scheduler
        BY <2>2, <2>3, <2>4, KeyNonces DEF Ran, NoncesOwn, Actor
      <3>2. OnTheWay(sub[x].auto, sub[x].slot)
        BY <2>2, <3>1 DEF OnTheWay, Submits
      <3>3. /\ j.key \in KeyType /\ j.key.slot \in Nat
            /\ j.key = [auto |-> j.key.auto, slot |-> j.key.slot, nonce |-> j.key.nonce]
        BY TypedParts DEF JobType, KeyType
      <3>4. HasJob(sub[x].auto, j.key.slot)
        BY <2>3, <2>4, <3>3 DEF HasJob, Ran
      <3> QED
        BY <2>3, <3>2, <3>3, <3>4 DEF SlotsBehind
    <2>5. \A j \in jobs' : j = n \/ j \in jobs
      BY <2>1
    <2>6. \A j \in jobs : j.id \in Nat
      BY TypedParts DEF JobType
    <2> HIDE DEF n
    <2>7. ASSUME NEW j \in jobs', NEW k \in jobs', Ran(j), Ran(k), j.key.auto = k.key.auto,
                 j.id < k.id
          PROVE  j.key.slot < k.key.slot
      <3>1. j # n
        BY <2>1, <2>2, <2>5, <2>6, <2>7
      <3>2. CASE k = n
        BY <2>4, <2>5, <2>7, <3>1, <3>2
      <3>3. CASE k # n
        BY <2>5, <2>7, <3>1, <3>3 DEF JobsInOrder
      <3> QED
        BY <3>2, <3>3
    <2> QED
      BY <2>1, <2>7 DEF JobsInOrder, Ran
  <1> QED
    BY <1>1, <1>2, <1>3, JobKinds

LEMMA OrderInvariance == Spec => []OrderInv
  <1>1. Init => OrderInv
    <2> SUFFICES ASSUME Init PROVE OrderInv
      OBVIOUS
    <2>1. SlotInv
      BY SlotInvInit
    <2>2. SchedulerQuiet
      BY NoSubType DEF Init, SchedulerQuiet, Actor
    <2>3. \A a \in AutoId, s \in Nat : ~OnTheWay(a, s)
      BY NoSubType DEF Init, OnTheWay, Waits, Submits, Actor
    <2>4. JobsNumbered /\ JobsInOrder
      BY DEF Init, JobsNumbered, JobsInOrder
    <2> QED
      BY <2>1, <2>2, <2>3, <2>4 DEF OrderInv, SlotsBehind
  <1>2. OrderInv /\ [Next]_vars => OrderInv'
    <2> SUFFICES ASSUME OrderInv, [Next]_vars PROVE OrderInv'
      OBVIOUS
    <2>1. SlotInv'
      BY SlotInvStep DEF OrderInv
    <2>2. SchedulerQuiet'
      BY SchedulerQuietStep DEF OrderInv, SlotInv
    <2>3. SlotsBehind'
      BY SlotsBehindStep DEF OrderInv, SlotInv
    <2>4. JobsNumbered' /\ JobsInOrder'
      BY JobsInOrderStep DEF OrderInv, SlotInv
    <2> QED
      BY <2>1, <2>2, <2>3, <2>4 DEF OrderInv
  <1> QED
    BY <1>1, <1>2, PTL DEF Spec

\* An automation's slots are submitted in the order of time.
THEOREM SlotsInOrder == Spec => []JobsInOrder
  <1>1. OrderInv => JobsInOrder
    BY DEF OrderInv
  <1> QED
    BY <1>1, OrderInvariance, PTL

\* No slot is submitted before it is due, and none comes due a second time.
THEOREM SlotsAreSpent == Spec => []SlotsSpent
  <1>1. SlotInv => SlotsSpent
    <2> SUFFICES ASSUME SlotInv, NEW j \in jobs, NEW a \in AutoId, Ran(j), j.key.auto = a
                 PROVE  j.key.slot <= clock /\ (autos[a].active => j.key.slot < autos[a].next)
      BY DEF SlotsSpent
    <2>1. /\ j.key.slot \in Nat
          /\ j.key = [auto |-> j.key.auto, slot |-> j.key.slot, nonce |-> j.key.nonce]
      BY TypedParts DEF SlotInv, JobType, KeyType
    <2>2. HasJob(a, j.key.slot)
      BY <2>1 DEF HasJob, Ran
    <2> QED
      BY <2>1, <2>2 DEF SlotInv, SlotsAhead, Taken
  <1> QED
    BY <1>1, SlotInvariance, PTL
=============================================================================
