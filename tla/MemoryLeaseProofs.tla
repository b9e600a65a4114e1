-------------------------- MODULE MemoryLeaseProofs --------------------------
(***************************************************************************)
(* Theorems about MemoryLease.                                             *)
(***************************************************************************)
EXTENDS MemoryLease, TLAPS

\* What the processes' leases are is covered by the row: it outlasts them all.
LeaseAhead == \A p \in Proc : Working(p) => pass[p].until <= lease

\* ExtractedOnce speaks of the count alone.  While nothing has gone wrong, the
\* pass that wrote is the only one, the others that extract have overrun, and
\* the row is retired or that pass is still to retire it.
WroteOnce ==
  ~excused =>
    /\ written <= 1
    /\ \A p \in Proc : InPass(p, "wrote") => written = 1
    /\ \A p, q \in Proc : InPass(p, "wrote") /\ InPass(q, "wrote") => p = q
    /\ written = 1 =>
         /\ \A p \in Proc : InPass(p, "extract") => Overran(p)
         /\ lease = Retired \/ \E p \in Proc : InPass(p, "wrote")

LeaseInv == LeaseTypeOK /\ LeaseAhead /\ LeaseExclusive /\ WroteOnce

LEMMA LeaseStarts == LeaseInit => LeaseInv
<1>. SUFFICES ASSUME LeaseInit PROVE LeaseInv
  OBVIOUS
<1>1. Retired \in Nat /\ MaxTime \in Nat /\ 1 \in 1..MaxTime /\ 0 \in 0..Retired
  BY TTLAssumption, TimeAssumption DEF Retired
<1>2. \A p \in Proc : pass[p] = [pc |-> "idle", now |-> 0, until |-> 0]
  BY DEF LeaseInit, IdlePass
<1>3. pass \in [Proc -> PassType]
  BY DEF LeaseInit, IdlePass, PassType
<1>4. clock \in 1..MaxTime
  BY TimeAssumption DEF LeaseInit
<1>5. \A p \in Proc : pass[p].now <= clock /\ ~Working(p)
  <2>. SUFFICES ASSUME NEW p \in Proc PROVE pass[p].now <= clock /\ ~Working(p)
    OBVIOUS
  <2>1. clock = 1 /\ pass[p].now = 0 /\ pass[p].pc = "idle"
    BY <1>2 DEF LeaseInit
  <2>2. pass[p].now <= clock
    BY <2>1
  <2>3. ~Working(p)
    BY <2>1 DEF Working
  <2>. QED BY <2>2, <2>3
<1>6. LeaseTypeOK
  BY <1>1, <1>3, <1>4, <1>5 DEF LeaseInit, LeaseTypeOK
<1>7. LeaseAhead /\ LeaseExclusive
  BY <1>5 DEF LeaseAhead, LeaseExclusive
<1>8. WroteOnce
  BY <1>2 DEF LeaseInit, WroteOnce, InPass
<1>. QED BY <1>6, <1>7, <1>8 DEF LeaseInv

\* The types a step is proved with.
LEMMA LeaseNumbers ==
  LeaseTypeOK =>
    /\ clock \in Nat /\ lease \in Nat /\ Retired \in Nat /\ TTL \in Nat
    /\ MaxTime \in Nat /\ clock <= MaxTime /\ clock >= 1 /\ lease <= Retired
    /\ Retired = MaxTime + TTL + 1 /\ TTL >= 1
    /\ \A p \in Proc : /\ pass[p] \in PassType
                       /\ pass[p].now \in Nat /\ pass[p].until \in Nat
BY TTLAssumption, TimeAssumption DEF LeaseTypeOK, Retired, PassType

\* One step of the process p.
ProcStep(p) == StartPass(p) \/ PassStep(p) \/ PassDies(p)

\* What a step leaves of the other passes, and what it makes of its own.
LEMMA StepFrame ==
  ASSUME NEW p \in Proc, LeaseTypeOK, ProcStep(p)
  PROVE  /\ \A q \in Proc \ {p} : pass'[q] = pass[q]
         /\ clock' = clock
         /\ pass'[p] \in PassType
         /\ pass' \in [Proc -> PassType]
<1>1. pass \in [Proc -> PassType] /\ pass[p] \in PassType /\ IdlePass \in PassType
  BY DEF LeaseTypeOK, PassType, IdlePass
<1>2. clock \in Nat /\ TTL \in Nat /\ pass[p].now \in Nat /\ pass[p].until \in Nat
  BY LeaseNumbers
<1>3. CASE StartPass(p)
  BY <1>1, <1>2, <1>3 DEF StartPass, PassTo, IdlePass, PassType
<1>4. CASE ClaimLease(p)
  BY <1>1, <1>2, <1>4 DEF ClaimLease, PassTo, PassType
<1>5. CASE ExtractFails(p) \/ CutShort(p) \/ RetireLease(p) \/ PassDies(p)
  BY <1>1, <1>5 DEF ExtractFails, CutShort, RetireLease, PassDies, PassTo
<1>6. CASE WriteNotes(p)
  BY <1>1, <1>6 DEF WriteNotes, PassTo, PassType
<1>7. CASE NothingToWrite(p)
  BY <1>1, <1>7 DEF NothingToWrite, PassTo, PassType
<1>. QED BY <1>3, <1>4, <1>5, <1>6, <1>7 DEF ProcStep, PassStep

\* A pass that is at work after a step was, with the same lease and no less
\* of its work done, or was granted its lease in this step.
LEMMA WorkFrame ==
  ASSUME NEW p \in Proc, LeaseTypeOK, ProcStep(p), Working(p)'
  PROVE  \/ /\ Working(p) /\ pass'[p].now = pass[p].now /\ pass'[p].until = pass[p].until
            /\ InPass(p, "extract")' => FALSE
         \/ /\ ClaimLease(p) /\ Granted(pass[p].now)
            /\ pass'[p] = [pc |-> "extract", now |-> pass[p].now,
                           until |-> pass[p].now + TTL]
            /\ lease' = pass[p].now + TTL
<1>1. pass \in [Proc -> PassType] /\ pass[p] \in PassType
  BY DEF LeaseTypeOK
<1>2. CASE ClaimLease(p)
  <2>1. CASE Granted(pass[p].now)
    BY <1>1, <1>2, <2>1 DEF ClaimLease, PassTo
  <2>2. CASE ~Granted(pass[p].now)
    BY <1>1, <1>2, <2>2 DEF ClaimLease, PassTo, Working, IdlePass
  <2>. QED BY <2>1, <2>2
<1>3. CASE WriteNotes(p)
  BY <1>1, <1>3 DEF WriteNotes, PassTo, Working, InPass, PassType
<1>4. CASE NothingToWrite(p)
  BY <1>1, <1>4 DEF NothingToWrite, PassTo, Working, InPass, PassType
<1>5. CASE StartPass(p)
  BY <1>1, <1>5 DEF StartPass, PassTo, Working, IdlePass
<1>6. CASE ExtractFails(p) \/ CutShort(p) \/ RetireLease(p) \/ PassDies(p)
  BY <1>1, <1>6 DEF ExtractFails, CutShort, RetireLease, PassDies, PassTo, Working, IdlePass
<1>. QED BY <1>2, <1>3, <1>4, <1>5, <1>6 DEF ProcStep, PassStep

\* The row only grows, and stays within its type.
LEMMA LeaseGrows ==
  ASSUME NEW p \in Proc, LeaseTypeOK, ProcStep(p)
  PROVE  lease' \in 0..Retired /\ lease <= lease'
<1>1. /\ lease \in 0..Retired /\ Retired \in Nat /\ TTL \in Nat /\ MaxTime \in Nat
      /\ pass[p].now \in Nat /\ pass[p].now <= MaxTime /\ Retired = MaxTime + TTL + 1
  BY LeaseNumbers DEF LeaseTypeOK
<1>2. CASE ClaimLease(p)
  BY <1>1, <1>2 DEF ClaimLease, Granted
<1>3. CASE RetireLease(p)
  BY <1>1, <1>3 DEF RetireLease
<1>4. CASE ~ClaimLease(p) /\ ~RetireLease(p)
  BY <1>1, <1>4 DEF ProcStep, PassStep, StartPass, ExtractFails, WriteNotes,
                    NothingToWrite, CutShort, PassDies
<1>. QED BY <1>2, <1>3, <1>4

LEMMA StepTyped ==
  ASSUME NEW p \in Proc, LeaseTypeOK, ProcStep(p)
  PROVE  LeaseTypeOK'
<1>1. /\ clock' = clock /\ pass' \in [Proc -> PassType] /\ lease' \in 0..Retired
      /\ \A q \in Proc \ {p} : pass'[q] = pass[q]
  BY StepFrame, LeaseGrows
<1>2. written' \in Nat /\ excused' \in BOOLEAN
  <2>1. CASE WriteNotes(p)
    BY <2>1 DEF LeaseTypeOK, WriteNotes
  <2>2. CASE ClaimLease(p)
    BY <2>2 DEF LeaseTypeOK, ClaimLease
  <2>3. CASE CutShort(p) \/ PassDies(p)
    BY <2>3 DEF LeaseTypeOK, CutShort, PassDies
  <2>4. CASE StartPass(p) \/ ExtractFails(p) \/ NothingToWrite(p) \/ RetireLease(p)
    BY <2>4 DEF LeaseTypeOK, StartPass, ExtractFails, NothingToWrite, RetireLease
  <2>. QED BY <2>1, <2>2, <2>3, <2>4 DEF ProcStep, PassStep
<1>3. pass'[p].now <= clock
  <2>1. pass \in [Proc -> PassType] /\ pass[p] \in PassType /\ clock \in Nat
    BY LeaseNumbers DEF LeaseTypeOK
  <2>2. pass[p].now <= clock /\ 0 <= clock
    BY LeaseNumbers DEF LeaseTypeOK
  <2>3. CASE StartPass(p)
    BY <2>1, <2>2, <2>3 DEF StartPass, PassTo, IdlePass
  <2>6. CASE ClaimLease(p) /\ Granted(pass[p].now)
    BY <2>1, <2>2, <2>6 DEF ClaimLease, PassTo
  <2>7. CASE ClaimLease(p) /\ ~Granted(pass[p].now)
    BY <2>1, <2>2, <2>7 DEF ClaimLease, PassTo, IdlePass
  <2>4. CASE WriteNotes(p) \/ NothingToWrite(p)
    BY <2>1, <2>2, <2>4 DEF WriteNotes, NothingToWrite, PassTo, PassType
  <2>5. CASE ExtractFails(p) \/ CutShort(p) \/ RetireLease(p) \/ PassDies(p)
    BY <2>1, <2>2, <2>5 DEF ExtractFails, CutShort, RetireLease, PassDies, PassTo, IdlePass
  <2>. QED BY <2>3, <2>4, <2>5, <2>6, <2>7 DEF ProcStep, PassStep
<1>4. Working(p)' => pass'[p].until = pass'[p].now + TTL
  <2>. SUFFICES ASSUME Working(p)' PROVE pass'[p].until = pass'[p].now + TTL
    OBVIOUS
  <2>1. CASE Working(p) /\ pass'[p].now = pass[p].now /\ pass'[p].until = pass[p].until
    BY <2>1 DEF LeaseTypeOK
  <2>2. CASE pass'[p] = [pc |-> "extract", now |-> pass[p].now,
                         until |-> pass[p].now + TTL]
    BY <2>2
  <2>. QED BY <2>1, <2>2, WorkFrame
<1>5. \A q \in Proc : /\ pass'[q].now <= clock'
                      /\ Working(q)' => pass'[q].until = pass'[q].now + TTL
  <2>. SUFFICES ASSUME NEW q \in Proc
                PROVE  /\ pass'[q].now <= clock'
                       /\ Working(q)' => pass'[q].until = pass'[q].now + TTL
    OBVIOUS
  <2>1. CASE q = p
    BY <1>1, <1>3, <1>4, <2>1
  <2>2. CASE q # p
    BY <1>1, <2>2 DEF LeaseTypeOK, Working
  <2>. QED BY <2>1, <2>2
<1>. QED BY <1>1, <1>2, <1>5 DEF LeaseTypeOK, Retired

LEMMA StepExclusive ==
  ASSUME NEW p \in Proc, LeaseTypeOK, LeaseAhead, LeaseExclusive, ProcStep(p)
  PROVE  LeaseAhead' /\ LeaseExclusive'
<1>1. /\ clock' = clock /\ lease <= lease' /\ lease' \in Nat
      /\ \A q \in Proc \ {p} : pass'[q] = pass[q]
  BY StepFrame, LeaseGrows, LeaseNumbers
<1>2. /\ clock \in Nat /\ lease \in Nat /\ TTL \in Nat
      /\ \A q \in Proc : pass[q].now \in Nat /\ pass[q].until \in Nat
      /\ pass[p].now <= clock
  BY LeaseNumbers DEF LeaseTypeOK
<1>3. \A q \in Proc \ {p} : Working(q)' <=> Working(q)
  BY <1>1 DEF Working
<1>4. Working(p)' => pass'[p].until <= lease'
  <2>. SUFFICES ASSUME Working(p)' PROVE pass'[p].until <= lease'
    OBVIOUS
  <2>1. CASE Working(p) /\ pass'[p].until = pass[p].until
    BY <1>1, <1>2, <2>1 DEF LeaseAhead
  <2>2. CASE /\ pass'[p] = [pc |-> "extract", now |-> pass[p].now,
                            until |-> pass[p].now + TTL]
             /\ lease' = pass[p].now + TTL
    BY <1>2, <2>2
  <2>. QED BY <2>1, <2>2, WorkFrame
<1>5. LeaseAhead'
  <2>. SUFFICES ASSUME NEW q \in Proc, Working(q)' PROVE pass'[q].until <= lease'
    BY DEF LeaseAhead
  <2>1. CASE q = p
    BY <1>4, <2>1
  <2>2. CASE q # p
    BY <1>1, <1>2, <1>3, <2>2 DEF LeaseAhead
  <2>. QED BY <2>1, <2>2
<1>6. \A q \in Proc \ {p} :
        Working(p)' /\ Working(q) => pass'[p].until < clock \/ pass[q].until < clock
  <2>. SUFFICES ASSUME NEW q \in Proc \ {p}, Working(p)', Working(q)
                PROVE  pass'[p].until < clock \/ pass[q].until < clock
    OBVIOUS
  <2>1. CASE Working(p) /\ pass'[p].until = pass[p].until
    BY <2>1 DEF LeaseExclusive, Overran
  <2>2. CASE Granted(pass[p].now)
    BY <1>2, <2>2 DEF Granted, LeaseAhead
  <2>. QED BY <2>1, <2>2, WorkFrame
<1>7. LeaseExclusive'
  <2>. SUFFICES ASSUME NEW q \in Proc, NEW r \in Proc, q # r, Working(q)', Working(r)'
                PROVE  pass'[q].until < clock' \/ pass'[r].until < clock'
    BY DEF LeaseExclusive, Overran
  <2>1. CASE q = p
    BY <1>1, <1>3, <1>6, <2>1
  <2>2. CASE r = p
    BY <1>1, <1>3, <1>6, <2>2
  <2>3. CASE q # p /\ r # p
    BY <1>1, <1>3, <2>3 DEF LeaseExclusive, Overran
  <2>. QED BY <2>1, <2>2, <2>3
<1>. QED BY <1>5, <1>7

\* A step that is none of the four that touch notes keeps WroteOnce: it moves
\* a pass between states that hold no note of its own.
LEMMA QuietOnce ==
  ASSUME NEW p \in Proc, LeaseTypeOK, WroteOnce,
         StartPass(p) \/ ExtractFails(p) \/ NothingToWrite(p)
  PROVE  WroteOnce'
<1>1. /\ UNCHANGED <<lease, written, excused>> /\ clock' = clock
      /\ \A q \in Proc \ {p} : pass'[q] = pass[q]
  BY StepFrame DEF ProcStep, PassStep, StartPass, ExtractFails, NothingToWrite
<1>2. pass[p].pc # "wrote" /\ pass'[p].pc \notin {"wrote", "extract"}
  <2>1. pass \in [Proc -> PassType] /\ pass[p] \in PassType
    BY DEF LeaseTypeOK
  <2>2. CASE StartPass(p)
    BY <2>1, <2>2 DEF StartPass, InPass, PassTo, IdlePass
  <2>3. CASE ExtractFails(p)
    BY <2>1, <2>3 DEF ExtractFails, InPass, PassTo, IdlePass
  <2>4. CASE NothingToWrite(p)
    BY <2>1, <2>4 DEF NothingToWrite, InPass, PassTo, PassType
  <2>. QED BY <2>2, <2>3, <2>4
<1>3. \A q \in Proc : InPass(q, "wrote")' <=> InPass(q, "wrote")
  BY <1>1, <1>2 DEF InPass
<1>4. \A q \in Proc : InPass(q, "extract")' =>
        InPass(q, "extract") /\ (Overran(q)' <=> Overran(q))
  BY <1>1, <1>2 DEF InPass, Overran
<1>. QED BY <1>1, <1>3, <1>4 DEF WroteOnce, Retired

LEMMA ClaimOnce ==
  ASSUME NEW p \in Proc, LeaseTypeOK, WroteOnce, ClaimLease(p)
  PROVE  WroteOnce'
<1>1. clock' = clock /\ \A q \in Proc \ {p} : pass'[q] = pass[q]
  BY StepFrame DEF ProcStep, PassStep
<1>2. pass[p].pc = "claim" /\ written' = written
  BY DEF ClaimLease, InPass
<1>3. CASE ~Granted(pass[p].now)
  <2>1. UNCHANGED <<lease, excused>> /\ pass'[p].pc = "idle"
    BY <1>3 DEF ClaimLease, PassTo, IdlePass, LeaseTypeOK
  <2>2. \A q \in Proc : /\ InPass(q, "wrote")' <=> InPass(q, "wrote")
                        /\ InPass(q, "extract")' =>
                             InPass(q, "extract") /\ (Overran(q)' <=> Overran(q))
    BY <1>1, <1>2, <2>1 DEF InPass, Overran
  <2>. QED BY <1>2, <2>1, <2>2 DEF WroteOnce, Retired
<1>4. CASE Granted(pass[p].now)
  <2>. SUFFICES ASSUME ~excused' PROVE written = 0 /\ \A q \in Proc : ~InPass(q, "wrote")'
    BY <1>2 DEF WroteOnce
  <2>1. ~excused /\ \A q \in Proc : ~InPass(q, "wrote")
    BY <1>4 DEF ClaimLease
  <2>2. lease # Retired
    BY <1>4, LeaseNumbers DEF Granted, LeaseTypeOK
  <2>3. written = 0
    BY <2>1, <2>2 DEF WroteOnce, LeaseTypeOK
  <2>4. pass'[p].pc = "extract"
    BY <1>4 DEF ClaimLease, PassTo, LeaseTypeOK
  <2>. QED BY <1>1, <2>1, <2>3, <2>4 DEF InPass
<1>. QED BY <1>3, <1>4

LEMMA WriteOnce ==
  ASSUME NEW p \in Proc, LeaseTypeOK, LeaseExclusive, WroteOnce, WriteNotes(p)
  PROVE  WroteOnce'
<1>1. clock' = clock /\ \A q \in Proc \ {p} : pass'[q] = pass[q]
  BY StepFrame DEF ProcStep, PassStep
<1>2. /\ pass[p].pc = "extract" /\ pass'[p].pc = "wrote" /\ pass'[p].until = pass[p].until
      /\ written' = written + 1 /\ lease' = lease /\ Working(p)
  BY DEF WriteNotes, InPass, PassTo, LeaseTypeOK, PassType, Working
<1>. SUFFICES ASSUME ~excused' PROVE WroteOnce'
  BY DEF WroteOnce
<1>3. ~excused /\ ~Overran(p)
  BY DEF WriteNotes
<1>4. written = 0
  BY <1>2, <1>3 DEF WroteOnce, InPass, LeaseTypeOK
<1>5. \A q \in Proc : ~InPass(q, "wrote")
  BY <1>3, <1>4 DEF WroteOnce
<1>6. \A q \in Proc : InPass(q, "wrote")' <=> q = p
  BY <1>1, <1>2, <1>5 DEF InPass
<1>7. \A q \in Proc : InPass(q, "extract")' => Overran(q)'
  <2>. SUFFICES ASSUME NEW q \in Proc, InPass(q, "extract")' PROVE Overran(q)'
    OBVIOUS
  <2>1. q # p /\ Working(q)
    BY <1>1, <1>2 DEF InPass, Working
  <2>2. Overran(q)
    BY <1>2, <1>3, <2>1 DEF LeaseExclusive
  <2>. QED BY <1>1, <2>1, <2>2 DEF Overran
<1>. QED BY <1>2, <1>4, <1>6, <1>7 DEF WroteOnce

LEMMA RetireOnce ==
  ASSUME NEW p \in Proc, LeaseTypeOK, WroteOnce,
         CutShort(p) \/ RetireLease(p) \/ PassDies(p)
  PROVE  WroteOnce'
<1>1. clock' = clock /\ \A q \in Proc \ {p} : pass'[q] = pass[q]
  BY StepFrame DEF ProcStep, PassStep
<1>2. written' = written /\ pass'[p].pc = "idle"
  BY DEF CutShort, RetireLease, PassDies, PassTo, IdlePass, LeaseTypeOK
<1>. SUFFICES ASSUME ~excused' PROVE WroteOnce'
  BY DEF WroteOnce
<1>3. ~excused
  BY DEF CutShort, RetireLease, PassDies
<1>4. (lease' = lease /\ ~InPass(p, "wrote")) \/ lease' = Retired
  BY DEF CutShort, RetireLease, PassDies
<1>5. \A q \in Proc : InPass(q, "wrote")' <=> q # p /\ InPass(q, "wrote")
  BY <1>1, <1>2 DEF InPass
<1>6. \A q \in Proc : InPass(q, "extract")' =>
        InPass(q, "extract") /\ (Overran(q)' <=> Overran(q))
  BY <1>1, <1>2 DEF InPass, Overran
<1>. QED BY <1>2, <1>3, <1>4, <1>5, <1>6 DEF WroteOnce, Retired

LEMMA ClockStep ==
  ASSUME LeaseInv, Tick
  PROVE  LeaseInv'
<1>1. /\ UNCHANGED <<lease, pass, written, excused>>
      /\ clock \in Nat /\ clock' = clock + 1 /\ clock' \in 1..MaxTime
      /\ \A p \in Proc : pass[p].now \in Nat /\ pass[p].until \in Nat
  BY LeaseNumbers DEF LeaseInv, Tick
<1>2. LeaseTypeOK'
  BY <1>1 DEF LeaseInv, LeaseTypeOK, Retired, Working
<1>3. \A p \in Proc : Overran(p) => Overran(p)'
  BY <1>1 DEF Overran
<1>4. LeaseAhead' /\ LeaseExclusive'
  BY <1>1, <1>3 DEF LeaseInv, LeaseAhead, LeaseExclusive, Working
<1>5. WroteOnce'
  BY <1>1, <1>3 DEF LeaseInv, WroteOnce, InPass, Retired
<1>. QED BY <1>2, <1>4, <1>5 DEF LeaseInv

LEMMA LeaseStep == LeaseInv /\ [LeaseNext]_leaseVars => LeaseInv'
<1>. SUFFICES ASSUME LeaseInv, [LeaseNext]_leaseVars PROVE LeaseInv'
  OBVIOUS
<1>1. CASE Tick
  BY <1>1, ClockStep
<1>2. ASSUME NEW p \in Proc, ProcStep(p)
      PROVE  LeaseInv'
  <2>1. LeaseTypeOK' /\ LeaseAhead' /\ LeaseExclusive'
    BY <1>2, StepTyped, StepExclusive DEF LeaseInv
  <2>2. WroteOnce'
    BY <1>2, QuietOnce, ClaimOnce, WriteOnce, RetireOnce DEF LeaseInv, ProcStep, PassStep
  <2>. QED BY <2>1, <2>2 DEF LeaseInv
<1>3. CASE UNCHANGED leaseVars
  BY <1>3 DEF leaseVars, LeaseInv, LeaseTypeOK, Retired, Working, LeaseAhead,
              LeaseExclusive, Overran, WroteOnce, InPass
<1>. QED BY <1>1, <1>2, <1>3 DEF LeaseNext, ProcStep

LEMMA LeaseInvariant == LeaseSpec => []LeaseInv
<1>. QED BY LeaseStarts, LeaseStep, PTL DEF LeaseSpec

\* Clock, lease and passes keep their types, and a pass at work has its claim.
THEOREM LeaseTypes == LeaseSpec => []LeaseTypeOK
<1>1. LeaseInv => LeaseTypeOK
  BY DEF LeaseInv
<1>. QED BY <1>1, LeaseInvariant, PTL

\* Two passes are never at work while both their leases last, for any number
\* of processes, any TTL and any time.
THEOREM LeasesExclude == LeaseSpec => []LeaseExclusive
<1>1. LeaseInv => LeaseExclusive
  BY DEF LeaseInv
<1>. QED BY <1>1, LeaseInvariant, PTL

\* Notes are written twice only after a pass has outlived its lease, or has
\* stopped between its first note and retiring the lease.
THEOREM NotesWrittenOnce == LeaseSpec => []ExtractedOnce
<1>1. LeaseInv => ExtractedOnce
  BY DEF LeaseInv, WroteOnce, ExtractedOnce
<1>. QED BY <1>1, LeaseInvariant, PTL

-----------------------------------------------------------------------------
(* What no step does to the row.                                           *)

\* No step shortens what the row grants: a claim whose reading of the clock is
\* old by the time its statement runs replaces nothing that lasts longer, and
\* nobody takes the row back (lease.go: the UPSERT's own condition decides, not
\* extractOne's check before it).
NeverShortened == [][lease <= lease']_leaseVars

\* A session once retired stays so, and no pass begins to extract it again; at
\* most the passes already at work end theirs.
RetirementIsFinal ==
  [][lease = Retired =>
       /\ lease' = Retired
       /\ \A p \in Proc : InPass(p, "extract")' => InPass(p, "extract")]_leaseVars

LEMMA RowStep ==
  ASSUME LeaseInv, [LeaseNext]_leaseVars
  PROVE  /\ lease <= lease'
         /\ lease = Retired =>
              /\ lease' = Retired
              /\ \A p \in Proc : InPass(p, "extract")' => InPass(p, "extract")
<1>1. LeaseTypeOK /\ lease \in Nat /\ clock <= MaxTime
      /\ Retired = MaxTime + TTL + 1 /\ TTL \in Nat /\ MaxTime \in Nat /\ clock \in Nat
  BY LeaseNumbers DEF LeaseInv
<1>2. CASE Tick \/ UNCHANGED leaseVars
  BY <1>1, <1>2 DEF Tick, leaseVars, InPass
<1>3. ASSUME NEW p \in Proc, ProcStep(p)
      PROVE  /\ lease <= lease'
             /\ lease = Retired =>
                  /\ lease' = Retired
                  /\ \A q \in Proc : InPass(q, "extract")' => InPass(q, "extract")
  <2>1. lease <= lease' /\ lease' \in 0..Retired
    BY <1>1, <1>3, LeaseGrows
  <2>2. \A q \in Proc \ {p} : InPass(q, "extract")' => InPass(q, "extract")
    BY <1>1, <1>3, StepFrame DEF InPass
  <2>3. InPass(p, "extract")' => lease < Retired
    <3>. SUFFICES ASSUME InPass(p, "extract")' PROVE lease < Retired
      OBVIOUS
    <3>1. Working(p)'
      BY DEF InPass, Working
    <3>2. lease < pass[p].now
      BY <1>1, <1>3, <3>1, WorkFrame DEF Granted
    <3>3. pass[p].now \in Nat /\ pass[p].now <= clock
      BY <1>1, LeaseNumbers DEF LeaseTypeOK
    <3>. QED BY <1>1, <3>2, <3>3
  <2>. QED BY <1>1, <2>1, <2>2, <2>3
<1>. QED BY <1>2, <1>3 DEF LeaseNext, ProcStep

\* The row only ever grants more, whatever the clocks the claims were made with.
THEOREM LeaseOnlyGrows == LeaseSpec => NeverShortened
<1>1. LeaseInv /\ [LeaseNext]_leaseVars => [lease <= lease']_leaseVars
  BY RowStep
<1>. QED BY <1>1, LeaseInvariant, PTL DEF LeaseSpec, NeverShortened

\* A session whose lease was retired is left alone for good.
THEOREM RetiredForGood == LeaseSpec => RetirementIsFinal
<1>1. LeaseInv /\ [LeaseNext]_leaseVars =>
        [lease = Retired =>
           /\ lease' = Retired
           /\ \A p \in Proc : InPass(p, "extract")' => InPass(p, "extract")]_leaseVars
  BY RowStep
<1>. QED BY <1>1, LeaseInvariant, PTL DEF LeaseSpec, RetirementIsFinal
=============================================================================
