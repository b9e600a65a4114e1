----------------------------- MODULE MemoryLease -----------------------------
(***************************************************************************)
(* Memory extraction of one finished session by the upkeep workers of      *)
(* several processes (agent/upkeep/memory.go), which a lease in the kv     *)
(* table keeps apart (store/lease.go).  A lease is an expiry and names no  *)
(* holder; it is never released, only outlived or retired for good.        *)
(***************************************************************************)
EXTENDS Naturals, Machine

CONSTANTS
  TTL,      \* memoryLeaseTTL
  MaxTime   \* bound on the clock

ASSUME TTLAssumption == TTL \in Nat \ {0}
ASSUME TimeAssumption == MaxTime \in Nat \ {0}

VARIABLES
  clock,    \* wall clock, shared by the machine
  lease,    \* the row's value: an expiry, 0 when there is no row
  pass,     \* per process: extractOne
  written,  \* history: passes that have written notes of the session
  excused   \* history: a pass outlived its lease, or stopped, beside its notes

leaseVars == <<clock, lease, pass, written, excused>>

\* LeaseRetired: an expiry no clock this program runs under reaches.
Retired == MaxTime + TTL + 1

IdlePass == [pc |-> "idle", now |-> 0, until |-> 0]

LeaseInit ==
  /\ clock = 1
  /\ lease = 0
  /\ pass = [p \in Proc |-> IdlePass]
  /\ written = 0
  /\ excused = FALSE

InPass(p, pc) == pass[p].pc = pc
PassTo(p, r) == pass' = [pass EXCEPT ![p] = r]

\* The pass of p has a lease that another process may already claim again.
Overran(p) == pass[p].until < clock

Tick ==
  /\ clock < MaxTime
  /\ clock' = clock + 1
  /\ UNCHANGED <<lease, pass, written, excused>>

\* extractOne's pre-check, then ClaimLease's own reading of the clock, which
\* comes before it waits for the write transaction.
StartPass(p) ==
  /\ InPass(p, "idle")
  /\ lease <= clock
  /\ PassTo(p, [IdlePass EXCEPT !.pc = "claim", !.now = clock])
  /\ UNCHANGED <<clock, lease, written, excused>>

\* Mutant of Granted: <= where the statement has <.
GrantedEarly(now) == lease <= now

\* The claim is one UPSERT: it wins over no row and over an expired one.
Granted(now) == lease < now

ClaimLease(p) ==
  LET now == pass[p].now IN
  /\ InPass(p, "claim")
  /\ IF Granted(now)
     THEN /\ lease' = now + TTL
          /\ PassTo(p, [pc |-> "extract", now |-> now, until |-> now + TTL])
          /\ excused' = (excused \/ \E q \in Proc : InPass(q, "wrote"))
     ELSE PassTo(p, IdlePass) /\ UNCHANGED <<lease, excused>>
  /\ UNCHANGED <<clock, written>>

\* extractNotes fails or is cancelled: nothing written, the lease just expires.
ExtractFails(p) ==
  /\ InPass(p, "extract")
  /\ PassTo(p, IdlePass)
  /\ UNCHANGED <<clock, lease, written, excused>>

\* The first note is in the table.
WriteNotes(p) ==
  /\ InPass(p, "extract")
  /\ written' = written + 1
  /\ excused' = (excused \/ Overran(p))
  /\ PassTo(p, [pass[p] EXCEPT !.pc = "wrote"])
  /\ UNCHANGED <<clock, lease>>

\* A session with nothing durable to say goes straight on to be retired.
NothingToWrite(p) ==
  /\ InPass(p, "extract")
  /\ PassTo(p, [pass[p] EXCEPT !.pc = "retire"])
  /\ UNCHANGED <<clock, lease, written, excused>>

\* A later note, or RetireLease, fails, or the process dies: the session's
\* notes are there and its lease will be claimed again.
CutShort(p) ==
  /\ pass[p].pc \in {"wrote", "retire"}
  /\ excused' = (excused \/ InPass(p, "wrote"))
  /\ PassTo(p, IdlePass)
  /\ UNCHANGED <<clock, lease, written>>

\* Mutant of RetireLease: the lease is released instead.
ReleaseLease(p) ==
  /\ pass[p].pc \in {"wrote", "retire"}
  /\ lease' = 0
  /\ PassTo(p, IdlePass)
  /\ UNCHANGED <<clock, written, excused>>

\* The last note written and consolidated: RetireLease.
RetireLease(p) ==
  /\ pass[p].pc \in {"wrote", "retire"}
  /\ lease' = Retired
  /\ PassTo(p, IdlePass)
  /\ UNCHANGED <<clock, written, excused>>

\* The process of p stops (a.cancel, or a crash) in the middle of a pass.
PassDies(p) ==
  /\ excused' = (excused \/ InPass(p, "wrote"))
  /\ PassTo(p, IdlePass)
  /\ UNCHANGED <<clock, lease, written>>

PassStep(p) ==
  \/ ClaimLease(p) \/ ExtractFails(p) \/ WriteNotes(p) \/ NothingToWrite(p)
  \/ CutShort(p) \/ RetireLease(p)

LeaseNext == Tick \/ \E p \in Proc : StartPass(p) \/ PassStep(p) \/ PassDies(p)

LeaseSpec == LeaseInit /\ [][LeaseNext]_leaseVars

-----------------------------------------------------------------------------
Working(p) == pass[p].pc \in {"extract", "wrote", "retire"}

PassType ==
  [pc : {"idle", "claim", "extract", "wrote", "retire"}, now : Nat, until : Nat]

\* Every variable of the lease has its type; a pass at work has a claim of its
\* own, made no later than now.
LeaseTypeOK ==
  /\ clock \in 1..MaxTime
  /\ lease \in 0..Retired
  /\ pass \in [Proc -> PassType]
  /\ written \in Nat
  /\ excused \in BOOLEAN
  /\ \A p \in Proc : /\ pass[p].now <= clock
                     /\ Working(p) => pass[p].until = pass[p].now + TTL

\* Two processes never work on a session at once while both their leases last
\* (memory.go:154, "the lease is why two processes do not both extract").
LeaseExclusive ==
  \A p, q \in Proc :
    p # q /\ Working(p) /\ Working(q) => Overran(p) \/ Overran(q)

\* A session's notes are written by one pass, unless a pass outlived its lease
\* or stopped between its first note and retiring the lease.
ExtractedOnce == excused \/ written <= 1
=============================================================================
