-------------------------- MODULE ProjectProcesses --------------------------
(***************************************************************************)
(* The processes opened on one project: the election of the one that       *)
(* serves it (BackendElection) and the write lane of its repository        *)
(* (RepoLane).  bootstrap.Build opens the lane and runs InitRepo under it  *)
(* before the lockfile is claimed, so a process that is to lose the claim  *)
(* uses the lane too, and its App.Shutdown closes it beside the winner's.  *)
(***************************************************************************)
EXTENDS Naturals, RepoLane, BackendElection

CONSTANTS
  MaxEvents,  \* bound on deaths, exits, failures and days that pass
  MaxWrites   \* bound on the lane operations of owners

ASSUME BoundAssumption == MaxEvents \in Nat /\ MaxWrites \in Nat

VARIABLES
  inited,  \* processes whose bootstrap.Build has run InitRepo
  events,  \* how many of the bounded events have happened
  writes   \* how many lane operations owners have begun

vars == <<laneVars, electionVars, inited, events, writes>>

Init ==
  /\ LaneInit /\ ElectionInit
  /\ inited = {}
  /\ events = 0
  /\ writes = 0

Event == events < MaxEvents /\ events' = events + 1 /\ UNCHANGED writes
NoEvent == UNCHANGED <<events, writes>>

\* A step of the election alone, and a step of the lane alone.
ElectionOnly == UNCHANGED <<laneVars, inited>>
LaneOnly == UNCHANGED electionVars

Ready(p) == main[p].pc = "claim" /\ p \in inited

\* What a process does in Resolve and Reconnect without an App.
Discover(p) ==
  \/ (Launch(p) \/ ReadNothing(p) \/ ReadOwner(p) \/ RemoveStale(p) \/ Reconnect(p))
       /\ NoEvent /\ ElectionOnly
  \/ /\ ReadStale(p) /\ ElectionOnly
     /\ IF \E q \in Proc : Names(q) /\ Is(q, "own") THEN Event ELSE NoEvent

\* bootstrap.Build: vcs.New here, then InitRepo as a write of one goroutine.
Boot(p) ==
  /\ Build(p) /\ Open(p)
  /\ inited' = inited \ {p}
  /\ NoEvent

\* Acquire and what follows it.
Elect(p) ==
  /\ \/ Ready(p) /\ Claim(p)
     \/ Reread(p) \/ Truncate(p) \/ Fill(p) \/ Serve(p)
  /\ NoEvent /\ ElectionOnly

Sweep(p) ==
  /\ main[p].pc = "claim"
  /\ SweepOpen(p) \/ SweepTryLock(p) \/ SweepUnlink(p)
  /\ NoEvent /\ LaneOnly /\ UNCHANGED inited

\* InitRepo of bootstrap.Build, and the operations of the tools of an owner,
\* some of which its shutdown does not wait for.
MayInit(p) ==
  main[p].pc = "claim" /\ p \notin inited /\ \A t \in Thread : At(p, t, "idle")
MayWrite(p) == main[p].pc \in {"own", "stop"}

Begin(p, t) ==
  /\ LaneOnly /\ UNCHANGED inited
  /\ \/ MayInit(p) /\ LockRepo(p, t) /\ NoEvent
     \/ /\ MayWrite(p) /\ writes < MaxWrites
        /\ LockRepo(p, t)
        /\ writes' = writes + 1 /\ UNCHANGED events
     \/ (MayInit(p) \/ MayWrite(p)) /\ LockRepoDegraded(p, t) /\ Event

\* The body of the lane and the locks around it.
Continue(p, t) ==
  /\ LaneOnly
  /\ \/ /\ \/ MayWrite(p) /\ (RecordEdit(p, t) \/ CommitRead(p, t))
           \/ TakeMutex(p, t) \/ TakeFlock(p, t) \/ Inspect(p, t)
           \/ CommitWrite(p, t) \/ ReleaseFlock(p, t)
        /\ NoEvent /\ UNCHANGED inited
     \/ CommitFails(p, t) /\ Event /\ UNCHANGED inited
     \/ ReleaseMutex(p, t) /\ inited' = inited \cup {p} /\ NoEvent

\* The process ends: what it held of the lane goes with it.
Ends(p) == IF vcs[p] = "none" THEN UNCHANGED laneVars ELSE Exit(p)

\* App.Shutdown closes the VCS value before the lockfile is removed, before
\* the loser follows the winner and before a failed Acquire is reported.
\* An owner does not wait for the goroutines that outlive its grace period.
ShutDown(p) ==
  \/ Stop(p) /\ ElectionOnly /\ Event
  \/ /\ main[p].pc \in {"stop", "lost", "abort"}
     /\ (CloseProbe(p) \/ CloseUnlink(p))
     /\ LaneOnly /\ UNCHANGED inited /\ NoEvent
  \/ vcs[p] = "closed" /\ LoserDown(p) /\ ElectionOnly /\ NoEvent
  \/ /\ vcs[p] = "closed" /\ (Unlist(p) \/ Abort(p))
     /\ Ends(p) /\ UNCHANGED inited /\ NoEvent
  \/ /\ Follow(p)
     /\ IF main'[p].pc = "gone" THEN Ends(p) ELSE UNCHANGED laneVars
     /\ UNCHANGED inited /\ NoEvent
  \/ Leave(p) /\ Ends(p) /\ UNCHANGED inited /\ NoEvent

Crash(p) == Die(p) /\ Ends(p) /\ UNCHANGED inited /\ Event

Day == Age /\ LaneOnly /\ UNCHANGED inited /\ Event

Next ==
  \/ Day
  \/ \E p \in Proc :
       \/ Discover(p) \/ Boot(p) \/ Elect(p) \/ Sweep(p) \/ ShutDown(p) \/ Crash(p)
       \/ \E t \in Thread : Begin(p, t) \/ Continue(p, t)

Spec == Init /\ [][Next]_vars

\* What goes on by itself once it has begun: finding an owner, building,
\* claiming, shutting down, and a goroutine in the lane.  Nobody has to launch,
\* stop, leave or begin to write.  No more is asked of the scheduler, of the
\* mutex or of flock than that something goes on, because an instance has
\* finitely many operations.
Proceeds(p) ==
  \/ ~Is(p, "off") /\ Discover(p)
  \/ Boot(p) \/ Elect(p) \/ Sweep(p)
  \/ main[p].pc \in {"stop", "lost", "abort", "follow"} /\ ShutDown(p)
  \/ \E t \in Thread : (MayInit(p) /\ Begin(p, t)) \/ Continue(p, t)

FairSpec == Spec /\ \A p \in Proc : WF_vars(Proceeds(p))

-----------------------------------------------------------------------------
\* Whoever dies, stops or loses meanwhile, in the end every process that was
\* started serves, is connected to one that serves, or has given up.
Settled(p) ==
  \/ main[p].pc \in {"off", "own", "gone"}
  \/ Is(p, "client") /\ Is(main[p].to, "own")

Settles == <>[](\A p \in Proc : Settled(p))

\* Nobody waits for the lane for ever, in particular not behind a holder that
\* died: the kernel drops its lock (crossproc.go:43, "Crash recovery is
\* therefore automatic").
LaneServed ==
  <>[](\A p \in Proc, t \in Thread : thr[p][t].pc \notin {"mutex", "flock"})

-----------------------------------------------------------------------------
(* The store of edits this implements.                                     *)

Store == INSTANCE EditStore WITH broken <- weak

\* Reading the pending edits, building the tree and writing it back look like
\* one step, whichever processes and goroutines record and commit meanwhile.
ImplementsStore == Store!Spec
=============================================================================
