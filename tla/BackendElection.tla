-------------------------- MODULE BackendElection --------------------------
(***************************************************************************)
(* Which process serves a project: the lockfile (lockfile/lockfile.go) and *)
(* the owner election around it (cli/session.go).  A process looks for a   *)
(* live and ready backend, or builds one, claims the lockfile and serves;  *)
(* the loser of a claim tears its backend down and connects to the winner. *)
(* Every file operation is a step of its own: the claim creates the file   *)
(* before it writes it, and what a process read may be stale when it acts. *)
(***************************************************************************)
EXTENDS Machine

ASSUME ProcAssumption ==
  None \notin Proc /\ None \notin [file : Proc \cup {None}, pid : Proc \cup {None}]

VARIABLES
  lockfile,  \* the file: which process created it and the PID it records
  main,      \* per process: where it is in Resolve, Close and what it read
  cleared    \* history: a claim that was still good has been removed

electionVars == <<lockfile, main, cleared>>

MainStates ==
  {"off", "read", "remove", "build", "claim", "fill", "reread", "truncate",
   "serve", "own", "lost", "follow", "client", "stop", "abort", "gone"}

NewMain == [pc |-> "off", file |-> None, to |-> None]

ElectionInit ==
  /\ lockfile = None
  /\ main = [p \in Proc |-> NewMain]
  /\ cleared = FALSE

Is(p, pc) == main[p].pc = pc
To(p, pc) == main' = [main EXCEPT ![p].pc = pc]

\* Lockfile.Alive: the recorded PID is an existing process.
Alive(q) == main[q].pc \notin {"off", "gone"}

Exists == lockfile # None
Empty == Exists /\ lockfile.pid = None   \* Read fails to decode it
Names(q) == Exists /\ lockfile.pid = q

\* A claim is good while its process lives and has not begun to close.
GoodClaim ==
  /\ Exists
  /\ \E q \in Proc : /\ lockfile.pid = q \/ (Empty /\ main[q].file = lockfile.file)
                     /\ main[q].pc \in {"fill", "serve", "own"}

-----------------------------------------------------------------------------
Launch(p) ==
  /\ Is(p, "off")
  /\ To(p, "read")
  /\ UNCHANGED <<lockfile, cleared>>

\* Resolve: no lockfile, or one it cannot decode, is nothing to remove.
ReadNothing(p) ==
  /\ Is(p, "read") /\ (~Exists \/ Empty)
  /\ To(p, "build")
  /\ UNCHANGED <<lockfile, cleared>>

\* Resolve: a live and ready owner is connected to.
ReadOwner(p) ==
  /\ Is(p, "read")
  /\ \E q \in Proc : Names(q) /\ Is(q, "own")
       /\ main' = [main EXCEPT ![p].pc = "client", ![p].to = q]
  /\ UNCHANGED <<lockfile, cleared>>

\* Resolve: a dead PID, or a backend whose probe fails, makes the file stale.
ReadStale(p) ==
  /\ Is(p, "read")
  /\ \E q \in Proc : Names(q)
  /\ To(p, "remove")
  /\ UNCHANGED <<lockfile, cleared>>

\* lockfile.Remove: whatever file is there by now.
RemoveFile(p) ==
  /\ lockfile' = None
  /\ cleared' = (cleared \/ (GoodClaim /\ ~Names(p)))

RemoveStale(p) ==
  /\ Is(p, "remove")
  /\ RemoveFile(p)
  /\ To(p, "build")

\* bootstrap.Build and net.Listen.
Build(p) ==
  /\ Is(p, "build")
  /\ To(p, "claim")
  /\ UNCHANGED <<lockfile, cleared>>

\* Mutant of Claim: the file is created whether or not it exists.
ClaimAnyway(p) ==
  /\ Is(p, "claim")
  /\ lockfile' = [file |-> p, pid |-> None]
  /\ main' = [main EXCEPT ![p].pc = "fill", ![p].file = p]
  /\ UNCHANGED cleared

\* Acquire: O_CREATE|O_EXCL.
Claim(p) ==
  /\ Is(p, "claim")
  /\ IF Exists
     THEN To(p, "reread") /\ UNCHANGED lockfile
     ELSE /\ lockfile' = [file |-> p, pid |-> None]
          /\ main' = [main EXCEPT ![p].pc = "fill", ![p].file = p]
  /\ UNCHANGED cleared

\* Acquire reads the file that beat it: undecodable or gone is an error, a
\* live PID wins, a dead one is reclaimed.
Reread(p) ==
  /\ Is(p, "reread")
  /\ To(p, IF ~Exists \/ Empty THEN "abort"
           ELSE IF Alive(lockfile.pid) THEN "lost" ELSE "truncate")
  /\ UNCHANGED <<lockfile, cleared>>

\* Acquire: os.WriteFile over the stale record, first half (O_TRUNC|O_CREATE).
Truncate(p) ==
  /\ Is(p, "truncate")
  /\ lockfile' = [file |-> IF Exists THEN lockfile.file ELSE p, pid |-> None]
  /\ main' = [main EXCEPT ![p].pc = "fill", ![p].file = lockfile'.file]
  /\ cleared' = (cleared \/ GoodClaim)

\* The record is written, to the file this process opened; a file that was
\* removed meanwhile takes the record with it.
Fill(p) ==
  /\ Is(p, "fill")
  /\ lockfile' = IF Exists /\ lockfile.file = main[p].file
                 THEN [lockfile EXCEPT !.pid = p] ELSE lockfile
  /\ To(p, "serve")
  /\ cleared' = (cleared \/ (lockfile' # lockfile /\ ~Empty))

\* app.Serve and the connection to itself.
Serve(p) ==
  /\ Is(p, "serve")
  /\ To(p, "own")
  /\ UNCHANGED <<lockfile, cleared>>

\* Close by the owner, or newBackend failing right after the claim: the
\* server shuts down first.
Stop(p) ==
  /\ Is(p, "own") \/ Is(p, "serve")
  /\ To(p, "stop")
  /\ UNCHANGED <<lockfile, cleared>>

\* ... and the lockfile goes last.
Unlist(p) ==
  /\ Is(p, "stop")
  /\ RemoveFile(p)
  /\ To(p, "gone")

\* Acquire failed: the process shuts down and gives up.
Abort(p) ==
  /\ Is(p, "abort")
  /\ To(p, "gone")
  /\ UNCHANGED <<lockfile, cleared>>

\* The loser has torn its backend down and follows whoever is recorded.
LoserDown(p) ==
  /\ Is(p, "lost")
  /\ To(p, "follow")
  /\ UNCHANGED <<lockfile, cleared>>

Follow(p) ==
  /\ Is(p, "follow")
  /\ IF Exists /\ ~Empty /\ Alive(lockfile.pid)
     THEN main' = [main EXCEPT ![p].pc = "client", ![p].to = lockfile.pid]
     ELSE To(p, "gone")
  /\ UNCHANGED <<lockfile, cleared>>

\* Mutant of Reconnect: only a backend that says goodbye is left.
ReconnectOnStop(p) ==
  /\ Is(p, "client") /\ main[main[p].to].pc = "stop"
  /\ main' = [main EXCEPT ![p].pc = "read", ![p].to = None]
  /\ UNCHANGED <<lockfile, cleared>>

\* Reconnect: the backend dropped; resolve again.
Reconnect(p) ==
  /\ Is(p, "client") /\ main[main[p].to].pc \in {"stop", "gone"}
  /\ main' = [main EXCEPT ![p].pc = "read", ![p].to = None]
  /\ UNCHANGED <<lockfile, cleared>>

\* A client closes: it owns nothing.
Leave(p) ==
  /\ Is(p, "client")
  /\ To(p, "gone")
  /\ UNCHANGED <<lockfile, cleared>>

\* The process dies wherever it is.
Die(p) ==
  /\ Alive(p)
  /\ To(p, "gone")
  /\ UNCHANGED <<lockfile, cleared>>

ElectionStep(p) ==
  \/ Launch(p) \/ ReadNothing(p) \/ ReadOwner(p) \/ ReadStale(p) \/ RemoveStale(p)
  \/ Build(p) \/ Claim(p) \/ Reread(p) \/ Truncate(p) \/ Fill(p) \/ Serve(p)
  \/ Stop(p) \/ Unlist(p) \/ Abort(p) \/ LoserDown(p) \/ Follow(p)
  \/ Reconnect(p) \/ Leave(p) \/ Die(p)

-----------------------------------------------------------------------------
\* Every variable of the election has its type; who is connected to
\* somebody is a client, or was one to its end.
ElectionTypeOK ==
  /\ lockfile \in [file : Proc, pid : Proc \cup {None}] \cup {None}
  /\ main \in [Proc -> [pc : MainStates, file : Proc \cup {None},
                        to : Proc \cup {None}]]
  /\ \A p \in Proc : /\ Is(p, "client") => main[p].to # None
                     /\ main[p].to # None => main[p].pc \in {"client", "gone"}
  /\ cleared \in BOOLEAN

Claimants == {p \in Proc : main[p].pc \in {"fill", "serve", "own"}}

\* Two owners have one cause only: a process acted on what it had read of the
\* lockfile (a dead PID, a failed probe, or its own claim at exit) after
\* another process had claimed it.  Creating the file is exclusive.
OneOwnerUnlessCleared == ~cleared => \A p, q \in Claimants : p = q
=============================================================================
