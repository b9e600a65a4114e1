------------------------------ MODULE RepoLane ------------------------------
(***************************************************************************)
(* The write lane of one repository under autoVCS (vcs/crossproc.go), as   *)
(* several processes on one machine share it: a mutex inside each process, *)
(* and across processes an advisory lock (flock) on a small file whose     *)
(* descriptor each process retains.  The file is unlinked by Close and by  *)
(* the sweep of stale files, so the lane rests on which inode a descriptor *)
(* opens and not on the path.  What the lane protects is modelled too: the *)
(* pending edits and the main head a commit folds them into.               *)
(***************************************************************************)
EXTENDS Machine

CONSTANTS
  Thread,   \* goroutines of one process that write to it
  Inode,    \* identities of lock files; one that nobody opens may be reused
  Edit,     \* edits of the working copy, each to a path of its own
  Closed    \* the descriptor a goroutine captured has been closed since

ASSUME LaneAssumption ==
  /\ None \notin Inode /\ None \notin Thread /\ None \notin Proc \X {"lane", "sweep"}
  /\ Closed \notin Inode /\ Closed # None

VARIABLES
  path,     \* the inode the lock file's path names, or None
  aged,     \* inodes whose mtime is older than staleLockMaxAge
  owner,    \* per inode: the descriptor that holds the kernel's lock
  vcs,      \* per process: its VCS value
  lane,     \* per process: the inode of VCS.repoFiles[repo], or None
  sweep,    \* per process: VCS.sweepOnce and the descriptor the sweep opened
  mu,       \* per process: the goroutine that holds VCS.repoLocks[repo]
  thr,      \* per process and goroutine: where it is in lockRepo and its body
  pending,  \* rows of vcs_uncommitted
  head,     \* the edits in the tree of main_head
  recorded, \* history: every edit RecordEditMain has accepted
  weak      \* history: a lane descriptor has lost its file under its user

laneVars == <<path, aged, owner, vcs, lane, sweep, mu, thr,
              pending, head, recorded, weak>>

\* The two kinds of descriptor: the one a lane retains and the sweep's own.
LaneFd(p) == <<p, "lane">>
SweepFd(p) == <<p, "sweep">>

IdleThread == [pc |-> "idle", f |-> None, tree |-> {}, rows |-> {}]
NoSweep == [st |-> "never", f |-> None]

LaneInit ==
  /\ path = None
  /\ aged = {}
  /\ owner = [i \in Inode |-> None]
  /\ vcs = [p \in Proc |-> "none"]
  /\ lane = [p \in Proc |-> None]
  /\ sweep = [p \in Proc |-> NoSweep]
  /\ mu = [p \in Proc |-> None]
  /\ thr = [p \in Proc |-> [t \in Thread |-> IdleThread]]
  /\ pending = {}
  /\ head = {}
  /\ recorded = {}
  /\ weak = FALSE

At(p, t, pc) == thr[p][t].pc = pc
Captured(p) == {t \in Thread : thr[p][t].f = lane[p] /\ lane[p] # None}
Goto(p, t, r) == thr' = [thr EXCEPT ![p][t] = r]

\* An inode number no path and no descriptor keeps alive.
Fresh == {i \in Inode : /\ i # path
                        /\ \A p \in Proc : lane[p] # i /\ sweep[p].f # i}

OpenLane(p) == lane[p] # None
UsersOf(i, p) == {q \in Proc \ {p} : lane[q] = i}

-----------------------------------------------------------------------------
\* A process builds a VCS value, its first or one after a value it has closed.
Open(p) ==
  /\ vcs[p] \in {"none", "closed"} /\ \A t \in Thread : At(p, t, "idle")
  /\ vcs' = [vcs EXCEPT ![p] = "open"]
  /\ sweep' = [sweep EXCEPT ![p] = NoSweep]
  /\ UNCHANGED <<path, aged, owner, lane, mu, thr,
                 pending, head, recorded, weak>>

\* A day passes without a write through this lane.
Age ==
  /\ path # None
  /\ \A p \in Proc : Captured(p) = {} \/ lane[p] # path
  /\ aged' = aged \cup {path}
  /\ UNCHANGED <<path, owner, vcs, lane, sweep, mu, thr,
                 pending, head, recorded, weak>>

\* maybeSweep: once per VCS value, before its first lane is taken.  A file
\* younger than a day is passed over; an old one is opened.
SweepOpen(p) ==
  /\ vcs[p] = "open" /\ sweep[p].st = "never"
  /\ sweep' = [sweep EXCEPT ![p] = IF path \in aged
                                   THEN [st |-> "opened", f |-> path]
                                   ELSE [st |-> "done", f |-> None]]
  /\ UNCHANGED <<path, aged, owner, vcs, lane, mu, thr,
                 pending, head, recorded, weak>>

\* tryLockFileExclusive: a file somebody holds is closed and left alone.
SweepTryLock(p) ==
  LET i == sweep[p].f IN
  /\ sweep[p].st = "opened"
  /\ IF owner[i] = None
     THEN /\ owner' = [owner EXCEPT ![i] = SweepFd(p)]
          /\ sweep' = [sweep EXCEPT ![p].st = "locked"]
     ELSE /\ sweep' = [sweep EXCEPT ![p] = [st |-> "done", f |-> None]]
          /\ UNCHANGED owner
  /\ UNCHANGED <<path, aged, vcs, lane, mu, thr,
                 pending, head, recorded, weak>>

\* removeIfSameInode: the path is unlinked only while it names inode i.
Unlinked(i) == IF path = i THEN None ELSE path

\* unlinkHeldLockFile on the swept file: compare, unlink, close.
SweepUnlink(p) ==
  LET i == sweep[p].f IN
  /\ sweep[p].st = "locked"
  /\ path' = Unlinked(i)
  /\ weak' = (weak \/ (path' # path /\ \E q \in Proc : lane[q] = path))
  /\ owner' = [owner EXCEPT ![i] = None]
  /\ sweep' = [sweep EXCEPT ![p] = [st |-> "done", f |-> None]]
  /\ UNCHANGED <<aged, vcs, lane, mu, thr, pending, head, recorded>>

-----------------------------------------------------------------------------
\* lockRepo up to mu.Lock: the retained descriptor, opened on first use.
LockRepo(p, t) ==
  /\ vcs[p] = "open" /\ sweep[p].st = "done"
  /\ At(p, t, "idle")
  /\ \E i \in IF OpenLane(p) THEN {lane[p]}
              ELSE IF path # None THEN {path} ELSE Fresh :
       /\ lane' = [lane EXCEPT ![p] = i]
       /\ path' = IF OpenLane(p) THEN path ELSE i
       /\ aged' = IF OpenLane(p) \/ path = i THEN aged ELSE aged \ {i}
       /\ Goto(p, t, [IdleThread EXCEPT !.pc = "mutex", !.f = i])
  /\ UNCHANGED <<owner, vcs, sweep, mu, pending, head, recorded, weak>>

\* lockFileFor fails: the lane degrades to the mutex of this process.
LockRepoDegraded(p, t) ==
  /\ vcs[p] = "open" /\ sweep[p].st = "done" /\ ~OpenLane(p)
  /\ At(p, t, "idle")
  /\ Goto(p, t, [IdleThread EXCEPT !.pc = "mutex", !.f = Closed])
  /\ weak' = TRUE
  /\ UNCHANGED <<path, aged, owner, vcs, lane, sweep, mu,
                 pending, head, recorded>>

\* mu.Lock of the in-process layer.
TakeMutex(p, t) ==
  /\ At(p, t, "mutex") /\ mu[p] = None
  /\ mu' = [mu EXCEPT ![p] = t]
  /\ Goto(p, t, [thr[p][t] EXCEPT !.pc = "flock"])
  /\ UNCHANGED <<path, aged, owner, vcs, lane, sweep,
                 pending, head, recorded, weak>>

\* Mutant of TakeFlock: a shared lock (LOCK_SH).
TakeSharedFlock(p, t) ==
  LET i == thr[p][t].f IN
  /\ At(p, t, "flock")
  /\ owner' = IF i = Closed THEN owner ELSE [owner EXCEPT ![i] = LaneFd(p)]
  /\ aged' = IF i = Closed THEN aged ELSE aged \ {path}
  /\ Goto(p, t, [thr[p][t] EXCEPT !.pc = "in"])
  /\ UNCHANGED <<path, vcs, lane, sweep, mu, pending, head, recorded, weak>>

\* lockFileExclusive, then touchLockFile, which touches whatever the path
\* names.  flock belongs to the open file: a second call on the descriptor that
\* already holds it succeeds.  On a closed descriptor the call fails, or
\* succeeds on a file that is released as it returns; the goroutine goes on.
TakeFlock(p, t) ==
  LET i == thr[p][t].f IN
  /\ At(p, t, "flock")
  /\ IF i = Closed
     THEN UNCHANGED <<owner, aged>>
     ELSE /\ owner[i] \in {None, LaneFd(p)}
          /\ owner' = [owner EXCEPT ![i] = LaneFd(p)]
          /\ aged' = aged \ {path}
  /\ Goto(p, t, [thr[p][t] EXCEPT !.pc = "in"])
  /\ UNCHANGED <<path, vcs, lane, sweep, mu, pending, head, recorded, weak>>

\* InitRepo on a known repository: it looks the row up again and changes
\* nothing.  Also a commit with no pending edit (ErrNoChanges).
Inspect(p, t) ==
  /\ At(p, t, "in")
  /\ Goto(p, t, [thr[p][t] EXCEPT !.pc = "release"])
  /\ UNCHANGED <<path, aged, owner, vcs, lane, sweep, mu,
                 pending, head, recorded, weak>>

\* RecordEditMain: one row of vcs_uncommitted.
RecordEdit(p, t) ==
  /\ At(p, t, "in")
  /\ \E e \in Edit \ recorded :
       /\ pending' = pending \cup {e}
       /\ recorded' = recorded \cup {e}
  /\ Goto(p, t, [thr[p][t] EXCEPT !.pc = "release"])
  /\ UNCHANGED <<path, aged, owner, vcs, lane, sweep, mu, head, weak>>

\* Mutant of CommitRead: the lane's file is released once the tree is computed.
CommitReadOutside(p, t) ==
  /\ At(p, t, "in") /\ pending # {}
  /\ owner' = [i \in Inode |-> IF owner[i] = LaneFd(p) THEN None ELSE owner[i]]
  /\ Goto(p, t, [thr[p][t] EXCEPT !.pc = "write",
                                  !.tree = head, !.rows = pending])
  /\ UNCHANGED <<path, aged, vcs, lane, sweep, mu,
                 pending, head, recorded, weak>>

\* commitScope reads the head's tree and the pending rows.
CommitRead(p, t) ==
  /\ At(p, t, "in") /\ pending # {}
  /\ Goto(p, t, [thr[p][t] EXCEPT !.pc = "write",
                                  !.tree = head, !.rows = pending])
  /\ UNCHANGED <<path, aged, owner, vcs, lane, sweep, mu,
                 pending, head, recorded, weak>>

\* commitScope's transaction: the new commit, every pending row of the scope
\* deleted, main_head moved.  It is built from what CommitRead saw.
CommitWrite(p, t) ==
  /\ At(p, t, "write")
  /\ head' = thr[p][t].tree \cup thr[p][t].rows
  /\ pending' = {}
  /\ Goto(p, t, [thr[p][t] EXCEPT !.pc = "release", !.tree = {}, !.rows = {}])
  /\ UNCHANGED <<path, aged, owner, vcs, lane, sweep, mu, recorded, weak>>

\* The transaction fails: nothing is written.
CommitFails(p, t) ==
  /\ At(p, t, "write")
  /\ Goto(p, t, [thr[p][t] EXCEPT !.pc = "release", !.tree = {}, !.rows = {}])
  /\ UNCHANGED <<path, aged, owner, vcs, lane, sweep, mu,
                 pending, head, recorded, weak>>

\* The unlock function, first half: unlockFile.
ReleaseFlock(p, t) ==
  LET i == thr[p][t].f IN
  /\ At(p, t, "release")
  /\ owner' = IF i # Closed /\ owner[i] = LaneFd(p)
              THEN [owner EXCEPT ![i] = None] ELSE owner
  /\ Goto(p, t, [thr[p][t] EXCEPT !.pc = "unlock"])
  /\ UNCHANGED <<path, aged, vcs, lane, sweep, mu,
                 pending, head, recorded, weak>>

\* The unlock function, second half: mu.Unlock.
ReleaseMutex(p, t) ==
  /\ At(p, t, "unlock")
  /\ mu' = [mu EXCEPT ![p] = None]
  /\ Goto(p, t, IdleThread)
  /\ UNCHANGED <<path, aged, owner, vcs, lane, sweep,
                 pending, head, recorded, weak>>

-----------------------------------------------------------------------------
\* What closing the retained descriptor does: the kernel drops a lock it held
\* and every goroutine that captured it is left with a closed file.
LaneClosed(p) ==
  /\ owner' = [i \in Inode |-> IF owner[i] = LaneFd(p) THEN None ELSE owner[i]]
  /\ lane' = [lane EXCEPT ![p] = None]
  /\ thr' = [thr EXCEPT ![p] =
       [t \in Thread |-> IF t \in Captured(p) THEN [thr[p][t] EXCEPT !.f = Closed]
                         ELSE thr[p][t]]]

\* VCS.Close up to its probe.  tryLockFileExclusive is a call on the retained
\* descriptor: it succeeds when the file is free, and also when a goroutine of
\* this process holds it.
CloseProbe(p) ==
  /\ vcs[p] = "open" /\ sweep[p].st \in {"never", "done"}
  /\ IF ~OpenLane(p)
     THEN vcs' = [vcs EXCEPT ![p] = "closed"] /\ UNCHANGED <<owner, lane, thr, weak>>
     ELSE IF owner[lane[p]] \in {None, LaneFd(p)}
     THEN /\ owner' = [owner EXCEPT ![lane[p]] = LaneFd(p)]
          /\ vcs' = [vcs EXCEPT ![p] = "reclaim"]
          /\ UNCHANGED <<lane, thr, weak>>
     ELSE /\ LaneClosed(p)
          /\ vcs' = [vcs EXCEPT ![p] = "closed"]
          /\ weak' = (weak \/ Captured(p) # {})
  /\ UNCHANGED <<path, aged, sweep, mu, pending, head, recorded>>

\* unlinkHeldLockFile on the lane's own file: compare, unlink, close.
CloseUnlink(p) ==
  /\ vcs[p] = "reclaim"
  /\ path' = Unlinked(lane[p])
  /\ weak' = (weak \/ Captured(p) # {}
                   \/ (path' # path /\ UsersOf(lane[p], p) # {}))
  /\ LaneClosed(p)
  /\ vcs' = [vcs EXCEPT ![p] = "closed"]
  /\ UNCHANGED <<aged, sweep, mu, pending, head, recorded>>

\* Mutant of Exit: a lock outlives its holder.
ExitHolding(p) ==
  /\ vcs[p] # "none"
  /\ vcs' = [vcs EXCEPT ![p] = "none"]
  /\ lane' = [lane EXCEPT ![p] = None]
  /\ sweep' = [sweep EXCEPT ![p] = NoSweep]
  /\ mu' = [mu EXCEPT ![p] = None]
  /\ thr' = [thr EXCEPT ![p] = [t \in Thread |-> IdleThread]]
  /\ UNCHANGED <<path, aged, owner, pending, head, recorded, weak>>

\* The process ends, by itself or not: its descriptors close, its goroutines
\* stop where they are.
Exit(p) ==
  /\ vcs[p] # "none"
  /\ owner' = [i \in Inode |-> IF owner[i] \in {LaneFd(p), SweepFd(p)}
                               THEN None ELSE owner[i]]
  /\ vcs' = [vcs EXCEPT ![p] = "none"]
  /\ lane' = [lane EXCEPT ![p] = None]
  /\ sweep' = [sweep EXCEPT ![p] = NoSweep]
  /\ mu' = [mu EXCEPT ![p] = None]
  /\ thr' = [thr EXCEPT ![p] = [t \in Thread |-> IdleThread]]
  /\ UNCHANGED <<path, aged, pending, head, recorded, weak>>

ThreadStep(p, t) ==
  \/ TakeMutex(p, t) \/ TakeFlock(p, t)
  \/ Inspect(p, t) \/ RecordEdit(p, t)
  \/ CommitRead(p, t) \/ CommitWrite(p, t) \/ CommitFails(p, t)
  \/ ReleaseFlock(p, t) \/ ReleaseMutex(p, t)

LaneNext ==
  \/ Age
  \/ \E p \in Proc :
       \/ Open(p) \/ Exit(p)
       \/ SweepOpen(p) \/ SweepTryLock(p) \/ SweepUnlink(p)
       \/ CloseProbe(p) \/ CloseUnlink(p)
       \/ \E t \in Thread : LockRepo(p, t) \/ LockRepoDegraded(p, t) \/ ThreadStep(p, t)

LaneSpec == LaneInit /\ [][LaneNext]_laneVars

-----------------------------------------------------------------------------
ThreadType ==
  [pc : {"idle", "mutex", "flock", "in", "write", "release", "unlock"},
   f : Inode \cup {None, Closed}, tree : SUBSET Edit, rows : SUBSET Edit]
SweepType ==
  [st : {"never", "opened", "locked", "done"}, f : Inode \cup {None}]

\* Every variable of the lane has its type; a process has lane and sweep
\* descriptors only while its VCS value is open, and a goroutine one lane file
\* from lockRepo to its unlock function.
LaneTypeOK ==
  /\ path \in Inode \cup {None}
  /\ aged \subseteq Inode
  /\ owner \in [Inode -> (Proc \X {"lane", "sweep"}) \cup {None}]
  /\ vcs \in [Proc -> {"none", "open", "reclaim", "closed"}]
  /\ lane \in [Proc -> Inode \cup {None}]
  /\ sweep \in [Proc -> SweepType]
  /\ mu \in [Proc -> Thread \cup {None}]
  /\ thr \in [Proc -> [Thread -> ThreadType]]
  /\ pending \subseteq Edit /\ head \subseteq Edit /\ recorded \subseteq Edit
  /\ weak \in BOOLEAN
  /\ \A p \in Proc :
       /\ sweep[p].f # None <=> sweep[p].st \in {"opened", "locked"}
       /\ vcs[p] \in {"none", "closed"} => lane[p] = None /\ sweep[p].f = None
       /\ vcs[p] = "reclaim" => lane[p] # None /\ sweep[p].f = None
       /\ \A t \in Thread : thr[p][t].f = None <=> At(p, t, "idle")

\* A goroutine between lockRepo and its unlock function.
InBody(p, t) == thr[p][t].pc \in {"in", "write"}

\* Two goroutines on the machine are never in the body of the lane together
\* (crossproc.go:34, "widens its scope from one process to the machine").  The
\* code does not keep this: Close unlinks a file other processes have open.
LaneExclusive ==
  \A p, q \in Proc, t, u \in Thread :
    InBody(p, t) /\ InBody(q, u) => p = q /\ t = u

\* The lane is exclusive, inside a process and across processes, for as long
\* as no descriptor in use has lost its file: no file unlinked or closed while
\* another process or a goroutine had it open, no lane opened without its file.
ExclusiveUnlessWeak == ~weak => LaneExclusive

\* Under the same condition no edit RecordEditMain accepted is lost: it is a
\* pending row or in the tree of main_head, whatever commits interleave.
EditsKept == ~weak => recorded = pending \cup head

\* Two goroutines of one process are never in the body together, whatever
\* happens to the lock file.
ProcessExclusive ==
  \A p \in Proc, t, u \in Thread : InBody(p, t) /\ InBody(p, u) => t = u

\* The kernel's lock on a file is in the hands of somebody about to give it up:
\* a sweep or a Close that is about to unlink the file, or a goroutine between
\* lockFileExclusive and its unlock function.  The mutex of a process likewise.
\* Death, a failed commit and a lane closed under its user all let go.
LocksHeld ==
  /\ \A i \in Inode : owner[i] # None =>
       \E p \in Proc :
         \/ owner[i] = SweepFd(p) /\ sweep[p].st = "locked" /\ sweep[p].f = i
         \/ /\ owner[i] = LaneFd(p) /\ lane[p] = i
            /\ \/ vcs[p] = "reclaim"
               \/ \E t \in Thread : thr[p][t].f = i /\ thr[p][t].pc \in {"in", "write", "release"}
  /\ \A p \in Proc : mu[p] # None =>
       thr[p][mu[p]].pc \in {"flock", "in", "write", "release", "unlock"}
=============================================================================
