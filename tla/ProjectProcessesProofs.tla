----------------------- MODULE ProjectProcessesProofs -----------------------
(***************************************************************************)
(* Theorems about ProjectProcesses, for every number of processes,         *)
(* goroutines, lock files and edits.  Each half has an inductive invariant *)
(* of its own, and a step of the whole is a step of a half, or of both.    *)
(***************************************************************************)
EXTENDS ProjectProcesses, TLAPS

-----------------------------------------------------------------------------
(* The lane.                                                               *)

\* Who is past mu.Lock holds the mutex of its process.
MutexHeld ==
  \A p \in Proc, t \in Thread :
    thr[p][t].pc \in {"flock", "in", "write", "release", "unlock"} => mu[p] = t

\* The sweep holds the file it is about to unlink.
SweepHeld ==
  \A p \in Proc : sweep[p].st = "locked" => owner[sweep[p].f] = SweepFd(p)

\* A goroutine works with the descriptor its process retains ...
LaneCurrent ==
  ~weak => \A p \in Proc, t \in Thread : ~At(p, t, "idle") => thr[p][t].f = lane[p]

\* ... which is of the file the path names, the same for all processes.
LanesMeet == ~weak => \A p \in Proc : lane[p] # None => lane[p] = path

\* Who is past flock holds the kernel's lock.
FlockHeld ==
  ~weak => \A p \in Proc, t \in Thread :
             thr[p][t].pc \in {"in", "write", "release"} => owner[lane[p]] = LaneFd(p)

\* A commit writes what is still there.
CommitCurrent ==
  ~weak => \A p \in Proc, t \in Thread :
             At(p, t, "write") => thr[p][t].tree = head /\ thr[p][t].rows = pending

LocksInv == LaneTypeOK /\ MutexHeld /\ SweepHeld /\ LaneCurrent /\ LanesMeet /\ FlockHeld

LaneInv == LocksInv /\ CommitCurrent /\ EditsKept

ThreadsType == [Proc -> [Thread -> ThreadType]]
Places == {"idle", "mutex", "flock", "in", "write", "release", "unlock"}
FdType == (Proc \X {"lane", "sweep"}) \cup {None}

\* What ties the VCS value of p to its descriptors, and what ties the place of
\* a goroutine to the one it captured.
ValueLinks(p) ==
  /\ sweep[p].f # None <=> sweep[p].st \in {"opened", "locked"}
  /\ vcs[p] \in {"none", "closed"} => lane[p] = None /\ sweep[p].f = None
  /\ vcs[p] = "reclaim" => lane[p] # None /\ sweep[p].f = None

LaneVarsTyped ==
  /\ path \in Inode \cup {None} /\ aged \subseteq Inode
  /\ owner \in [Inode -> FdType]
  /\ vcs \in [Proc -> {"none", "open", "reclaim", "closed"}]
  /\ lane \in [Proc -> Inode \cup {None}]
  /\ sweep \in [Proc -> SweepType]
  /\ mu \in [Proc -> Thread \cup {None}]
  /\ pending \subseteq Edit /\ head \subseteq Edit /\ recorded \subseteq Edit
  /\ weak \in BOOLEAN
  /\ \A p \in Proc : ValueLinks(p)

ThreadsTyped ==
  /\ thr \in ThreadsType
  /\ \A p \in Proc, t \in Thread : thr[p][t].f = None <=> thr[p][t].pc = "idle"

LEMMA LaneTypeParts == LaneTypeOK <=> LaneVarsTyped /\ ThreadsTyped
BY DEF LaneTypeOK, LaneVarsTyped, ThreadsTyped, ValueLinks, ThreadsType, FdType, At

LEMMA LaneTypeNext == LaneVarsTyped' /\ ThreadsTyped' => LaneTypeOK'
BY DEF LaneTypeOK, LaneVarsTyped, ThreadsTyped, ValueLinks, ThreadsType, FdType, At

\* The file a sweep holds.
LEMMA SweptFile ==
  ASSUME LocksInv, NEW p \in Proc, sweep[p].st = "locked"
  PROVE  sweep[p].f \in Inode /\ owner[sweep[p].f] = SweepFd(p)
BY DEF LocksInv, LaneTypeOK, SweepHeld, SweepType

LEMMA ThreadRecords ==
  ASSUME ThreadsTyped, NEW p \in Proc, NEW t \in Thread
  PROVE  /\ thr[p][t] \in ThreadType
         /\ thr[p][t].f \in Inode \cup {None, Closed} /\ thr[p][t].pc \in Places
         /\ thr[p][t].f = None <=> thr[p][t].pc = "idle"
BY DEF ThreadsTyped, ThreadsType, ThreadType, Places

\* The records the steps of a goroutine make.
LEMMA MovedRecord ==
  ASSUME NEW x \in ThreadType, NEW pc \in Places
  PROVE  /\ [x EXCEPT !.pc = pc] \in ThreadType
         /\ [x EXCEPT !.pc = pc].pc = pc /\ [x EXCEPT !.pc = pc].f = x.f
BY DEF ThreadType, Places

LEMMA NewRecord ==
  ASSUME NEW i \in Inode \cup {Closed}
  PROVE  LET r == [IdleThread EXCEPT !.pc = "mutex", !.f = i]
         IN  r \in ThreadType /\ r.pc = "mutex" /\ r.f = i
BY DEF ThreadType, IdleThread

LEMMA IdleRecord == IdleThread \in ThreadType /\ IdleThread.pc = "idle" /\ IdleThread.f = None
BY DEF ThreadType, IdleThread

\* One goroutine has a new record.
OneMoved(p, t, r) ==
  /\ thr' \in ThreadsType
  /\ thr'[p][t] = r
  /\ \A q \in Proc, u \in Thread : q # p \/ u # t => thr'[q][u] = thr[q][u]

LEMMA GotoMoves ==
  ASSUME ThreadsTyped, NEW p \in Proc, NEW t \in Thread, NEW r \in ThreadType, Goto(p, t, r)
  PROVE  OneMoved(p, t, r)
BY DEF ThreadsTyped, ThreadsType, Goto, OneMoved

\* A goroutine goes to another place with the descriptor it has.
LEMMA PlaceMoves ==
  ASSUME ThreadsTyped, NEW p \in Proc, NEW t \in Thread, thr[p][t] \in ThreadType,
         NEW pc \in Places, Goto(p, t, [thr[p][t] EXCEPT !.pc = pc])
  PROVE  \E r \in ThreadType : OneMoved(p, t, r) /\ r.pc = pc /\ r.f = thr[p][t].f
<1>. DEFINE r == [thr[p][t] EXCEPT !.pc = pc]
<1>1. r \in ThreadType /\ r.pc = pc /\ r.f = thr[p][t].f
  BY MovedRecord
<1>2. OneMoved(p, t, r)
  BY <1>1, GotoMoves
<1>. QED BY <1>1, <1>2

LEMMA ThreadTyped ==
  ASSUME ThreadsTyped, NEW p \in Proc, NEW t \in Thread, NEW r, OneMoved(p, t, r),
         r.f = None <=> r.pc = "idle"
  PROVE  ThreadsTyped'
BY DEF ThreadsTyped, OneMoved

\* What being past lockRepo means while no descriptor has lost its file.
LEMMA LaneOf ==
  ASSUME LocksInv, ~weak, NEW p \in Proc, NEW t \in Thread, thr[p][t].pc # "idle"
  PROVE  /\ thr[p][t].f = lane[p] /\ lane[p] = path /\ path \in Inode
         /\ lane[p] # Closed
<1>1. ThreadsTyped /\ LaneVarsTyped
  BY LaneTypeParts DEF LocksInv
<1>2. thr[p][t].f = lane[p] /\ (lane[p] # None => lane[p] = path)
  BY DEF LocksInv, LaneCurrent, LanesMeet, At
<1>3. thr[p][t].f # None
  BY <1>1, ThreadRecords
<1>. QED BY <1>1, <1>2, <1>3, LaneAssumption DEF LaneVarsTyped

LEMMA LaneStarts == LaneInit => LaneInv
<1>. SUFFICES ASSUME LaneInit PROVE LaneInv
  OBVIOUS
<1>1. \A p \in Proc, t \in Thread : thr[p][t] = IdleThread
  BY DEF LaneInit
<1>2. \A p \in Proc, t \in Thread : thr[p][t].pc = "idle" /\ thr[p][t].f = None
  BY <1>1, IdleRecord
<1>3. ThreadsTyped
  BY <1>2, IdleRecord DEF LaneInit, ThreadsTyped, ThreadsType
<1>4. NoSweep \in SweepType /\ NoSweep.f = None /\ NoSweep.st = "never"
  BY DEF NoSweep, SweepType
<1>5. \A p \in Proc : sweep[p] = NoSweep
  BY DEF LaneInit
<1>6. LaneVarsTyped
  BY <1>4, <1>5 DEF LaneInit, LaneVarsTyped, ValueLinks, FdType
<1>7. SweepHeld
  BY <1>4, <1>5 DEF SweepHeld
<1>. QED BY <1>2, <1>3, <1>6, <1>7, LaneTypeParts
         DEF LaneInit, LaneInv, LocksInv, MutexHeld, LaneCurrent, LanesMeet, FlockHeld,
             CommitCurrent, EditsKept, At

\* The steps inside the body of the lane touch no lock.
LEMMA BodyKeeps ==
  ASSUME LocksInv, NEW p \in Proc, NEW t \in Thread, NEW r \in ThreadType, OneMoved(p, t, r),
         InBody(p, t), r.pc \in {"write", "release"}, r.f = thr[p][t].f,
         pending' \subseteq Edit, head' \subseteq Edit, recorded' \subseteq Edit,
         UNCHANGED <<path, aged, owner, vcs, lane, sweep, mu, weak>>
  PROVE  LocksInv'
<1>1. ThreadsTyped /\ LaneVarsTyped
  BY LaneTypeParts DEF LocksInv
<1>2. thr[p][t].f # None
  BY <1>1, ThreadRecords DEF InBody
<1>3. ThreadsTyped'
  BY <1>1, <1>2, ThreadTyped
<1>4. LaneVarsTyped'
  BY <1>1 DEF LaneVarsTyped, ValueLinks
<1>5. LaneTypeOK'
  BY <1>3, <1>4, LaneTypeNext
<1>6. MutexHeld'
  BY DEF LocksInv, MutexHeld, OneMoved, InBody
<1>7. SweepHeld'
  BY DEF LocksInv, SweepHeld
<1>8. LaneCurrent'
  BY DEF LocksInv, LaneCurrent, OneMoved, InBody, At
<1>9. LanesMeet'
  BY DEF LocksInv, LanesMeet
<1>10. FlockHeld'
  BY DEF LocksInv, FlockHeld, OneMoved, InBody
<1>. QED BY <1>5, <1>6, <1>7, <1>8, <1>9, <1>10 DEF LocksInv

LEMMA TakeMutexKeeps ==
  ASSUME LocksInv, NEW p \in Proc, NEW t \in Thread, TakeMutex(p, t)
  PROVE  LocksInv'
<1>1. ThreadsTyped /\ LaneVarsTyped /\ thr[p][t] \in ThreadType
  BY LaneTypeParts, ThreadRecords DEF LocksInv
<1>2. PICK r \in ThreadType : Goto(p, t, r) /\ r.pc = "flock" /\ r.f = thr[p][t].f
  <2>1. "flock" \in Places /\ Goto(p, t, [thr[p][t] EXCEPT !.pc = "flock"])
    BY DEF TakeMutex, Places
  <2>. QED BY <1>1, <2>1, MovedRecord
<1>3. OneMoved(p, t, r)
  BY <1>1, <1>2, GotoMoves
<1>4. thr[p][t].pc = "mutex" /\ thr[p][t].f # None
  BY <1>1, ThreadRecords DEF TakeMutex, At
<1>5. ThreadsTyped'
  BY <1>1, <1>2, <1>3, <1>4, ThreadTyped
<1>6. LaneVarsTyped'
  BY <1>1 DEF LaneVarsTyped, ValueLinks, TakeMutex
<1>7. LaneTypeOK'
  BY <1>5, <1>6, LaneTypeNext
<1>8. mu[p] = None /\ mu'[p] = t /\ \A q \in Proc \ {p} : mu'[q] = mu[q]
  BY <1>1 DEF TakeMutex, LaneVarsTyped
<1>9. MutexHeld'
  BY <1>2, <1>3, <1>8, LaneAssumption DEF LocksInv, MutexHeld, OneMoved
<1>10. SweepHeld'
  BY DEF LocksInv, SweepHeld, TakeMutex
<1>11. LaneCurrent'
  BY <1>2, <1>3, <1>4 DEF LocksInv, LaneCurrent, OneMoved, At, TakeMutex
<1>12. LanesMeet'
  BY DEF LocksInv, LanesMeet, TakeMutex
<1>13. FlockHeld'
  BY <1>2, <1>3 DEF LocksInv, FlockHeld, OneMoved, TakeMutex
<1>. QED BY <1>7, <1>9, <1>10, <1>11, <1>12, <1>13 DEF LocksInv

LEMMA ReleaseMutexKeeps ==
  ASSUME LocksInv, NEW p \in Proc, NEW t \in Thread, ReleaseMutex(p, t)
  PROVE  LocksInv'
<1>1. ThreadsTyped /\ LaneVarsTyped
  BY LaneTypeParts DEF LocksInv
<1>2. OneMoved(p, t, IdleThread)
  BY <1>1, IdleRecord, GotoMoves DEF ReleaseMutex
<1>3. ThreadsTyped'
  BY <1>1, <1>2, IdleRecord, ThreadTyped
<1>4. LaneVarsTyped'
  BY <1>1 DEF LaneVarsTyped, ValueLinks, ReleaseMutex
<1>5. LaneTypeOK'
  BY <1>3, <1>4, LaneTypeNext
<1>6. thr[p][t].pc = "unlock" /\ mu[p] = t
  BY DEF ReleaseMutex, At, LocksInv, MutexHeld
<1>7. \A q \in Proc \ {p} : mu'[q] = mu[q]
  BY <1>1 DEF ReleaseMutex, LaneVarsTyped
<1>8. \A q \in Proc, u \in Thread : thr'[q][u].pc # "idle" =>
        (q # p \/ u # t) /\ thr'[q][u] = thr[q][u]
  BY <1>2, IdleRecord DEF OneMoved
<1>9. MutexHeld'
  BY <1>6, <1>7, <1>8 DEF LocksInv, MutexHeld
<1>10. SweepHeld'
  BY DEF LocksInv, SweepHeld, ReleaseMutex
<1>11. LaneCurrent'
  BY <1>8 DEF LocksInv, LaneCurrent, At, ReleaseMutex
<1>12. LanesMeet'
  BY DEF LocksInv, LanesMeet, ReleaseMutex
<1>13. FlockHeld'
  BY <1>8 DEF LocksInv, FlockHeld, ReleaseMutex
<1>. QED BY <1>5, <1>9, <1>10, <1>11, <1>12, <1>13 DEF LocksInv

\* The two descriptors of a process are two, and neither is None.
LEMMA Descriptors ==
  \A p, q \in Proc : /\ LaneFd(p) # SweepFd(q) /\ LaneFd(p) # None /\ SweepFd(p) # None
                     /\ LaneFd(p) = LaneFd(q) => p = q
                     /\ SweepFd(p) = SweepFd(q) => p = q
                     /\ LaneFd(p) \in FdType /\ SweepFd(p) \in FdType
BY LaneAssumption DEF LaneFd, SweepFd, FdType

LEMMA TakeFlockKeeps ==
  ASSUME LocksInv, NEW p \in Proc, NEW t \in Thread, TakeFlock(p, t)
  PROVE  LocksInv'
<1>1. ThreadsTyped /\ LaneVarsTyped /\ thr[p][t] \in ThreadType
  BY LaneTypeParts, ThreadRecords DEF LocksInv
<1>2. PICK r \in ThreadType : Goto(p, t, r) /\ r.pc = "in" /\ r.f = thr[p][t].f
  <2>1. "in" \in Places /\ Goto(p, t, [thr[p][t] EXCEPT !.pc = "in"])
    BY DEF TakeFlock, Places
  <2>. QED BY <1>1, <2>1, MovedRecord
<1>3. OneMoved(p, t, r)
  BY <1>1, <1>2, GotoMoves
<1>4. thr[p][t].pc = "flock" /\ thr[p][t].f \in Inode \cup {Closed} /\ thr[p][t].f # None
  BY <1>1, ThreadRecords DEF TakeFlock, At
<1>5. ThreadsTyped'
  BY <1>1, <1>2, <1>3, <1>4, ThreadTyped
<1>6. LaneVarsTyped'
  <2>1. owner' \in [Inode -> FdType] /\ aged' \subseteq Inode
    BY <1>1, Descriptors DEF LaneVarsTyped, TakeFlock
  <2>. QED BY <1>1, <2>1 DEF LaneVarsTyped, ValueLinks, TakeFlock
<1>7. LaneTypeOK'
  BY <1>5, <1>6, LaneTypeNext
<1>8. MutexHeld'
  BY <1>2, <1>3, <1>4 DEF LocksInv, MutexHeld, OneMoved, TakeFlock
<1>9. SweepHeld'
  <2>. SUFFICES ASSUME NEW q \in Proc, sweep'[q].st = "locked"
                PROVE  owner'[sweep'[q].f] = SweepFd(q)
    BY DEF SweepHeld
  <2>1. sweep' = sweep /\ sweep[q].f \in Inode /\ owner[sweep[q].f] = SweepFd(q)
    BY SweptFile DEF TakeFlock
  <2>2. CASE thr[p][t].f = Closed
    BY <2>1, <2>2 DEF TakeFlock
  <2>3. CASE thr[p][t].f # Closed
    <3>1. owner[thr[p][t].f] # SweepFd(q)
      BY <2>3, Descriptors DEF TakeFlock
    <3>2. owner'[sweep[q].f] = owner[sweep[q].f]
      BY <1>1, <2>1, <2>3, <3>1 DEF TakeFlock, LaneVarsTyped
    <3>. QED BY <2>1, <3>2
  <2>. QED BY <2>2, <2>3
<1>10. LaneCurrent'
  BY <1>2, <1>3, <1>4 DEF LocksInv, LaneCurrent, OneMoved, At, TakeFlock
<1>11. LanesMeet'
  BY DEF LocksInv, LanesMeet, TakeFlock
<1>12. FlockHeld'
  <2>. SUFFICES ASSUME ~weak', NEW q \in Proc, NEW u \in Thread,
                       thr'[q][u].pc \in {"in", "write", "release"}
                PROVE  owner'[lane'[q]] = LaneFd(q)
    BY DEF FlockHeld
  <2>1. ~weak /\ lane' = lane
    BY DEF TakeFlock
  <2>2. thr[p][t].f = lane[p] /\ lane[p] = path /\ path \in Inode /\ lane[p] # Closed
    BY <1>4, <2>1, LaneOf
  <2>3. owner[path] \in {None, LaneFd(p)} /\ owner' = [owner EXCEPT ![path] = LaneFd(p)]
    BY <2>2 DEF TakeFlock
  <2>4. owner'[path] = LaneFd(p)
    BY <1>1, <2>2, <2>3 DEF LaneVarsTyped
  <2>5. CASE q = p
    BY <2>1, <2>2, <2>4, <2>5
  <2>6. CASE q # p
    <3>1. thr[q][u].pc \in {"in", "write", "release"}
      BY <1>3, <2>6 DEF OneMoved
    <3>2. owner[lane[q]] = LaneFd(q) /\ lane[q] = path
      BY <2>1, <3>1, LaneOf DEF LocksInv, FlockHeld
    <3>. QED BY <2>3, <2>6, <3>2, Descriptors
  <2>. QED BY <2>5, <2>6
<1>. QED BY <1>7, <1>8, <1>9, <1>10, <1>11, <1>12 DEF LocksInv

LEMMA ReleaseFlockKeeps ==
  ASSUME LocksInv, NEW p \in Proc, NEW t \in Thread, ReleaseFlock(p, t)
  PROVE  LocksInv'
<1>1. ThreadsTyped /\ LaneVarsTyped /\ thr[p][t] \in ThreadType
  BY LaneTypeParts, ThreadRecords DEF LocksInv
<1>2. PICK r \in ThreadType : Goto(p, t, r) /\ r.pc = "unlock" /\ r.f = thr[p][t].f
  <2>1. "unlock" \in Places /\ Goto(p, t, [thr[p][t] EXCEPT !.pc = "unlock"])
    BY DEF ReleaseFlock, Places
  <2>. QED BY <1>1, <2>1, MovedRecord
<1>3. OneMoved(p, t, r)
  BY <1>1, <1>2, GotoMoves
<1>4. thr[p][t].pc = "release" /\ thr[p][t].f # None
  BY <1>1, ThreadRecords DEF ReleaseFlock, At
<1>5. ThreadsTyped'
  BY <1>1, <1>2, <1>3, <1>4, ThreadTyped
<1>6. LaneVarsTyped'
  <2>1. owner' \in [Inode -> FdType]
    BY <1>1 DEF LaneVarsTyped, ReleaseFlock, FdType
  <2>. QED BY <1>1, <2>1 DEF LaneVarsTyped, ValueLinks, ReleaseFlock
<1>7. LaneTypeOK'
  BY <1>5, <1>6, LaneTypeNext
<1>8. MutexHeld'
  BY <1>2, <1>3, <1>4 DEF LocksInv, MutexHeld, OneMoved, ReleaseFlock
<1>9. \A i \in Inode : owner[i] # LaneFd(p) => owner'[i] = owner[i]
  BY <1>1 DEF LaneVarsTyped, ReleaseFlock
<1>10. SweepHeld'
  <2>. SUFFICES ASSUME NEW q \in Proc, sweep'[q].st = "locked"
                PROVE  owner'[sweep'[q].f] = SweepFd(q)
    BY DEF SweepHeld
  <2>1. sweep' = sweep /\ sweep[q].f \in Inode /\ owner[sweep[q].f] = SweepFd(q)
    BY SweptFile DEF ReleaseFlock
  <2>. QED BY <1>9, <2>1, Descriptors
<1>11. LaneCurrent'
  BY <1>2, <1>3, <1>4 DEF LocksInv, LaneCurrent, OneMoved, At, ReleaseFlock
<1>12. LanesMeet'
  BY DEF LocksInv, LanesMeet, ReleaseFlock
<1>13. FlockHeld'
  <2>. SUFFICES ASSUME ~weak', NEW q \in Proc, NEW u \in Thread,
                       thr'[q][u].pc \in {"in", "write", "release"}
                PROVE  owner'[lane'[q]] = LaneFd(q)
    BY DEF FlockHeld
  <2>1. ~weak /\ lane' = lane
    BY DEF ReleaseFlock
  <2>2. (q # p \/ u # t) /\ thr[q][u].pc \in {"in", "write", "release"}
    BY <1>2, <1>3 DEF OneMoved
  <2>3. q # p
    BY <1>4, <2>2 DEF LocksInv, MutexHeld
  <2>4. owner[lane[q]] = LaneFd(q) /\ lane[q] \in Inode
    BY <2>1, <2>2, LaneOf DEF LocksInv, FlockHeld
  <2>. QED BY <1>9, <2>1, <2>3, <2>4, Descriptors
<1>. QED BY <1>7, <1>8, <1>10, <1>11, <1>12, <1>13 DEF LocksInv

LEMMA LockRepoKeeps ==
  ASSUME LocksInv, NEW p \in Proc, NEW t \in Thread, LockRepo(p, t)
  PROVE  LocksInv'
<1>1. ThreadsTyped /\ LaneVarsTyped
  BY LaneTypeParts DEF LocksInv
<1>2. PICK i \in IF OpenLane(p) THEN {lane[p]} ELSE IF path # None THEN {path} ELSE Fresh :
        /\ lane' = [lane EXCEPT ![p] = i]
        /\ path' = IF OpenLane(p) THEN path ELSE i
        /\ aged' = IF OpenLane(p) \/ path = i THEN aged ELSE aged \ {i}
        /\ Goto(p, t, [IdleThread EXCEPT !.pc = "mutex", !.f = i])
  BY DEF LockRepo
<1>3. i \in Inode /\ i # None
  BY <1>1, <1>2, LaneAssumption DEF LaneVarsTyped, OpenLane, Fresh
<1>4. PICK r \in ThreadType : Goto(p, t, r) /\ r.pc = "mutex" /\ r.f = i
  BY <1>2, <1>3, NewRecord
<1>5. OneMoved(p, t, r)
  BY <1>1, <1>4, GotoMoves
<1>6. ThreadsTyped'
  BY <1>1, <1>3, <1>4, <1>5, ThreadTyped
<1>7. /\ lane' \in [Proc -> Inode \cup {None}] /\ lane'[p] = i
      /\ \A q \in Proc \ {p} : lane'[q] = lane[q]
  BY <1>1, <1>2, <1>3 DEF LaneVarsTyped
<1>8. /\ vcs[p] = "open" /\ vcs' = vcs /\ sweep' = sweep /\ mu' = mu /\ owner' = owner
      /\ weak' = weak /\ pending' = pending /\ head' = head /\ recorded' = recorded
  BY DEF LockRepo
<1>9. LaneVarsTyped'
  <2>1. path' \in Inode \cup {None} /\ aged' \subseteq Inode
    BY <1>1, <1>2, <1>3 DEF LaneVarsTyped
  <2>2. \A q \in Proc : ValueLinks(q)'
    BY <1>1, <1>3, <1>7, <1>8 DEF LaneVarsTyped, ValueLinks
  <2>. QED BY <1>1, <1>7, <1>8, <2>1, <2>2 DEF LaneVarsTyped
<1>10. LaneTypeOK'
  BY <1>6, <1>9, LaneTypeNext
<1>11. MutexHeld'
  BY <1>4, <1>5, <1>8 DEF LocksInv, MutexHeld, OneMoved
<1>12. SweepHeld'
  BY <1>8 DEF LocksInv, SweepHeld
\* A lane that was not open has nobody working with it.
<1>13. ~weak /\ ~OpenLane(p) => \A u \in Thread : thr[p][u].pc = "idle"
  BY <1>1, ThreadRecords DEF LocksInv, LaneCurrent, At, OpenLane
<1>14. OpenLane(p) => lane'[p] = lane[p]
  BY <1>2, <1>7
<1>15. LaneCurrent'
  BY <1>4, <1>5, <1>7, <1>8, <1>13, <1>14 DEF LocksInv, LaneCurrent, At, OneMoved
<1>16. LanesMeet'
  <2>1. CASE OpenLane(p)
    BY <1>2, <1>7, <1>8, <1>14, <2>1 DEF LocksInv, LanesMeet
  <2>2. CASE ~OpenLane(p) /\ path # None
    BY <1>2, <1>7, <1>8, <2>2 DEF LocksInv, LanesMeet
  <2>3. CASE ~OpenLane(p) /\ path = None
    BY <1>2, <1>7, <1>8, <2>3 DEF LocksInv, LanesMeet
  <2>. QED BY <2>1, <2>2, <2>3
<1>17. FlockHeld'
  BY <1>4, <1>5, <1>7, <1>8, <1>13, <1>14 DEF LocksInv, FlockHeld, OneMoved
<1>. QED BY <1>10, <1>11, <1>12, <1>15, <1>16, <1>17 DEF LocksInv

LEMMA DegradedKeeps ==
  ASSUME LocksInv, NEW p \in Proc, NEW t \in Thread, LockRepoDegraded(p, t)
  PROVE  LocksInv'
<1>1. ThreadsTyped /\ LaneVarsTyped
  BY LaneTypeParts DEF LocksInv
<1>2. PICK r \in ThreadType : Goto(p, t, r) /\ r.pc = "mutex" /\ r.f = Closed
  BY NewRecord DEF LockRepoDegraded
<1>3. OneMoved(p, t, r)
  BY <1>1, <1>2, GotoMoves
<1>4. ThreadsTyped'
  BY <1>1, <1>2, <1>3, ThreadTyped, LaneAssumption
<1>5. LaneVarsTyped'
  BY <1>1 DEF LaneVarsTyped, ValueLinks, LockRepoDegraded
<1>6. LaneTypeOK' /\ weak'
  BY <1>4, <1>5, LaneTypeNext DEF LockRepoDegraded
<1>7. MutexHeld'
  BY <1>2, <1>3 DEF LocksInv, MutexHeld, OneMoved, LockRepoDegraded
<1>8. SweepHeld'
  BY DEF LocksInv, SweepHeld, LockRepoDegraded
<1>. QED BY <1>6, <1>7, <1>8 DEF LocksInv, LaneCurrent, LanesMeet, FlockHeld

\* Steps that leave the goroutines, the lanes and what they hold.
LEMMA AsideKeeps ==
  ASSUME LocksInv, UNCHANGED <<lane, mu, thr>>, LaneVarsTyped', SweepHeld', LanesMeet',
         ~weak' => ~weak,
         \A q \in Proc : lane[q] \in Inode /\ owner[lane[q]] = LaneFd(q)
                           => owner'[lane[q]] = LaneFd(q)
  PROVE  LocksInv'
<1>1. ThreadsTyped /\ ThreadsTyped'
  BY LaneTypeParts DEF LocksInv, ThreadsTyped
<1>2. LaneTypeOK'
  BY <1>1, LaneTypeNext
<1>3. MutexHeld' /\ LaneCurrent'
  BY DEF LocksInv, MutexHeld, LaneCurrent, At
<1>4. FlockHeld'
  <2>. SUFFICES ASSUME ~weak', NEW q \in Proc, NEW u \in Thread,
                       thr'[q][u].pc \in {"in", "write", "release"}
                PROVE  owner'[lane'[q]] = LaneFd(q)
    BY DEF FlockHeld
  <2>1. owner[lane[q]] = LaneFd(q) /\ lane[q] \in Inode
    BY LaneOf DEF LocksInv, FlockHeld
  <2>. QED BY <2>1
<1>. QED BY <1>2, <1>3, <1>4 DEF LocksInv

LEMMA AgeKeeps ==
  ASSUME LocksInv, Age
  PROVE  LocksInv'
<1>1. LaneVarsTyped'
  BY LaneTypeParts DEF LocksInv, LaneVarsTyped, ValueLinks, Age
<1>2. SweepHeld' /\ LanesMeet'
  BY DEF LocksInv, SweepHeld, LanesMeet, Age
<1>. QED BY <1>1, <1>2, AsideKeeps DEF Age

LEMMA OpenKeeps ==
  ASSUME LocksInv, NEW p \in Proc, Open(p)
  PROVE  LocksInv'
<1>1. LaneVarsTyped
  BY LaneTypeParts DEF LocksInv
<1>2. NoSweep \in SweepType /\ NoSweep.f = None /\ NoSweep.st = "never"
  BY DEF NoSweep, SweepType
<1>3. /\ sweep' \in [Proc -> SweepType] /\ sweep'[p] = NoSweep
      /\ \A q \in Proc \ {p} : sweep'[q] = sweep[q]
      /\ vcs' \in [Proc -> {"none", "open", "reclaim", "closed"}] /\ vcs'[p] = "open"
      /\ \A q \in Proc \ {p} : vcs'[q] = vcs[q]
  BY <1>1, <1>2 DEF Open, LaneVarsTyped
<1>4. LaneVarsTyped'
  <2>1. \A q \in Proc : ValueLinks(q)'
    BY <1>1, <1>2, <1>3 DEF LaneVarsTyped, ValueLinks, Open
  <2>. QED BY <1>1, <1>3, <2>1 DEF LaneVarsTyped, Open
<1>5. SweepHeld'
  BY <1>2, <1>3 DEF LocksInv, SweepHeld, Open
<1>6. LanesMeet'
  BY DEF LocksInv, LanesMeet, Open
<1>. QED BY <1>4, <1>5, <1>6, AsideKeeps DEF Open

\* The sweep's record after a step of p's sweep.
SweepMoved(p, st, f) ==
  /\ sweep' \in [Proc -> SweepType]
  /\ sweep'[p].st = st /\ sweep'[p].f = f
  /\ \A q \in Proc \ {p} : sweep'[q] = sweep[q]

LEMMA SweepRecord ==
  ASSUME LaneVarsTyped, NEW p \in Proc, NEW st \in {"opened", "done"},
         NEW f \in Inode \cup {None}, sweep' = [sweep EXCEPT ![p] = [st |-> st, f |-> f]]
  PROVE  SweepMoved(p, st, f)
<1>1. [st |-> st, f |-> f] \in SweepType
  BY DEF SweepType
<1>. QED BY <1>1 DEF LaneVarsTyped, SweepMoved

LEMMA SweepLockRecord ==
  ASSUME LaneVarsTyped, NEW p \in Proc, sweep' = [sweep EXCEPT ![p].st = "locked"]
  PROVE  SweepMoved(p, "locked", sweep[p].f)
<1>1. sweep[p] \in SweepType
  BY DEF LaneVarsTyped
<1>2. [sweep[p] EXCEPT !.st = "locked"] \in SweepType
  BY <1>1 DEF SweepType
<1>. QED BY <1>1, <1>2 DEF LaneVarsTyped, SweepMoved, SweepType

LEMMA SweepOpenKeeps ==
  ASSUME LocksInv, NEW p \in Proc, SweepOpen(p)
  PROVE  LocksInv'
<1>1. LaneVarsTyped
  BY LaneTypeParts DEF LocksInv
<1>2. PICK st \in {"opened", "done"}, f \in Inode \cup {None} :
        /\ sweep' = [sweep EXCEPT ![p] = [st |-> st, f |-> f]]
        /\ f # None <=> st = "opened"
  <2>1. CASE path \in aged
    <3>1. path \in Inode /\ path # None
      BY <1>1, <2>1, LaneAssumption DEF LaneVarsTyped
    <3>. QED BY <2>1, <3>1 DEF SweepOpen
  <2>2. CASE path \notin aged
    BY <2>2 DEF SweepOpen
  <2>. QED BY <2>1, <2>2
<1>3. SweepMoved(p, st, f)
  BY <1>1, <1>2, SweepRecord
<1>4. LaneVarsTyped'
  <2>1. \A q \in Proc : ValueLinks(q)'
    BY <1>1, <1>2, <1>3 DEF LaneVarsTyped, ValueLinks, SweepOpen, SweepMoved
  <2>. QED BY <1>1, <1>3, <2>1 DEF LaneVarsTyped, SweepOpen, SweepMoved
<1>5. SweepHeld'
  BY <1>3 DEF LocksInv, SweepHeld, SweepOpen, SweepMoved
<1>6. LanesMeet'
  BY DEF LocksInv, LanesMeet, SweepOpen
<1>. QED BY <1>4, <1>5, <1>6, AsideKeeps DEF SweepOpen

LEMMA SweepTryLockKeeps ==
  ASSUME LocksInv, NEW p \in Proc, SweepTryLock(p)
  PROVE  LocksInv'
<1>1. LaneVarsTyped
  BY LaneTypeParts DEF LocksInv
<1>2. sweep[p].st = "opened" /\ sweep[p].f \in Inode /\ vcs[p] \notin {"none", "closed"}
  BY <1>1 DEF LaneVarsTyped, ValueLinks, SweepTryLock, SweepType
<1>3. LanesMeet' /\ UNCHANGED <<lane, mu, thr, weak>>
  BY DEF LocksInv, LanesMeet, SweepTryLock
<1>4. CASE owner[sweep[p].f] = None
  <2>1. SweepMoved(p, "locked", sweep[p].f)
    BY <1>1, <1>4, SweepLockRecord DEF SweepTryLock
  <2>2. /\ owner' \in [Inode -> FdType] /\ owner'[sweep[p].f] = SweepFd(p)
        /\ \A i \in Inode : owner[i] # None => owner'[i] = owner[i]
    BY <1>1, <1>2, <1>4, Descriptors DEF SweepTryLock, LaneVarsTyped
  <2>3. \A q \in Proc : ValueLinks(q)'
    BY <1>1, <1>2, <2>1, LaneAssumption DEF LaneVarsTyped, ValueLinks, SweepTryLock, SweepMoved
  <2>4. LaneVarsTyped'
    BY <1>1, <2>1, <2>2, <2>3 DEF LaneVarsTyped, SweepTryLock, SweepMoved
  <2>5. SweepHeld'
    BY <2>1, <2>2, SweptFile, Descriptors DEF SweepHeld, SweepMoved
  <2>6. \A q \in Proc : lane[q] \in Inode /\ owner[lane[q]] = LaneFd(q)
                          => owner'[lane[q]] = LaneFd(q)
    BY <2>2, Descriptors
  <2>. QED BY <1>3, <2>4, <2>5, <2>6, AsideKeeps
<1>5. CASE owner[sweep[p].f] # None
  <2>1. SweepMoved(p, "done", None) /\ owner' = owner
    BY <1>1, <1>5, SweepRecord DEF SweepTryLock
  <2>2. \A q \in Proc : ValueLinks(q)'
    BY <1>1, <1>2, <2>1 DEF LaneVarsTyped, ValueLinks, SweepTryLock, SweepMoved
  <2>3. LaneVarsTyped'
    BY <1>1, <2>1, <2>2 DEF LaneVarsTyped, SweepTryLock, SweepMoved
  <2>4. SweepHeld'
    BY <2>1 DEF LocksInv, SweepHeld, SweepMoved
  <2>. QED BY <1>3, <2>1, <2>3, <2>4, AsideKeeps
<1>. QED BY <1>4, <1>5

LEMMA SweepUnlinkKeeps ==
  ASSUME LocksInv, NEW p \in Proc, SweepUnlink(p)
  PROVE  LocksInv'
<1>1. LaneVarsTyped
  BY LaneTypeParts DEF LocksInv
<1>2. sweep[p].f \in Inode /\ owner[sweep[p].f] = SweepFd(p)
  BY SweptFile DEF SweepUnlink
<1>3. SweepMoved(p, "done", None)
  BY <1>1, SweepRecord DEF SweepUnlink
<1>4. /\ owner' \in [Inode -> FdType]
      /\ \A i \in Inode : owner[i] # SweepFd(p) => owner'[i] = owner[i]
  BY <1>1, <1>2 DEF LaneVarsTyped, SweepUnlink, FdType
<1>5. LaneVarsTyped'
  <2>1. \A q \in Proc : ValueLinks(q)'
    BY <1>1, <1>3 DEF LaneVarsTyped, ValueLinks, SweepUnlink, SweepMoved
  <2>2. path' \in Inode \cup {None} /\ weak' \in BOOLEAN
    BY <1>1 DEF LaneVarsTyped, SweepUnlink, Unlinked
  <2>. QED BY <1>1, <1>3, <1>4, <2>1, <2>2 DEF LaneVarsTyped, SweepUnlink, SweepMoved
<1>6. SweepHeld'
  BY <1>3, <1>4, SweptFile, Descriptors DEF SweepHeld, SweepMoved
<1>7. LanesMeet'
  BY DEF LocksInv, LanesMeet, SweepUnlink
<1>8. \A q \in Proc : lane[q] \in Inode /\ owner[lane[q]] = LaneFd(q)
                        => owner'[lane[q]] = LaneFd(q)
  BY <1>4, Descriptors
<1>. QED BY <1>5, <1>6, <1>7, <1>8, AsideKeeps DEF SweepUnlink

\* Steps that drop p's lane: what its descriptors held is free, its lane is
\* closed, and its goroutines are where they were with a closed file, or ended.
LaneGone(p) ==
  /\ owner' \in [Inode -> FdType]
  /\ \A i \in Inode, q \in Proc \ {p} :
       /\ owner[i] = LaneFd(q) => owner'[i] = owner[i]
       /\ owner[i] = SweepFd(q) => owner'[i] = owner[i]
  /\ lane' \in [Proc -> Inode \cup {None}] /\ lane'[p] = None
  /\ \A q \in Proc \ {p} : lane'[q] = lane[q]
  /\ thr' \in ThreadsType
  /\ \A q \in Proc \ {p}, t \in Thread : thr'[q][t] = thr[q][t]
  /\ \A t \in Thread : \/ thr'[p][t].pc = "idle" /\ thr'[p][t].f = None
                       \/ thr'[p][t] = thr[p][t]
                       \/ /\ t \in Captured(p) /\ thr'[p][t].pc = thr[p][t].pc
                          /\ thr'[p][t].f = Closed

LEMMA ClosedGone ==
  ASSUME LocksInv, NEW p \in Proc, LaneClosed(p)
  PROVE  /\ LaneGone(p)
         /\ \A t \in Thread : thr'[p][t].pc = thr[p][t].pc
         /\ \A i \in Inode : owner[i] = SweepFd(p) => owner'[i] = owner[i]
<1>1. LaneVarsTyped /\ ThreadsTyped
  BY LaneTypeParts DEF LocksInv
<1>2. /\ owner' \in [Inode -> FdType]
      /\ \A i \in Inode : owner'[i] = IF owner[i] = LaneFd(p) THEN None ELSE owner[i]
  BY <1>1 DEF LaneClosed, LaneVarsTyped, FdType
<1>3. /\ lane' \in [Proc -> Inode \cup {None}] /\ lane'[p] = None
      /\ \A q \in Proc \ {p} : lane'[q] = lane[q]
  BY <1>1 DEF LaneClosed, LaneVarsTyped
<1>4. \A t \in Thread :
        /\ thr[p][t] \in ThreadType /\ [thr[p][t] EXCEPT !.f = Closed] \in ThreadType
        /\ [thr[p][t] EXCEPT !.f = Closed].f = Closed
        /\ [thr[p][t] EXCEPT !.f = Closed].pc = thr[p][t].pc
  <2>1. \A x \in ThreadType : /\ [x EXCEPT !.f = Closed] \in ThreadType
                              /\ [x EXCEPT !.f = Closed].f = Closed
                              /\ [x EXCEPT !.f = Closed].pc = x.pc
    BY DEF ThreadType
  <2>. QED BY <1>1, <2>1, ThreadRecords
<1>5. /\ thr' \in ThreadsType
      /\ \A q \in Proc \ {p}, t \in Thread : thr'[q][t] = thr[q][t]
      /\ \A t \in Thread : thr'[p][t] = IF t \in Captured(p)
                                        THEN [thr[p][t] EXCEPT !.f = Closed] ELSE thr[p][t]
  BY <1>1, <1>4 DEF LaneClosed, ThreadsTyped, ThreadsType
<1>6. \A t \in Thread : /\ thr'[p][t].pc = thr[p][t].pc
                        /\ t \in Captured(p) => thr'[p][t].f = Closed
  BY <1>4, <1>5
<1>7. \A i \in Inode, q \in Proc \ {p} :
        /\ owner[i] = LaneFd(q) => owner'[i] = owner[i]
        /\ owner[i] = SweepFd(q) => owner'[i] = owner[i]
  BY <1>2, Descriptors
<1>8. \A i \in Inode : owner[i] = SweepFd(p) => owner'[i] = owner[i]
  BY <1>2, Descriptors
<1>9. \A t \in Thread : \/ thr'[p][t] = thr[p][t]
                        \/ /\ t \in Captured(p) /\ thr'[p][t].pc = thr[p][t].pc
                           /\ thr'[p][t].f = Closed
  BY <1>5, <1>6
<1>. QED BY <1>2, <1>3, <1>5, <1>6, <1>7, <1>8, <1>9 DEF LaneGone

LEMMA GoneKeeps ==
  ASSUME LocksInv, NEW p \in Proc, LaneGone(p), LaneVarsTyped', SweepHeld', MutexHeld',
         ~weak' => /\ ~weak
                   /\ Captured(p) = {} \/ \A t \in Thread : thr'[p][t].pc = "idle"
                   /\ \A q \in Proc \ {p} : lane[q] # None => lane[q] = path'
  PROVE  LocksInv'
<1>1. ThreadsTyped
  BY LaneTypeParts DEF LocksInv
<1>2. ThreadsTyped'
  BY <1>1, LaneAssumption, ThreadRecords DEF ThreadsTyped, LaneGone, Captured
<1>3. LaneTypeOK'
  BY <1>2, LaneTypeNext
<1>4. ASSUME ~weak', NEW t \in Thread PROVE thr'[p][t].pc = "idle"
  <2>1. ~weak
    BY <1>4
  <2>2. CASE Captured(p) = {}
    <3>1. thr[p][t].pc = "idle"
      <4>1. SUFFICES ASSUME thr[p][t].pc # "idle" PROVE FALSE
        OBVIOUS
      <4>2. thr[p][t].f = lane[p] /\ lane[p] \in Inode
        BY <2>1, <4>1, LaneOf
      <4>. QED BY <2>2, <4>2, LaneAssumption DEF Captured
    <3>. QED BY <2>2, <3>1 DEF LaneGone
  <2>. QED BY <1>4, <2>2
<1>5. LaneCurrent'
  BY <1>4 DEF LocksInv, LaneCurrent, At, LaneGone
<1>6. LanesMeet'
  BY DEF LanesMeet, LaneGone
<1>7. FlockHeld'
  <2>. SUFFICES ASSUME ~weak', NEW q \in Proc, NEW u \in Thread,
                       thr'[q][u].pc \in {"in", "write", "release"}
                PROVE  owner'[lane'[q]] = LaneFd(q)
    BY DEF FlockHeld
  <2>1. q # p /\ thr[q][u].pc \in {"in", "write", "release"} /\ lane'[q] = lane[q]
    BY <1>4 DEF LaneGone
  <2>2. owner[lane[q]] = LaneFd(q) /\ lane[q] \in Inode
    BY <2>1, LaneOf DEF LocksInv, FlockHeld
  <2>. QED BY <2>1, <2>2 DEF LaneGone
<1>. QED BY <1>3, <1>5, <1>6, <1>7 DEF LocksInv

LEMMA CloseProbeKeeps ==
  ASSUME LocksInv, NEW p \in Proc, CloseProbe(p)
  PROVE  LocksInv'
<1>1. LaneVarsTyped
  BY LaneTypeParts DEF LocksInv
<1>2. vcs[p] = "open" /\ sweep[p].f = None /\ sweep' = sweep /\ path' = path /\ mu' = mu
  BY <1>1 DEF CloseProbe, LaneVarsTyped, ValueLinks
<1>3. CASE ~OpenLane(p)
  <2>1. UNCHANGED <<owner, lane, thr, weak>> /\ vcs' = [vcs EXCEPT ![p] = "closed"]
    BY <1>3 DEF CloseProbe
  <2>2. LaneVarsTyped'
    BY <1>1, <1>2, <1>3, <2>1 DEF LaneVarsTyped, ValueLinks, CloseProbe, OpenLane
  <2>3. SweepHeld' /\ LanesMeet'
    BY <1>2, <2>1 DEF LocksInv, SweepHeld, LanesMeet
  <2>. QED BY <1>2, <2>1, <2>2, <2>3, AsideKeeps
<1>4. CASE OpenLane(p) /\ owner[lane[p]] \in {None, LaneFd(p)}
  <2>1. /\ UNCHANGED <<lane, thr, weak>> /\ vcs' = [vcs EXCEPT ![p] = "reclaim"]
        /\ owner' = [owner EXCEPT ![lane[p]] = LaneFd(p)]
    BY <1>4 DEF CloseProbe
  <2>2. /\ owner' \in [Inode -> FdType]
        /\ \A i \in Inode : i # lane[p] => owner'[i] = owner[i]
        /\ owner'[lane[p]] = LaneFd(p) /\ lane[p] \in Inode
    BY <1>1, <1>4, <2>1, Descriptors DEF LaneVarsTyped, OpenLane
  <2>3. LaneVarsTyped'
    BY <1>1, <1>2, <1>4, <2>1, <2>2 DEF LaneVarsTyped, ValueLinks, CloseProbe, OpenLane
  <2>4. SweepHeld'
    BY <1>2, <1>4, <2>2, SweptFile, Descriptors DEF SweepHeld
  <2>5. LanesMeet'
    BY <1>2, <2>1 DEF LocksInv, LanesMeet
  <2>6. \A q \in Proc : lane[q] \in Inode /\ owner[lane[q]] = LaneFd(q)
                          => owner'[lane[q]] = LaneFd(q)
    BY <1>4, <2>2, Descriptors
  <2>. QED BY <1>2, <2>1, <2>3, <2>4, <2>5, <2>6, AsideKeeps
<1>5. CASE OpenLane(p) /\ owner[lane[p]] \notin {None, LaneFd(p)}
  <2>1. /\ LaneClosed(p) /\ vcs' = [vcs EXCEPT ![p] = "closed"]
        /\ weak' = (weak \/ Captured(p) # {})
    BY <1>5 DEF CloseProbe
  <2>2. /\ LaneGone(p) /\ \A t \in Thread : thr'[p][t].pc = thr[p][t].pc
        /\ \A i \in Inode : owner[i] = SweepFd(p) => owner'[i] = owner[i]
    BY <2>1, ClosedGone
  <2>3. \A q \in Proc : ValueLinks(q)'
    BY <1>1, <1>2, <2>1, <2>2 DEF LaneVarsTyped, ValueLinks, LaneGone
  <2>4. LaneVarsTyped'
    BY <1>1, <2>1, <2>2, <2>3 DEF LaneVarsTyped, LaneGone, CloseProbe
  <2>5. SweepHeld'
    BY <1>2, <2>2, SweptFile DEF SweepHeld, LaneGone
  <2>6. MutexHeld'
    BY <1>2, <2>2 DEF LocksInv, MutexHeld, LaneGone
  <2>7. ~weak' => ~weak /\ Captured(p) = {} /\ \A q \in Proc : lane[q] # None => lane[q] = path'
    BY <1>2, <2>1 DEF LocksInv, LanesMeet
  <2>. QED BY <2>2, <2>4, <2>5, <2>6, <2>7, GoneKeeps
<1>. QED BY <1>3, <1>4, <1>5

LEMMA CloseUnlinkKeeps ==
  ASSUME LocksInv, NEW p \in Proc, CloseUnlink(p)
  PROVE  LocksInv'
<1>1. LaneVarsTyped
  BY LaneTypeParts DEF LocksInv
<1>2. /\ LaneClosed(p) /\ vcs' = [vcs EXCEPT ![p] = "closed"] /\ sweep' = sweep /\ mu' = mu
      /\ vcs[p] = "reclaim" /\ path' = Unlinked(lane[p])
      /\ ~weak' => ~weak /\ Captured(p) = {} /\ (path' = path \/ UsersOf(lane[p], p) = {})
  BY DEF CloseUnlink
<1>3. /\ LaneGone(p) /\ \A t \in Thread : thr'[p][t].pc = thr[p][t].pc
      /\ \A i \in Inode : owner[i] = SweepFd(p) => owner'[i] = owner[i]
  BY <1>2, ClosedGone
<1>4. SweepHeld'
  BY <1>2, <1>3, SweptFile DEF SweepHeld, LaneGone
<1>5. MutexHeld'
  BY <1>2, <1>3 DEF LocksInv, MutexHeld, LaneGone
<1>6. ~weak' => \A q \in Proc \ {p} : lane[q] # None => lane[q] = path'
  BY <1>2 DEF LocksInv, LanesMeet, Unlinked, UsersOf
<1>7. weak' \in BOOLEAN /\ path' \in Inode \cup {None}
  BY <1>1, <1>2 DEF LaneVarsTyped, CloseUnlink, Unlinked
<1>8. \A q \in Proc : ValueLinks(q)'
  BY <1>1, <1>2, <1>3 DEF LaneVarsTyped, ValueLinks, LaneGone
<1>9. LaneVarsTyped'
  BY <1>1, <1>2, <1>3, <1>7, <1>8 DEF LaneVarsTyped, LaneGone, CloseUnlink
<1>. QED BY <1>2, <1>3, <1>4, <1>5, <1>6, <1>9, GoneKeeps

LEMMA ExitKeeps ==
  ASSUME LocksInv, NEW p \in Proc, Exit(p)
  PROVE  LocksInv'
<1>1. LaneVarsTyped /\ ThreadsTyped
  BY LaneTypeParts DEF LocksInv
<1>2. /\ NoSweep \in SweepType /\ NoSweep.f = None /\ NoSweep.st = "never"
      /\ UNCHANGED <<path, aged, pending, head, recorded, weak>>
  BY DEF NoSweep, SweepType, Exit
<1>3. /\ owner' \in [Inode -> FdType]
      /\ \A i \in Inode : owner[i] \notin {LaneFd(p), SweepFd(p)} => owner'[i] = owner[i]
  BY <1>1 DEF Exit, LaneVarsTyped, FdType
<1>4. /\ lane' \in [Proc -> Inode \cup {None}] /\ lane'[p] = None
      /\ \A q \in Proc \ {p} : lane'[q] = lane[q]
  BY <1>1 DEF Exit, LaneVarsTyped
<1>5. /\ vcs' \in [Proc -> {"none", "open", "reclaim", "closed"}] /\ vcs'[p] = "none"
      /\ \A q \in Proc \ {p} : vcs'[q] = vcs[q]
  BY <1>1 DEF Exit, LaneVarsTyped
<1>6. SweepMoved(p, "never", None)
  BY <1>1, <1>2 DEF Exit, LaneVarsTyped, SweepMoved
<1>7. /\ mu' \in [Proc -> Thread \cup {None}]
      /\ \A q \in Proc \ {p} : mu'[q] = mu[q]
  BY <1>1 DEF Exit, LaneVarsTyped
<1>8. /\ thr' \in ThreadsType /\ \A t \in Thread : thr'[p][t] = IdleThread
      /\ \A q \in Proc \ {p}, t \in Thread : thr'[q][t] = thr[q][t]
  BY <1>1, IdleRecord DEF Exit, ThreadsTyped, ThreadsType
<1>9. LaneGone(p)
  BY <1>3, <1>4, <1>8, IdleRecord, Descriptors DEF LaneGone
<1>10. LaneVarsTyped'
  <2>1. \A q \in Proc : ValueLinks(q)'
    BY <1>1, <1>4, <1>5, <1>6 DEF LaneVarsTyped, ValueLinks, SweepMoved
  <2>. QED BY <1>1, <1>2, <1>3, <1>4, <1>5, <1>6, <1>7, <2>1 DEF LaneVarsTyped, SweepMoved
<1>11. SweepHeld'
  BY <1>3, <1>6, SweptFile, Descriptors DEF SweepHeld, SweepMoved
<1>12. MutexHeld'
  BY <1>7, <1>8, IdleRecord DEF LocksInv, MutexHeld
<1>13. ~weak' => /\ ~weak /\ \A t \in Thread : thr'[p][t].pc = "idle"
                 /\ \A q \in Proc \ {p} : lane[q] # None => lane[q] = path'
  BY <1>2, <1>8, IdleRecord DEF LocksInv, LanesMeet
<1>. QED BY <1>9, <1>10, <1>11, <1>12, <1>13, GoneKeeps

\* One goroutine of one process is in the body of the lane.
LEMMA OneInBody ==
  ASSUME LocksInv, NEW p \in Proc, NEW t \in Thread, NEW u \in Thread,
         InBody(p, t), InBody(p, u)
  PROVE  t = u
BY DEF LocksInv, MutexHeld, InBody

LEMMA OneOnMachine ==
  ASSUME LocksInv, ~weak, NEW p \in Proc, NEW q \in Proc, NEW t \in Thread, NEW u \in Thread,
         InBody(p, t), InBody(q, u)
  PROVE  p = q /\ t = u
<1>1. owner[lane[p]] = LaneFd(p) /\ owner[lane[q]] = LaneFd(q)
  BY DEF LocksInv, FlockHeld, InBody
<1>2. lane[p] = path /\ lane[q] = path
  BY LaneOf DEF InBody
<1>3. p = q
  BY <1>1, <1>2, Descriptors
<1>. QED BY <1>3, OneInBody

\* Steps outside the bodies leave the edits, and what a commit has read.
LEMMA WorkKept ==
  ASSUME LaneInv, LocksInv', UNCHANGED <<pending, head, recorded>>, ~weak' => ~weak,
         ~weak' => \A p \in Proc, t \in Thread :
                     thr'[p][t].pc = "write" => thr'[p][t] = thr[p][t]
  PROVE  LaneInv'
BY DEF LaneInv, CommitCurrent, EditsKept, At

LEMMA RecordEditKeeps ==
  ASSUME LaneInv, NEW p \in Proc, NEW t \in Thread, RecordEdit(p, t)
  PROVE  LaneInv'
<1>1. ThreadsTyped /\ LaneVarsTyped /\ LocksInv /\ thr[p][t] \in ThreadType
  BY LaneTypeParts, ThreadRecords DEF LocksInv, LaneInv
<1>2. PICK r \in ThreadType : Goto(p, t, r) /\ r.pc = "release" /\ r.f = thr[p][t].f
  BY <1>1, MovedRecord DEF RecordEdit, Places
<1>3. OneMoved(p, t, r) /\ InBody(p, t)
  BY <1>1, <1>2, GotoMoves DEF InBody, RecordEdit, At
<1>4. PICK e \in Edit : pending' = pending \cup {e} /\ recorded' = recorded \cup {e}
  BY DEF RecordEdit
<1>5. LocksInv'
  <2>1. pending' \subseteq Edit /\ head' \subseteq Edit /\ recorded' \subseteq Edit
    BY <1>1, <1>4 DEF LaneVarsTyped, RecordEdit
  <2>. QED BY <1>1, <1>2, <1>3, <2>1, BodyKeeps DEF RecordEdit
<1>6. weak' = weak /\ head' = head
  BY DEF RecordEdit
<1>7. CommitCurrent'
  <2>. SUFFICES ASSUME ~weak', NEW q \in Proc, NEW u \in Thread, thr'[q][u].pc = "write"
                PROVE  FALSE
    BY DEF CommitCurrent, At
  <2>1. (q # p \/ u # t) /\ thr[q][u].pc = "write"
    BY <1>2, <1>3 DEF OneMoved
  <2>. QED BY <1>1, <1>3, <1>6, <2>1, OneOnMachine DEF InBody
<1>8. EditsKept'
  BY <1>4, <1>6 DEF LaneInv, EditsKept
<1>. QED BY <1>5, <1>7, <1>8 DEF LaneInv

LEMMA CommitReadKeeps ==
  ASSUME LaneInv, NEW p \in Proc, NEW t \in Thread, CommitRead(p, t)
  PROVE  LaneInv'
<1>1. ThreadsTyped /\ LaneVarsTyped /\ LocksInv /\ thr[p][t] \in ThreadType
  BY LaneTypeParts, ThreadRecords DEF LocksInv, LaneInv
<1>2. head \in SUBSET Edit /\ pending \in SUBSET Edit
  BY <1>1 DEF LaneVarsTyped
<1>3. PICK r \in ThreadType : /\ Goto(p, t, r) /\ r.pc = "write" /\ r.f = thr[p][t].f
                              /\ r.tree = head /\ r.rows = pending
  <2>1. "write" \in Places
    BY DEF Places
  <2>. DEFINE r == [thr[p][t] EXCEPT !.pc = "write", !.tree = head, !.rows = pending]
  <2>2. /\ r \in ThreadType /\ r.pc = "write" /\ r.f = thr[p][t].f
        /\ r.tree = head /\ r.rows = pending
    BY <1>1, <1>2, <2>1 DEF ThreadType
  <2>3. Goto(p, t, r)
    BY DEF CommitRead
  <2>. QED BY <2>2, <2>3
<1>4. OneMoved(p, t, r) /\ InBody(p, t)
  BY <1>1, <1>3, GotoMoves DEF InBody, CommitRead, At
<1>5. UNCHANGED <<pending, head, recorded, weak>>
  BY DEF CommitRead
<1>6. LocksInv'
  <2>1. recorded' \subseteq Edit
    BY <1>1 DEF LaneVarsTyped, CommitRead
  <2>. QED BY <1>1, <1>2, <1>3, <1>4, <1>5, <2>1, BodyKeeps DEF CommitRead
<1>7. CommitCurrent'
  BY <1>3, <1>4, <1>5 DEF LaneInv, CommitCurrent, OneMoved, At
<1>8. EditsKept'
  BY <1>5 DEF LaneInv, EditsKept
<1>. QED BY <1>6, <1>7, <1>8 DEF LaneInv

LEMMA CommitWriteKeeps ==
  ASSUME LaneInv, NEW p \in Proc, NEW t \in Thread, CommitWrite(p, t)
  PROVE  LaneInv'
<1>1. ThreadsTyped /\ LaneVarsTyped /\ LocksInv /\ thr[p][t] \in ThreadType
  BY LaneTypeParts, ThreadRecords DEF LocksInv, LaneInv
<1>2. PICK r \in ThreadType : Goto(p, t, r) /\ r.pc = "release" /\ r.f = thr[p][t].f
  <2>1. "release" \in Places /\ {} \in SUBSET Edit
    BY DEF Places
  <2>. DEFINE r == [thr[p][t] EXCEPT !.pc = "release", !.tree = {}, !.rows = {}]
  <2>2. r \in ThreadType /\ r.pc = "release" /\ r.f = thr[p][t].f
    BY <1>1, <2>1 DEF ThreadType
  <2>3. Goto(p, t, r)
    BY DEF CommitWrite
  <2>. QED BY <2>2, <2>3
<1>3. OneMoved(p, t, r) /\ InBody(p, t) /\ thr[p][t].pc = "write"
  BY <1>1, <1>2, GotoMoves DEF InBody, CommitWrite, At
<1>4. thr[p][t].tree \subseteq Edit /\ thr[p][t].rows \subseteq Edit
  BY <1>1 DEF ThreadType
<1>5. /\ head' = thr[p][t].tree \cup thr[p][t].rows /\ pending' = {}
      /\ recorded' = recorded /\ weak' = weak
  BY DEF CommitWrite
<1>6. LocksInv'
  <2>1. pending' \subseteq Edit /\ head' \subseteq Edit /\ recorded' \subseteq Edit
    BY <1>1, <1>4, <1>5 DEF LaneVarsTyped
  <2>. QED BY <1>1, <1>2, <1>3, <2>1, BodyKeeps DEF CommitWrite
<1>7. CommitCurrent'
  <2>. SUFFICES ASSUME ~weak', NEW q \in Proc, NEW u \in Thread, thr'[q][u].pc = "write"
                PROVE  FALSE
    BY DEF CommitCurrent, At
  <2>1. (q # p \/ u # t) /\ thr[q][u].pc = "write"
    BY <1>2, <1>3 DEF OneMoved
  <2>. QED BY <1>1, <1>3, <1>5, <2>1, OneOnMachine DEF InBody
<1>8. EditsKept'
  BY <1>3, <1>5 DEF LaneInv, CommitCurrent, EditsKept, At
<1>. QED BY <1>6, <1>7, <1>8 DEF LaneInv

LEMMA BackOutKeeps ==
  ASSUME LaneInv, NEW p \in Proc, NEW t \in Thread, Inspect(p, t) \/ CommitFails(p, t)
  PROVE  LaneInv'
<1>1. ThreadsTyped /\ LaneVarsTyped /\ LocksInv /\ thr[p][t] \in ThreadType
  BY LaneTypeParts, ThreadRecords DEF LocksInv, LaneInv
<1>2. PICK r \in ThreadType : Goto(p, t, r) /\ r.pc = "release" /\ r.f = thr[p][t].f
  <2>1. CASE Inspect(p, t)
    BY <1>1, <2>1, MovedRecord DEF Inspect, Places
  <2>2. CASE CommitFails(p, t)
    <3>1. "release" \in Places /\ {} \in SUBSET Edit
      BY DEF Places
    <3>. DEFINE r == [thr[p][t] EXCEPT !.pc = "release", !.tree = {}, !.rows = {}]
    <3>2. r \in ThreadType /\ r.pc = "release" /\ r.f = thr[p][t].f
      BY <1>1, <3>1 DEF ThreadType
    <3>3. Goto(p, t, r)
      BY <2>2 DEF CommitFails
    <3>. QED BY <3>2, <3>3
  <2>. QED BY <2>1, <2>2
<1>3. OneMoved(p, t, r) /\ InBody(p, t)
  BY <1>1, <1>2, GotoMoves DEF InBody, Inspect, CommitFails, At
<1>4. UNCHANGED <<path, aged, owner, vcs, lane, sweep, mu, weak, pending, head, recorded>>
  BY DEF Inspect, CommitFails
<1>5. LocksInv'
  BY <1>1, <1>2, <1>3, <1>4, BodyKeeps DEF LaneVarsTyped
<1>. QED BY <1>2, <1>3, <1>4, <1>5, WorkKept DEF OneMoved

\* The steps of a goroutine around the body.
LEMMA AroundKeeps ==
  ASSUME LaneInv, NEW p \in Proc, NEW t \in Thread,
         \/ LockRepo(p, t) \/ LockRepoDegraded(p, t) \/ TakeMutex(p, t) \/ TakeFlock(p, t)
         \/ ReleaseFlock(p, t) \/ ReleaseMutex(p, t)
  PROVE  LaneInv'
<1>1. ThreadsTyped /\ LaneVarsTyped /\ LocksInv /\ thr[p][t] \in ThreadType
  BY LaneTypeParts, ThreadRecords DEF LocksInv, LaneInv
<1>2. LocksInv'
  BY <1>1, LockRepoKeeps, DegradedKeeps, TakeMutexKeeps, TakeFlockKeeps, ReleaseFlockKeeps,
     ReleaseMutexKeeps
<1>3. UNCHANGED <<pending, head, recorded>> /\ (~weak' => ~weak)
  <2>1. UNCHANGED <<pending, head, recorded>>
    BY DEF LockRepo, LockRepoDegraded, TakeMutex, TakeFlock, ReleaseFlock, ReleaseMutex
  <2>2. weak' = weak \/ weak' = TRUE
    BY DEF LockRepo, LockRepoDegraded, TakeMutex, TakeFlock, ReleaseFlock, ReleaseMutex
  <2>. QED BY <2>1, <2>2
<1>4. CASE LockRepo(p, t)
  <2>1. PICK i : lane' = [lane EXCEPT ![p] = i]
                 /\ Goto(p, t, [IdleThread EXCEPT !.pc = "mutex", !.f = i])
    BY <1>4 DEF LockRepo
  <2>2. thr'[p][t].pc # "write"
    BY <1>1, <2>1 DEF Goto, ThreadsTyped, ThreadsType, IdleThread
  <2>3. \A q \in Proc, u \in Thread : q # p \/ u # t => thr'[q][u] = thr[q][u]
    BY <1>1, <2>1 DEF Goto, ThreadsTyped, ThreadsType
  <2>. QED BY <1>2, <1>3, <2>2, <2>3, WorkKept
<1>5. CASE ~LockRepo(p, t)
  <2>1. PICK r \in ThreadType : Goto(p, t, r) /\ r.pc # "write"
    <3>1. \/ LockRepoDegraded(p, t) \/ TakeMutex(p, t) \/ TakeFlock(p, t)
          \/ ReleaseFlock(p, t) \/ ReleaseMutex(p, t)
      BY <1>5
    <3>2. CASE LockRepoDegraded(p, t)
      BY <3>2, NewRecord DEF LockRepoDegraded
    <3>3. CASE TakeMutex(p, t)
      BY <1>1, <3>3, MovedRecord DEF TakeMutex, Places
    <3>4. CASE TakeFlock(p, t)
      BY <1>1, <3>4, MovedRecord DEF TakeFlock, Places
    <3>5. CASE ReleaseFlock(p, t)
      BY <1>1, <3>5, MovedRecord DEF ReleaseFlock, Places
    <3>6. CASE ReleaseMutex(p, t)
      BY <3>6, IdleRecord DEF ReleaseMutex
    <3>. QED BY <3>1, <3>2, <3>3, <3>4, <3>5, <3>6
  <2>2. OneMoved(p, t, r)
    BY <1>1, <2>1, GotoMoves
  <2>. QED BY <1>2, <1>3, <2>1, <2>2, WorkKept DEF OneMoved
<1>. QED BY <1>4, <1>5

\* The steps of a process.
LEMMA ProcessKeeps ==
  ASSUME LaneInv, NEW p \in Proc,
         \/ Open(p) \/ SweepOpen(p) \/ SweepTryLock(p) \/ SweepUnlink(p)
         \/ CloseProbe(p) \/ CloseUnlink(p) \/ Exit(p)
  PROVE  LaneInv'
<1>1. LocksInv
  BY DEF LaneInv
<1>2. LocksInv'
  BY <1>1, OpenKeeps, SweepOpenKeeps, SweepTryLockKeeps, SweepUnlinkKeeps, CloseProbeKeeps,
     CloseUnlinkKeeps, ExitKeeps
<1>3. UNCHANGED <<pending, head, recorded>> /\ (~weak' => ~weak)
  <2>1. UNCHANGED <<pending, head, recorded>>
    BY DEF Open, SweepOpen, SweepTryLock, SweepUnlink, CloseProbe, CloseUnlink, Exit
  <2>2. CASE SweepUnlink(p) \/ CloseUnlink(p)
    BY <2>1, <2>2 DEF SweepUnlink, CloseUnlink
  <2>3. CASE CloseProbe(p)
    BY <2>1, <2>3 DEF CloseProbe
  <2>4. CASE Open(p) \/ SweepOpen(p) \/ SweepTryLock(p) \/ Exit(p)
    BY <2>1, <2>4 DEF Open, SweepOpen, SweepTryLock, Exit
  <2>. QED BY <2>1, <2>2, <2>3, <2>4
<1>4. CASE UNCHANGED thr
  BY <1>2, <1>3, <1>4, WorkKept
<1>5. CASE LaneClosed(p) /\ (~weak' => Captured(p) = {})
  <2>1. LaneGone(p)
    BY <1>1, <1>5, ClosedGone
  <2>2. ~weak' => \A t \in Thread : thr'[p][t].pc = "write" => thr'[p][t] = thr[p][t]
    BY <1>5, <2>1 DEF LaneGone
  <2>3. \A q \in Proc \ {p}, t \in Thread : thr'[q][t] = thr[q][t]
    BY <2>1 DEF LaneGone
  <2>. QED BY <1>2, <1>3, <2>2, <2>3, WorkKept
<1>6. CASE Exit(p)
  <2>1. ThreadsTyped
    BY <1>1, LaneTypeParts DEF LocksInv
  <2>2. /\ \A t \in Thread : thr'[p][t] = IdleThread
        /\ \A q \in Proc \ {p}, t \in Thread : thr'[q][t] = thr[q][t]
    BY <1>6, <2>1 DEF Exit, ThreadsTyped, ThreadsType
  <2>3. \A t \in Thread : thr'[p][t].pc # "write"
    BY <2>2, IdleRecord
  <2>. QED BY <1>2, <1>3, <2>2, <2>3, WorkKept
<1>. QED BY <1>4, <1>5, <1>6
         DEF Open, SweepOpen, SweepTryLock, SweepUnlink, CloseProbe, CloseUnlink

LEMMA LaneKeeps ==
  ASSUME LaneInv, LaneNext \/ UNCHANGED laneVars
  PROVE  LaneInv'
<1>1. CASE UNCHANGED laneVars
  <2>1. LocksInv'
    BY <1>1 DEF laneVars, LaneInv, LocksInv, LaneTypeOK, MutexHeld, SweepHeld, LaneCurrent,
                LanesMeet, FlockHeld, At
  <2>. QED BY <1>1, <2>1, WorkKept DEF laneVars
<1>2. CASE Age
  BY <1>2, AgeKeeps, WorkKept DEF Age, LaneInv
<1>3. ASSUME NEW p \in Proc,
             \/ Open(p) \/ SweepOpen(p) \/ SweepTryLock(p) \/ SweepUnlink(p)
             \/ CloseProbe(p) \/ CloseUnlink(p) \/ Exit(p)
      PROVE  LaneInv'
  BY <1>3, ProcessKeeps
<1>4. ASSUME NEW p \in Proc, NEW t \in Thread,
             LockRepo(p, t) \/ LockRepoDegraded(p, t) \/ ThreadStep(p, t)
      PROVE  LaneInv'
  BY <1>4, AroundKeeps, BackOutKeeps, RecordEditKeeps, CommitReadKeeps, CommitWriteKeeps
     DEF ThreadStep
<1>. QED BY <1>1, <1>2, <1>3, <1>4 DEF LaneNext

-----------------------------------------------------------------------------
(* The election.                                                           *)

\* While no good claim has been removed, a claimant's claim is in the file.
ClaimsStand ==
  ~cleared => \A p \in Proc :
    /\ Is(p, "fill") => lockfile = [file |-> main[p].file, pid |-> None]
    /\ Is(p, "serve") \/ Is(p, "own") => Names(p)

ElectionInv == ElectionTypeOK /\ ClaimsStand /\ OneOwnerUnlessCleared

MainType == [pc : MainStates, file : Proc \cup {None}, to : Proc \cup {None}]
FileType == [file : Proc, pid : Proc \cup {None}] \cup {None}

LEMMA ElectionStarts == ElectionInit => ElectionInv
<1>. SUFFICES ASSUME ElectionInit PROVE ElectionInv
  OBVIOUS
<1>1. \A p \in Proc : main[p] = [pc |-> "off", file |-> None, to |-> None]
  BY DEF ElectionInit, NewMain
<1>2. main \in [Proc -> MainType]
  BY DEF ElectionInit, NewMain, MainType, MainStates
<1>3. \A p \in Proc : main[p].pc = "off" /\ main[p].to = None
  <2>. SUFFICES ASSUME NEW p \in Proc PROVE main[p].pc = "off" /\ main[p].to = None
    OBVIOUS
  <2>1. main[p] = [pc |-> "off", file |-> None, to |-> None]
    BY <1>1
  <2>. QED BY <2>1
<1>4. ElectionTypeOK
  BY <1>2, <1>3 DEF ElectionInit, ElectionTypeOK, MainType, Is
<1>5. ClaimsStand
  BY <1>3 DEF ClaimsStand, Is
<1>6. OneOwnerUnlessCleared
  BY <1>3 DEF OneOwnerUnlessCleared, Claimants
<1>. QED BY <1>4, <1>5, <1>6 DEF ElectionInv

LEMMA ElectionTypes ==
  ElectionTypeOK =>
    /\ main \in [Proc -> MainType] /\ \A p \in Proc : main[p] \in MainType
    /\ lockfile \in FileType /\ cleared \in BOOLEAN
BY DEF ElectionTypeOK, MainType, FileType

\* What a step of p makes of p's record: the record of a step that changes the
\* place alone, and of one that changes who p is connected to as well.
LEMMA MoveTyped ==
  ASSUME NEW p \in Proc, NEW pc \in MainStates, ElectionTypeOK, To(p, pc)
  PROVE  /\ main' \in [Proc -> MainType]
         /\ \A q \in Proc \ {p} : main'[q] = main[q]
         /\ main'[p].pc = pc /\ main'[p].file = main[p].file /\ main'[p].to = main[p].to
BY ElectionTypes DEF To, MainType

LEMMA MoveToTyped ==
  ASSUME NEW p \in Proc, NEW pc \in MainStates, NEW q \in Proc \cup {None}, ElectionTypeOK,
         main' = [main EXCEPT ![p].pc = pc, ![p].to = q]
  PROVE  /\ main' \in [Proc -> MainType]
         /\ \A r \in Proc \ {p} : main'[r] = main[r]
         /\ main'[p].pc = pc /\ main'[p].file = main[p].file /\ main'[p].to = q
BY ElectionTypes DEF MainType

LEMMA MoveFileTyped ==
  ASSUME NEW p \in Proc, NEW pc \in MainStates, NEW q \in Proc, ElectionTypeOK,
         main' = [main EXCEPT ![p].pc = pc, ![p].file = q]
  PROVE  /\ main' \in [Proc -> MainType]
         /\ \A r \in Proc \ {p} : main'[r] = main[r]
         /\ main'[p].pc = pc /\ main'[p].file = q /\ main'[p].to = main[p].to
BY ElectionTypes DEF MainType

Claiming(r) == r.pc \in {"fill", "serve", "own"}

\* The record of p after its step, with the record's type and its links.
PMoved(p) ==
  /\ main' \in [Proc -> MainType]
  /\ \A q \in Proc \ {p} : main'[q] = main[q]
  /\ main'[p].pc = "client" => main'[p].to # None
  /\ main'[p].to # None => main'[p].pc \in {"client", "gone"}

LEMMA ClientMoved ==
  ASSUME NEW p \in Proc, NEW q \in Proc, ElectionTypeOK,
         main' = [main EXCEPT ![p].pc = "client", ![p].to = q]
  PROVE  PMoved(p) /\ main'[p].pc = "client"
<1>1. "client" \in MainStates /\ q \in Proc \cup {None} /\ q # None
  BY ProcAssumption DEF MainStates
<1>2. /\ main' \in [Proc -> MainType] /\ main'[p].pc = "client" /\ main'[p].to = q
      /\ \A r \in Proc \ {p} : main'[r] = main[r]
  BY <1>1, ElectionTypes DEF MainType
<1>. QED BY <1>1, <1>2 DEF PMoved

\* Steps that move p to a place where it claims nothing, and leave the file.
Quiet(p) ==
  \/ Launch(p) \/ ReadNothing(p) \/ ReadOwner(p) \/ ReadStale(p) \/ Build(p)
  \/ Reread(p) \/ Stop(p) \/ Abort(p) \/ LoserDown(p) \/ Follow(p)
  \/ Reconnect(p) \/ Leave(p) \/ Die(p)

LEMMA QuietMoves ==
  ASSUME NEW p \in Proc, ElectionTypeOK, Quiet(p)
  PROVE  /\ PMoved(p)
         /\ main'[p].pc \notin {"fill", "serve", "own"}
         /\ lockfile' = lockfile /\ cleared' = cleared
<1>. USE ProcAssumption DEF MainStates
<1>0. /\ main[p] \in MainType
      /\ main[p].to # None => main[p].pc \in {"client", "gone"}
  BY ElectionTypes DEF ElectionTypeOK
<1>1. CASE Launch(p)
  BY <1>0, <1>1, MoveTyped DEF Launch, Is, PMoved
<1>2. CASE ReadNothing(p)
  BY <1>0, <1>2, MoveTyped DEF ReadNothing, Is, PMoved
<1>3. CASE ReadOwner(p)
  <2>1. PICK q \in Proc : main' = [main EXCEPT ![p].pc = "client", ![p].to = q]
    BY <1>3 DEF ReadOwner
  <2>2. PMoved(p) /\ main'[p].pc = "client"
    BY <2>1, ClientMoved
  <2>. QED BY <1>3, <2>2 DEF ReadOwner
<1>4. CASE ReadStale(p)
  BY <1>0, <1>4, MoveTyped DEF ReadStale, Is, PMoved
<1>5. CASE Build(p)
  BY <1>0, <1>5, MoveTyped DEF Build, Is, PMoved
<1>6. CASE Reread(p)
  <2>1. PICK pc \in {"abort", "lost", "truncate"} : To(p, pc)
    BY <1>6 DEF Reread
  <2>. QED BY <1>0, <1>6, <2>1, MoveTyped DEF Reread, Is, PMoved
<1>7. CASE Stop(p)
  BY <1>0, <1>7, MoveTyped DEF Stop, Is, PMoved
<1>8. CASE Abort(p)
  BY <1>0, <1>8, MoveTyped DEF Abort, Is, PMoved
<1>9. CASE LoserDown(p)
  BY <1>0, <1>9, MoveTyped DEF LoserDown, Is, PMoved
<1>10. CASE Follow(p)
  <2>1. CASE main' = [main EXCEPT ![p].pc = "client", ![p].to = lockfile.pid] /\ Exists /\ ~Empty
    <3>1. lockfile.pid \in Proc
      BY <2>1, ElectionTypes DEF Exists, Empty, FileType
    <3>2. PMoved(p) /\ main'[p].pc = "client"
      BY <2>1, <3>1, ClientMoved
    <3>. QED BY <1>10, <3>2 DEF Follow
  <2>2. CASE To(p, "gone")
    BY <1>0, <1>10, <2>2, MoveTyped DEF Follow, Is, PMoved
  <2>. QED BY <1>10, <2>1, <2>2 DEF Follow
<1>11. CASE Reconnect(p)
  BY <1>0, <1>11, MoveToTyped DEF Reconnect, Is, PMoved
<1>12. CASE Leave(p)
  BY <1>0, <1>12, MoveTyped DEF Leave, Is, PMoved
<1>13. CASE Die(p)
  BY <1>0, <1>13, MoveTyped DEF Die, PMoved
<1>. QED BY <1>1, <1>2, <1>3, <1>4, <1>5, <1>6, <1>7, <1>8, <1>9, <1>10, <1>11, <1>12, <1>13
         DEF Quiet

\* Types again, once the record of p and the file have theirs.
LEMMA ElectionFromParts ==
  ASSUME NEW p \in Proc, ElectionTypeOK, PMoved(p), lockfile' \in FileType,
         cleared' \in BOOLEAN
  PROVE  ElectionTypeOK'
<1>1. \A q \in Proc : /\ main'[q].pc = "client" => main'[q].to # None
                      /\ main'[q].to # None => main'[q].pc \in {"client", "gone"}
  BY DEF PMoved, ElectionTypeOK, Is
<1>. QED BY <1>1 DEF PMoved, ElectionTypeOK, Is, MainType, FileType

LEMMA QuietKeeps ==
  ASSUME NEW p \in Proc, ElectionInv, Quiet(p)
  PROVE  ElectionInv'
<1>1. /\ PMoved(p) /\ main'[p].pc \notin {"fill", "serve", "own"}
      /\ lockfile' = lockfile /\ cleared' = cleared
  BY QuietMoves DEF ElectionInv
<1>2. ElectionTypeOK'
  BY <1>1, ElectionTypes, ElectionFromParts DEF ElectionInv
<1>3. \A q \in Proc : Claiming(main'[q]) => q # p /\ main'[q] = main[q]
  BY <1>1 DEF PMoved, Claiming
<1>4. ClaimsStand'
  BY <1>1, <1>3 DEF ElectionInv, ClaimsStand, Is, Names, Exists, Claiming
<1>5. OneOwnerUnlessCleared'
  BY <1>1, <1>3 DEF ElectionInv, OneOwnerUnlessCleared, Claimants, Claiming
<1>. QED BY <1>2, <1>4, <1>5 DEF ElectionInv

\* Steps that write or remove the file.
LEMMA FileMoves ==
  ASSUME NEW p \in Proc, ElectionTypeOK,
         RemoveStale(p) \/ Unlist(p) \/ Claim(p) \/ Truncate(p) \/ Fill(p) \/ Serve(p)
  PROVE  PMoved(p) /\ lockfile' \in FileType /\ cleared' \in BOOLEAN
<1>. USE ProcAssumption DEF MainStates
<1>0. /\ main[p] \in MainType /\ lockfile \in FileType /\ cleared \in BOOLEAN
      /\ main[p].to # None => main[p].pc \in {"client", "gone"}
  BY ElectionTypes DEF ElectionTypeOK
<1>1. CASE RemoveStale(p)
  <2>1. PMoved(p)
    BY <1>0, <1>1, MoveTyped DEF RemoveStale, Is, PMoved
  <2>. QED BY <1>0, <1>1, <2>1 DEF RemoveStale, RemoveFile, FileType
<1>2. CASE Unlist(p)
  <2>1. PMoved(p)
    BY <1>0, <1>2, MoveTyped DEF Unlist, Is, PMoved
  <2>. QED BY <1>0, <1>2, <2>1 DEF Unlist, RemoveFile, FileType
<1>3. CASE Claim(p)
  <2>1. CASE Exists
    BY <1>0, <1>3, <2>1, MoveTyped DEF Claim, Is, PMoved
  <2>2. CASE ~Exists
    <3>2. "fill" \in MainStates /\ main' = [main EXCEPT ![p].pc = "fill", ![p].file = p]
      BY <1>3, <2>2 DEF Claim
    <3>3. /\ main' \in [Proc -> MainType] /\ \A r \in Proc \ {p} : main'[r] = main[r]
          /\ main'[p].pc = "fill" /\ main'[p].to = main[p].to
      BY <3>2, MoveFileTyped
    <3>1. PMoved(p)
      BY <1>0, <1>3, <3>3 DEF Claim, Is, PMoved
    <3>. QED BY <1>0, <1>3, <2>2, <3>1 DEF Claim, FileType
  <2>. QED BY <2>1, <2>2
<1>4. CASE Truncate(p)
  <2>1. lockfile' \in FileType /\ lockfile'.file \in Proc /\ cleared' \in BOOLEAN
    BY <1>0, <1>4 DEF Truncate, FileType, Exists
  <2>3. /\ "fill" \in MainStates
        /\ main' = [main EXCEPT ![p].pc = "fill", ![p].file = lockfile'.file]
    BY <1>4 DEF Truncate
  <2>4. /\ main' \in [Proc -> MainType] /\ \A r \in Proc \ {p} : main'[r] = main[r]
        /\ main'[p].pc = "fill" /\ main'[p].to = main[p].to
    BY <2>1, <2>3, MoveFileTyped
  <2>2. PMoved(p)
    BY <1>0, <1>4, <2>4 DEF Truncate, Is, PMoved
  <2>. QED BY <2>1, <2>2
<1>5. CASE Fill(p)
  <2>1. PMoved(p)
    BY <1>0, <1>5, MoveTyped DEF Fill, Is, PMoved
  <2>2. lockfile' \in FileType
    BY <1>0, <1>5 DEF Fill, FileType, Exists
  <2>. QED BY <1>0, <1>5, <2>1, <2>2 DEF Fill
<1>6. CASE Serve(p)
  BY <1>0, <1>6, MoveTyped DEF Serve, Is, PMoved
<1>. QED BY <1>1, <1>2, <1>3, <1>4, <1>5, <1>6

\* A claimant's claim is good.
LEMMA ClaimsGood ==
  ASSUME ElectionInv, ~cleared, NEW p \in Proc, Claiming(main[p])
  PROVE  /\ Exists /\ GoodClaim
         /\ Is(p, "fill") => Empty
         /\ ~Is(p, "fill") => lockfile.pid = p
<1>. USE ProcAssumption
<1>1. CASE Is(p, "fill")
  <2>1. lockfile = [file |-> main[p].file, pid |-> None]
    BY <1>1 DEF ElectionInv, ClaimsStand
  <2>2. lockfile.file = main[p].file /\ lockfile.pid = None
    BY <2>1
  <2>3. main[p].file \in Proc \cup {None}
    BY ElectionTypes DEF ElectionInv, MainType
  <2>4. lockfile # None
    BY <2>1, <2>3
  <2>. QED BY <1>1, <2>2, <2>4 DEF Is, Exists, Empty, GoodClaim
<1>2. CASE Is(p, "serve") \/ Is(p, "own")
  BY <1>2 DEF ElectionInv, ClaimsStand, Is, Names, Exists, GoodClaim
<1>. QED BY <1>1, <1>2 DEF Claiming, Is

\* After a step of p on the file, p may be the only claimant.
LEMMA AloneKeeps ==
  ASSUME NEW p \in Proc, ElectionInv, PMoved(p), lockfile' \in FileType, cleared' \in BOOLEAN,
         ~cleared' => /\ \A q \in Proc \ {p} : ~Claiming(main[q])
                      /\ main'[p].pc = "fill" =>
                            lockfile' = [file |-> main'[p].file, pid |-> None]
                      /\ main'[p].pc \in {"serve", "own"} => Names(p)'
  PROVE  ElectionInv'
<1>1. ElectionTypeOK'
  BY ElectionFromParts DEF ElectionInv
<1>2. ~cleared' => \A q \in Proc \ {p} : ~Claiming(main'[q])
  BY DEF PMoved
<1>3. ClaimsStand'
  BY <1>2 DEF ClaimsStand, Is, Claiming
<1>4. OneOwnerUnlessCleared'
  BY <1>2 DEF OneOwnerUnlessCleared, Claimants, Claiming
<1>. QED BY <1>1, <1>3, <1>4 DEF ElectionInv

\* Nobody else claims beside a claimant, and nobody claims without a good claim.
LEMMA NobodyElse ==
  ASSUME ElectionInv, ~cleared, NEW p \in Proc, ~GoodClaim \/ Claiming(main[p])
  PROVE  \A q \in Proc \ {p} : ~Claiming(main[q])
BY ClaimsGood DEF ElectionInv, OneOwnerUnlessCleared, Claimants, Claiming

LEMMA RemovalKeeps ==
  ASSUME NEW p \in Proc, ElectionInv, RemoveStale(p) \/ Unlist(p)
  PROVE  ElectionInv'
<1>1. PMoved(p) /\ lockfile' \in FileType /\ cleared' \in BOOLEAN
  BY FileMoves DEF ElectionInv
<1>2. main'[p].pc \in {"build", "gone"}
  BY MoveTyped DEF RemoveStale, Unlist, ElectionInv, MainStates
<1>3. ~Claiming(main[p])
  BY DEF RemoveStale, Unlist, Is, Claiming
<1>4. ~cleared' => ~cleared /\ (~GoodClaim \/ Names(p))
  BY DEF RemoveStale, Unlist, RemoveFile
<1>5. ASSUME ~cleared', NEW q \in Proc \ {p}, Claiming(main[q]) PROVE FALSE
  <2>1. CASE ~GoodClaim
    BY <1>4, <1>5, <2>1, ClaimsGood
  <2>2. CASE Names(p)
    BY <1>4, <1>5, <2>2, ClaimsGood, ProcAssumption DEF Names, Empty
  <2>. QED BY <1>4, <1>5, <2>1, <2>2
<1>6. ~cleared' => \A q \in Proc \ {p} : ~Claiming(main[q])
  BY <1>5
<1>. QED BY <1>1, <1>2, <1>6, AloneKeeps

LEMMA ClaimKeeps ==
  ASSUME NEW p \in Proc, ElectionInv, Claim(p)
  PROVE  ElectionInv'
<1>1. PMoved(p) /\ lockfile' \in FileType /\ cleared' \in BOOLEAN /\ cleared' = cleared
  BY FileMoves DEF ElectionInv, Claim
<1>2. CASE Exists
  <2>1. main'[p].pc = "reread" /\ lockfile' = lockfile
    BY <1>2, MoveTyped DEF Claim, ElectionInv, MainStates
  <2>2. \A q \in Proc : Claiming(main'[q]) => q # p /\ main'[q] = main[q]
    BY <1>1, <2>1 DEF PMoved, Claiming
  <2>3. ElectionTypeOK'
    BY <1>1, ElectionFromParts DEF ElectionInv
  <2>4. ClaimsStand'
    BY <1>1, <2>1, <2>2 DEF ElectionInv, ClaimsStand, Is, Names, Exists, Claiming
  <2>5. OneOwnerUnlessCleared'
    BY <1>1, <2>2 DEF ElectionInv, OneOwnerUnlessCleared, Claimants, Claiming
  <2>. QED BY <2>3, <2>4, <2>5 DEF ElectionInv
<1>3. CASE ~Exists
  <2>1. ~cleared' => \A q \in Proc \ {p} : ~Claiming(main[q])
    BY <1>1, <1>3, ClaimsGood
  <2>4. "fill" \in MainStates /\ main' = [main EXCEPT ![p].pc = "fill", ![p].file = p]
    BY <1>3 DEF Claim, MainStates
  <2>5. ElectionTypeOK
    BY DEF ElectionInv
  <2>2. main'[p].pc = "fill" /\ main'[p].file = p
    BY <2>4, <2>5, ElectionTypes DEF MainType
  <2>3. lockfile' = [file |-> p, pid |-> None]
    BY <1>3 DEF Claim
  <2>. QED BY <1>1, <2>1, <2>2, <2>3, AloneKeeps
<1>. QED BY <1>2, <1>3

LEMMA TruncateKeeps ==
  ASSUME NEW p \in Proc, ElectionInv, Truncate(p)
  PROVE  ElectionInv'
<1>1. PMoved(p) /\ lockfile' \in FileType /\ cleared' \in BOOLEAN
  BY FileMoves DEF ElectionInv
<1>2. ~cleared' => ~cleared /\ ~GoodClaim
  BY DEF Truncate
<1>3. ~cleared' => \A q \in Proc \ {p} : ~Claiming(main[q])
  BY <1>2, ClaimsGood
<1>4. lockfile'.file \in Proc /\ lockfile' = [file |-> lockfile'.file, pid |-> None]
  <2>1. lockfile # None => lockfile.file \in Proc
    BY ElectionTypes DEF ElectionInv, FileType
  <2>. QED BY <2>1 DEF Truncate, Exists
<1>6. /\ "fill" \in MainStates
      /\ main' = [main EXCEPT ![p].pc = "fill", ![p].file = lockfile'.file]
  BY DEF Truncate, MainStates
<1>5. main'[p].pc = "fill" /\ main'[p].file = lockfile'.file
  <2>1. ElectionTypeOK /\ lockfile'.file \in Proc
    BY <1>4 DEF ElectionInv
  <2>. QED BY <1>6, <2>1, ElectionTypes DEF MainType
<1>. QED BY <1>1, <1>3, <1>4, <1>5, AloneKeeps

LEMMA FillKeeps ==
  ASSUME NEW p \in Proc, ElectionInv, Fill(p) \/ Serve(p)
  PROVE  ElectionInv'
<1>1. PMoved(p) /\ lockfile' \in FileType /\ cleared' \in BOOLEAN
  BY FileMoves DEF ElectionInv
<1>2. Claiming(main[p]) /\ (~cleared' => ~cleared)
  <2>1. CASE Fill(p)
    BY <2>1 DEF Fill, Is, Claiming
  <2>2. CASE Serve(p)
    BY <2>2 DEF Serve, Is, Claiming
  <2>. QED BY <2>1, <2>2
<1>3. ~cleared' => \A q \in Proc \ {p} : ~Claiming(main[q])
  BY <1>2, NobodyElse
<1>4. main'[p].pc \in {"serve", "own"}
  BY MoveTyped DEF Fill, Serve, ElectionInv, MainStates
<1>5. ~cleared' => Names(p)'
  <2>. SUFFICES ASSUME ~cleared' PROVE Names(p)'
    OBVIOUS
  <2>1. CASE Fill(p)
    <3>1. lockfile = [file |-> main[p].file, pid |-> None]
      BY <1>2, <2>1 DEF ElectionInv, ClaimsStand, Fill
    <3>2. lockfile # None
      BY <1>2, <2>1, ClaimsGood DEF Exists
    <3>3. lockfile' = [lockfile EXCEPT !.pid = p]
      BY <2>1, <3>1, <3>2 DEF Fill, Exists
    <3>4. lockfile'.pid = p
      BY <3>1, <3>3
    <3>5. lockfile' # None
      <4>1. main[p].file \in Proc
        BY <3>1, <3>2, ElectionTypes DEF ElectionInv, FileType
      <4>2. lockfile' = [file |-> main[p].file, pid |-> p]
        BY <3>1, <3>3
      <4>. QED BY <4>1, <4>2, ProcAssumption
    <3>. QED BY <3>4, <3>5 DEF Names, Exists
  <2>2. CASE Serve(p)
    BY <1>2, <2>2 DEF ElectionInv, ClaimsStand, Serve, Names, Exists, Is
  <2>. QED BY <2>1, <2>2
<1>. QED BY <1>1, <1>3, <1>4, <1>5, AloneKeeps

LEMMA ElectionKeeps ==
  ASSUME NEW p \in Proc, ElectionInv, ElectionStep(p)
  PROVE  ElectionInv'
BY QuietKeeps, RemovalKeeps, ClaimKeeps, TruncateKeeps, FillKeeps DEF ElectionStep, Quiet
-----------------------------------------------------------------------------
(* The whole.                                                              *)

AnElectionStep == \E p \in Proc : ElectionStep(p)

\* A step of the whole is a step of a half, or of both.
LEMMA Halves ==
  ASSUME Next
  PROVE  /\ LaneNext \/ UNCHANGED laneVars
         /\ AnElectionStep \/ UNCHANGED electionVars
<1>1. CASE Day
  BY <1>1 DEF Day, LaneNext, LaneOnly
<1>. SUFFICES ASSUME NEW p \in Proc,
                     \/ Discover(p) \/ Boot(p) \/ Elect(p) \/ Sweep(p) \/ ShutDown(p) \/ Crash(p)
                     \/ \E t \in Thread : Begin(p, t) \/ Continue(p, t)
              PROVE  /\ LaneNext \/ UNCHANGED laneVars
                     /\ AnElectionStep \/ UNCHANGED electionVars
  BY <1>1 DEF Next
<1>2. CASE Discover(p)
  BY <1>2 DEF Discover, AnElectionStep, ElectionStep, ElectionOnly
<1>3. CASE Boot(p)
  BY <1>3 DEF Boot, AnElectionStep, ElectionStep, LaneNext
<1>4. CASE Elect(p)
  BY <1>4 DEF Elect, AnElectionStep, ElectionStep, ElectionOnly
<1>5. CASE Sweep(p)
  BY <1>5 DEF Sweep, LaneOnly, LaneNext
<1>6. CASE ShutDown(p)
  BY <1>6 DEF ShutDown, Ends, AnElectionStep, ElectionStep, ElectionOnly, LaneOnly, LaneNext
<1>7. CASE Crash(p)
  BY <1>7 DEF Crash, Ends, AnElectionStep, ElectionStep, LaneNext
<1>8. ASSUME NEW t \in Thread, Begin(p, t)
      PROVE  /\ LaneNext \/ UNCHANGED laneVars
             /\ AnElectionStep \/ UNCHANGED electionVars
  BY <1>8 DEF Begin, LaneOnly, LaneNext
<1>9. ASSUME NEW t \in Thread, Continue(p, t)
      PROVE  /\ LaneNext \/ UNCHANGED laneVars
             /\ AnElectionStep \/ UNCHANGED electionVars
  BY <1>9 DEF Continue, LaneOnly, LaneNext, ThreadStep
<1>. QED BY <1>2, <1>3, <1>4, <1>5, <1>6, <1>7, <1>8, <1>9

LEMMA ElectionStutters ==
  ASSUME ElectionInv, UNCHANGED electionVars
  PROVE  ElectionInv'
BY DEF electionVars, ElectionInv, ElectionTypeOK, ClaimsStand, OneOwnerUnlessCleared,
       Claimants, Is, Names, Exists

\* The inductive invariant of the whole.
LEMMA Invariant == Spec => [](LaneInv /\ ElectionInv)
<1>1. Init => LaneInv /\ ElectionInv
  BY LaneStarts, ElectionStarts DEF Init
<1>2. LaneInv /\ ElectionInv /\ [Next]_vars => (LaneInv /\ ElectionInv)'
  <2>. SUFFICES ASSUME LaneInv, ElectionInv, [Next]_vars
                PROVE  LaneInv' /\ ElectionInv'
    OBVIOUS
  <2>1. /\ LaneNext \/ UNCHANGED laneVars
        /\ AnElectionStep \/ UNCHANGED electionVars
    BY Halves DEF vars
  <2>2. LaneInv'
    BY <2>1, LaneKeeps
  <2>3. ElectionInv'
    BY <2>1, ElectionKeeps, ElectionStutters DEF AnElectionStep
  <2>. QED BY <2>2, <2>3
<1>. QED BY <1>1, <1>2, PTL DEF Spec

\* Every variable of the lane keeps its type, and the descriptors their links
\* to the VCS values.
THEOREM LaneTypes == Spec => []LaneTypeOK
<1>1. LaneInv /\ ElectionInv => LaneTypeOK
  BY DEF LaneInv, LocksInv
<1>. QED BY <1>1, Invariant, PTL

\* Every variable of the election keeps its type.
THEOREM ElectionTypesKept == Spec => []ElectionTypeOK
<1>1. LaneInv /\ ElectionInv => ElectionTypeOK
  BY DEF ElectionInv
<1>. QED BY <1>1, Invariant, PTL

\* Two goroutines of one process are never in the body of the lane together.
THEOREM OneGoroutine == Spec => []ProcessExclusive
<1>1. LaneInv /\ ElectionInv => ProcessExclusive
  BY OneInBody DEF LaneInv, ProcessExclusive
<1>. QED BY <1>1, Invariant, PTL

\* While no descriptor in use has lost its file, one goroutine on the machine
\* is in the body of the lane.
THEOREM OneWriter == Spec => []ExclusiveUnlessWeak
<1>1. LaneInv /\ ElectionInv => ExclusiveUnlessWeak
  BY OneOnMachine DEF LaneInv, ExclusiveUnlessWeak, LaneExclusive
<1>. QED BY <1>1, Invariant, PTL

\* Under the same condition no accepted edit is lost.
THEOREM NoEditLost == Spec => []EditsKept
<1>1. LaneInv /\ ElectionInv => EditsKept
  BY DEF LaneInv
<1>. QED BY <1>1, Invariant, PTL

\* While no good claim has been removed, one process owns the project.
THEOREM OneBackend == Spec => []OneOwnerUnlessCleared
<1>1. LaneInv /\ ElectionInv => OneOwnerUnlessCleared
  BY DEF ElectionInv
<1>. QED BY <1>1, Invariant, PTL

-----------------------------------------------------------------------------
(* The edits: the whole implements the store.                              *)

\* A lane that has lost its file stays one that has.
LEMMA WeakStays ==
  ASSUME LaneNext \/ UNCHANGED laneVars, weak
  PROVE  weak'
<1>1. CASE UNCHANGED laneVars
  BY <1>1 DEF laneVars
<1>2. CASE Age
  BY <1>2 DEF Age
<1>3. ASSUME NEW p \in Proc, SweepUnlink(p) \/ CloseUnlink(p) PROVE weak'
  BY <1>3 DEF SweepUnlink, CloseUnlink
<1>4. ASSUME NEW p \in Proc, CloseProbe(p) PROVE weak'
  BY <1>4 DEF CloseProbe
<1>5. ASSUME NEW p \in Proc, Open(p) \/ SweepOpen(p) \/ SweepTryLock(p) \/ Exit(p) PROVE weak'
  BY <1>5 DEF Open, SweepOpen, SweepTryLock, Exit
<1>6. ASSUME NEW p \in Proc, NEW t \in Thread, LockRepo(p, t) \/ LockRepoDegraded(p, t) PROVE weak'
  BY <1>6 DEF LockRepo, LockRepoDegraded
<1>7. ASSUME NEW p \in Proc, NEW t \in Thread, ThreadStep(p, t) PROVE weak'
  BY <1>7 DEF ThreadStep, TakeMutex, TakeFlock, Inspect, RecordEdit, CommitRead, CommitWrite,
              CommitFails, ReleaseFlock, ReleaseMutex
<1>. QED BY <1>1, <1>2, <1>3, <1>4, <1>5, <1>6, <1>7 DEF LaneNext

\* Only RecordEdit and CommitWrite touch the edits, and they keep weak.
LEMMA EditSteps ==
  ASSUME LaneNext \/ UNCHANGED laneVars
  PROVE  \/ UNCHANGED <<pending, head>>
         \/ \E p \in Proc, t \in Thread : RecordEdit(p, t) \/ CommitWrite(p, t)
<1>1. CASE UNCHANGED laneVars
  BY <1>1 DEF laneVars
<1>2. CASE Age
  BY <1>2 DEF Age
<1>3. ASSUME NEW p \in Proc,
             \/ Open(p) \/ SweepOpen(p) \/ SweepTryLock(p) \/ SweepUnlink(p)
             \/ CloseProbe(p) \/ CloseUnlink(p) \/ Exit(p)
      PROVE  UNCHANGED <<pending, head>>
  BY <1>3 DEF Open, SweepOpen, SweepTryLock, SweepUnlink, CloseProbe, CloseUnlink, Exit
<1>4. ASSUME NEW p \in Proc, NEW t \in Thread, LockRepo(p, t) \/ LockRepoDegraded(p, t)
      PROVE  UNCHANGED <<pending, head>>
  BY <1>4 DEF LockRepo, LockRepoDegraded
<1>5. ASSUME NEW p \in Proc, NEW t \in Thread, ThreadStep(p, t),
             ~RecordEdit(p, t), ~CommitWrite(p, t)
      PROVE  UNCHANGED <<pending, head>>
  BY <1>5 DEF ThreadStep, TakeMutex, TakeFlock, Inspect, CommitRead, CommitFails,
              ReleaseFlock, ReleaseMutex
<1>. QED BY <1>1, <1>2, <1>3, <1>4, <1>5 DEF LaneNext

\* A step of the lane is a step of the store: CommitWrite of the whole commit,
\* because what CommitRead saw is still what there is.
LEMMA StoreStep ==
  ASSUME LaneInv, LaneInv', LaneNext \/ UNCHANGED laneVars
  PROVE  Store!Next \/ UNCHANGED Store!vars
<1>1. CASE weak
  BY <1>1, WeakStays DEF Store!Next, Store!Adrift
<1>2. CASE ~weak /\ UNCHANGED <<pending, head>>
  <2>1. weak' \in BOOLEAN
    BY DEF LaneInv, LocksInv, LaneTypeOK
  <2>. QED BY <1>2, <2>1 DEF Store!Next, Store!Break, Store!vars, LaneInv, LocksInv, LaneTypeOK
<1>3. ASSUME ~weak, NEW p \in Proc, NEW t \in Thread, RecordEdit(p, t)
      PROVE  Store!Next
  <2>1. PICK e \in Edit \ recorded : pending' = pending \cup {e}
    BY <1>3 DEF RecordEdit
  <2>2. e \notin pending \cup head /\ head' = head /\ weak' = weak
    BY <1>3, <2>1 DEF LaneInv, EditsKept, RecordEdit
  <2>. QED BY <1>3, <2>1, <2>2 DEF Store!Next, Store!Record
<1>4. ASSUME ~weak, NEW p \in Proc, NEW t \in Thread, CommitWrite(p, t)
      PROVE  Store!Next \/ UNCHANGED Store!vars
  <2>1. thr[p][t].tree = head /\ thr[p][t].rows = pending
    BY <1>4 DEF LaneInv, CommitCurrent, CommitWrite
  <2>2. head' = head \cup pending /\ pending' = {} /\ weak' = weak
    BY <1>4, <2>1 DEF CommitWrite
  <2>. QED BY <1>4, <2>2 DEF Store!Next, Store!Commit, Store!vars
<1>. QED BY <1>1, <1>2, <1>3, <1>4, EditSteps

\* What autoVCS does with the edits of a repository is what the store does: a
\* commit folds in what is pending at that moment and nothing else, whichever
\* processes and goroutines record and commit meanwhile.
THEOREM LaneImplementsStore == Spec => ImplementsStore
<1>1. Init => Store!Init
  BY DEF Init, LaneInit, Store!Init
<1>2. /\ LaneInv /\ ElectionInv
      /\ (LaneInv /\ ElectionInv)'
      /\ [Next]_vars
      => [Store!Next]_(Store!vars)
  <2>. SUFFICES ASSUME LaneInv, LaneInv', [Next]_vars
                PROVE  Store!Next \/ UNCHANGED Store!vars
    OBVIOUS
  <2>1. LaneNext \/ UNCHANGED laneVars
    BY Halves DEF vars
  <2>. QED BY <2>1, StoreStep
<1>. QED BY <1>1, <1>2, Invariant, PTL DEF Spec, ImplementsStore, Store!Spec

-----------------------------------------------------------------------------
(* The locks: whoever holds one is about to give it up.                    *)

\* A goroutine works with the descriptor its process retains or with a closed
\* one, whatever has happened to the file.
FdCurrent ==
  \A p \in Proc, t \in Thread : thr[p][t].f \in {None, Closed, lane[p]}

\* p is about to give the kernel's lock on i up.
SweepLetsGo(p, i) == owner[i] = SweepFd(p) /\ sweep[p].st = "locked" /\ sweep[p].f = i
LaneLetsGo(p, i) ==
  /\ owner[i] = LaneFd(p) /\ lane[p] = i
  /\ \/ vcs[p] = "reclaim"
     \/ \E t \in Thread : thr[p][t].f = i /\ thr[p][t].pc \in {"in", "write", "release"}

FilesHeld ==
  \A i \in Inode : owner[i] # None => \E p \in Proc : SweepLetsGo(p, i) \/ LaneLetsGo(p, i)

MutexesHeld ==
  \A p \in Proc : mu[p] # None =>
    thr[p][mu[p]].pc \in {"flock", "in", "write", "release", "unlock"}

HeldInv == FdCurrent /\ FilesHeld /\ MutexesHeld

LEMMA HeldParts == FilesHeld /\ MutexesHeld <=> LocksHeld
BY DEF FilesHeld, MutexesHeld, SweepLetsGo, LaneLetsGo, LocksHeld

\* Steps of a process that leave the locks, the lanes and the goroutines, and
\* that p takes while it neither reclaims nor sweeps a file it holds.
LEMMA HeldAside ==
  ASSUME HeldInv, NEW p \in Proc, UNCHANGED <<owner, lane, mu, thr>>,
         \A q \in Proc \ {p} : sweep'[q] = sweep[q] /\ vcs'[q] = vcs[q],
         sweep[p].st # "locked" \/ sweep'[p] = sweep[p],
         vcs[p] # "reclaim" \/ vcs'[p] = vcs[p]
  PROVE  HeldInv'
<1>1. \A q \in Proc, i \in Inode :
        /\ SweepLetsGo(q, i) => SweepLetsGo(q, i)'
        /\ LaneLetsGo(q, i) => LaneLetsGo(q, i)'
  BY DEF SweepLetsGo, LaneLetsGo
<1>. QED BY <1>1 DEF HeldInv, FdCurrent, FilesHeld, MutexesHeld

\* The steps of a goroutine that leave the lanes and the VCS values.
LEMMA HeldMove ==
  ASSUME HeldInv, LaneVarsTyped, NEW p \in Proc, NEW t \in Thread, NEW r, OneMoved(p, t, r),
         UNCHANGED <<vcs, lane, sweep>>,
         r.f \in {None, Closed, lane[p]},
         \A i \in Inode : \/ owner'[i] = None
                          \/ owner'[i] = owner[i] /\ owner[i] # None
                             /\ (LaneLetsGo(p, i) => LaneLetsGo(p, i)')
                          \/ LaneLetsGo(p, i)',
         \A q \in Proc : mu'[q] # None =>
           \/ q = p /\ mu'[q] = t /\ r.pc \in {"flock", "in", "write", "release", "unlock"}
           \/ mu'[q] = mu[q] /\ (q # p \/ mu[q] # t)
  PROVE  HeldInv'
<1>1. FdCurrent'
  BY DEF HeldInv, FdCurrent, OneMoved
<1>2. \A q \in Proc, i \in Inode : owner'[i] = owner[i] =>
        /\ SweepLetsGo(q, i) => SweepLetsGo(q, i)'
        /\ q # p /\ LaneLetsGo(q, i) => LaneLetsGo(q, i)'
  BY DEF SweepLetsGo, LaneLetsGo, OneMoved
<1>3. FilesHeld'
  BY <1>2 DEF HeldInv, FilesHeld
<1>4. MutexesHeld'
  <2>. SUFFICES ASSUME NEW q \in Proc, mu'[q] # None
                PROVE  thr'[q][mu'[q]].pc \in {"flock", "in", "write", "release", "unlock"}
    BY DEF MutexesHeld
  <2>1. CASE q = p /\ mu'[q] = t
    BY <2>1 DEF OneMoved
  <2>2. CASE mu'[q] = mu[q] /\ (q # p \/ mu[q] # t)
    <3>1. mu[q] \in Thread
      BY <2>2 DEF LaneVarsTyped
    <3>2. thr'[q][mu[q]] = thr[q][mu[q]]
      BY <2>2, <3>1 DEF OneMoved
    <3>. QED BY <2>2, <3>2 DEF HeldInv, MutexesHeld
  <2>. QED BY <2>1, <2>2
<1>. QED BY <1>1, <1>3, <1>4 DEF HeldInv

\* The steps in which p's lane goes away.
LEMMA HeldGone ==
  ASSUME HeldInv, LaneVarsTyped, NEW p \in Proc, LaneGone(p),
         \A t \in Thread : thr'[p][t].f \in {None, Closed},
         \A i \in Inode : owner'[i] = None \/ (owner'[i] = owner[i] /\ owner[i] # LaneFd(p)),
         \A q \in Proc \ {p} : sweep'[q] = sweep[q] /\ vcs'[q] = vcs[q] /\ mu'[q] = mu[q],
         \A i \in Inode : owner'[i] = SweepFd(p) => sweep'[p] = sweep[p],
         mu'[p] = None \/ (mu'[p] = mu[p] /\ \A t \in Thread : thr'[p][t].pc = thr[p][t].pc)
  PROVE  HeldInv'
<1>1. FdCurrent'
  BY DEF HeldInv, FdCurrent, LaneGone, Captured
<1>2. \A q \in Proc, i \in Inode : owner'[i] = owner[i] =>
        /\ SweepLetsGo(q, i) => SweepLetsGo(q, i)'
        /\ q # p /\ LaneLetsGo(q, i) => LaneLetsGo(q, i)'
  BY DEF SweepLetsGo, LaneLetsGo, LaneGone
<1>3. \A i \in Inode : owner'[i] = owner[i] /\ owner[i] # LaneFd(p) => ~LaneLetsGo(p, i)
  BY DEF LaneLetsGo
<1>4. FilesHeld'
  BY <1>2, <1>3 DEF HeldInv, FilesHeld
<1>5. MutexesHeld'
  <2>. SUFFICES ASSUME NEW q \in Proc, mu'[q] # None
                PROVE  thr'[q][mu'[q]].pc \in {"flock", "in", "write", "release", "unlock"}
    BY DEF MutexesHeld
  <2>1. mu'[q] = mu[q] /\ mu[q] \in Thread
    BY DEF LaneVarsTyped
  <2>2. thr'[q][mu[q]].pc = thr[q][mu[q]].pc
    BY <2>1 DEF LaneGone
  <2>. QED BY <2>1, <2>2 DEF HeldInv, MutexesHeld
<1>. QED BY <1>1, <1>4, <1>5 DEF HeldInv


LEMMA HeldProcess ==
  ASSUME LocksInv, HeldInv, NEW p \in Proc,
         \/ Open(p) \/ SweepOpen(p) \/ SweepTryLock(p) \/ SweepUnlink(p)
         \/ CloseProbe(p) \/ CloseUnlink(p) \/ Exit(p)
  PROVE  HeldInv'
<1>1. LaneVarsTyped /\ ThreadsTyped
  BY LaneTypeParts DEF LocksInv
<1>2. CASE Open(p)
  <2>1. sweep[p].st # "locked" /\ vcs[p] # "reclaim"
    BY <1>1, <1>2 DEF Open, LaneVarsTyped, ValueLinks
  <2>. QED BY <1>1, <1>2, <2>1, HeldAside DEF Open, LaneVarsTyped
<1>3. CASE SweepOpen(p)
  <2>1. UNCHANGED <<owner, lane, mu, thr, vcs>> /\ sweep[p].st = "never"
    BY <1>3 DEF SweepOpen
  <2>2. \A q \in Proc \ {p} : sweep'[q] = sweep[q]
    BY <1>1, <1>3 DEF SweepOpen, LaneVarsTyped
  <2>. QED BY <2>1, <2>2, HeldAside
<1>4. CASE SweepTryLock(p)
  <2>1. UNCHANGED <<lane, mu, thr, vcs>> /\ sweep[p].st = "opened" /\ sweep[p].f \in Inode
    BY <1>1, <1>4 DEF SweepTryLock, LaneVarsTyped, ValueLinks, SweepType
  <2>2. CASE owner[sweep[p].f] = None
    <3>. DEFINE j == sweep[p].f
    <3>1. /\ owner' = [owner EXCEPT ![j] = SweepFd(p)]
          /\ sweep' = [sweep EXCEPT ![p].st = "locked"]
      BY <1>4, <2>2 DEF SweepTryLock
    <3>2. SweepMoved(p, "locked", j)
      BY <1>1, <3>1, SweepLockRecord
    <3>3. owner'[j] = SweepFd(p) /\ \A i \in Inode \ {j} : owner'[i] = owner[i]
      BY <1>1, <2>1, <3>1 DEF LaneVarsTyped
    <3>4. \A i \in Inode : i = j => SweepLetsGo(p, i)'
      BY <3>2, <3>3 DEF SweepLetsGo, SweepMoved
    <3>5. \A q \in Proc, i \in Inode \ {j} :
            /\ SweepLetsGo(q, i) => SweepLetsGo(q, i)'
            /\ LaneLetsGo(q, i) => LaneLetsGo(q, i)'
      BY <2>1, <3>2, <3>3 DEF SweepLetsGo, LaneLetsGo, SweepMoved
    <3>6. FilesHeld'
      BY <3>3, <3>4, <3>5 DEF HeldInv, FilesHeld
    <3>. QED BY <2>1, <3>6 DEF HeldInv, FdCurrent, MutexesHeld
  <2>3. CASE owner[sweep[p].f] # None
    BY <1>1, <1>4, <2>1, <2>3, HeldAside DEF SweepTryLock, LaneVarsTyped
  <2>. QED BY <2>2, <2>3
<1>5. CASE SweepUnlink(p)
  <2>. DEFINE j == sweep[p].f
  <2>1. /\ UNCHANGED <<lane, mu, thr, vcs>> /\ owner' = [owner EXCEPT ![j] = None]
        /\ j \in Inode
    BY <1>5, SweptFile DEF SweepUnlink
  <2>2. SweepMoved(p, "done", None)
    BY <1>1, <1>5, SweepRecord DEF SweepUnlink
  <2>3. owner'[j] = None /\ \A i \in Inode \ {j} : owner'[i] = owner[i]
    BY <1>1, <2>1 DEF LaneVarsTyped
  <2>4. \A q \in Proc, i \in Inode \ {j} :
          /\ SweepLetsGo(q, i) => SweepLetsGo(q, i)'
          /\ LaneLetsGo(q, i) => LaneLetsGo(q, i)'
    BY <2>1, <2>2, <2>3 DEF SweepLetsGo, LaneLetsGo, SweepMoved
  <2>5. FilesHeld'
    BY <2>3, <2>4 DEF HeldInv, FilesHeld
  <2>. QED BY <2>1, <2>5 DEF HeldInv, FdCurrent, MutexesHeld
<1>6. ASSUME LaneClosed(p), UNCHANGED <<sweep, mu>>,
             \A q \in Proc \ {p} : vcs'[q] = vcs[q]
      PROVE  HeldInv'
  <2>1. /\ LaneGone(p) /\ \A t \in Thread : thr'[p][t].pc = thr[p][t].pc
    BY <1>6, ClosedGone
  <2>2. \A i \in Inode : owner'[i] = None \/ (owner'[i] = owner[i] /\ owner[i] # LaneFd(p))
    BY <1>1, <1>6 DEF LaneClosed, LaneVarsTyped
  <2>3. ASSUME NEW t \in Thread PROVE thr'[p][t].f \in {None, Closed}
    <3>1. thr'[p][t] = IF t \in Captured(p) THEN [thr[p][t] EXCEPT !.f = Closed] ELSE thr[p][t]
      BY <1>1, <1>6 DEF LaneClosed, ThreadsTyped, ThreadsType
    <3>2. CASE t \in Captured(p)
      BY <1>1, <3>1, <3>2, ThreadRecords DEF ThreadType
    <3>3. CASE t \notin Captured(p)
      BY <3>1, <3>3 DEF Captured, HeldInv, FdCurrent
    <3>. QED BY <3>2, <3>3
  <2>. QED BY <1>1, <1>6, <2>1, <2>2, <2>3, HeldGone
<1>7. CASE CloseProbe(p)
  <2>1. sweep' = sweep /\ mu' = mu /\ vcs[p] = "open" /\ sweep[p].f = None
    BY <1>1, <1>7 DEF CloseProbe, LaneVarsTyped, ValueLinks
  <2>2. \A q \in Proc \ {p} : vcs'[q] = vcs[q]
    BY <1>1, <1>7 DEF CloseProbe, LaneVarsTyped
  <2>3. CASE LaneClosed(p)
    BY <1>6, <2>1, <2>2, <2>3
  <2>4. CASE ~OpenLane(p)
    <3>1. UNCHANGED <<owner, lane, thr>>
      BY <1>7, <2>4 DEF CloseProbe
    <3>. QED BY <2>1, <2>2, <3>1, HeldAside
  <2>5. CASE OpenLane(p) /\ ~LaneClosed(p)
    <3>. DEFINE j == lane[p]
    <3>1. /\ UNCHANGED <<lane, thr>> /\ owner' = [owner EXCEPT ![j] = LaneFd(p)]
          /\ vcs' = [vcs EXCEPT ![p] = "reclaim"] /\ j \in Inode
      BY <1>1, <1>7, <2>5 DEF CloseProbe, OpenLane, LaneVarsTyped
    <3>2. /\ owner'[j] = LaneFd(p) /\ \A i \in Inode \ {j} : owner'[i] = owner[i]
          /\ vcs'[p] = "reclaim"
      BY <1>1, <3>1 DEF LaneVarsTyped
    <3>3. \A i \in Inode : i = j => LaneLetsGo(p, i)'
      BY <3>1, <3>2 DEF LaneLetsGo
    <3>4. \A q \in Proc, i \in Inode \ {j} :
            /\ SweepLetsGo(q, i) => SweepLetsGo(q, i)'
            /\ LaneLetsGo(q, i) => LaneLetsGo(q, i)'
      BY <2>1, <2>2, <3>1, <3>2 DEF SweepLetsGo, LaneLetsGo
    <3>5. FilesHeld'
      BY <3>3, <3>2, <3>4 DEF HeldInv, FilesHeld
    <3>. QED BY <2>1, <3>1, <3>5 DEF HeldInv, FdCurrent, MutexesHeld
  <2>. QED BY <2>3, <2>4, <2>5
<1>8. CASE CloseUnlink(p)
  BY <1>1, <1>6, <1>8 DEF CloseUnlink, LaneVarsTyped
<1>9. CASE Exit(p)
  <2>1. /\ \A i \in Inode : \/ owner'[i] = None
                            \/ /\ owner'[i] = owner[i]
                               /\ owner[i] \notin {LaneFd(p), SweepFd(p)}
        /\ owner' \in [Inode -> FdType]
        /\ \A i \in Inode : owner[i] \notin {LaneFd(p), SweepFd(p)} => owner'[i] = owner[i]
    BY <1>1, <1>9 DEF Exit, LaneVarsTyped, FdType
  <2>2. /\ lane' \in [Proc -> Inode \cup {None}] /\ lane'[p] = None /\ mu'[p] = None
        /\ \A q \in Proc \ {p} : /\ lane'[q] = lane[q] /\ vcs'[q] = vcs[q]
                                 /\ sweep'[q] = sweep[q] /\ mu'[q] = mu[q]
    BY <1>1, <1>9 DEF Exit, LaneVarsTyped
  <2>3. /\ thr' \in ThreadsType /\ \A t \in Thread : thr'[p][t] = IdleThread
        /\ \A q \in Proc \ {p}, t \in Thread : thr'[q][t] = thr[q][t]
    BY <1>1, <1>9, IdleRecord DEF Exit, ThreadsTyped, ThreadsType
  <2>4. LaneGone(p)
    BY <2>1, <2>2, <2>3, IdleRecord, Descriptors DEF LaneGone
  <2>5. \A i \in Inode : owner'[i] # SweepFd(p)
    BY <2>1, Descriptors
  <2>. QED BY <1>1, <2>1, <2>2, <2>3, <2>4, <2>5, IdleRecord, HeldGone
<1>. QED BY <1>2, <1>3, <1>4, <1>5, <1>7, <1>8, <1>9


LEMMA HeldThread ==
  ASSUME LocksInv, HeldInv, NEW p \in Proc, NEW t \in Thread,
         LockRepo(p, t) \/ LockRepoDegraded(p, t) \/ ThreadStep(p, t)
  PROVE  HeldInv'
<1>1. LaneVarsTyped /\ ThreadsTyped /\ thr[p][t] \in ThreadType
  BY LaneTypeParts, ThreadRecords DEF LocksInv
<1>2. thr[p][t].f \in {None, Closed, lane[p]}
  BY DEF HeldInv, FdCurrent
<1>3. CASE LockRepo(p, t)
  <2>1. PICK i : /\ i \in IF OpenLane(p) THEN {lane[p]} ELSE IF path # None THEN {path} ELSE Fresh
                 /\ lane' = [lane EXCEPT ![p] = i]
                 /\ Goto(p, t, [IdleThread EXCEPT !.pc = "mutex", !.f = i])
    BY <1>3 DEF LockRepo
  <2>2. i \in Inode
    BY <1>1, <2>1, LaneAssumption DEF LaneVarsTyped, OpenLane, Fresh
  <2>3. PICK r \in ThreadType : OneMoved(p, t, r) /\ r.pc = "mutex" /\ r.f = i
    BY <1>1, <2>1, <2>2, NewRecord, GotoMoves
  <2>4. /\ lane'[p] = i /\ \A q \in Proc \ {p} : lane'[q] = lane[q]
        /\ UNCHANGED <<owner, vcs, sweep, mu>> /\ thr[p][t].pc = "idle"
    BY <1>1, <1>3, <2>1 DEF LaneVarsTyped, LockRepo, At
  <2>5. lane[p] # None => lane'[p] = lane[p]
    BY <2>1, <2>4 DEF OpenLane
  <2>6. FdCurrent'
    BY <2>3, <2>4, <2>5 DEF HeldInv, FdCurrent, OneMoved
  <2>7. \A q \in Proc, k \in Inode : /\ SweepLetsGo(q, k) => SweepLetsGo(q, k)'
                                     /\ LaneLetsGo(q, k) => LaneLetsGo(q, k)'
    BY <2>3, <2>4, <2>5, LaneAssumption DEF SweepLetsGo, LaneLetsGo, OneMoved
  <2>8. FilesHeld'
    BY <2>4, <2>7 DEF HeldInv, FilesHeld
  <2>9. MutexesHeld'
    <3>. SUFFICES ASSUME NEW q \in Proc, mu'[q] # None
                  PROVE  thr'[q][mu'[q]].pc \in {"flock", "in", "write", "release", "unlock"}
      BY DEF MutexesHeld
    <3>1. mu'[q] = mu[q] /\ mu[q] \in Thread
      BY <1>1, <2>4 DEF LaneVarsTyped
    <3>2. thr[q][mu[q]].pc \in {"flock", "in", "write", "release", "unlock"}
      BY <3>1 DEF HeldInv, MutexesHeld
    <3>3. thr'[q][mu[q]] = thr[q][mu[q]]
      BY <2>3, <2>4, <3>1, <3>2 DEF OneMoved
    <3>. QED BY <3>1, <3>2, <3>3
  <2>. QED BY <2>6, <2>8, <2>9 DEF HeldInv
<1>4. CASE LockRepoDegraded(p, t)
  <2>1. PICK r \in ThreadType : OneMoved(p, t, r) /\ r.pc = "mutex" /\ r.f = Closed
    BY <1>1, <1>4, NewRecord, GotoMoves DEF LockRepoDegraded
  <2>2. UNCHANGED <<owner, vcs, lane, sweep, mu>> /\ thr[p][t].pc = "idle"
    BY <1>4 DEF LockRepoDegraded, At
  <2>3. \A i \in Inode : LaneLetsGo(p, i) => LaneLetsGo(p, i)'
    BY <2>1, <2>2 DEF LaneLetsGo, OneMoved
  <2>4. mu[p] # t
    BY <2>2, LaneAssumption DEF HeldInv, MutexesHeld
  <2>. QED BY <1>1, <2>1, <2>2, <2>3, <2>4, HeldMove
<1>5. CASE TakeMutex(p, t)
  <2>1. PICK r \in ThreadType : OneMoved(p, t, r) /\ r.pc = "flock" /\ r.f = thr[p][t].f
    <3>1. "flock" \in Places /\ Goto(p, t, [thr[p][t] EXCEPT !.pc = "flock"])
      BY <1>5 DEF TakeMutex, Places
    <3>. QED BY <1>1, <3>1, PlaceMoves
  <2>2. UNCHANGED <<owner, vcs, lane, sweep>> /\ thr[p][t].pc = "mutex"
        /\ mu'[p] = t /\ \A q \in Proc \ {p} : mu'[q] = mu[q]
    BY <1>1, <1>5 DEF TakeMutex, At, LaneVarsTyped
  <2>3. \A i \in Inode : LaneLetsGo(p, i) => LaneLetsGo(p, i)'
    BY <2>1, <2>2 DEF LaneLetsGo, OneMoved
  <2>. QED BY <1>1, <1>2, <2>1, <2>2, <2>3, HeldMove
<1>6. CASE TakeFlock(p, t)
  <2>. DEFINE j == thr[p][t].f
  <2>1. PICK r \in ThreadType : OneMoved(p, t, r) /\ r.pc = "in" /\ r.f = j
    <3>1. "in" \in Places /\ Goto(p, t, [thr[p][t] EXCEPT !.pc = "in"])
      BY <1>6 DEF TakeFlock, Places
    <3>. QED BY <1>1, <3>1, PlaceMoves
  <2>2. /\ UNCHANGED <<vcs, lane, sweep, mu>> /\ thr[p][t].pc = "flock" /\ mu[p] = t
        /\ j # None
    BY <1>1, <1>6, ThreadRecords DEF TakeFlock, At, LocksInv, MutexHeld
  <2>3. \A i \in Inode : i # j => /\ owner'[i] = owner[i]
                                  /\ LaneLetsGo(p, i) => LaneLetsGo(p, i)'
    BY <1>1, <1>6, <2>1, <2>2 DEF TakeFlock, LaneVarsTyped, LaneLetsGo, OneMoved
  <2>4. ASSUME NEW i \in Inode, i = j PROVE LaneLetsGo(p, i)'
    <3>1. i = lane[p] /\ j # Closed
      BY <1>2, <2>2, <2>4, LaneAssumption
    <3>2. owner'[i] = LaneFd(p)
      BY <1>1, <1>6, <2>4, <3>1 DEF TakeFlock, LaneVarsTyped
    <3>3. thr'[p][t].f = i /\ thr'[p][t].pc = "in"
      BY <2>1, <2>4 DEF OneMoved
    <3>. QED BY <2>2, <3>1, <3>2, <3>3 DEF LaneLetsGo
  <2>5. \A q \in Proc : mu'[q] # None =>
          \/ q = p /\ mu'[q] = t /\ r.pc \in {"flock", "in", "write", "release", "unlock"}
          \/ mu'[q] = mu[q] /\ (q # p \/ mu[q] # t)
    BY <2>1, <2>2
  <2>6. \A i \in Inode : \/ owner'[i] = None
                         \/ /\ owner'[i] = owner[i] /\ owner[i] # None
                            /\ LaneLetsGo(p, i) => LaneLetsGo(p, i)'
                         \/ LaneLetsGo(p, i)'
    BY <2>3, <2>4
  <2>. QED BY <1>1, <1>2, <2>1, <2>2, <2>5, <2>6, HeldMove
<1>7. CASE Inspect(p, t) \/ RecordEdit(p, t) \/ CommitRead(p, t) \/ CommitWrite(p, t)
             \/ CommitFails(p, t)
  <2>1. PICK r : OneMoved(p, t, r) /\ r.pc \in {"write", "release"} /\ r.f = thr[p][t].f
    <3>1. CASE Inspect(p, t) \/ RecordEdit(p, t)
      <4>1. "release" \in Places /\ Goto(p, t, [thr[p][t] EXCEPT !.pc = "release"])
        BY <3>1 DEF Inspect, RecordEdit, Places
      <4>. QED BY <1>1, <4>1, PlaceMoves
    <3>2. CASE CommitRead(p, t)
      <4>. DEFINE r == [thr[p][t] EXCEPT !.pc = "write", !.tree = head, !.rows = pending]
      <4>1. "write" \in Places /\ head \in SUBSET Edit /\ pending \in SUBSET Edit
        BY <1>1 DEF LaneVarsTyped, Places
      <4>2. r \in ThreadType /\ r.pc = "write" /\ r.f = thr[p][t].f
        BY <1>1, <4>1 DEF ThreadType
      <4>3. Goto(p, t, r)
        BY <3>2 DEF CommitRead
      <4>4. OneMoved(p, t, r)
        BY <1>1, <4>2, <4>3, GotoMoves
      <4>. QED BY <4>2, <4>4
    <3>3. CASE CommitWrite(p, t) \/ CommitFails(p, t)
      <4>. DEFINE r == [thr[p][t] EXCEPT !.pc = "release", !.tree = {}, !.rows = {}]
      <4>1. "release" \in Places /\ {} \in SUBSET Edit
        BY DEF Places
      <4>2. r \in ThreadType /\ r.pc = "release" /\ r.f = thr[p][t].f
        BY <1>1, <4>1 DEF ThreadType
      <4>3. Goto(p, t, r)
        BY <3>3 DEF CommitWrite, CommitFails
      <4>4. OneMoved(p, t, r)
        BY <1>1, <4>2, <4>3, GotoMoves
      <4>. QED BY <4>2, <4>4
    <3>. QED BY <1>7, <3>1, <3>2, <3>3
  <2>2. UNCHANGED <<owner, vcs, lane, sweep, mu>> /\ thr[p][t].pc \in {"in", "write"}
    BY <1>7 DEF Inspect, RecordEdit, CommitRead, CommitWrite, CommitFails, At
  <2>3. mu[p] = t
    BY <2>2 DEF LocksInv, MutexHeld
  <2>4. \A i \in Inode : LaneLetsGo(p, i) => LaneLetsGo(p, i)'
    BY <2>1, <2>2 DEF LaneLetsGo, OneMoved
  <2>. QED BY <1>1, <1>2, <2>1, <2>2, <2>3, <2>4, HeldMove
<1>8. CASE ReleaseFlock(p, t)
  <2>. DEFINE j == thr[p][t].f
  <2>1. PICK r \in ThreadType : OneMoved(p, t, r) /\ r.pc = "unlock" /\ r.f = j
    <3>1. "unlock" \in Places /\ Goto(p, t, [thr[p][t] EXCEPT !.pc = "unlock"])
      BY <1>8 DEF ReleaseFlock, Places
    <3>. QED BY <1>1, <3>1, PlaceMoves
  <2>2. /\ UNCHANGED <<vcs, lane, sweep, mu>> /\ thr[p][t].pc = "release" /\ mu[p] = t
    BY <1>8 DEF ReleaseFlock, At, LocksInv, MutexHeld
  <2>3. \A i \in Inode : i # j => /\ owner'[i] = owner[i]
                                  /\ LaneLetsGo(p, i) => LaneLetsGo(p, i)'
    BY <1>1, <1>8, <2>1, <2>2 DEF ReleaseFlock, LaneVarsTyped, LaneLetsGo, OneMoved
  <2>4. \A i \in Inode : i = j =>
          \/ owner'[i] = None
          \/ owner'[i] = owner[i] /\ owner[i] # LaneFd(p)
    BY <1>1, <1>8, LaneAssumption DEF ReleaseFlock, LaneVarsTyped
  <2>5. \A i \in Inode : \/ owner'[i] = None
                         \/ /\ owner'[i] = owner[i] /\ owner[i] # None
                            /\ LaneLetsGo(p, i) => LaneLetsGo(p, i)'
    BY <2>3, <2>4 DEF LaneLetsGo
  <2>. QED BY <1>1, <1>2, <2>1, <2>2, <2>5, HeldMove
<1>9. CASE ReleaseMutex(p, t)
  <2>1. OneMoved(p, t, IdleThread)
    BY <1>1, <1>9, IdleRecord, GotoMoves DEF ReleaseMutex
  <2>2. /\ UNCHANGED <<owner, vcs, lane, sweep>> /\ thr[p][t].pc = "unlock" /\ mu'[p] = None
        /\ \A q \in Proc \ {p} : mu'[q] = mu[q]
    BY <1>1, <1>9 DEF ReleaseMutex, At, LaneVarsTyped
  <2>3. \A i \in Inode : LaneLetsGo(p, i) => LaneLetsGo(p, i)'
    BY <2>1, <2>2 DEF LaneLetsGo, OneMoved
  <2>. QED BY <1>1, <2>1, <2>2, <2>3, IdleRecord, HeldMove
<1>. QED BY <1>3, <1>4, <1>5, <1>6, <1>7, <1>8, <1>9 DEF ThreadStep

LEMMA HeldKeeps ==
  ASSUME LocksInv, HeldInv, LaneNext \/ UNCHANGED laneVars
  PROVE  HeldInv'
<1>1. CASE UNCHANGED laneVars \/ Age
  <2>1. UNCHANGED <<owner, vcs, lane, sweep, mu, thr>>
    BY <1>1 DEF laneVars, Age
  <2>2. \A q \in Proc, i \in Inode : /\ SweepLetsGo(q, i) => SweepLetsGo(q, i)'
                                     /\ LaneLetsGo(q, i) => LaneLetsGo(q, i)'
    BY <2>1 DEF SweepLetsGo, LaneLetsGo
  <2>. QED BY <2>1, <2>2 DEF HeldInv, FdCurrent, FilesHeld, MutexesHeld
<1>. QED BY <1>1, HeldProcess, HeldThread DEF LaneNext

\* Whoever holds a lock file or the mutex of a process is about to let it go:
\* deaths, failed commits, sweeps, lanes closed under their users and files
\* that were unlinked leave no lock behind.
THEOREM NoLockLeftBehind == Spec => []LocksHeld
<1>1. Init => HeldInv
  BY IdleRecord DEF Init, LaneInit, HeldInv, FdCurrent, FilesHeld, MutexesHeld
<1>2. LaneInv /\ ElectionInv /\ HeldInv /\ [Next]_vars => HeldInv'
  <2>. SUFFICES ASSUME LaneInv, HeldInv, [Next]_vars PROVE HeldInv'
    OBVIOUS
  <2>1. LaneNext \/ UNCHANGED laneVars
    BY Halves DEF vars
  <2>. QED BY <2>1, HeldKeeps DEF LaneInv
<1>3. HeldInv => LocksHeld
  BY HeldParts DEF HeldInv
<1>. QED BY <1>1, <1>2, <1>3, Invariant, PTL DEF Spec

-----------------------------------------------------------------------------
(* Who is followed.                                                        *)

\* p has claimed and served, or is over; it never looks for an owner again.
HasServed(p) == main[p].pc \in {"serve", "own", "stop", "gone"}

\* Whoever the lockfile records has done so (Fill writes the PID before Serve).
RecordServed == \A q \in Proc : Names(q) => HasServed(q)

\* Whom a process is connected to has served: nobody follows himself, a
\* process that follows another, or one that still looks for an owner or
\* claims.  So a project's processes never wait on one another in a circle,
\* whatever was removed, reclaimed or cut short (Resolve and followOwner act on
\* a PID read from a file that others rewrite meanwhile).
FollowsAnOwner == \A p, q \in Proc : Is(p, "client") /\ main[p].to = q => HasServed(q)

FollowInv == ElectionTypeOK /\ RecordServed /\ FollowsAnOwner

LEMMA StepMoves ==
  ASSUME NEW p \in Proc, ElectionTypeOK, ElectionStep(p)
  PROVE  PMoved(p) /\ ElectionTypeOK'
<1>1. PMoved(p) /\ lockfile' \in FileType /\ cleared' \in BOOLEAN
  <2>1. CASE Quiet(p)
    BY <2>1, QuietMoves, ElectionTypes
  <2>. QED BY <2>1, FileMoves DEF ElectionStep, Quiet
<1>. QED BY <1>1, ElectionFromParts

LEMMA ServedStays ==
  ASSUME NEW p \in Proc, ElectionTypeOK, ElectionStep(p), NEW q \in Proc, HasServed(q)
  PROVE  \A r \in Proc : r = q => HasServed(r)'
<1>1. PMoved(p) /\ main \in [Proc -> MainType]
  BY StepMoves, ElectionTypes
<1>2. CASE q # p
  BY <1>1, <1>2 DEF PMoved, HasServed
<1>3. CASE q = p
  <2>1. PICK pc \in {"own", "stop", "gone"} : To(p, pc)
    <3>1. main[p].pc \in {"serve", "own", "stop", "gone"}
      BY <1>3 DEF HasServed
    <3>2. Serve(p) \/ Stop(p) \/ Unlist(p) \/ Die(p)
      BY <3>1 DEF ElectionStep, Is, Launch, ReadNothing, ReadOwner, ReadStale, RemoveStale, Build,
                  Claim, Reread, Truncate, Fill, Abort, LoserDown, Follow, Reconnect, Leave
    <3>. QED BY <3>2 DEF Serve, Stop, Unlist, Die
  <2>2. main'[p].pc \in {"own", "stop", "gone"}
    BY <1>1, <2>1, MoveTyped DEF MainStates
  <2>. QED BY <1>3, <2>2 DEF HasServed
<1>. QED BY <1>2, <1>3

\* Whom the file names after a step it named before, or has just served.
LEMMA NamedServed ==
  ASSUME NEW p \in Proc, FollowInv, ElectionStep(p)
  PROVE  RecordServed'
<1>1. ElectionTypeOK /\ PMoved(p) /\ main \in [Proc -> MainType] /\ lockfile \in FileType
  BY StepMoves, ElectionTypes DEF FollowInv
<1>. SUFFICES ASSUME NEW q \in Proc, lockfile' # None, lockfile'.pid = q PROVE HasServed(q)'
  BY DEF RecordServed, Names, Exists
<1>2. CASE lockfile' = lockfile
  <2>1. HasServed(q)
    BY <1>2 DEF FollowInv, RecordServed, Names, Exists
  <2>. QED BY <1>1, <2>1, ServedStays
<1>3. CASE Fill(p) /\ lockfile' # lockfile
  <2>1. q = p
    BY <1>1, <1>3 DEF Fill, Exists, FileType
  <2>2. main'[p].pc = "serve"
    BY <1>1, <1>3, MoveTyped DEF Fill, MainStates
  <2>. QED BY <2>1, <2>2 DEF HasServed
<1>4. CASE Claim(p) /\ lockfile' # lockfile
  BY <1>4, ProcAssumption DEF Claim
<1>5. CASE Truncate(p)
  BY <1>5, ProcAssumption DEF Truncate
<1>6. CASE RemoveFile(p)
  BY <1>6 DEF RemoveFile
<1>. QED BY <1>2, <1>3, <1>4, <1>5, <1>6
         DEF ElectionStep, Launch, ReadNothing, ReadOwner, ReadStale, RemoveStale, Build, Reread,
             Serve, Stop, Unlist, Abort, LoserDown, Follow, Reconnect, Leave, Die

LEMMA FollowKeeps ==
  ASSUME NEW p \in Proc, FollowInv, ElectionStep(p)
  PROVE  FollowInv'
<1>1. ElectionTypeOK /\ ElectionTypeOK' /\ PMoved(p) /\ main \in [Proc -> MainType]
  BY StepMoves, ElectionTypes DEF FollowInv
<1>2. ASSUME NEW r \in Proc, NEW q \in Proc, main'[r].pc = "client", main'[r].to = q
      PROVE  HasServed(q)'
  <2>1. CASE r # p
    <3>1. HasServed(q)
      BY <1>1, <1>2, <2>1 DEF PMoved, FollowInv, FollowsAnOwner, Is
    <3>. QED BY <1>1, <3>1, ServedStays
  <2>2. CASE r = p
    <3>1. ReadOwner(p) \/ Follow(p)
      <4>1. ASSUME NEW pc \in MainStates, To(p, pc) PROVE main'[p].pc = pc
        BY <1>1, <4>1, MoveTyped
      <4>2. ASSUME NEW pc \in MainStates \ {"client"}, To(p, pc) PROVE FALSE
        BY <1>2, <2>2, <4>1, <4>2
      <4>3. ~ Reconnect(p)
        BY <1>1, <1>2, <2>2, MoveToTyped DEF Reconnect, MainStates
      <4>4. ~ Claim(p) /\ ~ Truncate(p)
        BY <1>1, <1>2, <2>2, <4>2 DEF Claim, Truncate, MainStates, MainType
      <4>. QED BY <4>2, <4>3, <4>4
               DEF ElectionStep, MainStates, Launch, ReadNothing, ReadStale, RemoveStale, Build,
                   Reread, Fill, Serve, Stop, Unlist, Abort, LoserDown, Leave, Die
    <3>2. Names(q)
      <4>1. CASE ReadOwner(p)
        <5>1. PICK o \in Proc : Names(o) /\ main' = [main EXCEPT ![p].pc = "client", ![p].to = o]
          BY <4>1 DEF ReadOwner
        <5>2. main'[p].to = o
          BY <1>1, <5>1 DEF MainType
        <5>. QED BY <1>2, <2>2, <5>1, <5>2
      <4>2. CASE Follow(p)
        <5>1. ~ To(p, "gone")
          BY <1>1, <1>2, <2>2, MoveTyped DEF MainStates
        <5>2. Exists /\ main' = [main EXCEPT ![p].pc = "client", ![p].to = lockfile.pid]
          BY <4>2, <5>1 DEF Follow
        <5>3. main'[p].to = lockfile.pid
          BY <1>1, <5>2 DEF MainType
        <5>. QED BY <1>2, <2>2, <5>2, <5>3 DEF Names
      <4>. QED BY <3>1, <4>1, <4>2
    <3>3. HasServed(q)
      BY <3>2 DEF FollowInv, RecordServed
    <3>. QED BY <1>1, <3>3, ServedStays
  <2>. QED BY <2>1, <2>2
<1>3. FollowsAnOwner'
  BY <1>2 DEF FollowsAnOwner, Is
<1>. QED BY <1>1, <1>3, NamedServed DEF FollowInv

\* Nobody waits for a process that waits for somebody: whom a client follows
\* has claimed and served.
THEOREM NobodyFollowsAFollower == Spec => []FollowsAnOwner
<1>1. Init => FollowInv
  <2>. SUFFICES ASSUME ElectionInit PROVE FollowInv
    BY DEF Init
  <2>1. ElectionTypeOK
    BY ElectionStarts DEF ElectionInv
  <2>2. \A p \in Proc : main[p].pc = "off"
    BY DEF ElectionInit, NewMain
  <2>. QED BY <2>1, <2>2
           DEF FollowInv, RecordServed, FollowsAnOwner, Names, Exists, Is, ElectionInit
<1>2. FollowInv /\ [Next]_vars => FollowInv'
  <2>. SUFFICES ASSUME FollowInv, [Next]_vars PROVE FollowInv'
    OBVIOUS
  <2>1. CASE UNCHANGED electionVars
    BY <2>1 DEF electionVars, FollowInv, ElectionTypeOK, RecordServed, FollowsAnOwner, HasServed,
                Is, Names, Exists
  <2>2. CASE AnElectionStep
    BY <2>2, FollowKeeps DEF AnElectionStep
  <2>. QED BY <2>1, <2>2, Halves DEF vars
<1>3. FollowInv => FollowsAnOwner
  BY DEF FollowInv
<1>. QED BY <1>1, <1>2, <1>3, PTL DEF Spec
=============================================================================
