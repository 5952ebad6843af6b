-------------------------------- MODULE Lease --------------------------------
(***************************************************************************)
(* The file lease that keeps supervisors of one project apart              *)
(* (supervisor/lease.py), one step per system call: open, flock, read,     *)
(* ftruncate, write, unlock, stat, unlink.  The lease file is a directory  *)
(* entry (path) that leads to an inode (a member of Files), and a process  *)
(* that holds a descriptor keeps the inode after the entry is gone.        *)
(*                                                                         *)
(* A member of Procs is one supervisor process with one instance_id (a     *)
(* fresh uuid4 per start, as its pid): it starts once, and may crash.      *)
(***************************************************************************)
EXTENDS Integers, FiniteSets

CONSTANTS
    Procs,      \* supervisor instances
    NoProc,     \* an empty lease file, an unlocked inode
    Files,      \* bound: inodes the lease path can lead to, one after the other
    NoFile,     \* no directory entry, no descriptor
    Ttl,        \* ttl_seconds
    MaxTime     \* bound: the clock

ASSUME LeaseAssumption ==
    /\ NoProc \notin Procs /\ NoFile \notin Files
    /\ Ttl \in Nat \ {0} /\ MaxTime \in Nat

VARIABLES
    path,   \* the inode the lease path leads to
    files,  \* per inode: does it exist, and which lease is written in it
    locks,  \* per inode: which process holds its flock
    pc,     \* where each process is
    op,     \* which lease call it is in
    fd,     \* its open descriptor
    until,  \* expires_at of the lease it is about to write
    held,   \* history: the lease it acquired or renewed last
    now     \* the wall clock

vars == <<path, files, locks, pc, op, fd, until, held, now>>

Time == 0 .. MaxTime + Ttl
Empty == [owner |-> NoProc, expires |-> 0]
NoLease == [file |-> NoFile, expires |-> 0]

Running == {p \in Procs : pc[p] \notin {"new", "gone"}}

Init ==
    /\ path = NoFile
    /\ files = [f \in Files |-> [made |-> FALSE, lease |-> Empty]]
    /\ locks = [f \in Files |-> NoProc]
    /\ pc = [p \in Procs |-> "new"]
    /\ op = [p \in Procs |-> "none"]
    /\ fd = [p \in Procs |-> NoFile]
    /\ until = [p \in Procs |-> 0]
    /\ held = [p \in Procs |-> NoLease]
    /\ now = 0

-------------------------------------------------------------------------------
\* The decisions taken under the lock.

Goto(p, label) == pc' = [pc EXCEPT ![p] = label]
OnDisk(p) == files[fd[p]].lease
IsEmpty(lease) == lease.owner = NoProc

\* _is_stale: expired, or the owner's pid is gone.
IsStale(lease) == lease.expires <= now \/ lease.owner \notin Running

\* Mutant: the lease is taken whoever holds it.
AlwaysTake(p, lease) == TRUE
CanTake(p, lease) == IsEmpty(lease) \/ IsStale(lease) \/ lease.owner = p

Names(p, lease) == lease.owner = p

\* Mutant: the ttl is added twice.
LateExpiry == now + 2 * Ttl
Expiry == now + Ttl

Allowed(p) ==
    CASE op[p] = "acquire" -> CanTake(p, OnDisk(p))
      [] op[p] = "renew" -> Names(p, OnDisk(p))

-------------------------------------------------------------------------------
\* acquire and renew (_with_lock).

\* Supervisor.startup calls acquire; every tick calls renew.
Start(p) ==
    /\ pc[p] = "new"
    /\ op' = [op EXCEPT ![p] = "acquire"]
    /\ Goto(p, "open")
    /\ UNCHANGED <<path, files, locks, fd, until, held, now>>

NextTick(p) ==
    /\ pc[p] = "working"
    /\ op' = [op EXCEPT ![p] = "renew"]
    /\ Goto(p, "open")
    /\ UNCHANGED <<path, files, locks, fd, until, held, now>>

\* os.open(O_RDWR | O_CREAT)
OpenExisting(p) ==
    /\ pc[p] = "open" /\ path # NoFile
    /\ fd' = [fd EXCEPT ![p] = path]
    /\ Goto(p, "lock")
    /\ UNCHANGED <<path, files, locks, op, until, held, now>>

OpenCreates(p, f) ==
    /\ pc[p] = "open" /\ path = NoFile /\ ~files[f].made
    /\ path' = f
    /\ files' = [files EXCEPT ![f].made = TRUE]
    /\ fd' = [fd EXCEPT ![p] = f]
    /\ Goto(p, "lock")
    /\ UNCHANGED <<locks, op, until, held, now>>

LockFree(f) == locks[f] = NoProc

\* flock(LOCK_EX) blocks until the lock is free.
Lock(p) ==
    /\ pc[p] = "lock" /\ LockFree(fd[p])
    /\ locks' = [locks EXCEPT ![fd[p]] = p]
    /\ Goto(p, "check")
    /\ UNCHANGED <<path, files, op, fd, until, held, now>>

Take(p) ==
    /\ pc[p] = "check" /\ op[p] \in {"acquire", "renew"} /\ Allowed(p)
    /\ until' = [until EXCEPT ![p] = Expiry]
    /\ Goto(p, "truncate")
    /\ UNCHANGED <<path, files, locks, op, fd, held, now>>

\* Mutant: a refused call returns before it unlocks.
ReturnsLocked(p) == UNCHANGED <<locks, fd>>
Unlocks(p) ==
    /\ locks' = [locks EXCEPT ![fd[p]] = NoProc]
    /\ fd' = [fd EXCEPT ![p] = NoFile]

\* Refused: acquire makes startup raise, renew ends the run in shutdown.
Refuse(p) ==
    /\ pc[p] = "check" /\ op[p] \in {"acquire", "renew"} /\ ~Allowed(p)
    /\ Unlocks(p)
    /\ Goto(p, IF op[p] = "acquire" THEN "gone" ELSE "exists")
    /\ op' = [op EXCEPT ![p] = IF @ = "acquire" THEN "none" ELSE "release"]
    /\ held' = [held EXCEPT ![p] = NoLease]
    /\ UNCHANGED <<path, files, until, now>>

\* os.ftruncate
Truncate(p) ==
    /\ pc[p] = "truncate"
    /\ files' = [files EXCEPT ![fd[p]].lease = Empty]
    /\ Goto(p, "write")
    /\ UNCHANGED <<path, locks, op, fd, until, held, now>>

\* os.write of the whole lease
Write(p) ==
    /\ pc[p] = "write"
    /\ files' = [files EXCEPT ![fd[p]].lease = [owner |-> p, expires |-> until[p]]]
    /\ held' = [held EXCEPT ![p] = [file |-> fd[p], expires |-> until[p]]]
    /\ Goto(p, "written")
    /\ UNCHANGED <<path, locks, op, fd, until, now>>

Granted(p) ==
    /\ pc[p] = "written"
    /\ Unlocks(p)
    /\ Goto(p, "working")
    /\ op' = [op EXCEPT ![p] = "none"]
    /\ UNCHANGED <<path, files, until, held, now>>

-------------------------------------------------------------------------------
\* release

Leave(p) ==
    /\ pc[p] = "working"
    /\ op' = [op EXCEPT ![p] = "release"]
    /\ Goto(p, "exists")
    /\ UNCHANGED <<path, files, locks, fd, until, held, now>>

\* The process is over; the kernel closes its descriptor and drops its lock.
Exits(p) ==
    /\ Goto(p, "gone")
    /\ locks' = [f \in Files |-> IF locks[f] = p THEN NoProc ELSE locks[f]]
    /\ fd' = [fd EXCEPT ![p] = NoFile]
    /\ op' = [op EXCEPT ![p] = "none"]
    /\ held' = [held EXCEPT ![p] = NoLease]

\* No lease file: nothing to release.  In a later step of release a missing file
\* raises FileNotFoundError out of shutdown.
ReleaseFindsNone(p) ==
    /\ pc[p] \in {"exists", "reopen", "stat", "unlink"} /\ path = NoFile
    /\ Exits(p)
    /\ UNCHANGED <<path, files, until, now>>

ReleaseFinds(p) ==
    /\ pc[p] = "exists" /\ path # NoFile
    /\ Goto(p, "reopen")
    /\ UNCHANGED <<path, files, locks, op, fd, until, held, now>>

\* os.open(O_RDWR), without O_CREAT
Reopen(p) ==
    /\ pc[p] = "reopen" /\ path # NoFile
    /\ fd' = [fd EXCEPT ![p] = path]
    /\ Goto(p, "lock")
    /\ UNCHANGED <<path, files, locks, op, until, held, now>>

\* Mutant: a lease of one's own is left in the file.
LeavesLease(p) == files
ClearsOwn(p) ==
    IF Names(p, OnDisk(p)) THEN [files EXCEPT ![fd[p]].lease = Empty] ELSE files

Release(p) ==
    /\ pc[p] = "check" /\ op[p] = "release"
    /\ files' = ClearsOwn(p)
    /\ held' = [held EXCEPT ![p] = NoLease]
    /\ Goto(p, "cleared")
    /\ UNCHANGED <<path, locks, op, fd, until, now>>

ReleaseUnlocks(p) ==
    /\ pc[p] = "cleared"
    /\ Unlocks(p)
    /\ Goto(p, "stat")
    /\ UNCHANGED <<path, files, op, until, held, now>>

\* After the unlock: whatever file the path leads to now, is it empty?
Stat(p) ==
    /\ pc[p] = "stat" /\ path # NoFile
    /\ IF IsEmpty(files[path].lease)
       THEN Goto(p, "unlink") /\ UNCHANGED <<locks, fd, op, held>>
       ELSE Exits(p)
    /\ UNCHANGED <<path, files, until, now>>

\* It was empty when stat looked; unlink does not look again.
Unlink(p) ==
    /\ pc[p] = "unlink" /\ path # NoFile
    /\ path' = NoFile
    /\ Exits(p)
    /\ UNCHANGED <<files, until, now>>

-------------------------------------------------------------------------------
Crash(p) ==
    /\ p \in Running
    /\ Exits(p)
    /\ UNCHANGED <<path, files, until, now>>

ClockTicks ==
    /\ now < MaxTime
    /\ now' = now + 1
    /\ UNCHANGED <<path, files, locks, pc, op, fd, until, held>>

\* The steps inside one lease call.
Call(p) ==
    \/ OpenExisting(p) \/ (\E f \in Files : OpenCreates(p, f))
    \/ Take(p) \/ Refuse(p) \/ Truncate(p) \/ Write(p) \/ Granted(p)
    \/ ReleaseFindsNone(p) \/ ReleaseFinds(p) \/ Reopen(p)
    \/ Release(p) \/ ReleaseUnlocks(p) \/ Stat(p) \/ Unlink(p)

Process(p) == Start(p) \/ NextTick(p) \/ Leave(p) \/ Lock(p) \/ Call(p) \/ Crash(p)

Next == (\E p \in Procs : Process(p)) \/ ClockTicks

Spec == Init /\ [][Next]_vars

\* A process in a call keeps running; flock serves a waiter in the end.
Fairness == \A p \in Procs : WF_vars(Call(p)) /\ SF_vars(Lock(p))

FairSpec == Spec /\ Fairness

-------------------------------------------------------------------------------
\* Properties.

Leases == [owner : Procs \cup {NoProc}, expires : Time]
InCall == {"open", "lock", "check", "truncate", "write", "written", "exists",
           "reopen", "cleared", "stat", "unlink"}
Locked == {"check", "truncate", "write", "written", "cleared"}

\* The type of the state.
TypeOK ==
    /\ path \in Files \cup {NoFile}
    /\ files \in [Files -> [made : BOOLEAN, lease : Leases]]
    /\ locks \in [Files -> Procs \cup {NoProc}]
    /\ pc \in [Procs -> InCall \cup {"new", "working", "gone"}]
    /\ op \in [Procs -> {"none", "acquire", "renew", "release"}]
    /\ fd \in [Procs -> Files \cup {NoFile}]
    /\ until \in [Procs -> Time]
    /\ held \in [Procs -> [file : Files \cup {NoFile}, expires : Time]]
    /\ now \in 0 .. MaxTime

\* p acquired or renewed a lease that has not run out.
Holds(p) == held[p].file # NoFile /\ now < held[p].expires

\* A supervisor that holds a lease is named in the file it wrote it to, unless it
\* is rewriting that file itself: nobody overwrote a live lease.
HolderIsNamed ==
    \A p \in Procs : Holds(p) =>
        \/ files[held[p].file].lease = [owner |-> p, expires |-> held[p].expires]
        \/ pc[p] = "write" /\ fd[p] = held[p].file

\* So one file never gives the lease to two supervisors at once.
OneHolderPerFile ==
    \A p, q \in Procs : Holds(p) /\ Holds(q) /\ held[p].file = held[q].file => p = q

\* A supervisor that ended in release leaves no lease in its name behind.
ReleaseFrees ==
    \A p \in Procs : pc[p] \in {"cleared", "stat", "unlink"} =>
        path = NoFile \/ files[path].lease.owner # p

\* Every lease call returns, or the process dies in it.
CallsReturn == \A p \in Procs : pc[p] \in InCall ~> pc[p] \in {"working", "gone"}

\* Exclusive lease: one supervisor instance per project.
ExclusiveLease == \A p, q \in Procs : Holds(p) /\ Holds(q) => p = q
===============================================================================
