----------------------------- MODULE LeaseProofs -----------------------------
(***************************************************************************)
(* Proofs about Lease, for any number of processes, inodes and instants:   *)
(* its type invariant, that nobody overwrites a lease that lives           *)
(* (HolderIsNamed), so that one file never gives it to two supervisors,    *)
(* that release leaves nothing behind, and that the unlink of release is   *)
(* the only step that lets two supervisors in (ExclusiveUnlessUnlinked).   *)
(***************************************************************************)
EXTENDS Lease, TLAPS

\* Who is in the locked part of a call has the lock of the file it has open.
LockIsHeld ==
    \A p \in Procs :
        /\ pc[p] \in Locked \cup {"lock"} => fd[p] \in Files
        /\ pc[p] \in Locked => locks[fd[p]] = p

\* Who is about to overwrite a file found no other holder in it.
NoOtherHolder ==
    \A p, q \in Procs :
        pc[p] \in {"truncate", "write"} /\ Holds(q) /\ held[q].file = fd[p] => q = p

\* Only a running process holds a lease.
HoldersRun == \A p \in Procs : held[p].file # NoFile => p \in Running

LeaseInv == TypeOK /\ LockIsHeld /\ NoOtherHolder /\ HoldersRun /\ HolderIsNamed

-------------------------------------------------------------------------------
\* The initial state satisfies the invariant: nobody is in a call.
LEMMA LeaseInit == Init => LeaseInv
<1> SUFFICES ASSUME Init PROVE LeaseInv
  OBVIOUS
<1> USE LeaseAssumption DEF Init
<1>1. TypeOK
  BY DEF TypeOK, Leases, Time, Empty, NoLease, InCall
<1>2. LockIsHeld /\ NoOtherHolder
  BY DEF LockIsHeld, NoOtherHolder, Locked
<1>3. HoldersRun /\ HolderIsNamed
  BY DEF HoldersRun, HolderIsNamed, Holds, NoLease
<1> QED BY <1>1, <1>2, <1>3 DEF LeaseInv

\* A step of one process keeps the types.
LEMMA TypeProcess == ASSUME TypeOK, NEW p \in Procs, Process(p) PROVE TypeOK'
<1>1. 0 \in Time /\ now + Ttl \in Time /\ Empty \in Leases
  BY LeaseAssumption DEF TypeOK, Time, Empty, Leases
<1>2. /\ NoLease \in [file : Files \cup {NoFile}, expires : Time]
      /\ \A f \in Files \cup {NoFile} :
            [file |-> f, expires |-> until[p]] \in [file : Files \cup {NoFile}, expires : Time]
  BY <1>1 DEF NoLease, TypeOK
<1>3. [owner |-> p, expires |-> until[p]] \in Leases
  BY DEF TypeOK, Leases
<1> USE DEF TypeOK, InCall, Goto
<1>4. ASSUME NEW f \in Files \cup {NoFile}, NEW lease \in Leases
      PROVE  /\ [files EXCEPT ![f].lease = lease] \in [Files -> [made : BOOLEAN, lease : Leases]]
             /\ [files EXCEPT ![f].made = TRUE] \in [Files -> [made : BOOLEAN, lease : Leases]]
  OBVIOUS
<1>5. ASSUME Unlocks(p)
      PROVE  /\ locks' \in [Files -> Procs \cup {NoProc}]
             /\ fd' \in [Procs -> Files \cup {NoFile}]
  BY <1>5 DEF Unlocks
<1>6. ASSUME Exits(p)
      PROVE  /\ locks' \in [Files -> Procs \cup {NoProc}]
             /\ fd' \in [Procs -> Files \cup {NoFile}]
             /\ held' \in [Procs -> [file : Files \cup {NoFile}, expires : Time]]
             /\ pc' \in [Procs -> InCall \cup {"new", "working", "gone"}]
             /\ op' \in [Procs -> {"none", "acquire", "renew", "release"}]
  BY <1>2, <1>6 DEF Exits
<1>7. CASE Start(p) \/ NextTick(p) \/ Leave(p) \/ Lock(p)
  <2>1. CASE Start(p)
    BY <2>1 DEF Start
  <2>2. CASE NextTick(p)
    BY <2>2 DEF NextTick
  <2>3. CASE Leave(p)
    BY <2>3 DEF Leave
  <2>4. CASE Lock(p)
    BY <2>4 DEF Lock
  <2> QED BY <1>7, <2>1, <2>2, <2>3, <2>4
<1>8. CASE OpenExisting(p)
  BY <1>8 DEF OpenExisting
<1>9. CASE \E f \in Files : OpenCreates(p, f)
  BY <1>1, <1>4, <1>9 DEF OpenCreates
<1>10. CASE Take(p)
  BY <1>1, <1>10 DEF Take, Expiry
<1>11. CASE Refuse(p)
  BY <1>2, <1>5, <1>11 DEF Refuse
<1>12. CASE Granted(p) \/ ReleaseUnlocks(p)
  BY <1>5, <1>12 DEF Granted, ReleaseUnlocks
<1>13. CASE Truncate(p)
  <2>1. files' \in [Files -> [made : BOOLEAN, lease : Leases]]
    BY <1>1, <1>4, <1>13 DEF Truncate
  <2> QED BY <1>13, <2>1 DEF Truncate
<1>14. CASE Write(p)
  <2>1. files' \in [Files -> [made : BOOLEAN, lease : Leases]]
    BY <1>3, <1>4, <1>14 DEF Write
  <2>2. held' \in [Procs -> [file : Files \cup {NoFile}, expires : Time]]
    BY <1>2, <1>14 DEF Write
  <2> QED BY <1>14, <2>1, <2>2 DEF Write
<1>15. CASE ReleaseFindsNone(p) \/ Crash(p) \/ Unlink(p)
  <2>1. CASE ReleaseFindsNone(p)
    BY <1>6, <2>1 DEF ReleaseFindsNone
  <2>2. CASE Crash(p)
    BY <1>6, <2>2 DEF Crash
  <2>3. CASE Unlink(p)
    BY <1>6, <2>3 DEF Unlink
  <2> QED BY <1>15, <2>1, <2>2, <2>3
<1>16. CASE Stat(p)
  BY <1>6, <1>16 DEF Stat
<1>17. CASE ReleaseFinds(p) \/ Reopen(p)
  BY <1>17 DEF ReleaseFinds, Reopen
<1>18. CASE Release(p)
  <2>1. files' \in [Files -> [made : BOOLEAN, lease : Leases]]
    BY <1>1, <1>4, <1>18 DEF Release, ClearsOwn
  <2>2. held' \in [Procs -> [file : Files \cup {NoFile}, expires : Time]]
    BY <1>2, <1>18 DEF Release
  <2> QED BY <1>18, <2>1, <2>2 DEF Release
<1> QED
  BY <1>7, <1>8, <1>9, <1>10, <1>11, <1>12, <1>13, <1>14, <1>15, <1>16, <1>17, <1>18
  DEF Process, Call

\* The state of the other processes is their own.
LEMMA OthersStay ==
    ASSUME TypeOK, NEW p \in Procs, Process(p)
    PROVE  /\ now' = now
           /\ \A q \in Procs \ {p} :
                 pc'[q] = pc[q] /\ fd'[q] = fd[q] /\ held'[q] = held[q]
<1> USE DEF TypeOK, Goto
<1>1. CASE Start(p) \/ NextTick(p) \/ Leave(p) \/ Lock(p) \/ Take(p)
  BY <1>1 DEF Start, NextTick, Leave, Lock, Take
<1>2. CASE OpenExisting(p) \/ (\E f \in Files : OpenCreates(p, f)) \/ Truncate(p) \/ Write(p)
  BY <1>2 DEF OpenExisting, OpenCreates, Truncate, Write
<1>3. CASE Refuse(p) \/ Granted(p) \/ ReleaseUnlocks(p)
  BY <1>3 DEF Refuse, Granted, ReleaseUnlocks, Unlocks
<1>4. CASE ReleaseFindsNone(p) \/ Crash(p) \/ Stat(p) \/ Unlink(p)
  BY <1>4 DEF ReleaseFindsNone, Crash, Stat, Unlink, Exits
<1>5. CASE ReleaseFinds(p) \/ Reopen(p) \/ Release(p)
  BY <1>5 DEF ReleaseFinds, Reopen, Release
<1> QED BY <1>1, <1>2, <1>3, <1>4, <1>5 DEF Process, Call

\* What a step of p that is not a truncation, a write or a release does to the
\* files, the locks and p's own lease.
LEMMA QuietStep ==
    ASSUME LeaseInv, NEW p \in Procs, Process(p),
           ~Truncate(p), ~Write(p), ~Release(p)
    PROVE  /\ \A f \in Files : files'[f].lease = files[f].lease
           /\ held'[p] \in {held[p], NoLease}
           /\ p \notin Running' => held'[p] = NoLease
           /\ pc'[p] \notin {"write", "cleared"}
           /\ pc[p] = "write" => held'[p] = NoLease
           /\ pc'[p] \in Locked \cup {"lock"} => fd'[p] \in Files
           /\ pc'[p] \in Locked => locks'[fd'[p]] = p
           /\ \A q \in Procs \ {p}, f \in Files : locks[f] = q => locks'[f] = q
           /\ pc'[p] = "truncate" => Take(p)
<1> USE LeaseAssumption DEF LeaseInv, TypeOK, LockIsHeld, Goto, Running, Locked, NoLease
<1>1. CASE Start(p) \/ NextTick(p) \/ Leave(p)
  BY <1>1 DEF Start, NextTick, Leave
<1>2. CASE Lock(p)
  BY <1>2 DEF Lock, LockFree
<1>3. CASE Take(p)
  BY <1>3 DEF Take
<1>4. CASE OpenExisting(p) \/ \E f \in Files : OpenCreates(p, f)
  BY <1>4 DEF OpenExisting, OpenCreates
<1>5. CASE Refuse(p)
  BY <1>5 DEF Refuse, Unlocks
<1>6. CASE Granted(p)
  BY <1>6 DEF Granted, Unlocks
<1>7. CASE ReleaseUnlocks(p)
  BY <1>7 DEF ReleaseUnlocks, Unlocks
<1>8. CASE ReleaseFindsNone(p) \/ Crash(p) \/ Unlink(p)
  BY <1>8 DEF ReleaseFindsNone, Crash, Unlink, Exits
<1>9. CASE Stat(p)
  BY <1>9 DEF Stat, Exits
<1>10. CASE ReleaseFinds(p) \/ Reopen(p)
  BY <1>10 DEF ReleaseFinds, Reopen
<1> QED
  BY <1>1, <1>2, <1>3, <1>4, <1>5, <1>6, <1>7, <1>8, <1>9, <1>10 DEF Process, Call

-------------------------------------------------------------------------------
\* A process that may take the lease found no other holder in the file.
LEMMA TakeFindsNoOther ==
    ASSUME LeaseInv, NEW p \in Procs, NEW q \in Procs, Take(p),
           Holds(q), held[q].file = fd[p]
    PROVE  q = p
<1>1. fd[p] \in Files /\ locks[fd[p]] = p
  BY DEF LeaseInv, LockIsHeld, Take, Locked
<1>2. CASE pc[q] = "write" /\ fd[q] = held[q].file
  BY <1>1, <1>2 DEF LeaseInv, LockIsHeld, Locked
<1>3. CASE OnDisk(p) = [owner |-> q, expires |-> held[q].expires]
  <2>1. ~IsEmpty(OnDisk(p))
    BY <1>3, LeaseAssumption DEF IsEmpty
  <2>2. q \in Running
    BY <1>1 DEF LeaseInv, HoldersRun, Holds
  <2>3. ~IsStale(OnDisk(p))
    BY <1>3, <2>2, LeaseAssumption DEF IsStale, Holds, LeaseInv, TypeOK, Time
  <2>4. OnDisk(p).owner = q
    BY <1>3
  <2>5. CanTake(p, OnDisk(p)) \/ Names(p, OnDisk(p))
    BY DEF Take, Allowed
  <2> QED BY <2>1, <2>3, <2>4, <2>5 DEF CanTake, Names
<1> QED BY <1>1, <1>2, <1>3 DEF LeaseInv, HolderIsNamed, OnDisk

\* A step of one process keeps the invariant.
LEMMA LeaseProcess == ASSUME LeaseInv, NEW p \in Procs, Process(p) PROVE LeaseInv'
<1>1. TypeOK'
  BY TypeProcess DEF LeaseInv
<1>2. /\ now' = now
      /\ \A q \in Procs \ {p} :
            pc'[q] = pc[q] /\ fd'[q] = fd[q] /\ held'[q] = held[q]
  BY OthersStay DEF LeaseInv
<1>3. CASE Truncate(p)
  <2>1. /\ pc[p] = "truncate" /\ pc'[p] = "write" /\ pc' = [pc EXCEPT ![p] = "write"]
        /\ fd' = fd /\ locks' = locks /\ held' = held
        /\ fd[p] \in Files /\ locks[fd[p]] = p
    BY <1>3 DEF Truncate, Goto, LeaseInv, TypeOK, LockIsHeld, Locked
  <2>2. /\ \A f \in Files \ {fd[p]} : files'[f].lease = files[f].lease
    BY <1>3, <2>1 DEF Truncate, LeaseInv, TypeOK
  <2>3. LockIsHeld'
    BY <1>2, <2>1 DEF LockIsHeld, Locked, LeaseInv
  <2>4. NoOtherHolder'
    BY <1>2, <2>1 DEF NoOtherHolder, Holds, LeaseInv
  <2>5. HoldersRun'
    BY <1>2, <2>1 DEF HoldersRun, Running, LeaseInv
  <2>6. ASSUME NEW q \in Procs, Holds(q)'
        PROVE  \/ files'[held'[q].file].lease = [owner |-> q, expires |-> held'[q].expires]
               \/ pc'[q] = "write" /\ fd'[q] = held'[q].file
    <3>1. Holds(q) /\ held[q].file \in Files
      BY <1>2, <2>1, <2>6 DEF Holds, LeaseInv, TypeOK
    <3>2. CASE held[q].file = fd[p]
      BY <2>1, <3>1, <3>2 DEF NoOtherHolder, LeaseInv
    <3>3. CASE held[q].file # fd[p]
      <4>1. q # p => pc'[q] = pc[q]
        BY <1>2
      <4>2. pc[q] = "write" /\ fd[q] = held[q].file => q # p
        BY <2>1
      <4> QED BY <2>1, <2>2, <3>1, <3>3, <4>1, <4>2 DEF HolderIsNamed, LeaseInv
    <3> QED BY <3>2, <3>3
  <2> QED BY <1>1, <2>3, <2>4, <2>5, <2>6 DEF LeaseInv, HolderIsNamed
<1>4. CASE Write(p)
  <2>1. /\ pc[p] = "write" /\ pc'[p] = "written" /\ fd' = fd /\ locks' = locks
        /\ fd[p] \in Files /\ locks[fd[p]] = p
    BY <1>4 DEF Write, Goto, LeaseInv, TypeOK, LockIsHeld, Locked
  <2>2. /\ \A f \in Files \ {fd[p]} : files'[f].lease = files[f].lease
        /\ files'[fd[p]].lease = [owner |-> p, expires |-> until[p]]
        /\ held'[p] = [file |-> fd[p], expires |-> until[p]]
    BY <1>4, <2>1 DEF Write, LeaseInv, TypeOK
  <2>3. LockIsHeld'
    BY <1>2, <2>1 DEF LockIsHeld, Locked, LeaseInv
  <2>4. NoOtherHolder'
    <3> SUFFICES ASSUME NEW r \in Procs, NEW q \in Procs,
                        pc'[r] \in {"truncate", "write"}, Holds(q)', held'[q].file = fd'[r]
                 PROVE  q = r
      BY DEF NoOtherHolder
    <3>1. r # p /\ pc[r] \in {"truncate", "write"} /\ fd[r] \in Files /\ locks[fd[r]] = r
      BY <1>2, <2>1 DEF LeaseInv, LockIsHeld, Locked
    <3>2. q # p
      BY <2>1, <2>2, <3>1
    <3> QED BY <1>2, <2>1, <3>1, <3>2 DEF LeaseInv, NoOtherHolder, Holds
  <2>5. HoldersRun'
    BY <1>2, <2>1 DEF HoldersRun, Running, LeaseInv
  <2>6. ASSUME NEW q \in Procs, Holds(q)'
        PROVE  \/ files'[held'[q].file].lease = [owner |-> q, expires |-> held'[q].expires]
               \/ pc'[q] = "write" /\ fd'[q] = held'[q].file
    <3>1. CASE q = p
      BY <2>2, <3>1
    <3>2. CASE q # p
      <4>1. Holds(q) /\ held'[q] = held[q] /\ held[q].file \in Files
        BY <1>2, <2>6, <3>2 DEF Holds, LeaseInv, TypeOK
      <4>2. held[q].file # fd[p]
        BY <2>1, <3>2, <4>1 DEF NoOtherHolder, LeaseInv
      <4> QED BY <1>2, <2>1, <2>2, <3>2, <4>1, <4>2 DEF HolderIsNamed, LeaseInv
    <3> QED BY <3>1, <3>2
  <2> QED BY <1>1, <2>3, <2>4, <2>5, <2>6 DEF LeaseInv, HolderIsNamed
<1>5. CASE Release(p)
  <2>1. /\ pc[p] = "check" /\ pc'[p] = "cleared" /\ fd' = fd /\ locks' = locks
        /\ held'[p] = NoLease /\ fd[p] \in Files /\ locks[fd[p]] = p
    BY <1>5 DEF Release, Goto, LeaseInv, TypeOK, LockIsHeld, Locked
  <2>2. ASSUME NEW f \in Files, files[f].lease.owner # p \/ f # fd[p]
        PROVE  files'[f].lease = files[f].lease
    BY <1>5, <2>1, <2>2 DEF Release, ClearsOwn, Names, OnDisk, LeaseInv, TypeOK
  <2>3. LockIsHeld'
    BY <1>2, <2>1 DEF LockIsHeld, Locked, LeaseInv
  <2>4. ~Holds(p)'
    BY <2>1 DEF Holds, NoLease
  <2>5. \A q \in Procs : Holds(q)' => q # p /\ Holds(q) /\ held'[q] = held[q]
    BY <1>2, <2>4 DEF Holds
  <2>6. NoOtherHolder'
    BY <1>2, <2>1, <2>5 DEF NoOtherHolder, LeaseInv
  <2>7. HoldersRun'
    BY <1>2, <2>1 DEF HoldersRun, Running, LeaseInv
  <2>8. ASSUME NEW q \in Procs, Holds(q)'
        PROVE  \/ files'[held'[q].file].lease = [owner |-> q, expires |-> held'[q].expires]
               \/ pc'[q] = "write" /\ fd'[q] = held'[q].file
    <3>1. q # p /\ Holds(q) /\ held'[q] = held[q] /\ held[q].file \in Files
      BY <2>5, <2>8 DEF Holds, LeaseInv, TypeOK
    <3>2. CASE files[held[q].file].lease = [owner |-> q, expires |-> held[q].expires]
      <4>1. files[held[q].file].lease.owner = q
        BY <3>2
      <4> QED BY <2>2, <3>1, <3>2, <4>1
    <3> QED BY <1>2, <3>1, <3>2 DEF HolderIsNamed, LeaseInv
  <2> QED BY <1>1, <2>3, <2>6, <2>7, <2>8 DEF LeaseInv, HolderIsNamed
<1>6. CASE ~Truncate(p) /\ ~Write(p) /\ ~Release(p)
  <2>1. /\ \A f \in Files : files'[f].lease = files[f].lease
        /\ held'[p] \in {held[p], NoLease}
        /\ p \notin Running' => held'[p] = NoLease
        /\ pc'[p] \notin {"write", "cleared"}
        /\ pc[p] = "write" => held'[p] = NoLease
        /\ pc'[p] \in Locked \cup {"lock"} => fd'[p] \in Files
        /\ pc'[p] \in Locked => locks'[fd'[p]] = p
        /\ \A q \in Procs \ {p}, f \in Files : locks[f] = q => locks'[f] = q
        /\ pc'[p] = "truncate" => Take(p)
    BY <1>6, QuietStep
  <2>2. LockIsHeld'
    BY <1>2, <2>1 DEF LockIsHeld, Locked, LeaseInv
  <2>3. \A q \in Procs : Holds(q)' => Holds(q) /\ held'[q] = held[q]
    BY <1>2, <2>1 DEF Holds, NoLease
  <2>4. NoOtherHolder'
    <3> SUFFICES ASSUME NEW r \in Procs, NEW q \in Procs,
                        pc'[r] \in {"truncate", "write"}, Holds(q)', held'[q].file = fd'[r]
                 PROVE  q = r
      BY DEF NoOtherHolder
    <3>1. CASE r = p
      <4>1. Take(p) /\ fd'[p] = fd[p]
        BY <2>1, <3>1 DEF Take
      <4> QED BY <2>3, <3>1, <4>1, TakeFindsNoOther
    <3>2. CASE r # p
      BY <1>2, <2>3, <3>2 DEF LeaseInv, NoOtherHolder
    <3> QED BY <3>1, <3>2
  <2>5. HoldersRun'
    <3> SUFFICES ASSUME NEW q \in Procs, held'[q].file # NoFile PROVE q \in Running'
      BY DEF HoldersRun
    <3>1. CASE q = p
      BY <2>1, <3>1 DEF NoLease
    <3>2. CASE q # p
      BY <1>2, <3>2 DEF LeaseInv, HoldersRun, Running
    <3> QED BY <3>1, <3>2
  <2>6. ASSUME NEW q \in Procs, Holds(q)'
        PROVE  \/ files'[held'[q].file].lease = [owner |-> q, expires |-> held'[q].expires]
               \/ pc'[q] = "write" /\ fd'[q] = held'[q].file
    <3>1. Holds(q) /\ held'[q] = held[q] /\ held[q].file \in Files
      BY <2>3, <2>6 DEF Holds, LeaseInv, TypeOK
    <3>2. q = p => pc[q] # "write"
      BY <2>1, <2>6 DEF Holds, NoLease
    <3> QED BY <1>2, <2>1, <3>1, <3>2 DEF HolderIsNamed, LeaseInv
  <2> QED BY <1>1, <2>2, <2>4, <2>5, <2>6 DEF LeaseInv, HolderIsNamed
<1> QED BY <1>3, <1>4, <1>5, <1>6

\* Every step keeps the invariant: one process moves, or time passes and leases
\* run out.
LEMMA LeaseNext == LeaseInv /\ [Next]_vars => LeaseInv'
<1> SUFFICES ASSUME LeaseInv, [Next]_vars PROVE LeaseInv'
  OBVIOUS
<1>1. ASSUME NEW p \in Procs, Process(p) PROVE LeaseInv'
  BY <1>1, LeaseProcess
<1>2. CASE ClockTicks
  <2>1. TypeOK'
    BY <1>2, LeaseAssumption DEF LeaseInv, TypeOK, ClockTicks
  <2>2. \A p \in Procs : Holds(p)' => Holds(p)
    BY <1>2, LeaseAssumption DEF ClockTicks, Holds, LeaseInv, TypeOK, Time
  <2>3. LockIsHeld' /\ HoldersRun'
    BY <1>2 DEF ClockTicks, LeaseInv, LockIsHeld, HoldersRun, Running
  <2>4. NoOtherHolder' /\ HolderIsNamed'
    BY <1>2, <2>2 DEF ClockTicks, LeaseInv, NoOtherHolder, HolderIsNamed
  <2> QED BY <2>1, <2>3, <2>4 DEF LeaseInv
<1>3. CASE UNCHANGED vars
  BY <1>3 DEF vars, LeaseInv, TypeOK, LockIsHeld, NoOtherHolder, HoldersRun,
              HolderIsNamed, Holds, Running
<1> QED BY <1>1, <1>2, <1>3 DEF Next

\* The invariant holds in every reachable state.
LEMMA LeaseAlways == Spec => []LeaseInv
<1> QED BY LeaseInit, LeaseNext, PTL DEF Spec

\* Type correctness of the lease protocol.
THEOREM LeaseTypeCorrect == Spec => []TypeOK
<1>1. LeaseInv => TypeOK
  BY DEF LeaseInv
<1> QED BY <1>1, LeaseAlways, PTL

\* _with_lock never overwrites the live lease of another supervisor: an unexpired
\* holder stays named in the file it wrote its lease to.
THEOREM HolderIsNamedHolds == Spec => []HolderIsNamed
<1>1. LeaseInv => HolderIsNamed
  BY DEF LeaseInv
<1> QED BY <1>1, LeaseAlways, PTL

\* One lease file never serves two supervisors at the same time.
THEOREM OneHolderPerFileHolds == Spec => []OneHolderPerFile
<1>1. LeaseInv => OneHolderPerFile
  <2> SUFFICES ASSUME LeaseInv, NEW p \in Procs, NEW q \in Procs,
                      Holds(p), Holds(q), held[p].file = held[q].file
               PROVE  p = q
    BY DEF OneHolderPerFile
  <2>1. CASE pc[p] = "write" /\ fd[p] = held[p].file
    BY <2>1 DEF LeaseInv, NoOtherHolder
  <2>2. CASE pc[q] = "write" /\ fd[q] = held[q].file
    BY <2>2 DEF LeaseInv, NoOtherHolder
  <2>3. CASE /\ files[held[p].file].lease = [owner |-> p, expires |-> held[p].expires]
             /\ files[held[q].file].lease = [owner |-> q, expires |-> held[q].expires]
    <3>1. files[held[p].file].lease.owner = p /\ files[held[q].file].lease.owner = q
      BY <2>3
    <3> QED BY <3>1
  <2> QED BY <2>1, <2>2, <2>3 DEF LeaseInv, HolderIsNamed
<1> QED BY <1>1, LeaseAlways, PTL

-------------------------------------------------------------------------------
\* A release leaves nothing of its own.

\* Files in use were made, and a file not made yet names nobody.
FilesMade ==
    /\ path # NoFile => files[path].made
    /\ \A p \in Procs : fd[p] # NoFile => files[fd[p]].made
    /\ \A f \in Files : ~files[f].made => files[f].lease.owner = NoProc

\* Between its open and its check a release has open whatever names it on the path:
\* a path that was replaced meanwhile leads to a file that names somebody else.
ReleaseOpened ==
    \A p \in Procs : pc[p] \in {"lock", "check"} /\ op[p] = "release" =>
        path = NoFile \/ files[path].lease.owner # p \/ fd[p] = path

FreesInv == FilesMade /\ ReleaseOpened /\ ReleaseFrees

\* A step that leaves the files and the path alone keeps it, if whoever comes into a
\* release has the path open or finds itself not named there.
LEMMA FreesQuiet ==
    ASSUME TypeOK, FreesInv, NEW p \in Procs, UNCHANGED <<path, files>>,
           \A q \in Procs \ {p} : pc'[q] = pc[q] /\ op'[q] = op[q] /\ fd'[q] = fd[q],
           fd'[p] \in {NoFile, path, fd[p]},
           pc'[p] \in {"lock", "check"} /\ op'[p] = "release" =>
              fd'[p] = path \/ (pc[p] = "lock" /\ op[p] = "release" /\ fd'[p] = fd[p]),
           pc'[p] \in {"cleared", "stat", "unlink"} => pc[p] \in {"cleared", "stat", "unlink"}
    PROVE  FreesInv'
<1>1. FilesMade'
  BY DEF FreesInv, FilesMade
<1>2. ReleaseOpened'
  BY DEF FreesInv, ReleaseOpened
<1>3. ReleaseFrees'
  BY DEF FreesInv, ReleaseFrees
<1> QED BY <1>1, <1>2, <1>3 DEF FreesInv

\* A step of one process keeps it.
LEMMA FreesProcess == ASSUME TypeOK, LockIsHeld, FreesInv, NEW p \in Procs, Process(p)
                      PROVE  FreesInv'
<1> USE LeaseAssumption
<1>1. CASE Start(p) \/ NextTick(p) \/ Leave(p)
  BY <1>1, FreesQuiet DEF Start, NextTick, Leave, Goto, TypeOK
<1>2. CASE OpenExisting(p) \/ Reopen(p)
  BY <1>2, FreesQuiet DEF OpenExisting, Reopen, Goto, TypeOK
<1>3. CASE Lock(p)
  BY <1>3, FreesQuiet DEF Lock, Goto, TypeOK
<1>4. CASE Take(p) \/ Refuse(p) \/ Granted(p) \/ ReleaseUnlocks(p)
  BY <1>4, FreesQuiet DEF Take, Refuse, Granted, ReleaseUnlocks, Unlocks, Goto, TypeOK
<1>5. CASE ReleaseFindsNone(p) \/ ReleaseFinds(p) \/ Stat(p) \/ Crash(p)
  BY <1>5, FreesQuiet DEF ReleaseFindsNone, ReleaseFinds, Stat, Crash, Exits, Goto, TypeOK
<1>6. ASSUME NEW f \in Files, OpenCreates(p, f) PROVE FreesInv'
  <2>1. /\ path' = f /\ path = NoFile /\ files'[f].made
        /\ files'[f].lease.owner = NoProc
        /\ \A g \in Files : /\ files'[g].lease = files[g].lease
                            /\ files[g].made => files'[g].made
        /\ fd'[p] = f /\ pc'[p] = "lock"
        /\ \A q \in Procs \ {p} : pc'[q] = pc[q] /\ op'[q] = op[q] /\ fd'[q] = fd[q]
    BY <1>6 DEF OpenCreates, Goto, TypeOK, FreesInv, FilesMade
  <2>2. FilesMade'
    BY <2>1 DEF FreesInv, FilesMade, TypeOK
  <2>3. ReleaseOpened' /\ ReleaseFrees'
    BY <2>1 DEF ReleaseOpened, ReleaseFrees
  <2> QED BY <2>2, <2>3 DEF FreesInv
<1>7. CASE Truncate(p) \/ Write(p) \/ Release(p)
  <2>1. fd[p] \in Files
    BY <1>7 DEF Truncate, Write, Release, LockIsHeld, Locked
  <2>2. /\ UNCHANGED <<path, fd, op>>
        /\ \A q \in Procs \ {p} : pc'[q] = pc[q]
        /\ \A g \in Files : files'[g].made = files[g].made
        /\ \A g \in Files \ {fd[p]} : files'[g] = files[g]
    <3>1. CASE Truncate(p)
      BY <2>1, <3>1 DEF Truncate, Goto, TypeOK
    <3>2. CASE Write(p)
      BY <2>1, <3>2 DEF Write, Goto, TypeOK
    <3>3. CASE Release(p)
      BY <2>1, <3>3 DEF Release, ClearsOwn, Goto, TypeOK
    <3> QED BY <1>7, <3>1, <3>2, <3>3
  <2>3. \A g \in Files : \A q \in Procs \ {p} :
           files'[g].lease.owner = q => files[g].lease.owner = q
    BY <1>7, <2>1, <2>2 DEF Truncate, Write, Release, ClearsOwn, Empty, TypeOK
  <2>4. FilesMade'
    <3>1. files[fd[p]].made
      BY <2>1 DEF FreesInv, FilesMade
    <3>2. \A q \in Procs : fd'[q] # NoFile => files'[fd'[q]].made
      BY <2>2 DEF FreesInv, FilesMade, TypeOK
    <3>3. path' # NoFile => files'[path'].made
      BY <2>2 DEF FreesInv, FilesMade, TypeOK
    <3>4. \A f \in Files : ~files'[f].made => files'[f].lease.owner = NoProc
      BY <2>2, <3>1 DEF FreesInv, FilesMade
    <3> QED BY <3>2, <3>3, <3>4 DEF FilesMade
  <2>5. ReleaseOpened'
    <3>1. pc'[p] \notin {"lock", "check"}
      BY <1>7 DEF Truncate, Write, Release, Goto, TypeOK
    <3> QED BY <2>2, <2>3, <3>1 DEF FreesInv, ReleaseOpened, TypeOK
  <2>6. ReleaseFrees'
    <3>1. CASE Truncate(p) \/ Write(p)
      <4>1. pc'[p] \notin {"cleared", "stat", "unlink"}
        BY <3>1 DEF Truncate, Write, Goto, TypeOK
      <4> QED BY <2>2, <2>3, <4>1 DEF FreesInv, ReleaseFrees, TypeOK
    <3>2. CASE Release(p)
      <4>1. path' = NoFile \/ files'[path'].lease.owner # p
        BY <2>1, <2>2, <3>2 DEF Release, ClearsOwn, Names, OnDisk, Empty, TypeOK, FreesInv, ReleaseOpened
      <4> QED BY <2>2, <2>3, <4>1 DEF FreesInv, ReleaseFrees, TypeOK
    <3> QED BY <1>7, <3>1, <3>2
  <2> QED BY <2>4, <2>5, <2>6 DEF FreesInv
<1>8. CASE Unlink(p)
  <2>1. /\ path' = NoFile /\ files' = files /\ pc'[p] = "gone" /\ fd'[p] = NoFile
        /\ \A q \in Procs \ {p} : fd'[q] = fd[q]
    BY <1>8 DEF Unlink, Exits, Goto, TypeOK
  <2> QED BY <2>1 DEF FreesInv, FilesMade, ReleaseOpened, ReleaseFrees
<1> QED BY <1>1, <1>2, <1>3, <1>4, <1>5, <1>6, <1>7, <1>8 DEF Process, Call

\* release never leaves a lease in the name of the supervisor that ended, whatever
\* became of the file since it was opened.
THEOREM ReleaseFreesHolds == Spec => []ReleaseFrees
<1>1. Init => FreesInv
  BY LeaseAssumption DEF Init, FreesInv, FilesMade, ReleaseOpened, ReleaseFrees, Empty
<1>2. LeaseInv /\ FreesInv /\ [Next]_vars => FreesInv'
  <2> SUFFICES ASSUME LeaseInv, FreesInv, [Next]_vars PROVE FreesInv'
    OBVIOUS
  <2>1. ASSUME NEW p \in Procs, Process(p) PROVE FreesInv'
    BY <2>1, FreesProcess DEF LeaseInv
  <2>2. CASE ClockTicks \/ UNCHANGED vars
    BY <2>2 DEF ClockTicks, vars, FreesInv, FilesMade, ReleaseOpened, ReleaseFrees
  <2> QED BY <2>1, <2>2 DEF Next
<1>3. FreesInv => ReleaseFrees
  BY DEF FreesInv
<1> QED BY <1>1, <1>2, <1>3, LeaseAlways, PTL DEF Spec

-------------------------------------------------------------------------------
\* Only the unlink of release lets two supervisors in.

\* Nobody but p uses a lease file: nobody has one open or holds a lease.
NobodyElse(p) == \A q \in Procs \ {p} : fd[q] = NoFile /\ ~Holds(q)

\* What release does not see to: its unlink hits a file that nobody else uses.
UnlinksUnused == \A p \in Procs : Unlink(p) => NobodyElse(p)

\* Whatever is open, and whatever a live lease is written in, is on the path.
OnPath ==
    \A p \in Procs : /\ fd[p] \in {NoFile, path}
                     /\ Holds(p) => held[p].file = path

\* A step of one process keeps the files in use on the path.
LEMMA OnPathProcess ==
    ASSUME LeaseInv, OnPath, UnlinksUnused, NEW p \in Procs, Process(p)
    PROVE  OnPath'
<1>1. /\ now' = now
      /\ \A q \in Procs \ {p} :
            pc'[q] = pc[q] /\ fd'[q] = fd[q] /\ held'[q] = held[q]
  BY OthersStay DEF LeaseInv
<1>2. \A q \in Procs \ {p} : Holds(q)' = Holds(q)
  BY <1>1 DEF Holds
<1>3. NoFile \notin Files
  BY LeaseAssumption
<1>4. CASE Unlink(p)
  <2>1. fd'[p] = NoFile /\ held'[p] = NoLease
    BY <1>4 DEF Unlink, Exits, LeaseInv, TypeOK
  <2>2. ~Holds(p)'
    BY <2>1 DEF Holds, NoLease
  <2>3. \A q \in Procs \ {p} : fd'[q] = NoFile /\ ~Holds(q)'
    BY <1>1, <1>2, <1>4 DEF UnlinksUnused, NobodyElse
  <2> QED BY <2>1, <2>2, <2>3 DEF OnPath
<1>5. ASSUME NEW f \in Files, OpenCreates(p, f) PROVE OnPath'
  <2>1. path = NoFile /\ path' = f /\ fd'[p] = f /\ held' = held
    BY <1>5 DEF OpenCreates, LeaseInv, TypeOK
  <2>2. \A q \in Procs : fd[q] = NoFile /\ ~Holds(q)
    BY <2>1 DEF OnPath, Holds
  <2>3. \A q \in Procs : ~Holds(q)'
    BY <1>1, <2>1, <2>2 DEF Holds
  <2> QED BY <1>1, <2>1, <2>2, <2>3 DEF OnPath
<1>6. CASE Write(p)
  <2>1. /\ path' = path /\ fd' = fd /\ fd[p] \in Files
        /\ held'[p] = [file |-> fd[p], expires |-> until[p]]
    BY <1>6 DEF Write, LeaseInv, TypeOK, LockIsHeld, Locked
  <2>2. fd[p] = path
    BY <1>3, <2>1 DEF OnPath
  <2> QED BY <1>1, <1>2, <2>1, <2>2 DEF OnPath
<1>7. ASSUME path' = path, fd'[p] \in {NoFile, path}, held'[p] \in {held[p], NoLease}
      PROVE  OnPath'
  <2>1. Holds(p)' => Holds(p) /\ held'[p] = held[p]
    BY <1>1, <1>7 DEF Holds, NoLease
  <2> QED BY <1>1, <1>2, <1>7, <2>1 DEF OnPath
<1> USE DEF LeaseInv, TypeOK, OnPath
<1>8. CASE Start(p) \/ NextTick(p) \/ Leave(p) \/ Lock(p) \/ Take(p) \/ Truncate(p)
  BY <1>7, <1>8 DEF Start, NextTick, Leave, Lock, Take, Truncate
<1>9. CASE OpenExisting(p) \/ Reopen(p) \/ ReleaseFinds(p) \/ Release(p)
  BY <1>7, <1>9 DEF OpenExisting, Reopen, ReleaseFinds, Release
<1>10. CASE Refuse(p) \/ Granted(p) \/ ReleaseUnlocks(p)
  BY <1>7, <1>10 DEF Refuse, Granted, ReleaseUnlocks, Unlocks
<1>11. CASE ReleaseFindsNone(p) \/ Stat(p) \/ Crash(p)
  BY <1>7, <1>11 DEF ReleaseFindsNone, Stat, Crash, Exits
<1> QED
  BY <1>4, <1>5, <1>6, <1>8, <1>9, <1>10, <1>11 DEF Process, Call

\* One supervisor instance per project, as long as no unlink of release hits a file
\* that another process has open or holds the lease in.  The code looks at the file
\* (stat) before it unlinks and not again: that window, and nothing else in acquire,
\* renew, release or a crash, is what breaks ExclusiveLease.
THEOREM ExclusiveUnlessUnlinked == Spec /\ [][UnlinksUnused]_vars => []ExclusiveLease
<1>1. Init => OnPath
  BY DEF Init, OnPath, Holds, NoLease
<1>2. LeaseInv /\ OnPath /\ [Next]_vars /\ [UnlinksUnused]_vars => OnPath'
  <2> SUFFICES ASSUME LeaseInv, OnPath, [Next]_vars, [UnlinksUnused]_vars PROVE OnPath'
    OBVIOUS
  <2>1. CASE UNCHANGED vars
    BY <2>1 DEF vars, OnPath, Holds
  <2>2. CASE ClockTicks
    <3>1. \A p \in Procs : Holds(p)' => Holds(p)
      BY <2>2, LeaseAssumption DEF ClockTicks, Holds, LeaseInv, TypeOK, Time
    <3> QED BY <2>2, <3>1 DEF ClockTicks, OnPath
  <2>3. ASSUME NEW p \in Procs, Process(p), UnlinksUnused PROVE OnPath'
    BY <2>3, OnPathProcess
  <2> QED BY <2>1, <2>2, <2>3 DEF Next
<1>3. OneHolderPerFile /\ OnPath => ExclusiveLease
  BY DEF OneHolderPerFile, OnPath, ExclusiveLease
<1> QED BY <1>1, <1>2, <1>3, LeaseAlways, OneHolderPerFileHolds, PTL DEF Spec
===============================================================================
