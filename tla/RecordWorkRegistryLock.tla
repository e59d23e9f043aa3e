------------------------ MODULE RecordWorkRegistryLock ------------------------
(***************************************************************************)
(* The file lock of the Record work registry (record-work-registry.ts): a   *)
(* lock file created exclusively and kept alive by a heartbeat, a lease     *)
(* after which anybody may take the file away, and a second file, the       *)
(* reclaim barrier, that keeps two processes from doing so at once.         *)
(*                                                                         *)
(* Two paths name files.  A file is known by its token (or, while it is     *)
(* empty, by its inode), lives on when it is renamed, and is written        *)
(* through the handle of the process that created it.  Time is what is left *)
(* of a file's lease.                                                       *)
(*                                                                         *)
(* The code cannot rule out a process that stops between a check and what   *)
(* it does next.  MayStopAt says where processes may stop for any length of *)
(* time; they get from one such place to the next within GraceMs, but for   *)
(* one that is delayed.                                                     *)
(***************************************************************************)
EXTENDS Integers, FiniteSets

CONSTANTS
    Procs,          \* processes
    Files,          \* tokens: enough of them that one is always free
    LeaseMs,        \* leaseMs of the lock
    GraceMs,        \* heartbeatMs: how long an expired lock is left alone
    BarrierLeaseMs, \* max(leaseMs, REGISTRY_LOCK_RECLAIM_BARRIER_MIN_LEASE_MS)
    MayStopAt,      \* where a process may be stopped for any length of time
    MaxFaults       \* bound on crashes, delays and failing writes

None == "none"

ASSUME LockAssumption ==
    /\ GraceMs \in Nat \ {0}
    /\ LeaseMs \in Nat /\ LeaseMs > GraceMs
    /\ BarrierLeaseMs \in Nat /\ BarrierLeaseMs >= LeaseMs
    /\ None \notin Files
    /\ IsFiniteSet(Procs) /\ IsFiniteSet(Files)
    /\ Cardinality(Files) > 4 * Cardinality(Procs) + 2
    /\ MaxFaults \in Nat

VARIABLES
    lockPath,    \* the file at the lock path
    barrierPath, \* the file at the reclaim path
    file,        \* content of each file
    at,          \* where each process is, and its local variables
    late,        \* how long ago each process left a place it may stop at
    faults       \* crashes, delays and failing writes so far

vars == <<lockPath, barrierPath, file, at, late, faults>>
paths == <<lockPath, barrierPath>>

-----------------------------------------------------------------------------
(* Files. *)

\* left is expiresAt - now; for a file still empty, mtime + leaseMs - now.
Content == [left : -GraceMs..BarrierLeaseMs, written : BOOLEAN, released : BOOLEAN]

EmptyFile == [left |-> LeaseMs, written |-> FALSE, released |-> FALSE]

\* Mutant: the grace period is added to the lease itself.
LeaseWithGrace == [left |-> LeaseMs + GraceMs, written |-> TRUE, released |-> FALSE]

LockState == [left |-> LeaseMs, written |-> TRUE, released |-> FALSE]
BarrierState == [left |-> BarrierLeaseMs, written |-> TRUE, released |-> FALSE]

\* Mutant: an expired lock is reclaimed at once, without the grace period.
ReclaimableAtExpiry(f) == file[f].released \/ file[f].left <= 0

\* Mutant: a lock file whose owner died before writing it is never reclaimed.
ReclaimableIfWritten(f) ==
    file[f].released \/ (file[f].written /\ file[f].left <= -GraceMs)

\* isReclaimableRegistryLock, and inspectRegistryLock for an empty file.
Reclaimable(f) ==
    \/ file[f].released
    \/ file[f].left <= (IF file[f].written THEN -GraceMs ELSE 0)

\* inspectReclaimBarrier
Active(b) == file[b].left > 0

\* readOwnedLock: the path still names the file, which is neither released nor
\* expired.
Owns(p) ==
    LET f == at[p].file IN
    lockPath = f /\ file[f].written /\ ~file[f].released /\ file[f].left > 0

InUse == {lockPath, barrierPath}
            \cup UNION {{at[p].file, at[p].barrier, at[p].seen, at[p].moved} : p \in Procs}

\* randomUUID: any file nobody knows of; which one makes no difference.
FreshFile == CHOOSE f \in Files : f \notin InUse

-----------------------------------------------------------------------------
(* Processes. *)

Idle == [pc |-> "idle", file |-> None, barrier |-> None, seen |-> None,
         moved |-> None, heartbeat |-> "off"]

At(p, pc) == at[p].pc = pc

\* The heartbeat is a place of its own, from its look to its confirmation.
Unhurried(local) ==
    /\ local.pc \in MayStopAt \cup {"idle"}
    /\ local.heartbeat \in {"write", "confirm"} => "heartbeat" \in MayStopAt

Becomes(p, local) ==
    /\ at' = [at EXCEPT ![p] = local]
    /\ late' = [late EXCEPT ![p] = IF Unhurried(local) THEN 0 ELSE @]
Goto(p, pc) == Becomes(p, [at[p] EXCEPT !.pc = pc])

\* Back to the start of the loop of acquireRegistryLock, or past its deadline.
Again == [Idle EXCEPT !.pc = "barrier"]
NextRound(p) == \E local \in {Again, Idle} : Becomes(p, local)

\* waitForReclaimBarrier always answers "wait" once there was a barrier.  Before
\* the lock file is created that means another round, after it that the lock is
\* given up again.
AfterBarrier(p) ==
    IF at[p].file = None THEN NextRound(p)
    ELSE Becomes(p, [at[p] EXCEPT !.pc = "give_up", !.seen = None, !.moved = None])

Init ==
    /\ lockPath = None
    /\ barrierPath = None
    /\ file = [f \in Files |-> EmptyFile]
    /\ at = [p \in Procs |-> Idle]
    /\ late = [p \in Procs |-> 0]
    /\ faults = 0

\* withRegistryLock is called.
Start(p) ==
    /\ At(p, "idle")
    /\ Becomes(p, Again)
    /\ UNCHANGED <<paths, file, faults>>

-----------------------------------------------------------------------------
(* waitForReclaimBarrier and retireReclaimBarrier *)

\* Without a barrier a process without a lock file creates one, and a process
\* with one makes sure of it.
InspectBarrier(p) ==
    /\ at[p].pc \in {"barrier", "barrier_again"}
    /\ IF barrierPath = None
       THEN Goto(p, IF at[p].file = None THEN "open" ELSE "own")
       ELSE IF Active(barrierPath) THEN AfterBarrier(p)
       ELSE Becomes(p, [at[p] EXCEPT !.pc = "retire", !.seen = barrierPath])
    /\ UNCHANGED <<paths, file, faults>>

\* Tokens differ; an empty file has none.
IdentityChanged(f, g) == file[f].written /\ file[g].written /\ f /= g

VerifyRetire(p) ==
    /\ At(p, "retire")
    /\ IF \/ barrierPath = None
          \/ Active(barrierPath)
          \/ IdentityChanged(at[p].seen, barrierPath)
       THEN AfterBarrier(p)
       ELSE Becomes(p, [at[p] EXCEPT !.pc = "retire_rename", !.seen = barrierPath])
    /\ UNCHANGED <<paths, file, faults>>

RenameBarrier(p) ==
    /\ At(p, "retire_rename")
    /\ barrierPath' = None
    /\ IF barrierPath = None THEN AfterBarrier(p)
       ELSE Becomes(p, [at[p] EXCEPT !.pc = "retire_check", !.moved = barrierPath])
    /\ UNCHANGED <<lockPath, file, faults>>

\* A barrier that turns out to be alive is put back.
CheckRetired(p) ==
    /\ At(p, "retire_check")
    /\ IF Active(at[p].moved) \/ IdentityChanged(at[p].seen, at[p].moved)
       THEN Goto(p, "retire_restore")
       ELSE AfterBarrier(p)
    /\ UNCHANGED <<paths, file, faults>>

\* restoreLiveLock of the barrier, which gives up when the path stays taken.
RestoreBarrier(p) ==
    /\ At(p, "retire_restore")
    /\ barrierPath' = IF barrierPath = None THEN at[p].moved ELSE barrierPath
    /\ AfterBarrier(p)
    /\ UNCHANGED <<lockPath, file, faults>>

-----------------------------------------------------------------------------
(* acquireRegistryLock *)

\* open(lockPath, "wx")
OpenLock(p) ==
    /\ At(p, "open")
    /\ IF lockPath = None
       THEN /\ lockPath' = FreshFile
            /\ file' = [file EXCEPT ![FreshFile] = EmptyFile]
            /\ Becomes(p, [at[p] EXCEPT !.pc = "write", !.file = FreshFile])
       ELSE Goto(p, "inspect") /\ UNCHANGED <<lockPath, file>>
    /\ UNCHANGED <<barrierPath, faults>>

\* writeLockState, then waitForReclaimBarrier once more.
WriteLockState(p) ==
    /\ At(p, "write")
    /\ file' = [file EXCEPT ![at[p].file] = LockState]
    /\ Goto(p, "barrier_again")
    /\ UNCHANGED <<paths, faults>>

Fault == faults < MaxFaults /\ faults' = faults + 1

WriteFails(p) ==
    /\ At(p, "write")
    /\ Fault
    /\ Goto(p, "cleanup")
    /\ UNCHANGED <<paths, file>>

\* readOwnedLock, after up to three looks.
ConfirmOwned(p) ==
    /\ At(p, "own")
    /\ IF Owns(p) THEN Becomes(p, [at[p] EXCEPT !.pc = "hold", !.heartbeat = "rest"])
       ELSE Goto(p, "cleanup")
    /\ UNCHANGED <<paths, file, faults>>

\* cleanupFailedRegistryLockAcquisition: a look at the path, then the unlink.
CleanupCheck(p) ==
    /\ At(p, "cleanup")
    /\ IF lockPath = at[p].file THEN Goto(p, "unlink") ELSE Becomes(p, Idle)
    /\ UNCHANGED <<paths, file, faults>>

CleanupUnlink(p) ==
    /\ At(p, "unlink")
    /\ lockPath' = None
    /\ Becomes(p, Idle)
    /\ UNCHANGED <<barrierPath, file, faults>>

-----------------------------------------------------------------------------
(* reclaimLock *)

InspectLock(p) ==
    /\ At(p, "inspect")
    /\ IF lockPath = None THEN Becomes(p, Again)
       ELSE IF ~Reclaimable(lockPath) THEN NextRound(p)
       ELSE Becomes(p, [at[p] EXCEPT !.pc = "open_barrier", !.seen = lockPath])
    /\ UNCHANGED <<paths, file, faults>>

\* acquireReclaimBarrier
OpenBarrier(p) ==
    /\ At(p, "open_barrier")
    /\ IF barrierPath = None
       THEN /\ barrierPath' = FreshFile
            /\ file' = [file EXCEPT ![FreshFile] = EmptyFile]
            /\ Becomes(p, [at[p] EXCEPT !.pc = "write_barrier", !.barrier = FreshFile])
       ELSE NextRound(p) /\ UNCHANGED <<barrierPath, file>>
    /\ UNCHANGED <<lockPath, faults>>

WriteBarrier(p) ==
    /\ At(p, "write_barrier")
    /\ file' = [file EXCEPT ![at[p].barrier] = BarrierState]
    /\ Goto(p, "verify")
    /\ UNCHANGED <<paths, faults>>

BarrierWriteFails(p) ==
    /\ At(p, "write_barrier")
    /\ Fault
    /\ barrierPath' = None
    /\ Becomes(p, Idle)
    /\ UNCHANGED <<lockPath, file>>

\* The second look, behind the barrier.
StillReclaimable(p) ==
    lockPath /= None /\ Reclaimable(lockPath) /\ ~IdentityChanged(at[p].seen, lockPath)

VerifyReclaim(p) ==
    /\ At(p, "verify")
    /\ Becomes(p, [at[p] EXCEPT !.pc = IF StillReclaimable(p) THEN "rename" ELSE "release_barrier",
                                !.seen = None])
    /\ UNCHANGED <<paths, file, faults>>

RenameLock(p) ==
    /\ At(p, "rename")
    /\ lockPath' = None
    /\ IF lockPath = None THEN Goto(p, "release_barrier")
       ELSE Becomes(p, [at[p] EXCEPT !.pc = "check", !.moved = lockPath])
    /\ UNCHANGED <<barrierPath, file, faults>>

CheckMoved(p) ==
    /\ At(p, "check")
    /\ IF Reclaimable(at[p].moved)
       THEN Becomes(p, [at[p] EXCEPT !.pc = "release_barrier", !.moved = None])
       ELSE Goto(p, "restore")
    /\ UNCHANGED <<paths, file, faults>>

\* restoreLiveLock
RestoreLock(p) ==
    /\ At(p, "restore")
    /\ lockPath' = IF lockPath = None THEN at[p].moved ELSE lockPath
    /\ Becomes(p, [at[p] EXCEPT !.pc = "release_barrier", !.moved = None])
    /\ UNCHANGED <<barrierPath, file, faults>>

\* releaseReclaimBarrier: a look at the path, then the removal.
ReleaseBarrier(p) ==
    /\ At(p, "release_barrier")
    /\ IF barrierPath = at[p].barrier /\ Active(barrierPath)
       THEN Goto(p, "remove_barrier")
       ELSE NextRound(p)
    /\ UNCHANGED <<paths, file, faults>>

RemoveBarrier(p) ==
    /\ At(p, "remove_barrier")
    /\ barrierPath' = None
    /\ NextRound(p)
    /\ UNCHANGED <<lockPath, file, faults>>

-----------------------------------------------------------------------------
(* withRegistryLock: the holder, and its heartbeat. *)

\* assertRegistryLockOwnership, which takes turns with the heartbeat.  Once the
\* heartbeat has failed, so does every check.
AssertOwnership(p) ==
    /\ At(p, "hold")
    /\ at[p].heartbeat \in {"rest", "lost"}
    /\ Goto(p, IF Owns(p) /\ at[p].heartbeat = "rest" THEN "checked" ELSE "release")
    /\ UNCHANGED <<paths, file, faults>>

\* The operation writes the files the lock protects, or is done.
ProtectedWrite(p) ==
    /\ At(p, "checked")
    /\ \E next \in {"hold", "release"} : Goto(p, next)
    /\ UNCHANGED <<paths, file, faults>>

\* refreshRegistryLock: look, write, look.
Heartbeat(p, state) == Becomes(p, [at[p] EXCEPT !.heartbeat = state])

RefreshLooks(p) ==
    /\ at[p].pc \in {"hold", "checked"}
    /\ at[p].heartbeat = "rest"
    /\ Heartbeat(p, IF Owns(p) THEN "write" ELSE "lost")
    /\ UNCHANGED <<paths, file, faults>>

RefreshWrites(p) ==
    /\ at[p].heartbeat = "write"
    /\ file' = [file EXCEPT ![at[p].file] = LockState]
    /\ Heartbeat(p, "confirm")
    /\ UNCHANGED <<paths, faults>>

RefreshConfirms(p) ==
    /\ at[p].heartbeat = "confirm"
    /\ Heartbeat(p, IF Owns(p) THEN "rest" ELSE "lost")
    /\ UNCHANGED <<paths, file, faults>>

\* releaseRegistryLock: the file stays, marked as released.  A lock given up
\* during acquisition is released in the same way, and tried for again.
ReleaseLock(p) ==
    /\ at[p].pc \in {"release", "give_up"}
    /\ at[p].heartbeat \in {"off", "rest", "lost"}
    /\ file' = IF lockPath = at[p].file THEN [file EXCEPT ![lockPath].released = TRUE] ELSE file
    /\ Becomes(p, IF At(p, "give_up") THEN Again ELSE Idle)
    /\ UNCHANGED <<paths, faults>>

-----------------------------------------------------------------------------
(* Time and failures. *)

Tick ==
    /\ \A p \in Procs : Unhurried(at[p]) \/ late[p] < GraceMs
    /\ file' = [f \in Files |->
                  IF f \notin InUse THEN EmptyFile
                  ELSE [file[f] EXCEPT !.left = IF @ > -GraceMs THEN @ - 1 ELSE @]]
    /\ late' = [p \in Procs |-> IF Unhurried(at[p]) THEN 0 ELSE late[p] + 1]
    /\ UNCHANGED <<paths, at, faults>>

Crash(p) ==
    /\ Fault
    /\ ~At(p, "idle")
    /\ Becomes(p, Idle)
    /\ UNCHANGED <<paths, file>>

\* A process takes longer than it should, anywhere but between its last check and
\* its write, where no lease helps.
Delay(p) ==
    /\ Fault
    /\ ~At(p, "checked")
    /\ ~Unhurried(at[p]) /\ late[p] = GraceMs
    /\ late' = [late EXCEPT ![p] = 0]
    /\ UNCHANGED <<paths, file, at>>

Acquires(p) ==
    \/ InspectBarrier(p) \/ VerifyRetire(p) \/ RenameBarrier(p) \/ CheckRetired(p)
    \/ RestoreBarrier(p) \/ OpenLock(p) \/ WriteLockState(p) \/ ConfirmOwned(p)
    \/ CleanupCheck(p) \/ CleanupUnlink(p)

Reclaims(p) ==
    \/ InspectLock(p) \/ OpenBarrier(p) \/ WriteBarrier(p) \/ VerifyReclaim(p)
    \/ RenameLock(p) \/ CheckMoved(p) \/ RestoreLock(p) \/ ReleaseBarrier(p) \/ RemoveBarrier(p)

Holds(p) == AssertOwnership(p) \/ ProtectedWrite(p) \/ ReleaseLock(p)

Refreshes(p) == RefreshLooks(p) \/ RefreshWrites(p) \/ RefreshConfirms(p)

Next ==
    \/ \E p \in Procs :
          \/ Start(p) \/ WriteFails(p) \/ BarrierWriteFails(p) \/ Crash(p) \/ Delay(p)
          \/ Acquires(p) \/ Reclaims(p) \/ Holds(p) \/ Refreshes(p)
    \/ Tick

\* A running process goes on, time passes, and the registry is used again: every
\* scheduled task of the conversation calls it.
Spec == Init /\ [][Next]_vars /\ WF_vars(Tick)
             /\ \A p \in Procs : WF_vars(Start(p) \/ Acquires(p) \/ Reclaims(p) \/ Holds(p))

-----------------------------------------------------------------------------
(* Properties. *)

\* Files and processes have the shape the source gives them.
TypeOK ==
    /\ lockPath \in Files \cup {None} /\ barrierPath \in Files \cup {None}
    /\ file \in [Files -> Content]
    /\ \A p \in Procs : {at[p].file, at[p].barrier, at[p].seen, at[p].moved} \subseteq Files \cup {None}
    /\ late \in [Procs -> 0..GraceMs]
    /\ faults \in 0..MaxFaults

\* Two processes never write what the lock protects at the same time, however late
\* their heartbeats are.
ExclusiveWrites ==
    \A p, q \in Procs : At(p, "checked") /\ At(q, "checked") => p = q

\* A lock file whose process is gone makes way, wherever in its acquisition,
\* release or reclaiming the process died.
Orphaned == lockPath /= None /\ \A p \in Procs : at[p].file /= lockPath

DeadLockGivesWay == []<>~Orphaned

=============================================================================
