--------------------- MODULE RecordWorkRegistryLockProofs ---------------------
(***************************************************************************)
(* Proofs about RecordWorkRegistryLock: its type invariant, and that the    *)
(* lock excludes, for any number of processes and any lease, until the      *)
(* first process dies, is delayed or fails to write; and that it excludes   *)
(* two processes until the second such fault.  Three it does not.           *)
(***************************************************************************)
EXTENDS RecordWorkRegistryLock, FiniteSetTheorems, TLAPS

-----------------------------------------------------------------------------
(* Types. *)

Names == Files \cup {None}

Places ==
    {"idle", "barrier", "open", "write", "barrier_again", "own", "hold", "checked", "release",
     "give_up", "cleanup", "unlink", "inspect", "open_barrier", "write_barrier", "verify",
     "rename", "check", "restore", "release_barrier", "remove_barrier",
     "retire", "retire_rename", "retire_check", "retire_restore"}

Beats == {"off", "rest", "write", "confirm", "lost"}

Local == [pc : Places, file : Names, barrier : Names, seen : Names, moved : Names,
          heartbeat : Beats]

TypeInv == TypeOK /\ at \in [Procs -> Local]

\* The image of the processes under a function is no larger than their number.
LEMMA ImageOfProcs ==
    ASSUME NEW f, NEW T, f \in [Procs -> T], T = {f[p] : p \in Procs}
    PROVE  IsFiniteSet(T) /\ Cardinality(T) \in Nat /\ Cardinality(T) <= Cardinality(Procs)
<1>1. f \in Surjection(Procs, T)
  BY DEF Surjection
<1>2. IsFiniteSet(Procs)
  BY LockAssumption
<1>3. IsFiniteSet(T) /\ Cardinality(T) <= Cardinality(Procs)
  BY <1>1, <1>2, FS_Surjection
<1>. QED  BY <1>3, FS_CardinalityType

\* The union of two finite sets is finite and has at most as many elements as both.
LEMMA UnionBound ==
    ASSUME NEW S, NEW T, IsFiniteSet(S), IsFiniteSet(T)
    PROVE  /\ IsFiniteSet(S \cup T) /\ Cardinality(S \cup T) \in Nat
           /\ Cardinality(S) \in Nat /\ Cardinality(T) \in Nat
           /\ Cardinality(S \cup T) <= Cardinality(S) + Cardinality(T)
<1>1. /\ IsFiniteSet(S \cup T)
      /\ Cardinality(S \cup T) = Cardinality(S) + Cardinality(T) - Cardinality(S \cap T)
  BY FS_Union
<1>2. IsFiniteSet(S \cap T)
  BY FS_Subset
<1>3. /\ Cardinality(S) \in Nat /\ Cardinality(T) \in Nat
      /\ Cardinality(S \cup T) \in Nat /\ Cardinality(S \cap T) \in Nat
  BY <1>1, <1>2, FS_CardinalityType
<1>. QED  BY <1>1, <1>3

\* There is always a token that nobody has seen.
LEMMA FreshFileIsFresh ==
    ASSUME TypeInv
    PROVE  FreshFile \in Files /\ FreshFile \notin InUse
<1> DEFINE A == {at[p].file : p \in Procs}
           B == {at[p].barrier : p \in Procs}
           C == {at[p].seen : p \in Procs}
           D == {at[p].moved : p \in Procs}
           n == Cardinality(Procs)
<1>1. n \in Nat /\ IsFiniteSet(Files) /\ Cardinality(Files) \in Nat /\ Cardinality(Files) > 4 * n + 2
  BY LockAssumption, FS_CardinalityType
<1>2. IsFiniteSet(A) /\ Cardinality(A) \in Nat /\ Cardinality(A) <= n
  <2> DEFINE f == [p \in Procs |-> at[p].file]
  <2>1. f \in [Procs -> A] /\ A = {f[p] : p \in Procs}
    OBVIOUS
  <2> HIDE DEF f, A
  <2>. QED  BY <2>1, ImageOfProcs
<1>3. IsFiniteSet(B) /\ Cardinality(B) \in Nat /\ Cardinality(B) <= n
  <2> DEFINE f == [p \in Procs |-> at[p].barrier]
  <2>1. f \in [Procs -> B] /\ B = {f[p] : p \in Procs}
    OBVIOUS
  <2> HIDE DEF f, B
  <2>. QED  BY <2>1, ImageOfProcs
<1>4. IsFiniteSet(C) /\ Cardinality(C) \in Nat /\ Cardinality(C) <= n
  <2> DEFINE f == [p \in Procs |-> at[p].seen]
  <2>1. f \in [Procs -> C] /\ C = {f[p] : p \in Procs}
    OBVIOUS
  <2> HIDE DEF f, C
  <2>. QED  BY <2>1, ImageOfProcs
<1>5. IsFiniteSet(D) /\ Cardinality(D) \in Nat /\ Cardinality(D) <= n
  <2> DEFINE f == [p \in Procs |-> at[p].moved]
  <2>1. f \in [Procs -> D] /\ D = {f[p] : p \in Procs}
    OBVIOUS
  <2> HIDE DEF f, D
  <2>. QED  BY <2>1, ImageOfProcs
<1>6. IsFiniteSet({lockPath, barrierPath}) /\ Cardinality({lockPath, barrierPath}) <= 2
  <2>1. /\ IsFiniteSet({lockPath}) /\ Cardinality({lockPath}) = 1
        /\ IsFiniteSet({barrierPath}) /\ Cardinality({barrierPath}) = 1
    BY FS_Singleton
  <2>2. {lockPath, barrierPath} = {lockPath} \cup {barrierPath}
    OBVIOUS
  <2>. QED  BY <2>1, <2>2, UnionBound
<1>7. InUse = ({lockPath, barrierPath} \cup (A \cup B)) \cup (C \cup D)
  BY DEF InUse
<1> HIDE DEF A, B, C, D, n
<1>8. /\ IsFiniteSet(A \cup B) /\ Cardinality(A \cup B) \in Nat /\ Cardinality(A \cup B) <= 2 * n
      /\ IsFiniteSet(C \cup D) /\ Cardinality(C \cup D) \in Nat /\ Cardinality(C \cup D) <= 2 * n
  <2>1. /\ IsFiniteSet(A \cup B) /\ Cardinality(A \cup B) \in Nat
        /\ Cardinality(A \cup B) <= Cardinality(A) + Cardinality(B)
    BY <1>2, <1>3, UnionBound
  <2>2. /\ IsFiniteSet(C \cup D) /\ Cardinality(C \cup D) \in Nat
        /\ Cardinality(C \cup D) <= Cardinality(C) + Cardinality(D)
    BY <1>4, <1>5, UnionBound
  <2>. QED  BY <1>1, <1>2, <1>3, <1>4, <1>5, <2>1, <2>2
<1>9. IsFiniteSet(InUse) /\ Cardinality(InUse) \in Nat /\ Cardinality(InUse) < Cardinality(Files)
  <2> DEFINE E == {lockPath, barrierPath} \cup (A \cup B)
  <2>1. /\ IsFiniteSet(E) /\ Cardinality(E) \in Nat
        /\ Cardinality({lockPath, barrierPath}) \in Nat
        /\ Cardinality(E) <= Cardinality({lockPath, barrierPath}) + Cardinality(A \cup B)
    BY <1>6, <1>8, UnionBound
  <2> HIDE DEF E
  <2>2. /\ IsFiniteSet(E \cup (C \cup D)) /\ Cardinality(E \cup (C \cup D)) \in Nat
        /\ Cardinality(E \cup (C \cup D)) <= Cardinality(E) + Cardinality(C \cup D)
    BY <1>8, <2>1, UnionBound
  <2>3. Cardinality(E \cup (C \cup D)) < Cardinality(Files)
    BY <1>1, <1>6, <1>8, <2>1, <2>2
  <2>. QED  BY <1>7, <2>2, <2>3 DEF E
<1>10. \E f \in Files : f \notin InUse
  <2>1. SUFFICES ASSUME Files \subseteq InUse PROVE FALSE
    OBVIOUS
  <2>2. Cardinality(Files) <= Cardinality(InUse)
    BY <1>9, <2>1, FS_Subset
  <2>. QED  BY <1>1, <1>9, <2>2
<1>. QED  BY <1>10 DEF FreshFile

\* The states a process goes back to.
LEMMA StartStates == Idle \in Local /\ Again \in Local
<1>1. None \in Names
  BY DEF Names
<1>2. Idle \in Local
  BY <1>1 DEF Idle, Local, Places, Beats
<1>. QED  BY <1>2 DEF Again, Local, Places, Beats

\* What a process leaves unsaid when it changes place stays.
LEMMA GotoTyped ==
    ASSUME NEW l \in Local, NEW pc \in Places
    PROVE  [l EXCEPT !.pc = pc] \in Local
BY DEF Local, Places, Beats

\* The step of one process.
LEMMA BecomesTyped ==
    ASSUME TypeInv, NEW p \in Procs, NEW l \in Local, Becomes(p, l)
    PROVE  /\ at' \in [Procs -> Local] /\ late' \in [Procs -> 0..GraceMs]
           /\ at'[p] = l /\ late'[p] = IF Unhurried(l) THEN 0 ELSE late[p]
           /\ \A q \in Procs : q /= p => at'[q] = at[q] /\ late'[q] = late[q]
<1>1. at \in [Procs -> Local] /\ late \in [Procs -> 0..GraceMs] /\ 0 \in 0..GraceMs
  BY LockAssumption DEF TypeInv, TypeOK
<1>. QED  BY <1>1 DEF Becomes

\* The contents that are written into files.
LEMMA ContentsWritten ==
    /\ EmptyFile \in Content /\ LockState \in Content /\ BarrierState \in Content
    /\ \A c \in Content : [c EXCEPT !.released = TRUE] \in Content
    /\ \A c \in Content : [c EXCEPT !.left = IF @ > -GraceMs THEN @ - 1 ELSE @] \in Content
<1>1. EmptyFile \in Content /\ LockState \in Content /\ BarrierState \in Content
  <2>1. LeaseMs \in -GraceMs..BarrierLeaseMs /\ BarrierLeaseMs \in -GraceMs..BarrierLeaseMs
    BY LockAssumption
  <2>. QED  BY <2>1 DEF EmptyFile, LockState, BarrierState, Content
<1>2. ASSUME NEW c \in Content PROVE [c EXCEPT !.released = TRUE] \in Content
  BY DEF Content
<1>3. ASSUME NEW c \in Content PROVE [c EXCEPT !.left = IF @ > -GraceMs THEN @ - 1 ELSE @] \in Content
  <2>1. (IF c.left > -GraceMs THEN c.left - 1 ELSE c.left) \in -GraceMs..BarrierLeaseMs
    BY LockAssumption DEF Content
  <2>. QED  BY <2>1 DEF Content
<1>. QED  BY <1>1, <1>2, <1>3

\* A step of one process that only moves files and writes contents.
LEMMA StepTyped ==
    ASSUME TypeInv, NEW p \in Procs, NEW l \in Local, Becomes(p, l),
           lockPath' \in Names, barrierPath' \in Names, file' \in [Files -> Content],
           faults' \in 0..MaxFaults
    PROVE  TypeInv'
<1>1. at' \in [Procs -> Local] /\ late' \in [Procs -> 0..GraceMs]
  BY BecomesTyped
<1>2. \A q \in Procs : {at'[q].file, at'[q].barrier, at'[q].seen, at'[q].moved} \subseteq Names
  BY <1>1 DEF Local, Places, Beats
<1>. QED  BY <1>1, <1>2 DEF TypeInv, TypeOK, Names

\* Wherever a process goes, its variables keep their types.
Typed(p) == \E l \in Local : Becomes(p, l)

\* The ends of a round, and the move to another place.
LEMMA MovesTyped ==
    ASSUME TypeInv, NEW p \in Procs
    PROVE  /\ at[p] \in Local
           /\ NextRound(p) => Typed(p)
           /\ AfterBarrier(p) => Typed(p)
           /\ \A pc \in Places : Goto(p, pc) => Typed(p)
<1>1. at[p] \in Local
  BY DEF TypeInv
<1>2. NextRound(p) => Typed(p)
  BY StartStates DEF NextRound, Typed
<1>3. [at[p] EXCEPT !.pc = "give_up", !.seen = None, !.moved = None] \in Local
  BY <1>1 DEF Local, Places, Beats, Names
<1>4. AfterBarrier(p) => Typed(p)
  BY <1>2, <1>3 DEF AfterBarrier, Typed
<1>5. ASSUME NEW pc \in Places, Goto(p, pc) PROVE Typed(p)
  BY <1>1, <1>5, GotoTyped DEF Goto, Typed
<1>. QED  BY <1>1, <1>2, <1>4, <1>5

\* A process that inspects or retires a barrier, or creates the lock.
LEMMA AcquiresTyped ==
    ASSUME TypeInv, NEW p \in Procs, Acquires(p)
    PROVE  TypeInv'
<1>1. lockPath \in Names /\ barrierPath \in Names /\ file \in [Files -> Content] /\ faults \in 0..MaxFaults
  BY DEF TypeInv, TypeOK, Names
<1>2. at[p] \in Local /\ at[p].moved \in Names /\ None \in Names
  BY MovesTyped DEF Local, Places, Beats, Names
<1>3. InspectBarrier(p) => Typed(p)
  <2>1. [at[p] EXCEPT !.pc = "retire", !.seen = barrierPath] \in Local
    BY <1>1, <1>2 DEF Local, Places, Beats
  <2>. QED  BY <2>1, MovesTyped DEF Places, InspectBarrier, Typed
<1>4. VerifyRetire(p) => Typed(p)
  <2>1. [at[p] EXCEPT !.pc = "retire_rename", !.seen = barrierPath] \in Local
    BY <1>1, <1>2 DEF Local, Places, Beats
  <2>. QED  BY <2>1, MovesTyped DEF Places, VerifyRetire, Typed
<1>5. RenameBarrier(p) => Typed(p)
  <2>1. [at[p] EXCEPT !.pc = "retire_check", !.moved = barrierPath] \in Local
    BY <1>1, <1>2 DEF Local, Places, Beats
  <2>. QED  BY <2>1, MovesTyped DEF Places, RenameBarrier, Typed
<1>6. CheckRetired(p) \/ RestoreBarrier(p) => Typed(p)
  BY MovesTyped DEF Places, CheckRetired, RestoreBarrier
<1>7. OpenLock(p) => /\ Typed(p) /\ lockPath' \in Names /\ file' \in [Files -> Content]
  <2>1. FreshFile \in Files
    BY FreshFileIsFresh
  <2>2. [at[p] EXCEPT !.pc = "write", !.file = FreshFile] \in Local
    BY <1>2, <2>1 DEF Local, Places, Beats, Names
  <2>3. [file EXCEPT ![FreshFile] = EmptyFile] \in [Files -> Content]
    BY <1>1, ContentsWritten
  <2>. QED  BY <1>1, <2>1, <2>2, <2>3, MovesTyped DEF Places, OpenLock, Typed, Names
<1>8. WriteLockState(p) => Typed(p) /\ file' \in [Files -> Content]
  BY <1>1, ContentsWritten, MovesTyped DEF Places, WriteLockState
<1>9. ConfirmOwned(p) => Typed(p)
  <2>1. [at[p] EXCEPT !.pc = "hold", !.heartbeat = "rest"] \in Local
    BY <1>2 DEF Local, Places, Beats
  <2>. QED  BY <2>1, MovesTyped DEF Places, ConfirmOwned, Typed
<1>10. CleanupCheck(p) \/ CleanupUnlink(p) => Typed(p)
  BY MovesTyped, StartStates DEF Places, CleanupCheck, CleanupUnlink, Typed
<1>11. Typed(p)
  BY <1>3, <1>4, <1>5, <1>6, <1>7, <1>8, <1>9, <1>10 DEF Acquires
<1>12. /\ lockPath' \in Names /\ barrierPath' \in Names /\ file' \in [Files -> Content]
       /\ faults' \in 0..MaxFaults
  BY <1>1, <1>2, <1>7, <1>8
     DEF Acquires, InspectBarrier, VerifyRetire, RenameBarrier, CheckRetired, RestoreBarrier,
         OpenLock, WriteLockState, ConfirmOwned, CleanupCheck, CleanupUnlink, paths
<1>13. PICK l \in Local : Becomes(p, l)
  BY <1>11 DEF Typed
<1>. QED  BY <1>12, <1>13, StepTyped

\* A process that takes an expired lock away.
LEMMA ReclaimsTyped ==
    ASSUME TypeInv, NEW p \in Procs, Reclaims(p)
    PROVE  TypeInv'
<1>1. lockPath \in Names /\ barrierPath \in Names /\ file \in [Files -> Content] /\ faults \in 0..MaxFaults
  BY DEF TypeInv, TypeOK, Names
<1>2. at[p] \in Local /\ at[p].moved \in Names /\ None \in Names
  BY MovesTyped DEF Local, Places, Beats, Names
<1>3. InspectLock(p) => Typed(p)
  <2>1. [at[p] EXCEPT !.pc = "open_barrier", !.seen = lockPath] \in Local
    BY <1>1, <1>2 DEF Local, Places, Beats
  <2>. QED  BY <2>1, StartStates, MovesTyped DEF Places, InspectLock, Typed
<1>4. OpenBarrier(p) => /\ Typed(p) /\ barrierPath' \in Names /\ file' \in [Files -> Content]
  <2>1. FreshFile \in Files
    BY FreshFileIsFresh
  <2>2. [at[p] EXCEPT !.pc = "write_barrier", !.barrier = FreshFile] \in Local
    BY <1>2, <2>1 DEF Local, Places, Beats, Names
  <2>3. [file EXCEPT ![FreshFile] = EmptyFile] \in [Files -> Content]
    BY <1>1, ContentsWritten
  <2>. QED  BY <1>1, <2>1, <2>2, <2>3, MovesTyped DEF Places, OpenBarrier, Typed, Names
<1>5. WriteBarrier(p) => Typed(p) /\ file' \in [Files -> Content]
  BY <1>1, ContentsWritten, MovesTyped DEF Places, WriteBarrier
<1>6. VerifyReclaim(p) => Typed(p)
  <2>1. ASSUME NEW pc \in Places PROVE [at[p] EXCEPT !.pc = pc, !.seen = None] \in Local
    BY <1>2 DEF Local
  <2>2. (IF StillReclaimable(p) THEN "rename" ELSE "release_barrier") \in Places
    BY DEF Places
  <2>. QED  BY <2>1, <2>2 DEF VerifyReclaim, Typed
<1>7. RenameLock(p) => Typed(p)
  <2>1. [at[p] EXCEPT !.pc = "check", !.moved = lockPath] \in Local
    BY <1>1, <1>2 DEF Local, Places, Beats
  <2>. QED  BY <2>1, MovesTyped DEF Places, RenameLock, Typed
<1>8. CheckMoved(p) \/ RestoreLock(p) => Typed(p)
  <2>1. [at[p] EXCEPT !.pc = "release_barrier", !.moved = None] \in Local
    BY <1>2 DEF Local, Places, Beats
  <2>. QED  BY <2>1, MovesTyped DEF Places, CheckMoved, RestoreLock, Typed
<1>9. ReleaseBarrier(p) \/ RemoveBarrier(p) => Typed(p)
  BY MovesTyped DEF Places, ReleaseBarrier, RemoveBarrier
<1>11. Typed(p)
  BY <1>3, <1>4, <1>5, <1>6, <1>7, <1>8, <1>9 DEF Reclaims
<1>12. /\ lockPath' \in Names /\ barrierPath' \in Names /\ file' \in [Files -> Content]
       /\ faults' \in 0..MaxFaults
  BY <1>1, <1>2, <1>4, <1>5
     DEF Reclaims, InspectLock, OpenBarrier, WriteBarrier, VerifyReclaim, RenameLock,
         CheckMoved, RestoreLock, ReleaseBarrier, RemoveBarrier, paths
<1>13. PICK l \in Local : Becomes(p, l)
  BY <1>11 DEF Typed
<1>. QED  BY <1>12, <1>13, StepTyped

\* A process that holds the lock, and its heartbeat.
LEMMA HoldsTyped ==
    ASSUME TypeInv, NEW p \in Procs, Holds(p) \/ Refreshes(p)
    PROVE  TypeInv'
<1>1. lockPath \in Names /\ barrierPath \in Names /\ file \in [Files -> Content] /\ faults \in 0..MaxFaults
  BY DEF TypeInv, TypeOK, Names
<1>2. at[p] \in Local
  BY MovesTyped
<1>3. AssertOwnership(p) \/ ProtectedWrite(p) => Typed(p)
  BY MovesTyped DEF Places, AssertOwnership, ProtectedWrite
<1>4. ReleaseLock(p) => Typed(p) /\ file' \in [Files -> Content]
  <2>1. ReleaseLock(p) => Typed(p)
    BY StartStates DEF ReleaseLock, Typed
  <2>2. [file EXCEPT ![lockPath].released = TRUE] \in [Files -> Content]
    BY <1>1, ContentsWritten
  <2>. QED  BY <1>1, <2>1, <2>2 DEF ReleaseLock
<1>5. Refreshes(p) => Typed(p) /\ file' \in [Files -> Content]
  <2>1. \A state \in Beats : [at[p] EXCEPT !.heartbeat = state] \in Local
    BY <1>2 DEF Local, Places, Beats
  <2>2. \A state \in Beats : Heartbeat(p, state) => Typed(p)
    BY <2>1 DEF Heartbeat, Typed
  <2>3. RefreshLooks(p) \/ RefreshWrites(p) \/ RefreshConfirms(p) => Typed(p)
    BY <2>2 DEF Beats, RefreshLooks, RefreshWrites, RefreshConfirms
  <2>. QED  BY <1>1, <2>3, ContentsWritten DEF Refreshes, RefreshLooks, RefreshWrites, RefreshConfirms
<1>6. Typed(p)
  BY <1>3, <1>4, <1>5 DEF Holds
<1>7. /\ lockPath' \in Names /\ barrierPath' \in Names /\ file' \in [Files -> Content]
      /\ faults' \in 0..MaxFaults
  BY <1>1, <1>4, <1>5
     DEF Holds, AssertOwnership, ProtectedWrite, ReleaseLock, Refreshes, RefreshLooks,
         RefreshWrites, RefreshConfirms, paths
<1>8. PICK l \in Local : Becomes(p, l)
  BY <1>6 DEF Typed
<1>. QED  BY <1>7, <1>8, StepTyped

\* A process that begins, dies, fails to write or is delayed.
LEMMA FaultsTyped ==
    ASSUME TypeInv, NEW p \in Procs,
           Start(p) \/ WriteFails(p) \/ BarrierWriteFails(p) \/ Crash(p) \/ Delay(p)
    PROVE  TypeInv'
<1>1. lockPath \in Names /\ barrierPath \in Names /\ file \in [Files -> Content] /\ faults \in 0..MaxFaults
  BY DEF TypeInv, TypeOK, Names
<1>2. Fault => faults' \in 0..MaxFaults
  BY <1>1, LockAssumption DEF Fault
<1>3. CASE Start(p) \/ WriteFails(p) \/ BarrierWriteFails(p) \/ Crash(p)
  <2>1. Typed(p)
    BY <1>3, StartStates, MovesTyped DEF Places, Start, WriteFails, BarrierWriteFails, Crash, Typed
  <2>2. PICK l \in Local : Becomes(p, l)
    BY <2>1 DEF Typed
  <2>3. /\ lockPath' \in Names /\ barrierPath' \in Names /\ file' \in [Files -> Content]
        /\ faults' \in 0..MaxFaults
    BY <1>1, <1>2, <1>3 DEF Start, WriteFails, BarrierWriteFails, Crash, Names, paths
  <2>. QED  BY <2>2, <2>3, StepTyped
<1>4. CASE Delay(p)
  <2>1. late' \in [Procs -> 0..GraceMs]
    BY <1>4, LockAssumption DEF Delay, TypeInv, TypeOK
  <2>2. UNCHANGED <<lockPath, barrierPath, file, at>> /\ faults' \in 0..MaxFaults
    BY <1>2, <1>4 DEF Delay, paths
  <2>. QED  BY <2>1, <2>2 DEF TypeInv, TypeOK
<1>. QED  BY <1>3, <1>4

\* Time passes.
LEMMA TickTyped ==
    ASSUME TypeInv, Tick
    PROVE  TypeInv'
<1>1. file' \in [Files -> Content]
  BY ContentsWritten DEF Tick, TypeInv, TypeOK
<1>2. late' \in [Procs -> 0..GraceMs]
  <2>1. ASSUME NEW p \in Procs PROVE (IF Unhurried(at[p]) THEN 0 ELSE late[p] + 1) \in 0..GraceMs
    <3>1. late[p] \in 0..GraceMs /\ (Unhurried(at[p]) \/ late[p] < GraceMs)
      BY DEF Tick, TypeInv, TypeOK
    <3>. QED  BY <3>1, LockAssumption
  <2>. QED  BY <2>1 DEF Tick
<1>3. UNCHANGED <<lockPath, barrierPath, at, faults>>
  BY DEF Tick, paths
<1>. QED  BY <1>1, <1>2, <1>3 DEF TypeInv, TypeOK

\* The beginning.
LEMMA TypesAtFirst == Init => TypeInv
<1>1. SUFFICES ASSUME Init PROVE TypeInv
  OBVIOUS
<1>2. at \in [Procs -> Local]
  BY <1>1, StartStates DEF Init
<1>3. \A q \in Procs : {at[q].file, at[q].barrier, at[q].seen, at[q].moved} \subseteq Names
  BY <1>2 DEF Local, Places, Beats
<1>4. late \in [Procs -> 0..GraceMs] /\ file \in [Files -> Content] /\ faults \in 0..MaxFaults
  BY <1>1, ContentsWritten, LockAssumption DEF Init
<1>. QED  BY <1>1, <1>2, <1>3, <1>4 DEF Init, TypeInv, TypeOK, Names

\* Every step.
LEMMA TypesKept == TypeInv /\ [Next]_vars => TypeInv'
<1>1. SUFFICES ASSUME TypeInv, [Next]_vars PROVE TypeInv'
  OBVIOUS
<1>2. CASE UNCHANGED vars
  BY <1>1, <1>2 DEF vars, TypeInv, TypeOK
<1>3. CASE Tick
  BY <1>1, <1>3, TickTyped
<1>4. CASE \E p \in Procs :
             \/ Start(p) \/ WriteFails(p) \/ BarrierWriteFails(p) \/ Crash(p) \/ Delay(p)
             \/ Acquires(p) \/ Reclaims(p) \/ Holds(p) \/ Refreshes(p)
  BY <1>1, <1>4, FaultsTyped, AcquiresTyped, ReclaimsTyped, HoldsTyped
<1>. QED  BY <1>1, <1>2, <1>3, <1>4 DEF Next

\* Paths, files and processes keep their shape, whoever dies or is delayed.
THEOREM TypeCorrect == Spec => []TypeOK
<1>1. TypeInv => TypeOK
  BY DEF TypeInv
<1>. QED  BY <1>1, TypesAtFirst, TypesKept, PTL DEF Spec

-----------------------------------------------------------------------------
(* The lock while nothing fails.                                            *)
(*                                                                         *)
(* A file that may be reclaimed is spent for good: its owner, who may have  *)
(* stopped where it holds the lock, finds its lease over and writes no      *)
(* more.  A process that acts on a look at its lease does so within the     *)
(* grace period, so that the file it acts on is not spent yet.  And the     *)
(* barrier of a living reclaimer outlasts its work, so that there is one    *)
(* reclaimer at a time, and it takes away the spent file it has seen.       *)

\* Places where a process that stopped would outlast a lease it relies on.
MustGoOn ==
    {"write", "barrier_again", "own", "checked", "write_barrier", "verify", "rename", "check",
     "release_barrier", "remove_barrier", "heartbeat"}

StopsWhereItMay == MayStopAt \cap MustGoOn = {}

\* Where a process has a lock file, where it is sure of it, and where it has a barrier.
Owning == {"write", "barrier_again", "own", "hold", "checked", "release", "give_up"}
Acquiring == {"write", "barrier_again", "own"}
Reclaiming == {"write_barrier", "verify", "rename", "check", "release_barrier", "remove_barrier"}

\* Where only a failure leads.
Troubled ==
    {"retire", "retire_rename", "retire_check", "retire_restore", "cleanup", "unlink", "restore"}

\* Reclaimable, of a content.
Spent(c) == c.released \/ c.left <= (IF c.written THEN -GraceMs ELSE 0)

\* A process acts on the look at its lease that it has taken.
Relies(l) == l.pc = "checked" \/ l.heartbeat = "write"

\* A process fits the paths and contents it finds, t after its last stop.
Fits(l, t, lock, barrier, content) ==
    /\ l.pc \notin Troubled
    /\ l.file /= None <=> l.pc \in Owning
    /\ l.pc \in Owning => Spent(content[l.file]) \/ lock = l.file
    /\ l.pc \in Acquiring =>
          /\ ~content[l.file].released /\ content[l.file].left + t >= LeaseMs
          /\ l.pc /= "write" => content[l.file].written
    /\ Relies(l) =>
          /\ content[l.file].written /\ ~content[l.file].released
          /\ content[l.file].left + t > 0
    /\ l.heartbeat = "write" => l.pc \in {"hold", "checked", "release"}
    /\ l.pc = "rename" => lock /= None /\ Spent(content[lock])
    /\ l.pc = "check" => l.moved \notin {None, barrier} /\ Spent(content[l.moved])
    /\ l.pc \in Reclaiming =>
          /\ barrier = l.barrier /\ barrier /= None
          /\ content[barrier].left + t >= LeaseMs

Calm ==
    /\ \A p \in Procs : Fits(at[p], late[p], lockPath, barrierPath, file)
    /\ \A p, q \in Procs : at[p].file = at[q].file /\ at[p].file /= None => p = q
    /\ \A p, q \in Procs : at[p].pc \in Reclaiming /\ at[q].pc \in Reclaiming => p = q
    /\ barrierPath /= None =>
          /\ barrierPath /= lockPath
          /\ \A p \in Procs : at[p].file /= barrierPath
          /\ \E p \in Procs : at[p].pc \in Reclaiming

CalmUntilFault == faults = 0 => Calm

\* The numbers in files and the time since a process last stopped.
LEMMA Measures ==
    ASSUME TypeInv
    PROVE  /\ \A f \in Files : /\ file[f].left \in Int /\ file[f].written \in BOOLEAN
                               /\ file[f].released \in BOOLEAN
           /\ \A p \in Procs : late[p] \in Nat /\ late[p] <= GraceMs
           /\ GraceMs \in Nat /\ LeaseMs \in Nat /\ LeaseMs > GraceMs /\ GraceMs > 0
           /\ None \notin Files
<1>1. GraceMs \in Nat /\ LeaseMs \in Nat /\ LeaseMs > GraceMs /\ GraceMs > 0 /\ None \notin Files
  BY LockAssumption
<1>2. \A f \in Files : file[f] \in Content
  BY DEF TypeInv, TypeOK
<1>3. ASSUME NEW f \in Files
      PROVE  file[f].left \in Int /\ file[f].written \in BOOLEAN /\ file[f].released \in BOOLEAN
  BY <1>1, <1>2, LockAssumption DEF Content
<1>4. \A p \in Procs : late[p] \in 0..GraceMs
  BY DEF TypeInv, TypeOK
<1>. QED  BY <1>1, <1>3, <1>4

\* A file in use is a file.
LEMMA KnownFiles ==
    ASSUME TypeInv, NEW p \in Procs
    PROVE  /\ at[p] \in Local
           /\ at[p].file \in Files \/ at[p].file = None
           /\ at[p].moved \in Files \/ at[p].moved = None
           /\ lockPath \in Files \/ lockPath = None
           /\ barrierPath \in Files \/ barrierPath = None
           /\ {at[p].file, at[p].moved, lockPath, barrierPath} \subseteq InUse
BY DEF TypeInv, TypeOK, Local, Names, InUse

\* The file of a process that creates the lock, or relies on its lease, is not spent.
LEMMA ReliedOnIsNotSpent ==
    ASSUME TypeInv, Calm, NEW p \in Procs, at[p].pc \in Acquiring \/ Relies(at[p])
    PROVE  /\ at[p].file \in Files /\ ~Spent(file[at[p].file]) /\ lockPath = at[p].file
<1>1. Fits(at[p], late[p], lockPath, barrierPath, file)
  BY DEF Calm
<1>2. at[p].file \in Files
  BY <1>1, KnownFiles DEF Fits, Owning, Acquiring, Relies
<1>3. ~Spent(file[at[p].file])
  BY <1>1, <1>2, Measures DEF Fits, Spent
<1>. QED  BY <1>1, <1>2, <1>3 DEF Fits, Owning, Acquiring, Relies

\* The barrier of a reclaimer is alive.
LEMMA BarrierIsActive ==
    ASSUME TypeInv, Calm, barrierPath /= None
    PROVE  Active(barrierPath)
<1>1. PICK p \in Procs : at[p].pc \in Reclaiming
  BY DEF Calm
<1>2. Fits(at[p], late[p], lockPath, barrierPath, file)
  BY DEF Calm
<1>3. barrierPath \in Files
  BY KnownFiles, <1>1
<1>. QED  BY <1>1, <1>2, <1>3, Measures DEF Fits, Active

\* A step of one process that touches no file.
LEMMA QuietStep ==
    ASSUME TypeInv, Calm, NEW p \in Procs, NEW l \in Local, Becomes(p, l),
           UNCHANGED <<lockPath, barrierPath, file>>,
           l.file \in {at[p].file, None},
           l.pc \in Reclaiming <=> at[p].pc \in Reclaiming,
           Fits(l, late'[p], lockPath, barrierPath, file)
    PROVE  Calm'
<1>1. /\ at'[p] = l
      /\ \A q \in Procs : q /= p => at'[q] = at[q] /\ late'[q] = late[q]
  BY BecomesTyped
<1>2. ASSUME NEW q \in Procs PROVE Fits(at'[q], late'[q], lockPath', barrierPath', file')
  BY <1>1 DEF Calm
<1>3. \A q, r \in Procs : at'[q].file = at'[r].file /\ at'[q].file /= None => q = r
  BY <1>1 DEF Calm
<1>4. \A q \in Procs : at'[q].pc \in Reclaiming <=> at[q].pc \in Reclaiming
  BY <1>1
<1>5. barrierPath' /= None => \A q \in Procs : at'[q].file /= barrierPath'
  BY <1>1 DEF Calm
<1>. QED  BY <1>2, <1>3, <1>4, <1>5 DEF Calm

\* A process that must go on, or relies on a look at its lease, does not stop.
LEMMA Hurries ==
    ASSUME StopsWhereItMay, NEW l, l.pc \in MustGoOn \/ Relies(l)
    PROVE  ~Unhurried(l)
BY DEF StopsWhereItMay, MustGoOn, Relies, Unhurried

\* A process without files fits everywhere.
LEMMA Outside ==
    ASSUME NEW l, NEW t, NEW lock, NEW barrier, NEW content, l.file = None,
           l.pc \notin Owning \cup Reclaiming \cup Troubled, l.heartbeat = "off"
    PROVE  Fits(l, t, lock, barrier, content)
BY DEF Fits, Owning, Reclaiming, Acquiring, Troubled, Relies

\* The states at the ends of a round.
LEMMA RoundEnds ==
    /\ Idle.pc = "idle" /\ Idle.file = None /\ Idle.heartbeat = "off"
    /\ Again.pc = "barrier" /\ Again.file = None /\ Again.heartbeat = "off"
BY DEF Idle, Again

\* A process that gives a round up without having touched a file.
LEMMA RoundGivenUp ==
    ASSUME TypeInv, Calm, NEW p \in Procs, UNCHANGED <<lockPath, barrierPath, file>>,
           at[p].pc \notin Reclaiming, NEW l \in {Idle, Again}, Becomes(p, l)
    PROVE  Calm'
<1>1. l \in Local /\ l.file = None /\ l.heartbeat = "off" /\ l.pc \in {"idle", "barrier"}
  BY StartStates, RoundEnds
<1>2. l.pc \notin Owning \cup Reclaiming \cup Troubled
  BY <1>1 DEF Owning, Reclaiming, Troubled
<1>3. Fits(l, late'[p], lockPath, barrierPath, file)
  BY <1>1, <1>2, Outside
<1>. QED  BY <1>1, <1>2, <1>3, QuietStep

\* The place a process is in, and the variables it takes along.
LEMMA GotoFields ==
    ASSUME TypeInv, NEW p \in Procs, NEW pc \in Places, NEW l, l = [at[p] EXCEPT !.pc = pc]
    PROVE  /\ l \in Local /\ l.pc = pc /\ l.file = at[p].file /\ l.barrier = at[p].barrier
           /\ l.moved = at[p].moved /\ l.heartbeat = at[p].heartbeat
BY MovesTyped DEF Local

\* A look at the barrier: there is none, or it is alive.
LEMMA InspectBarrierCalm ==
    ASSUME StopsWhereItMay, TypeInv, Calm, NEW p \in Procs, InspectBarrier(p)
    PROVE  Calm'
<1>1. at[p].pc \in {"barrier", "barrier_again"} /\ UNCHANGED <<lockPath, barrierPath, file>>
  BY DEF InspectBarrier, paths
<1>2. Fits(at[p], late[p], lockPath, barrierPath, file) /\ at[p] \in Local
  BY MovesTyped DEF Calm
<1>3. at[p].pc = "barrier_again" <=> at[p].file /= None
  BY <1>1, <1>2 DEF Fits, Owning
<1>4. CASE barrierPath = None /\ at[p].file = None
  <2> DEFINE l == [at[p] EXCEPT !.pc = "open"]
  <2>1. Becomes(p, l)
    BY <1>4 DEF InspectBarrier, Goto
  <2>2. l \in Local /\ l.pc = "open" /\ l.file = None /\ l.heartbeat = at[p].heartbeat
    BY <1>4, GotoFields DEF Places
  <2> HIDE DEF l
  <2>3. Fits(l, late'[p], lockPath, barrierPath, file)
    BY <1>1, <1>2, <2>2 DEF Fits, Owning, Reclaiming, Acquiring, Troubled, Relies
  <2>. QED  BY <1>1, <1>4, <2>1, <2>2, <2>3, QuietStep DEF Reclaiming
<1>5. CASE barrierPath = None /\ at[p].file /= None
  <2> DEFINE l == [at[p] EXCEPT !.pc = "own"]
  <2>1. Becomes(p, l)
    BY <1>5 DEF InspectBarrier, Goto
  <2>2. l \in Local /\ l.pc = "own" /\ l.file = at[p].file /\ l.heartbeat = at[p].heartbeat
    BY GotoFields DEF Places
  <2> HIDE DEF l
  <2>3. late'[p] = late[p]
    BY <2>1, <2>2, BecomesTyped, Hurries DEF MustGoOn
  <2>4. Fits(l, late'[p], lockPath, barrierPath, file)
    BY <1>1, <1>2, <1>3, <1>5, <2>2, <2>3 DEF Fits, Owning, Reclaiming, Acquiring, Troubled, Relies
  <2>. QED  BY <1>1, <2>1, <2>2, <2>4, QuietStep DEF Reclaiming
<1>6. CASE barrierPath /= None
  <2>1. AfterBarrier(p)
    BY <1>6, BarrierIsActive DEF InspectBarrier
  <2>2. CASE at[p].file = None
    <3>1. PICK l \in {Idle, Again} : Becomes(p, l)
      BY <2>1, <2>2 DEF AfterBarrier, NextRound
    <3>. QED  BY <1>1, <3>1, RoundGivenUp DEF Reclaiming
  <2>3. CASE at[p].file /= None
    <3> DEFINE l == [at[p] EXCEPT !.pc = "give_up", !.seen = None, !.moved = None]
    <3>1. Becomes(p, l)
      BY <2>1, <2>3 DEF AfterBarrier
    <3>2. l \in Local /\ l.pc = "give_up" /\ l.file = at[p].file /\ l.heartbeat = at[p].heartbeat
      BY <1>2 DEF Local, Places, Names
    <3> HIDE DEF l
    <3>3. Fits(l, late'[p], lockPath, barrierPath, file)
      BY <1>1, <1>2, <1>3, <2>3, <3>2 DEF Fits, Owning, Reclaiming, Acquiring, Troubled, Relies
    <3>. QED  BY <1>1, <3>1, <3>2, <3>3, QuietStep DEF Reclaiming
  <2>. QED  BY <2>2, <2>3
<1>. QED  BY <1>4, <1>5, <1>6

\* The lock that was just created is there.
LEMMA ConfirmOwnedCalm ==
    ASSUME TypeInv, Calm, NEW p \in Procs, ConfirmOwned(p)
    PROVE  Calm'
<1>1. at[p].pc = "own" /\ UNCHANGED <<lockPath, barrierPath, file>>
  BY DEF ConfirmOwned, At, paths
<1>2. Fits(at[p], late[p], lockPath, barrierPath, file) /\ at[p] \in Local
  BY MovesTyped DEF Calm
<1>3. at[p].file \in Files /\ lockPath = at[p].file
  BY <1>1, ReliedOnIsNotSpent DEF Acquiring
<1>4. Owns(p)
  BY <1>1, <1>2, <1>3, Measures DEF Owns, Fits, Acquiring
<1> DEFINE l == [at[p] EXCEPT !.pc = "hold", !.heartbeat = "rest"]
<1>5. Becomes(p, l)
  BY <1>4 DEF ConfirmOwned
<1>6. l \in Local /\ l.pc = "hold" /\ l.file = at[p].file /\ l.heartbeat = "rest"
  BY <1>2 DEF Local, Places, Beats
<1> HIDE DEF l
<1>7. Fits(l, late'[p], lockPath, barrierPath, file)
  BY <1>1, <1>2, <1>3, <1>6 DEF Fits, Owning, Reclaiming, Acquiring, Troubled, Relies
<1>. QED  BY <1>1, <1>5, <1>6, <1>7, QuietStep DEF Reclaiming

\* A look at the lock of somebody else.
LEMMA InspectLockCalm ==
    ASSUME TypeInv, Calm, NEW p \in Procs, InspectLock(p)
    PROVE  Calm'
<1>1. at[p].pc = "inspect" /\ UNCHANGED <<lockPath, barrierPath, file>>
  BY DEF InspectLock, At, paths
<1>2. Fits(at[p], late[p], lockPath, barrierPath, file) /\ at[p] \in Local
  BY MovesTyped DEF Calm
<1>3. CASE \E l \in {Idle, Again} : Becomes(p, l)
  BY <1>1, <1>3, RoundGivenUp DEF Reclaiming
<1>4. CASE Becomes(p, [at[p] EXCEPT !.pc = "open_barrier", !.seen = lockPath])
  <2> DEFINE l == [at[p] EXCEPT !.pc = "open_barrier", !.seen = lockPath]
  <2>1. l \in Local /\ l.pc = "open_barrier" /\ l.file = at[p].file /\ l.heartbeat = at[p].heartbeat
    BY <1>2 DEF Local, Places, Names, TypeInv, TypeOK
  <2>2. Becomes(p, l)
    BY <1>4
  <2> HIDE DEF l
  <2>3. Fits(l, late'[p], lockPath, barrierPath, file)
    BY <1>1, <1>2, <2>1 DEF Fits, Owning, Reclaiming, Acquiring, Troubled, Relies
  <2>. QED  BY <1>1, <2>1, <2>2, <2>3, QuietStep DEF Reclaiming
<1>. QED  BY <1>3, <1>4 DEF InspectLock, NextRound

\* The second look, behind the barrier, and the look at what was moved away.
LEMMA ReclaimerLooksCalm ==
    ASSUME StopsWhereItMay, TypeInv, Calm, NEW p \in Procs,
           VerifyReclaim(p) \/ CheckMoved(p) \/ ReleaseBarrier(p)
    PROVE  Calm'
<1>1. at[p].pc \in {"verify", "check", "release_barrier"} /\ UNCHANGED <<lockPath, barrierPath, file>>
  BY DEF VerifyReclaim, CheckMoved, ReleaseBarrier, At, paths
<1>2. Fits(at[p], late[p], lockPath, barrierPath, file) /\ at[p] \in Local
  BY MovesTyped DEF Calm
<1>3. SUFFICES ASSUME NEW l \in Local, Becomes(p, l), l.file = at[p].file,
                      l.barrier = at[p].barrier, l.heartbeat = at[p].heartbeat,
                      l.pc \in {"rename", "release_barrier", "remove_barrier"},
                      l.pc = "rename" => lockPath /= None /\ Spent(file[lockPath])
               PROVE  Calm'
  <2>1. CASE VerifyReclaim(p)
    <3> DEFINE pc == IF StillReclaimable(p) THEN "rename" ELSE "release_barrier"
               l == [at[p] EXCEPT !.pc = pc, !.seen = None]
    <3>1. pc \in {"rename", "release_barrier"}
      OBVIOUS
    <3>2. Becomes(p, l)
      BY <2>1 DEF VerifyReclaim
    <3>3. pc = "rename" => lockPath /= None /\ Spent(file[lockPath])
      BY DEF StillReclaimable, Reclaimable, Spent
    <3> HIDE DEF pc
    <3>4. /\ l \in Local /\ l.pc = pc /\ l.file = at[p].file /\ l.barrier = at[p].barrier
          /\ l.heartbeat = at[p].heartbeat
      BY <1>2, <3>1 DEF Local, Places, Names
    <3> HIDE DEF l
    <3>. QED  BY <1>3, <3>1, <3>2, <3>3, <3>4
  <2>2. CASE CheckMoved(p)
    <3> DEFINE l == [at[p] EXCEPT !.pc = "release_barrier", !.moved = None]
    <3>1. Reclaimable(at[p].moved)
      BY <1>2, <2>2 DEF CheckMoved, At, Fits, Reclaimable, Spent
    <3>2. Becomes(p, l)
      BY <2>2, <3>1 DEF CheckMoved
    <3>3. /\ l \in Local /\ l.pc = "release_barrier" /\ l.file = at[p].file
          /\ l.barrier = at[p].barrier /\ l.heartbeat = at[p].heartbeat
      BY <1>2 DEF Local, Places, Names
    <3> HIDE DEF l
    <3>. QED  BY <1>3, <3>2, <3>3
  <2>3. CASE ReleaseBarrier(p)
    <3> DEFINE l == [at[p] EXCEPT !.pc = "remove_barrier"]
    <3>1. barrierPath = at[p].barrier /\ barrierPath /= None
      BY <1>2, <2>3 DEF ReleaseBarrier, At, Fits, Reclaiming
    <3>2. Becomes(p, l)
      BY <2>3, <3>1, BarrierIsActive DEF ReleaseBarrier, Goto
    <3>3. /\ l \in Local /\ l.pc = "remove_barrier" /\ l.file = at[p].file
          /\ l.barrier = at[p].barrier /\ l.heartbeat = at[p].heartbeat
      BY <1>2 DEF Local, Places
    <3> HIDE DEF l
    <3>. QED  BY <1>3, <3>2, <3>3
  <2>. QED  BY <2>1, <2>2, <2>3
<1>4. late'[p] = late[p]
  BY <1>3, BecomesTyped, Hurries DEF MustGoOn
<1>5. Fits(l, late'[p], lockPath, barrierPath, file)
  BY <1>1, <1>2, <1>3, <1>4 DEF Fits, Owning, Reclaiming, Acquiring, Troubled, Relies
<1>. QED  BY <1>1, <1>3, <1>5, QuietStep DEF Reclaiming

\* The holder checks that it still owns the lock, and writes.
LEMMA HolderCalm ==
    ASSUME StopsWhereItMay, TypeInv, Calm, NEW p \in Procs, AssertOwnership(p) \/ ProtectedWrite(p)
    PROVE  Calm'
<1>1. at[p].pc \in {"hold", "checked"} /\ UNCHANGED <<lockPath, barrierPath, file>>
  BY DEF AssertOwnership, ProtectedWrite, At, paths
<1>2. Fits(at[p], late[p], lockPath, barrierPath, file) /\ at[p] \in Local
  BY MovesTyped DEF Calm
<1>3. PICK pc \in {"hold", "checked", "release"} :
         /\ Goto(p, pc)
         /\ pc = "checked" => Owns(p)
         /\ at[p].pc = "checked" \/ at[p].heartbeat /= "write"
  BY DEF AssertOwnership, ProtectedWrite, At
<1> DEFINE l == [at[p] EXCEPT !.pc = pc]
<1>4. Becomes(p, l)
  BY <1>3 DEF Goto
<1>5. l \in Local /\ l.pc = pc /\ l.file = at[p].file /\ l.heartbeat = at[p].heartbeat
  BY <1>2, <1>3 DEF Local, Places
<1> HIDE DEF l
<1>6. late'[p] = IF Unhurried(l) THEN 0 ELSE late[p]
  BY <1>4, <1>5, BecomesTyped
<1>7. Relies(l) => late'[p] = late[p]
  BY <1>6, Hurries
<1>8. at[p].file \in Files
  BY <1>1, <1>2, KnownFiles DEF Fits, Owning
<1>9. Relies(l) => /\ file[l.file].written /\ ~file[l.file].released
                   /\ file[l.file].left + late'[p] > 0
  <2>1. CASE pc = "checked"
    <3>1. file[l.file].written /\ ~file[l.file].released /\ file[l.file].left > 0
      BY <1>3, <1>5, <2>1 DEF Owns
    <3>. QED  BY <1>5, <1>7, <1>8, <3>1, Measures
  <2>2. CASE pc /= "checked"
    BY <1>2, <1>3, <1>5, <1>7, <2>2 DEF Fits, Relies
  <2>. QED  BY <2>1, <2>2
<1>10. Fits(l, late'[p], lockPath, barrierPath, file)
  BY <1>1, <1>2, <1>3, <1>5, <1>9 DEF Fits, Owning, Reclaiming, Acquiring, Troubled, Relies
<1>. QED  BY <1>1, <1>3, <1>4, <1>5, <1>10, QuietStep DEF Reclaiming

\* The heartbeat looks before and after it writes.
LEMMA HeartbeatLooksCalm ==
    ASSUME StopsWhereItMay, TypeInv, Calm, NEW p \in Procs, RefreshLooks(p) \/ RefreshConfirms(p)
    PROVE  Calm'
<1>1. UNCHANGED <<lockPath, barrierPath, file>>
  BY DEF RefreshLooks, RefreshConfirms, paths
<1>2. Fits(at[p], late[p], lockPath, barrierPath, file) /\ at[p] \in Local
  BY MovesTyped DEF Calm
<1>3. PICK beat \in Beats :
         /\ Heartbeat(p, beat)
         /\ beat = "write" => Owns(p) /\ at[p].pc \in {"hold", "checked"}
  BY DEF RefreshLooks, RefreshConfirms, Beats
<1> DEFINE l == [at[p] EXCEPT !.heartbeat = beat]
<1>4. Becomes(p, l)
  BY <1>3 DEF Heartbeat
<1>5. /\ l \in Local /\ l.pc = at[p].pc /\ l.file = at[p].file /\ l.heartbeat = beat
      /\ l.moved = at[p].moved /\ l.barrier = at[p].barrier
  BY <1>2, <1>3 DEF Local
<1> HIDE DEF l
<1>6. late'[p] = IF Unhurried(l) THEN 0 ELSE late[p]
  BY <1>4, <1>5, BecomesTyped
<1>7. l.pc \in MustGoOn \/ Relies(l) => late'[p] = late[p]
  BY <1>6, Hurries
<1>8. Relies(l) => /\ file[l.file].written /\ ~file[l.file].released
                   /\ file[l.file].left + late'[p] > 0
  <2>1. CASE beat = "write"
    <3>1. file[l.file].written /\ ~file[l.file].released /\ file[l.file].left > 0
      BY <1>3, <1>5, <2>1 DEF Owns
    <3>2. Relies(l) /\ at[p].file \in Files
      BY <1>2, <1>3, <1>5, <2>1, KnownFiles DEF Relies, Fits, Owning
    <3>. QED  BY <1>5, <1>7, <3>1, <3>2, Measures
  <2>2. CASE beat /= "write"
    BY <1>2, <1>5, <1>7, <2>2 DEF Fits, Relies
  <2>. QED  BY <2>1, <2>2
<1>9. Fits(l, late'[p], lockPath, barrierPath, file)
  BY <1>2, <1>3, <1>5, <1>7, <1>8 DEF Fits, Owning, Reclaiming, Acquiring, Troubled, Relies, MustGoOn
<1>. QED  BY <1>1, <1>4, <1>5, <1>9, QuietStep

\* A lock file is created where there was none.
LEMMA OpenLockCalm ==
    ASSUME StopsWhereItMay, TypeInv, Calm, NEW p \in Procs, OpenLock(p)
    PROVE  Calm'
<1>1. at[p].pc = "open" /\ barrierPath' = barrierPath
  BY DEF OpenLock, At
<1>2. Fits(at[p], late[p], lockPath, barrierPath, file) /\ at[p] \in Local
  BY MovesTyped DEF Calm
<1>3. CASE lockPath /= None
  <2> DEFINE l == [at[p] EXCEPT !.pc = "inspect"]
  <2>1. Becomes(p, l) /\ UNCHANGED <<lockPath, barrierPath, file>>
    BY <1>3 DEF OpenLock, Goto
  <2>2. l \in Local /\ l.pc = "inspect" /\ l.file = at[p].file /\ l.heartbeat = at[p].heartbeat
    BY <1>2 DEF Local, Places
  <2> HIDE DEF l
  <2>3. Fits(l, late'[p], lockPath, barrierPath, file)
    BY <1>1, <1>2, <2>2 DEF Fits, Owning, Reclaiming, Acquiring, Troubled, Relies
  <2>. QED  BY <1>1, <2>1, <2>2, <2>3, QuietStep DEF Reclaiming
<1>4. CASE lockPath = None
  <2> DEFINE l == [at[p] EXCEPT !.pc = "write", !.file = FreshFile]
  <2>1. FreshFile \in Files /\ FreshFile \notin InUse
    BY FreshFileIsFresh
  <2>2. PICK f \in Files : f = FreshFile
    BY <2>1
  <2>3. Becomes(p, l) /\ lockPath' = f /\ file' = [file EXCEPT ![f] = EmptyFile]
    BY <1>4, <2>2 DEF OpenLock
  <2>4. l \in Local /\ l.pc = "write" /\ l.file = f /\ l.heartbeat = at[p].heartbeat
    BY <1>2, <2>2 DEF Local, Places, Names
  <2> HIDE DEF l
  <2>5. /\ at'[p] = l /\ late'[p] = late[p]
        /\ \A q \in Procs : q /= p => at'[q] = at[q] /\ late'[q] = late[q]
    BY <2>3, <2>4, BecomesTyped, Hurries DEF MustGoOn
  <2>6. /\ file'[f].left = LeaseMs /\ file'[f].written = FALSE /\ file'[f].released = FALSE
        /\ \A g \in Files : g /= f => file'[g] = file[g]
    BY <2>3 DEF EmptyFile, TypeInv, TypeOK
  <2>7. \A q \in Procs : /\ at[q].file /= f /\ at[q].moved /= f
                         /\ barrierPath /= f /\ f /= None
    BY <2>1, <2>2, KnownFiles, Measures
  <2>8. Fits(at'[p], late'[p], lockPath', barrierPath', file')
    BY <1>1, <1>2, <2>3, <2>4, <2>5, <2>6, <2>7, Measures
       DEF Fits, Owning, Reclaiming, Acquiring, Troubled, Relies
  <2>9. ASSUME NEW q \in Procs, q /= p PROVE Fits(at'[q], late'[q], lockPath', barrierPath', file')
    <3>1. Fits(at[q], late[q], lockPath, barrierPath, file) /\ at'[q] = at[q] /\ late'[q] = late[q]
      BY <2>5, <2>9 DEF Calm
    <3>2. /\ at[q].file /= None => file'[at[q].file] = file[at[q].file]
          /\ at[q].moved /= None => file'[at[q].moved] = file[at[q].moved]
          /\ barrierPath /= None => file'[barrierPath] = file[barrierPath]
      BY <2>6, <2>7, KnownFiles
    <3>3. at[q].pc \in Acquiring \/ Relies(at[q]) => at[q].file \in Files /\ lockPath = at[q].file
      BY ReliedOnIsNotSpent
    <3>. QED  BY <1>1, <1>4, <3>1, <3>2, <3>3, Measures DEF Fits, Owning, Relies
  <2>10. \A q, r \in Procs : at'[q].file = at'[r].file /\ at'[q].file /= None => q = r
    BY <2>4, <2>5, <2>7 DEF Calm
  <2>11. \A q \in Procs : at'[q].pc \in Reclaiming <=> at[q].pc \in Reclaiming
    BY <1>1, <2>4, <2>5 DEF Reclaiming
  <2>12. barrierPath' /= None =>
            /\ barrierPath' /= lockPath'
            /\ \A q \in Procs : at'[q].file /= barrierPath'
    BY <1>1, <2>3, <2>4, <2>5, <2>7 DEF Calm
  <2>. QED  BY <1>1, <2>8, <2>9, <2>10, <2>11, <2>12 DEF Calm
<1>. QED  BY <1>3, <1>4

\* A process writes the lease into its own lock file, when it has created it and with
\* every heartbeat.
LEMMA LeaseWrittenCalm ==
    ASSUME StopsWhereItMay, TypeInv, Calm, NEW p \in Procs, WriteLockState(p) \/ RefreshWrites(p)
    PROVE  Calm'
<1>1. at[p].pc \in Acquiring \/ Relies(at[p])
  BY DEF WriteLockState, RefreshWrites, At, Acquiring, Relies
<1>2. Fits(at[p], late[p], lockPath, barrierPath, file) /\ at[p] \in Local
  BY MovesTyped DEF Calm
<1>3. at[p].file \in Files /\ ~Spent(file[at[p].file]) /\ lockPath = at[p].file
  BY <1>1, ReliedOnIsNotSpent
<1>4. PICK f \in Files : f = at[p].file
  BY <1>3
<1>5. UNCHANGED <<lockPath, barrierPath>> /\ file' = [file EXCEPT ![f] = LockState]
  BY <1>4 DEF WriteLockState, RefreshWrites, paths
<1>6. /\ file'[f].left = LeaseMs /\ file'[f].written = TRUE /\ file'[f].released = FALSE
      /\ \A g \in Files : g /= f => file'[g] = file[g]
  BY <1>5 DEF LockState, TypeInv, TypeOK
<1>7. PICK l \in Local : /\ Becomes(p, l) /\ l.file = f /\ l.barrier = at[p].barrier
                         /\ l.moved = at[p].moved
                         /\ \/ at[p].pc = "write" /\ l.pc = "barrier_again" /\ l.heartbeat = at[p].heartbeat
                            \/ at[p].heartbeat = "write" /\ l.pc = at[p].pc /\ l.heartbeat = "confirm"
  <2>1. CASE WriteLockState(p)
    <3>1. [at[p] EXCEPT !.pc = "barrier_again"] \in Local
      BY <1>2 DEF Local, Places
    <3>. QED  BY <1>2, <1>4, <2>1, <3>1 DEF WriteLockState, At, Goto, Local
  <2>2. CASE RefreshWrites(p)
    <3>1. [at[p] EXCEPT !.heartbeat = "confirm"] \in Local
      BY <1>2 DEF Local, Beats
    <3>. QED  BY <1>2, <1>4, <2>2, <3>1 DEF RefreshWrites, Heartbeat, Local
  <2>. QED  BY <2>1, <2>2
<1>8. /\ at'[p] = l /\ late'[p] = IF Unhurried(l) THEN 0 ELSE late[p]
      /\ \A q \in Procs : q /= p => at'[q] = at[q] /\ late'[q] = late[q]
  BY <1>7, BecomesTyped
<1>9. late'[p] \in Nat
  BY <1>8, Measures
<1>10. Fits(at'[p], late'[p], lockPath', barrierPath', file')
  BY <1>2, <1>3, <1>4, <1>5, <1>6, <1>7, <1>8, <1>9, Measures
     DEF Fits, Owning, Reclaiming, Acquiring, Troubled, Relies
<1>11. ASSUME NEW q \in Procs, q /= p PROVE Fits(at'[q], late'[q], lockPath', barrierPath', file')
  <2>1. Fits(at[q], late[q], lockPath, barrierPath, file) /\ at'[q] = at[q] /\ late'[q] = late[q]
    BY <1>8, <1>11 DEF Calm
  <2>2. at[q].file /= f /\ barrierPath /= f /\ at[q].pc /= "rename"
    BY <1>3, <1>4, <1>11, <2>1, Measures DEF Calm, Fits
  <2>3. at[q].pc = "check" => at[q].moved /= f
    BY <1>3, <1>4, <2>1 DEF Fits
  <2>4. /\ at[q].file /= None => file'[at[q].file] = file[at[q].file]
        /\ at[q].pc = "check" => file'[at[q].moved] = file[at[q].moved]
        /\ barrierPath /= None => file'[barrierPath] = file[barrierPath]
    BY <1>6, <2>1, <2>2, <2>3, KnownFiles DEF Fits
  <2>5. at[q].pc \in Acquiring \/ Relies(at[q]) => at[q].file /= None
    BY <2>1 DEF Fits, Owning, Acquiring, Relies
  <2>. QED  BY <1>5, <2>1, <2>2, <2>4, <2>5 DEF Fits, Owning
<1>12. /\ \A q \in Procs : at'[q].file = at[q].file
       /\ \A q \in Procs : at'[q].pc \in Reclaiming <=> at[q].pc \in Reclaiming
  <2>1. at'[p].file = at[p].file
    BY <1>4, <1>7, <1>8
  <2>2. at'[p].pc \in Reclaiming <=> at[p].pc \in Reclaiming
    BY <1>7, <1>8 DEF Reclaiming
  <2>. QED  BY <1>8, <2>1, <2>2
<1>13. \A q \in Procs : Fits(at'[q], late'[q], lockPath', barrierPath', file')
  BY <1>10, <1>11
<1>14. /\ \A q, r \in Procs : at'[q].file = at'[r].file /\ at'[q].file /= None => q = r
       /\ \A q, r \in Procs : at'[q].pc \in Reclaiming /\ at'[r].pc \in Reclaiming => q = r
  BY <1>12 DEF Calm
<1>15. barrierPath' /= None =>
          /\ barrierPath' /= lockPath'
          /\ \A q \in Procs : at'[q].file /= barrierPath'
          /\ \E q \in Procs : at'[q].pc \in Reclaiming
  BY <1>5, <1>12 DEF Calm
<1>. QED  BY <1>13, <1>14, <1>15 DEF Calm

\* A lock that is released, or given up again, is spent.
LEMMA ReleaseLockCalm ==
    ASSUME TypeInv, Calm, NEW p \in Procs, ReleaseLock(p)
    PROVE  Calm'
<1>1. /\ at[p].pc \in {"release", "give_up"} /\ UNCHANGED <<lockPath, barrierPath>>
      /\ file' = IF lockPath = at[p].file THEN [file EXCEPT ![lockPath].released = TRUE] ELSE file
  BY DEF ReleaseLock, paths
<1>2. PICK l \in {Idle, Again} : Becomes(p, l)
  BY DEF ReleaseLock
<1>3. l \in Local /\ l.file = None /\ l.heartbeat = "off" /\ l.pc \in {"idle", "barrier"}
  BY StartStates, RoundEnds
<1>4. l.pc \notin Owning \cup Reclaiming \cup Troubled
  BY <1>3 DEF Owning, Reclaiming, Troubled
<1>5. /\ at'[p] = l
      /\ \A q \in Procs : q /= p => at'[q] = at[q] /\ late'[q] = late[q]
  BY <1>2, <1>3, BecomesTyped
<1>6. Fits(at[p], late[p], lockPath, barrierPath, file)
  BY DEF Calm
<1>7. at[p].file \in Files
  BY <1>1, <1>6, KnownFiles DEF Fits, Owning
<1>8. /\ \A g \in Files : Spent(file[g]) => Spent(file'[g])
      /\ \A g \in Files : g /= at[p].file => file'[g] = file[g]
      /\ \A g \in Files : file'[g].left = file[g].left
  <2>1. file \in [Files -> Content]
    BY DEF TypeInv, TypeOK
  <2>. QED  BY <1>1, <1>7, <2>1 DEF Spent, Content
<1>9. ASSUME NEW q \in Procs, q /= p PROVE Fits(at'[q], late'[q], lockPath', barrierPath', file')
  <2>1. Fits(at[q], late[q], lockPath, barrierPath, file) /\ at'[q] = at[q] /\ late'[q] = late[q]
    BY <1>5, <1>9 DEF Calm
  <2>2. at[q].file /= at[p].file /\ barrierPath /= at[p].file
    BY <1>7, <1>9, Measures DEF Calm
  <2>3. /\ at[q].file /= None => file'[at[q].file] = file[at[q].file]
        /\ at[q].moved /= None /\ Spent(file[at[q].moved]) => Spent(file'[at[q].moved])
        /\ lockPath /= None /\ Spent(file[lockPath]) => Spent(file'[lockPath])
        /\ barrierPath /= None => file'[barrierPath] = file[barrierPath]
    BY <1>8, <2>2, KnownFiles
  <2>4. at[q].pc \in Acquiring \/ Relies(at[q]) => at[q].file /= None
    BY <2>1 DEF Fits, Owning, Acquiring, Relies
  <2>. QED  BY <1>1, <2>1, <2>3, <2>4 DEF Fits, Owning
<1>10. Fits(at'[p], late'[p], lockPath', barrierPath', file')
  BY <1>3, <1>4, <1>5, Outside
<1>11. /\ \A q \in Procs : at'[q].file \in {at[q].file, None}
       /\ \A q \in Procs : at'[q].pc \in Reclaiming <=> at[q].pc \in Reclaiming
  BY <1>1, <1>3, <1>4, <1>5 DEF Reclaiming
<1>12. \A q, r \in Procs : at'[q].file = at'[r].file /\ at'[q].file /= None => q = r
  BY <1>11 DEF Calm
<1>13. barrierPath' /= None => \A q \in Procs : at'[q].file /= barrierPath'
  BY <1>1, <1>11 DEF Calm
<1>. QED  BY <1>1, <1>9, <1>10, <1>11, <1>12, <1>13 DEF Calm

\* The barrier goes up where there was none.
LEMMA OpenBarrierCalm ==
    ASSUME StopsWhereItMay, TypeInv, Calm, NEW p \in Procs, OpenBarrier(p)
    PROVE  Calm'
<1>1. at[p].pc = "open_barrier" /\ lockPath' = lockPath
  BY DEF OpenBarrier, At
<1>2. Fits(at[p], late[p], lockPath, barrierPath, file) /\ at[p] \in Local
  BY MovesTyped DEF Calm
<1>3. CASE barrierPath /= None
  <2>1. UNCHANGED <<lockPath, barrierPath, file>>
    BY <1>3 DEF OpenBarrier
  <2>2. PICK l \in {Idle, Again} : Becomes(p, l)
    BY <1>3 DEF OpenBarrier, NextRound
  <2>. QED  BY <1>1, <2>1, <2>2, RoundGivenUp DEF Reclaiming
<1>4. CASE barrierPath = None
  <2> DEFINE l == [at[p] EXCEPT !.pc = "write_barrier", !.barrier = FreshFile]
  <2>1. FreshFile \in Files /\ FreshFile \notin InUse
    BY FreshFileIsFresh
  <2>2. PICK f \in Files : f = FreshFile
    BY <2>1
  <2>3. Becomes(p, l) /\ barrierPath' = f /\ file' = [file EXCEPT ![f] = EmptyFile]
    BY <1>4, <2>2 DEF OpenBarrier
  <2>4. /\ l \in Local /\ l.pc = "write_barrier" /\ l.file = at[p].file
        /\ l.barrier = f /\ l.heartbeat = at[p].heartbeat
    BY <1>2, <2>2 DEF Local, Places, Names
  <2> HIDE DEF l
  <2>5. /\ at'[p] = l /\ late'[p] = late[p]
        /\ \A q \in Procs : q /= p => at'[q] = at[q] /\ late'[q] = late[q]
    BY <2>3, <2>4, BecomesTyped, Hurries DEF MustGoOn
  <2>6. /\ file'[f].left = LeaseMs
        /\ \A g \in Files : g /= f => file'[g] = file[g]
    BY <2>3 DEF EmptyFile, TypeInv, TypeOK
  <2>7. \A q \in Procs : /\ at[q].file /= f /\ at[q].moved /= f
                         /\ lockPath /= f /\ f /= None
    BY <2>1, <2>2, KnownFiles, Measures
  <2>8. Fits(at'[p], late'[p], lockPath', barrierPath', file')
    BY <1>1, <1>2, <2>3, <2>4, <2>5, <2>6, <2>7, Measures
       DEF Fits, Owning, Reclaiming, Acquiring, Troubled, Relies
  <2>9. \A q \in Procs : at[q].pc \notin Reclaiming
    BY <1>4 DEF Calm, Fits
  <2>10. ASSUME NEW q \in Procs, q /= p PROVE Fits(at'[q], late'[q], lockPath', barrierPath', file')
    <3>1. Fits(at[q], late[q], lockPath, barrierPath, file) /\ at'[q] = at[q] /\ late'[q] = late[q]
      BY <2>5, <2>10 DEF Calm
    <3>2. at[q].file /= None => file'[at[q].file] = file[at[q].file]
      BY <2>6, <2>7, KnownFiles
    <3>3. at[q].pc \in Acquiring \/ Relies(at[q]) => at[q].file /= None
      BY <3>1 DEF Fits, Owning, Acquiring, Relies
    <3>. QED  BY <1>1, <2>9, <3>1, <3>2, <3>3 DEF Fits, Owning, Reclaiming
  <2>11. \A q \in Procs : at'[q].file = at[q].file /\ (at'[q].pc \in Reclaiming => q = p)
    BY <2>4, <2>5, <2>9
  <2>12. at'[p].pc \in Reclaiming /\ barrierPath' /= lockPath'
    BY <1>1, <2>3, <2>4, <2>5, <2>7 DEF Reclaiming
  <2>13. \A q \in Procs : at'[q].file /= barrierPath'
    BY <2>3, <2>7, <2>11
  <2>. QED  BY <2>8, <2>10, <2>11, <2>12, <2>13 DEF Calm
<1>. QED  BY <1>3, <1>4

\* The barrier gets its lease.
LEMMA WriteBarrierCalm ==
    ASSUME StopsWhereItMay, TypeInv, Calm, NEW p \in Procs, WriteBarrier(p)
    PROVE  Calm'
<1>1. at[p].pc = "write_barrier" /\ UNCHANGED <<lockPath, barrierPath>>
  BY DEF WriteBarrier, At, paths
<1>2. Fits(at[p], late[p], lockPath, barrierPath, file) /\ at[p] \in Local
  BY MovesTyped DEF Calm
<1>3. barrierPath = at[p].barrier /\ barrierPath \in Files
  BY <1>1, <1>2, KnownFiles DEF Fits, Reclaiming
<1> DEFINE l == [at[p] EXCEPT !.pc = "verify"]
<1>4. Becomes(p, l)
  BY DEF WriteBarrier, Goto
<1>5. l \in Local /\ l.pc = "verify" /\ l.file = at[p].file /\ l.barrier = at[p].barrier
      /\ l.heartbeat = at[p].heartbeat
  BY <1>2 DEF Local, Places
<1> HIDE DEF l
<1>6. /\ at'[p] = l /\ late'[p] = late[p]
      /\ \A q \in Procs : q /= p => at'[q] = at[q] /\ late'[q] = late[q]
  BY <1>4, <1>5, BecomesTyped, Hurries DEF MustGoOn
<1>7. /\ file'[barrierPath].left = BarrierLeaseMs
      /\ \A g \in Files : g /= barrierPath => file'[g] = file[g]
  BY <1>3 DEF WriteBarrier, BarrierState, TypeInv, TypeOK
<1>8. file'[barrierPath].left + late[p] >= LeaseMs
  BY <1>7, Measures, LockAssumption
<1>9. Fits(at'[p], late'[p], lockPath', barrierPath', file')
  BY <1>1, <1>2, <1>3, <1>5, <1>6, <1>8 DEF Fits, Owning, Reclaiming, Acquiring, Troubled, Relies
<1>10. ASSUME NEW q \in Procs, q /= p PROVE Fits(at'[q], late'[q], lockPath', barrierPath', file')
  <2>1. Fits(at[q], late[q], lockPath, barrierPath, file) /\ at'[q] = at[q] /\ late'[q] = late[q]
    BY <1>6, <1>10 DEF Calm
  <2>2. at[q].pc \notin Reclaiming /\ at[q].file /= barrierPath
    BY <1>1, <1>3, <1>10, Measures DEF Calm, Reclaiming
  <2>3. at[q].file /= None => file'[at[q].file] = file[at[q].file]
    BY <1>7, <2>2, KnownFiles
  <2>4. at[q].pc \in Acquiring \/ Relies(at[q]) => at[q].file /= None
    BY <2>1 DEF Fits, Owning, Acquiring, Relies
  <2>. QED  BY <1>1, <2>1, <2>2, <2>3, <2>4 DEF Fits, Owning, Reclaiming
<1>11. /\ \A q \in Procs : at'[q].file = at[q].file
       /\ \A q \in Procs : at'[q].pc \in Reclaiming <=> at[q].pc \in Reclaiming
  BY <1>1, <1>5, <1>6 DEF Reclaiming
<1>. QED  BY <1>1, <1>9, <1>10, <1>11 DEF Calm

\* The spent lock is taken away.
LEMMA RenameLockCalm ==
    ASSUME StopsWhereItMay, TypeInv, Calm, NEW p \in Procs, RenameLock(p)
    PROVE  Calm'
<1>1. at[p].pc = "rename" /\ lockPath' = None /\ UNCHANGED <<barrierPath, file>>
  BY DEF RenameLock, At
<1>2. Fits(at[p], late[p], lockPath, barrierPath, file) /\ at[p] \in Local
  BY MovesTyped DEF Calm
<1>3. /\ lockPath /= None /\ Spent(file[lockPath]) /\ barrierPath /= None
      /\ barrierPath /= lockPath
  BY <1>1, <1>2 DEF Fits, Reclaiming, Calm
<1> DEFINE l == [at[p] EXCEPT !.pc = "check", !.moved = lockPath]
<1>4. Becomes(p, l)
  BY <1>3 DEF RenameLock
<1>5. /\ l \in Local /\ l.pc = "check" /\ l.file = at[p].file /\ l.barrier = at[p].barrier
      /\ l.moved = lockPath /\ l.heartbeat = at[p].heartbeat
  BY <1>2 DEF Local, Places, Names, TypeInv, TypeOK
<1> HIDE DEF l
<1>6. /\ at'[p] = l /\ late'[p] = late[p]
      /\ \A q \in Procs : q /= p => at'[q] = at[q] /\ late'[q] = late[q]
  BY <1>4, <1>5, BecomesTyped, Hurries DEF MustGoOn
<1>7. Fits(at'[p], late'[p], lockPath', barrierPath', file')
  BY <1>1, <1>2, <1>3, <1>5, <1>6 DEF Fits, Owning, Reclaiming, Acquiring, Troubled, Relies
<1>8. ASSUME NEW q \in Procs, q /= p PROVE Fits(at'[q], late'[q], lockPath', barrierPath', file')
  <2>1. Fits(at[q], late[q], lockPath, barrierPath, file) /\ at'[q] = at[q] /\ late'[q] = late[q]
    BY <1>6, <1>8 DEF Calm
  <2>2. at[q].pc \notin Reclaiming
    BY <1>1, <1>8 DEF Calm, Reclaiming
  <2>3. at[q].pc \in Owning => Spent(file[at[q].file])
    BY <1>3, <2>1 DEF Fits
  <2>. QED  BY <1>1, <2>1, <2>2, <2>3 DEF Fits, Reclaiming
<1>9. /\ \A q \in Procs : at'[q].file = at[q].file
      /\ \A q \in Procs : at'[q].pc \in Reclaiming <=> at[q].pc \in Reclaiming
  BY <1>1, <1>5, <1>6 DEF Reclaiming
<1>. QED  BY <1>1, <1>7, <1>8, <1>9 DEF Calm

\* The barrier comes down again.
LEMMA RemoveBarrierCalm ==
    ASSUME TypeInv, Calm, NEW p \in Procs, RemoveBarrier(p)
    PROVE  Calm'
<1>1. at[p].pc = "remove_barrier" /\ barrierPath' = None /\ UNCHANGED <<lockPath, file>>
  BY DEF RemoveBarrier, At
<1>2. PICK l \in {Idle, Again} : Becomes(p, l)
  BY DEF RemoveBarrier, NextRound
<1>3. l \in Local /\ l.file = None /\ l.heartbeat = "off" /\ l.pc \in {"idle", "barrier"}
  BY StartStates, RoundEnds
<1>4. l.pc \notin Owning \cup Reclaiming \cup Troubled
  BY <1>3 DEF Owning, Reclaiming, Troubled
<1>5. /\ at'[p] = l
      /\ \A q \in Procs : q /= p => at'[q] = at[q] /\ late'[q] = late[q]
  BY <1>2, <1>3, BecomesTyped
<1>6. ASSUME NEW q \in Procs, q /= p PROVE Fits(at'[q], late'[q], lockPath', barrierPath', file')
  <2>1. Fits(at[q], late[q], lockPath, barrierPath, file) /\ at'[q] = at[q] /\ late'[q] = late[q]
    BY <1>5, <1>6 DEF Calm
  <2>2. at[q].pc \notin Reclaiming
    BY <1>1, <1>6 DEF Calm, Reclaiming
  <2>. QED  BY <1>1, <2>1, <2>2 DEF Fits, Reclaiming
<1>7. Fits(at'[p], late'[p], lockPath', barrierPath', file')
  BY <1>3, <1>4, <1>5, Outside
<1>8. \A q, r \in Procs : at'[q].file = at'[r].file /\ at'[q].file /= None => q = r
  BY <1>3, <1>5 DEF Calm
<1>9. \A q \in Procs : at'[q].pc \notin Reclaiming
  BY <1>1, <1>4, <1>5 DEF Calm, Reclaiming
<1>. QED  BY <1>1, <1>6, <1>7, <1>8, <1>9 DEF Calm

\* Leases run out, and hurried processes are later.
LEMMA TickCalm ==
    ASSUME StopsWhereItMay, TypeInv, Calm, Tick
    PROVE  Calm'
<1>1. UNCHANGED <<lockPath, barrierPath, at>>
  BY DEF Tick, paths
<1>2. ASSUME NEW f \in Files, f \in InUse
      PROVE  /\ file'[f].written = file[f].written /\ file'[f].released = file[f].released
             /\ file'[f].left \in Int /\ file'[f].left <= file[f].left
             /\ file'[f].left >= file[f].left - 1
  <2>1. file[f] \in Content
    BY DEF TypeInv, TypeOK
  <2>2. file'[f] = [file[f] EXCEPT !.left = IF @ > -GraceMs THEN @ - 1 ELSE @]
    BY <1>2 DEF Tick
  <2>3. /\ file'[f].written = file[f].written /\ file'[f].released = file[f].released
        /\ file'[f].left = IF file[f].left > -GraceMs THEN file[f].left - 1 ELSE file[f].left
    BY <2>1, <2>2 DEF Content
  <2>. QED  BY <2>3, Measures
<1>3. ASSUME NEW f \in Files, f \in InUse, Spent(file[f]) PROVE Spent(file'[f])
  BY <1>2, <1>3, Measures DEF Spent
<1>4. ASSUME NEW p \in Procs PROVE Fits(at'[p], late'[p], lockPath', barrierPath', file')
  <2>1. Fits(at[p], late[p], lockPath, barrierPath, file) /\ at'[p] = at[p]
    BY <1>1 DEF Calm
  <2>2. at[p].pc \in MustGoOn \/ Relies(at[p]) => late'[p] = late[p] + 1
    BY Hurries DEF Tick
  <2>3. /\ at[p].pc \in Owning => at[p].file \in Files /\ at[p].file \in InUse
        /\ at[p].pc = "check" => at[p].moved \in Files /\ at[p].moved \in InUse
        /\ at[p].pc = "rename" => lockPath \in Files /\ lockPath \in InUse
        /\ at[p].pc \in Reclaiming => barrierPath \in Files /\ barrierPath \in InUse
    BY <2>1, KnownFiles DEF Fits
  <2>4. at[p].pc \in Owning => Spent(file'[at[p].file]) \/ lockPath = at[p].file
    BY <1>3, <2>1, <2>3 DEF Fits
  <2>5. at[p].pc \in Acquiring =>
          /\ ~file'[at[p].file].released /\ file'[at[p].file].left + late'[p] >= LeaseMs
          /\ at[p].pc /= "write" => file'[at[p].file].written
    BY <1>2, <2>1, <2>2, <2>3, Measures DEF Fits, Acquiring, Owning, MustGoOn
  <2>6. Relies(at[p]) =>
          /\ file'[at[p].file].written /\ ~file'[at[p].file].released
          /\ file'[at[p].file].left + late'[p] > 0
    BY <1>2, <2>1, <2>2, <2>3, Measures DEF Fits, Relies, Owning
  <2>7. /\ at[p].pc = "rename" => lockPath /= None /\ Spent(file'[lockPath])
        /\ at[p].pc = "check" => at[p].moved \notin {None, barrierPath} /\ Spent(file'[at[p].moved])
    BY <1>3, <2>1, <2>3 DEF Fits
  <2>8. at[p].pc \in Reclaiming =>
          /\ barrierPath = at[p].barrier /\ barrierPath /= None
          /\ file'[barrierPath].left + late'[p] >= LeaseMs
    BY <1>2, <2>1, <2>2, <2>3, Measures DEF Fits, Reclaiming, MustGoOn
  <2>. QED  BY <1>1, <2>1, <2>4, <2>5, <2>6, <2>7, <2>8 DEF Fits
<1>. QED  BY <1>1, <1>4 DEF Calm

\* Nobody has begun.
LEMMA CalmAtFirst == Init => Calm
<1>1. SUFFICES ASSUME Init PROVE Calm
  OBVIOUS
<1>2. barrierPath = None /\ \A p \in Procs : at[p] = Idle
  BY <1>1 DEF Init
<1>3. Idle.pc \notin Owning \cup Reclaiming \cup Troubled
  BY RoundEnds DEF Owning, Reclaiming, Troubled
<1>4. \A p \in Procs : Fits(at[p], late[p], lockPath, barrierPath, file)
  BY <1>2, <1>3, RoundEnds, Outside
<1>. QED  BY <1>2, <1>3, <1>4, RoundEnds DEF Calm

\* No step without a fault disturbs the lock.
LEMMA CalmKept ==
    ASSUME StopsWhereItMay, TypeInv, CalmUntilFault, [Next]_vars
    PROVE  CalmUntilFault'
<1>1. SUFFICES ASSUME faults' = 0 PROVE Calm'
  BY DEF CalmUntilFault
<1>2. faults \in Nat
  BY LockAssumption DEF TypeInv, TypeOK
<1>3. ~Fault
  BY <1>1, <1>2 DEF Fault
<1>4. CASE UNCHANGED vars
  BY <1>1, <1>4 DEF vars, CalmUntilFault, Calm
<1>5. CASE Tick
  <2>1. Calm
    BY <1>1, <1>5 DEF Tick, CalmUntilFault
  <2>. QED  BY <1>5, <2>1, TickCalm
<1>6. ASSUME NEW p \in Procs, Start(p) \/ Acquires(p) \/ Reclaims(p) \/ Holds(p) \/ Refreshes(p)
      PROVE  Calm'
  <2>1. faults' = faults
    BY <1>6 DEF Start, Acquires, Reclaims, Holds, Refreshes, InspectBarrier, VerifyRetire,
       RenameBarrier, CheckRetired, RestoreBarrier, OpenLock, WriteLockState, ConfirmOwned,
       CleanupCheck, CleanupUnlink, InspectLock, OpenBarrier, WriteBarrier, VerifyReclaim,
       RenameLock, CheckMoved, RestoreLock, ReleaseBarrier, RemoveBarrier, AssertOwnership,
       ProtectedWrite, ReleaseLock, RefreshLooks, RefreshWrites, RefreshConfirms
  <2>2. Calm
    BY <1>1, <2>1 DEF CalmUntilFault
  <2>3. at[p].pc \notin Troubled
    BY <2>2 DEF Calm, Fits
  <2>4. CASE Start(p)
    BY <2>2, <2>4, RoundGivenUp DEF Start, At, paths, Reclaiming
  <2>5. CASE Acquires(p)
    BY <2>2, <2>3, <2>5, InspectBarrierCalm, OpenLockCalm, LeaseWrittenCalm, ConfirmOwnedCalm
       DEF Acquires, VerifyRetire, RenameBarrier, CheckRetired, RestoreBarrier, CleanupCheck,
           CleanupUnlink, At, Troubled
  <2>6. CASE Reclaims(p)
    BY <2>2, <2>3, <2>6, InspectLockCalm, OpenBarrierCalm, WriteBarrierCalm, ReclaimerLooksCalm,
       RenameLockCalm, RemoveBarrierCalm
       DEF Reclaims, RestoreLock, At, Troubled
  <2>7. CASE Holds(p)
    BY <2>2, <2>7, HolderCalm, ReleaseLockCalm DEF Holds
  <2>8. CASE Refreshes(p)
    BY <2>2, <2>8, HeartbeatLooksCalm, LeaseWrittenCalm DEF Refreshes
  <2>. QED  BY <1>6, <2>4, <2>5, <2>6, <2>7, <2>8
<1>7. ASSUME NEW p \in Procs, WriteFails(p) \/ BarrierWriteFails(p) \/ Crash(p) \/ Delay(p)
      PROVE  FALSE
  BY <1>3, <1>7 DEF WriteFails, BarrierWriteFails, Crash, Delay
<1>. QED  BY <1>4, <1>5, <1>6, <1>7 DEF Next

\* Two processes that write have the same lock file.
LEMMA CalmExcludes ==
    ASSUME TypeInv, Calm
    PROVE  ExclusiveWrites
<1>1. SUFFICES ASSUME NEW p \in Procs, NEW q \in Procs, At(p, "checked"), At(q, "checked")
               PROVE  p = q
  BY DEF ExclusiveWrites
<1>2. at[p].file \in Files /\ lockPath = at[p].file /\ lockPath = at[q].file
  BY <1>1, ReliedOnIsNotSpent DEF At, Relies
<1>. QED  BY <1>2, Measures DEF Calm

\* Until the first process dies, is delayed or fails to write, no two processes write
\* what the lock protects at the same time, be there any number of them, and however
\* long they stop where they wait for the lock, look at it or hold it (withRegistryLock,
\* reclaimLock, refreshRegistryLock).
THEOREM ExclusiveUntilFault == StopsWhereItMay => (Spec => [](faults = 0 => ExclusiveWrites))
<1>1. SUFFICES ASSUME StopsWhereItMay PROVE Spec => [](faults = 0 => ExclusiveWrites)
  OBVIOUS
<1>2. Init => TypeInv /\ CalmUntilFault
  BY TypesAtFirst, CalmAtFirst DEF CalmUntilFault
<1>3. TypeInv /\ CalmUntilFault /\ [Next]_vars => (TypeInv /\ CalmUntilFault)'
  BY <1>1, TypesKept, CalmKept
<1>4. TypeInv /\ CalmUntilFault => (faults = 0 => ExclusiveWrites)
  BY CalmExcludes DEF CalmUntilFault
<1>. QED  BY <1>2, <1>3, <1>4, PTL DEF Spec

-----------------------------------------------------------------------------
(* Two processes, after the first fault.                                    *)
(*                                                                         *)
(* A process that is delayed may find its lease over, its barrier retired   *)
(* and another lock in place, and take away or revive a lock that is not    *)
(* its own.  What saves two processes is the look after the rename: the one *)
(* that has the lock of the other in its hands creates no lock itself, sees *)
(* that it is alive and puts it back.  Neither the barrier nor the look     *)
(* before the rename is needed for that.                                    *)

AtMostTwo == \A p, q, r \in Procs : p = q \/ p = r \/ q = r

\* Nor may a process stop where it removes a lock it could not write or confirm.
StopsNowhereElse == StopsWhereItMay /\ MayStopAt \cap {"cleanup", "unlink"} = {}

\* Where a process has a lock file, where it acts on the file at the lock path, and
\* where it has taken away a lock that it may put back.
Having == Owning \cup {"cleanup", "unlink"}
Sure == {"checked", "unlink"}
Taking == {"check", "restore"}

\* What a process knows of its own files, t after its last stop, though it may have
\* been delayed once since it wrote them.
Knows(l, t, content) ==
    /\ l.pc \in Having => l.file /= None
    /\ l.pc = "barrier" => l.file = None
    /\ l.heartbeat /= "off" => l.pc \in {"hold", "checked", "release"}
    /\ l.pc \in {"barrier_again", "own"} => content[l.file].written
    /\ l.pc \in {"barrier_again", "own", "cleanup", "unlink"} =>
          /\ ~content[l.file].released
          /\ content[l.file].left + t + (IF content[l.file].written THEN GraceMs ELSE 0) >= LeaseMs
    /\ l.pc = "checked" =>
          /\ content[l.file].written /\ ~content[l.file].released
          /\ content[l.file].left + t > 0

\* The file of p is at the lock path, or another process has it and the path is empty.
Kept(p) ==
    \/ lockPath = at[p].file
    \/ lockPath = None /\ \E q \in Procs : /\ q /= p /\ at[q].pc \in Taking
                                           /\ at[q].moved = at[p].file

Shaken ==
    /\ \A p \in Procs : Knows(at[p], late[p], file)
    /\ \A p \in Procs : at[p].pc \in Sure => Kept(p)
    /\ \A p, q \in Procs : at[p].file = at[q].file /\ at[p].file /= None => p = q
    /\ \A p, q \in Procs : at[p].pc = "write_barrier" => at[p].barrier \notin {None, at[q].file}

ShakenByOneFault == faults <= 1 => Shaken

\* The file of a process that acts on the lock path is not spent.
LEMMA SureIsNotSpent ==
    ASSUME TypeInv, Shaken, NEW p \in Procs, at[p].pc \in Sure
    PROVE  /\ at[p].file \in Files /\ at[p].file /= None
           /\ ~Spent(file[at[p].file]) /\ ~Reclaimable(at[p].file)
<1>1. Knows(at[p], late[p], file)
  BY DEF Shaken
<1>2. at[p].file \in Files /\ at[p].file /= None
  BY <1>1, KnownFiles DEF Knows, Sure, Having, Owning
<1>3. file[at[p].file].left \in Int /\ late[p] \in Nat /\ late[p] <= GraceMs
  BY <1>2, Measures
<1>4. ~Spent(file[at[p].file])
  <2>1. CASE at[p].pc = "checked"
    BY <1>1, <1>3, <2>1, Measures DEF Knows, Spent
  <2>2. CASE at[p].pc = "unlink"
    BY <1>1, <1>3, <2>2, Measures DEF Knows, Spent
  <2>. QED  BY <2>1, <2>2 DEF Sure
<1>. QED  BY <1>2, <1>4 DEF Spent, Reclaimable

\* Of two processes, only the other one can have the file.
LEMMA KeptByTheOther ==
    ASSUME AtMostTwo, Shaken, NEW p \in Procs, NEW q \in Procs, q /= p, at[q].pc \in Sure
    PROVE  \/ lockPath = at[q].file
           \/ lockPath = None /\ at[p].pc \in Taking /\ at[p].moved = at[q].file
<1>1. Kept(q)
  BY DEF Shaken
<1>2. ASSUME NEW r \in Procs, r /= q PROVE r = p
  BY <1>2 DEF AtMostTwo
<1>. QED  BY <1>1, <1>2 DEF Kept

\* A step of one process that leaves the files of the others alone, their contents and,
\* where they act on it, their place.
LEMMA ShakenStep ==
    ASSUME TypeInv, Shaken, NEW p \in Procs, NEW l \in Local, Becomes(p, l),
           Knows(l, late'[p], file'),
           \A q \in Procs : q /= p /\ at[q].file /= None => file'[at[q].file] = file[at[q].file],
           l.file \in {at[p].file, None} \/ l.file \notin InUse,
           l.pc = "write_barrier" => /\ l.barrier \notin {None, l.file}
                                     /\ \A q \in Procs : at[q].file /= l.barrier,
           \A q \in Procs : q /= p /\ at[q].pc \in Sure =>
               \/ lockPath' = at[q].file
               \/ lockPath' = None /\ l.pc \in Taking /\ l.moved = at[q].file,
           l.pc \in Sure =>
               \/ lockPath' = l.file
               \/ l.pc = at[p].pc /\ l.file = at[p].file /\ lockPath' = lockPath
    PROVE  Shaken'
<1>1. /\ at'[p] = l
      /\ \A q \in Procs : q /= p => at'[q] = at[q] /\ late'[q] = late[q]
  BY BecomesTyped
<1>2. ASSUME NEW q \in Procs PROVE Knows(at'[q], late'[q], file')
  <2>1. CASE q = p
    BY <1>1, <2>1
  <2>2. CASE q /= p
    <3>1. Knows(at[q], late[q], file)
      BY DEF Shaken
    <3>2. at[q].file = None \/ file'[at[q].file] = file[at[q].file]
      BY <2>2
    <3>3. Knows(at[q], late[q], file')
      BY <3>1, <3>2 DEF Knows, Having, Owning
    <3>. QED  BY <1>1, <2>2, <3>3
  <2>. QED  BY <2>1, <2>2
<1>3. ASSUME NEW q \in Procs, at'[q].pc \in Sure PROVE Kept(q)'
  <2>1. CASE q /= p
    <3>1. at'[q] = at[q]
      BY <1>1, <2>1
    <3>2. \/ lockPath' = at[q].file
          \/ lockPath' = None /\ l.pc \in Taking /\ l.moved = at[q].file
      BY <1>3, <2>1, <3>1
    <3>. QED  BY <1>1, <2>1, <3>1, <3>2 DEF Kept
  <2>2. CASE q = p /\ lockPath' = l.file
    BY <1>1, <2>2 DEF Kept
  <2>3. CASE q = p /\ l.pc = at[p].pc /\ l.file = at[p].file /\ lockPath' = lockPath
    <3>1. Kept(p)
      BY <1>1, <1>3, <2>3 DEF Shaken
    <3>. QED  BY <1>1, <2>3, <3>1 DEF Kept
  <2>. QED  BY <1>1, <1>3, <2>1, <2>2, <2>3
<1>4. \A q \in Procs : at[q].file \in InUse
  BY KnownFiles
<1>5. ASSUME NEW q \in Procs, NEW r \in Procs, at'[q].file = at'[r].file, at'[q].file /= None
      PROVE  q = r
  BY <1>1, <1>4, <1>5 DEF Shaken
<1>6. ASSUME NEW q \in Procs, NEW r \in Procs, at'[q].pc = "write_barrier"
      PROVE  at'[q].barrier \notin {None, at'[r].file}
  <2>1. \A x \in Procs : at[x].barrier \in InUse
    BY DEF InUse
  <2>2. CASE q = p
    BY <1>1, <1>6, <2>2
  <2>3. CASE q /= p
    <3>1. \A x \in Procs : at[q].barrier \notin {None, at[x].file}
      BY <1>1, <1>6, <2>3 DEF Shaken
    <3>. QED  BY <1>1, <2>1, <2>3, <3>1
  <2>. QED  BY <2>2, <2>3
<1>. QED  BY <1>2, <1>3, <1>5, <1>6 DEF Shaken

\* A step of one process that touches neither the lock path nor a file.
LEMMA ShakenQuietly ==
    ASSUME AtMostTwo, TypeInv, Shaken, NEW p \in Procs, NEW l \in Local, Becomes(p, l),
           UNCHANGED <<lockPath, file>>, Knows(l, late'[p], file),
           l.file \in {at[p].file, None}, l.pc /= "write_barrier", at[p].pc \notin Taking,
           l.pc \in Sure => lockPath = l.file \/ (l.pc = at[p].pc /\ l.file = at[p].file)
    PROVE  Shaken'
<1>1. \A q \in Procs : q /= p /\ at[q].pc \in Sure => lockPath = at[q].file
  BY KeptByTheOther
<1>2. Knows(l, late'[p], file')
  OBVIOUS
<1>. QED  BY <1>1, <1>2, ShakenStep

\* Where a process knows nothing of its lease.
LEMMA KnowsLittle ==
    ASSUME NEW l, NEW t, NEW content, l.pc \in Having => l.file /= None,
           l.pc \notin {"barrier_again", "own", "cleanup", "unlink", "checked"},
           l.pc = "barrier" => l.file = None,
           l.heartbeat /= "off" => l.pc \in {"hold", "checked", "release"}
    PROVE  Knows(l, t, content)
BY DEF Knows

\* A process that goes where it knows nothing of a lease, and takes its file along.
LEMMA ShakenMove ==
    ASSUME AtMostTwo, TypeInv, Shaken, NEW p \in Procs, NEW l \in Local, Becomes(p, l),
           UNCHANGED <<lockPath, file>>, at[p].pc \notin Taking \cup {"hold", "checked", "release"},
           l.file = at[p].file, l.heartbeat = at[p].heartbeat,
           \/ l.pc \notin Having \cup {"barrier", "write_barrier"}
           \/ l.pc = "give_up" /\ l.file /= None
    PROVE  Shaken'
<1>1. Knows(at[p], late[p], file)
  BY DEF Shaken
<1>2. at[p].heartbeat = "off"
  BY <1>1 DEF Knows
<1>3. Knows(l, late'[p], file)
  BY <1>2, KnowsLittle DEF Having, Owning
<1>4. l.pc /= "write_barrier" /\ l.pc \notin Sure
  BY DEF Sure, Having, Owning
<1>. QED  BY <1>3, <1>4, ShakenQuietly

\* A process that ends its round.
LEMMA ShakenRoundEnd ==
    ASSUME AtMostTwo, TypeInv, Shaken, NEW p \in Procs, UNCHANGED <<lockPath, file>>,
           at[p].pc \notin Taking, NEW l \in {Idle, Again}, Becomes(p, l)
    PROVE  Shaken'
<1>1. l \in Local /\ l.file = None /\ l.heartbeat = "off" /\ l.pc \in {"idle", "barrier"}
  BY StartStates, RoundEnds
<1>2. Knows(l, late'[p], file)
  BY <1>1, KnowsLittle DEF Having, Owning
<1>3. l.pc \notin Sure /\ l.pc /= "write_barrier"
  BY <1>1 DEF Sure
<1>. QED  BY <1>1, <1>2, <1>3, ShakenQuietly

\* waitForReclaimBarrier, whatever became of the barrier.
LEMMA ShakenAfterBarrier ==
    ASSUME AtMostTwo, TypeInv, Shaken, NEW p \in Procs, UNCHANGED <<lockPath, file>>,
           at[p].pc \notin Taking \cup {"hold", "checked", "release"}, AfterBarrier(p)
    PROVE  Shaken'
<1>1. CASE at[p].file = None
  BY <1>1, ShakenRoundEnd DEF AfterBarrier, NextRound
<1>2. CASE at[p].file /= None
  <2>. DEFINE l == [at[p] EXCEPT !.pc = "give_up", !.seen = None, !.moved = None]
  <2>1. at[p] \in Local
    BY MovesTyped
  <2>2. l \in Local /\ l.pc = "give_up" /\ l.file = at[p].file /\ l.heartbeat = at[p].heartbeat
    BY <2>1 DEF Local, Places, Names
  <2>3. Becomes(p, l)
    BY <1>2 DEF AfterBarrier
  <2>. HIDE DEF l
  <2>. QED  BY <1>2, <2>2, <2>3, ShakenMove
<1>. QED  BY <1>1, <1>2

\* A process that has been told to go on, but for the places where it hurries.
LEMMA ShakenGoto ==
    ASSUME AtMostTwo, TypeInv, Shaken, NEW p \in Procs, UNCHANGED <<lockPath, file>>,
           at[p].pc \notin Taking \cup {"hold", "checked", "release"},
           NEW pc \in Places \ (Having \cup {"barrier", "write_barrier"}), Goto(p, pc)
    PROVE  Shaken'
<1>. DEFINE l == [at[p] EXCEPT !.pc = pc]
<1>1. l \in Local /\ l.pc = pc /\ l.file = at[p].file /\ l.heartbeat = at[p].heartbeat
  BY GotoFields
<1>2. Becomes(p, l)
  BY DEF Goto
<1>. HIDE DEF l
<1>. QED  BY <1>1, <1>2, ShakenMove

\* The looks at the barrier, and its retirement.
LEMMA BarrierShaken ==
    ASSUME StopsNowhereElse, AtMostTwo, TypeInv, Shaken, NEW p \in Procs,
           \/ InspectBarrier(p) \/ VerifyRetire(p) \/ RenameBarrier(p) \/ CheckRetired(p)
           \/ RestoreBarrier(p)
    PROVE  Shaken'
<1>1. UNCHANGED <<lockPath, file>> /\ at[p] \in Local /\ barrierPath \in Names
  BY MovesTyped DEF InspectBarrier, VerifyRetire, RenameBarrier, CheckRetired, RestoreBarrier, paths,
     TypeInv, TypeOK, Names
<1>2. at[p].pc \in {"barrier", "barrier_again", "retire", "retire_rename", "retire_check", "retire_restore"}
  BY DEF InspectBarrier, VerifyRetire, RenameBarrier, CheckRetired, RestoreBarrier, At
<1>3. at[p].pc \notin Taking \cup {"hold", "checked", "release"}
  BY <1>2 DEF Taking
<1>4. CASE AfterBarrier(p)
  BY <1>1, <1>3, <1>4, ShakenAfterBarrier
<1>5. CASE Becomes(p, [at[p] EXCEPT !.pc = "retire", !.seen = barrierPath])
  <2>. DEFINE l == [at[p] EXCEPT !.pc = "retire", !.seen = barrierPath]
  <2>1. l \in Local /\ l.pc = "retire" /\ l.file = at[p].file /\ l.heartbeat = at[p].heartbeat
    BY <1>1 DEF Local, Places
  <2>2. l.pc \notin Having \cup {"barrier", "write_barrier"}
    BY <2>1 DEF Having, Owning
  <2>3. Becomes(p, l)
    BY <1>5
  <2>. HIDE DEF l
  <2>. QED  BY <1>1, <1>3, <2>1, <2>2, <2>3, ShakenMove
<1>6. CASE Becomes(p, [at[p] EXCEPT !.pc = "retire_rename", !.seen = barrierPath])
  <2>. DEFINE l == [at[p] EXCEPT !.pc = "retire_rename", !.seen = barrierPath]
  <2>1. l \in Local /\ l.pc = "retire_rename" /\ l.file = at[p].file /\ l.heartbeat = at[p].heartbeat
    BY <1>1 DEF Local, Places
  <2>2. l.pc \notin Having \cup {"barrier", "write_barrier"}
    BY <2>1 DEF Having, Owning
  <2>3. Becomes(p, l)
    BY <1>6
  <2>. HIDE DEF l
  <2>. QED  BY <1>1, <1>3, <2>1, <2>2, <2>3, ShakenMove
<1>7. CASE Becomes(p, [at[p] EXCEPT !.pc = "retire_check", !.moved = barrierPath])
  <2>. DEFINE l == [at[p] EXCEPT !.pc = "retire_check", !.moved = barrierPath]
  <2>1. l \in Local /\ l.pc = "retire_check" /\ l.file = at[p].file /\ l.heartbeat = at[p].heartbeat
    BY <1>1 DEF Local, Places
  <2>2. l.pc \notin Having \cup {"barrier", "write_barrier"}
    BY <2>1 DEF Having, Owning
  <2>3. Becomes(p, l)
    BY <1>7
  <2>. HIDE DEF l
  <2>. QED  BY <1>1, <1>3, <2>1, <2>2, <2>3, ShakenMove
<1>8. ASSUME Goto(p, "retire_restore") \/ Goto(p, "open") PROVE Shaken'
  <2>1. {"retire_restore", "open"} \subseteq Places \ (Having \cup {"barrier", "write_barrier"})
    BY DEF Places, Having, Owning
  <2>. QED  BY <1>1, <1>3, <1>8, <2>1, ShakenGoto
<1>9. ASSUME at[p].pc \in {"barrier", "barrier_again"}, at[p].file /= None, Goto(p, "own") PROVE Shaken'
  <2>. DEFINE l == [at[p] EXCEPT !.pc = "own"]
  <2>1. "own" \in Places
    BY DEF Places
  <2>2. l \in Local /\ l.pc = "own" /\ l.file = at[p].file /\ l.heartbeat = at[p].heartbeat
    BY <2>1, GotoFields
  <2>3. Becomes(p, l)
    BY <1>9 DEF Goto
  <2>. HIDE DEF l
  <2>4. ~Unhurried(l)
    BY <2>2, Hurries DEF StopsNowhereElse, MustGoOn
  <2>5. late'[p] = late[p]
    BY <2>2, <2>3, <2>4, BecomesTyped
  <2>6. Knows(at[p], late[p], file)
    BY DEF Shaken
  <2>7. at[p].pc = "barrier_again"
    BY <1>9, <2>6 DEF Knows
  <2>8. Knows(l, late'[p], file)
    BY <1>9, <2>2, <2>5, <2>6, <2>7 DEF Knows
  <2>9. l.pc \notin Sure /\ l.pc /= "write_barrier"
    BY <2>2 DEF Sure
  <2>. QED  BY <1>1, <1>3, <2>2, <2>3, <2>8, <2>9, ShakenQuietly
<1>10. CASE InspectBarrier(p)
  BY <1>4, <1>5, <1>8, <1>9, <1>10 DEF InspectBarrier
<1>11. CASE VerifyRetire(p)
  BY <1>4, <1>6, <1>11 DEF VerifyRetire
<1>12. CASE RenameBarrier(p)
  BY <1>4, <1>7, <1>12 DEF RenameBarrier
<1>13. CASE CheckRetired(p)
  BY <1>4, <1>8, <1>13 DEF CheckRetired
<1>14. CASE RestoreBarrier(p)
  BY <1>4, <1>14 DEF RestoreBarrier
<1>. QED  BY <1>10, <1>11, <1>12, <1>13, <1>14

\* A process makes sure of its lock, or looks for it before it removes it.
LEMMA SureOfLockShaken ==
    ASSUME StopsNowhereElse, AtMostTwo, TypeInv, Shaken, NEW p \in Procs,
           ConfirmOwned(p) \/ CleanupCheck(p)
    PROVE  Shaken'
<1>1. UNCHANGED <<lockPath, file>> /\ at[p].pc \in {"own", "cleanup"} /\ at[p] \in Local
  BY MovesTyped DEF ConfirmOwned, CleanupCheck, At, paths
<1>2. Knows(at[p], late[p], file) /\ at[p].pc \notin Taking
  BY <1>1 DEF Shaken, Taking
<1>3. at[p].file /= None /\ at[p].heartbeat = "off"
  BY <1>1, <1>2 DEF Knows, Having, Owning
<1>4. CASE ConfirmOwned(p) /\ Owns(p)
  <2>. DEFINE l == [at[p] EXCEPT !.pc = "hold", !.heartbeat = "rest"]
  <2>1. l \in Local /\ l.pc = "hold" /\ l.file = at[p].file /\ l.heartbeat = "rest"
    BY <1>1 DEF Local, Places, Beats
  <2>2. Becomes(p, l)
    BY <1>4 DEF ConfirmOwned
  <2>. HIDE DEF l
  <2>3. Knows(l, late'[p], file)
    BY <1>3, <2>1, KnowsLittle
  <2>4. l.pc \notin Sure /\ l.pc /= "write_barrier"
    BY <2>1 DEF Sure
  <2>. QED  BY <1>1, <1>2, <2>1, <2>2, <2>3, <2>4, ShakenQuietly
<1>5. CASE CleanupCheck(p) /\ lockPath /= at[p].file
  BY <1>1, <1>2, <1>5, ShakenRoundEnd DEF CleanupCheck
<1>6. ASSUME NEW pc \in {"cleanup", "unlink"}, Goto(p, pc), pc = "unlink" => lockPath = at[p].file
      PROVE  Shaken'
  <2>. DEFINE l == [at[p] EXCEPT !.pc = pc]
  <2>1. pc \in Places
    BY DEF Places
  <2>2. l \in Local /\ l.pc = pc /\ l.file = at[p].file /\ l.heartbeat = at[p].heartbeat
    BY <2>1, GotoFields
  <2>3. Becomes(p, l)
    BY <1>6 DEF Goto
  <2>. HIDE DEF l
  <2>4. ~Unhurried(l)
    BY <2>2 DEF StopsNowhereElse, Unhurried
  <2>5. late'[p] = late[p]
    BY <2>2, <2>3, <2>4, BecomesTyped
  <2>6. Knows(l, late'[p], file)
    BY <1>1, <1>2, <1>3, <2>2, <2>5 DEF Knows
  <2>7. l.pc /= "write_barrier" /\ (l.pc \in Sure => lockPath = l.file)
    BY <1>6, <2>2 DEF Sure
  <2>. QED  BY <1>1, <1>2, <2>2, <2>3, <2>6, <2>7, ShakenQuietly
<1>7. CASE ConfirmOwned(p) /\ ~Owns(p)
  BY <1>6, <1>7 DEF ConfirmOwned
<1>8. CASE CleanupCheck(p) /\ lockPath = at[p].file
  BY <1>6, <1>8 DEF CleanupCheck
<1>. QED  BY <1>4, <1>5, <1>7, <1>8

\* Who removes its lock removes no other: nobody else can act on the path.
LEMMA CleanupUnlinkShaken ==
    ASSUME AtMostTwo, TypeInv, Shaken, NEW p \in Procs, CleanupUnlink(p)
    PROVE  Shaken'
<1>1. UNCHANGED file /\ at[p].pc = "unlink" /\ Becomes(p, Idle)
  BY DEF CleanupUnlink, At
<1>2. Idle \in Local /\ Idle.file = None /\ Idle.heartbeat = "off" /\ Idle.pc = "idle"
  BY StartStates, RoundEnds
<1>3. Knows(Idle, late'[p], file')
  BY <1>2, KnowsLittle DEF Having, Owning
<1>4. ASSUME NEW q \in Procs, q /= p, at[q].pc \in Sure PROVE FALSE
  <2>1. at[p].pc \notin Taking /\ at[q].pc \notin Taking /\ at[p].pc \in Sure
    BY <1>1, <1>4 DEF Sure, Taking
  <2>2. lockPath = at[q].file /\ lockPath = at[p].file
    BY <1>4, <2>1, KeptByTheOther
  <2>3. at[p].file /= None
    BY <2>1, SureIsNotSpent
  <2>. QED  BY <1>4, <2>2, <2>3 DEF Shaken
<1>5. Idle.pc \notin Sure /\ Idle.pc /= "write_barrier"
  BY <1>2 DEF Sure
<1>. QED  BY <1>1, <1>2, <1>3, <1>4, <1>5, ShakenStep

\* A lock is created where there is none, and nobody has one to put back there.
LEMMA OpenLockShaken ==
    ASSUME AtMostTwo, TypeInv, Shaken, NEW p \in Procs, OpenLock(p)
    PROVE  Shaken'
<1>1. at[p].pc = "open" /\ at[p] \in Local /\ at[p].pc \notin Taking
  BY MovesTyped DEF OpenLock, At, Taking
<1>2. CASE lockPath /= None
  <2>1. "inspect" \in Places \ (Having \cup {"barrier", "write_barrier"})
    BY DEF Places, Having, Owning
  <2>2. at[p].pc \notin Taking \cup {"hold", "checked", "release"}
    BY <1>1 DEF Taking
  <2>3. Goto(p, "inspect") /\ UNCHANGED <<lockPath, file>>
    BY <1>2 DEF OpenLock
  <2>. QED  BY <2>1, <2>2, <2>3, ShakenGoto
<1>3. CASE lockPath = None
  <2>1. PICK f \in Files : f = FreshFile /\ f \notin InUse
    BY FreshFileIsFresh
  <2>. DEFINE l == [at[p] EXCEPT !.pc = "write", !.file = f]
  <2>2. l \in Local /\ l.pc = "write" /\ l.file = f /\ l.heartbeat = at[p].heartbeat
    BY <1>1 DEF Local, Places, Names
  <2>3. Becomes(p, l) /\ file' = [file EXCEPT ![f] = EmptyFile]
    BY <1>3, <2>1 DEF OpenLock
  <2>. HIDE DEF l
  <2>4. f /= None
    BY Measures
  <2>5. at[p].heartbeat = "off"
    BY <1>1 DEF Shaken, Knows
  <2>6. Knows(l, late'[p], file')
    BY <2>2, <2>4, <2>5, KnowsLittle
  <2>7. \A q \in Procs : at[q].file /= f
    BY <2>1, KnownFiles
  <2>8. file \in [Files -> Content]
    BY DEF TypeInv, TypeOK
  <2>9. \A q \in Procs : at[q].file /= None => file'[at[q].file] = file[at[q].file]
    BY <2>3, <2>7, <2>8, KnownFiles
  <2>10. ASSUME NEW q \in Procs, q /= p, at[q].pc \in Sure PROVE FALSE
    BY <1>1, <1>3, <2>10, KeptByTheOther, SureIsNotSpent
  <2>11. l.pc \notin Sure /\ l.pc /= "write_barrier"
    BY <2>2 DEF Sure
  <2>. QED  BY <2>1, <2>2, <2>3, <2>6, <2>9, <2>10, <2>11, ShakenStep
<1>. QED  BY <1>2, <1>3

\* The lease is written anew, by its creator or by the heartbeat.
LEMMA LeaseWrittenShaken ==
    ASSUME AtMostTwo, TypeInv, Shaken, NEW p \in Procs, WriteLockState(p) \/ RefreshWrites(p)
    PROVE  Shaken'
<1>1. Knows(at[p], late[p], file) /\ at[p] \in Local
  BY MovesTyped DEF Shaken
<1>2. PICK f \in Files : f = at[p].file
  BY <1>1, KnownFiles DEF WriteLockState, RefreshWrites, At, Knows, Having, Owning
<1>3. file' = [file EXCEPT ![f] = LockState] /\ UNCHANGED lockPath
  BY <1>2 DEF WriteLockState, RefreshWrites, paths
<1>4. PICK l \in Local : /\ Becomes(p, l) /\ l.file = f
                         /\ \/ /\ at[p].pc = "write" /\ l.pc = "barrier_again"
                               /\ l.heartbeat = at[p].heartbeat
                            \/ at[p].heartbeat = "write" /\ l.pc = at[p].pc /\ l.heartbeat = "confirm"
  <2>1. CASE WriteLockState(p)
    <3>1. [at[p] EXCEPT !.pc = "barrier_again"] \in Local
      BY <1>1 DEF Local, Places
    <3>. QED  BY <1>1, <1>2, <2>1, <3>1 DEF WriteLockState, At, Goto, Local
  <2>2. CASE RefreshWrites(p)
    <3>1. [at[p] EXCEPT !.heartbeat = "confirm"] \in Local
      BY <1>1 DEF Local, Beats
    <3>. QED  BY <1>1, <1>2, <2>2, <3>1 DEF RefreshWrites, Heartbeat, Local
  <2>. QED  BY <2>1, <2>2
<1>5. late'[p] \in Nat
  BY <1>4, BecomesTyped, Measures
<1>6. file \in [Files -> Content] /\ f /= None
  BY Measures DEF TypeInv, TypeOK
<1>7. file'[f].written /\ ~file'[f].released /\ file'[f].left = LeaseMs
  BY <1>3, <1>6 DEF LockState
<1>8. Knows(l, late'[p], file')
  <2>1. CASE at[p].pc = "write"
    BY <1>1, <1>4, <1>5, <1>6, <1>7, <2>1, Measures DEF Knows
  <2>2. CASE at[p].pc /= "write"
    BY <1>1, <1>4, <1>5, <1>6, <1>7, <2>2, Measures DEF Knows
  <2>. QED  BY <2>1, <2>2
<1>9. \A q \in Procs : q /= p /\ at[q].file /= None => file'[at[q].file] = file[at[q].file]
  BY <1>2, <1>3, <1>6, KnownFiles DEF Shaken
<1>10. at[p].pc \notin Taking /\ l.pc /= "write_barrier" /\ (l.pc \in Sure => l.pc = at[p].pc)
  BY <1>1, <1>4 DEF Knows, Taking, Sure
<1>11. \A q \in Procs : q /= p /\ at[q].pc \in Sure => lockPath' = at[q].file
  BY <1>3, <1>10, KeptByTheOther
<1>. QED  BY <1>2, <1>3, <1>4, <1>8, <1>9, <1>10, <1>11, ShakenStep

\* The looks of a reclaimer, before it takes a file away and after.
LEMMA ReclaimerLooksShaken ==
    ASSUME AtMostTwo, TypeInv, Shaken, NEW p \in Procs,
           \/ InspectLock(p) \/ VerifyReclaim(p) \/ ReleaseBarrier(p) \/ RemoveBarrier(p)
    PROVE  Shaken'
<1>1. UNCHANGED <<lockPath, file>> /\ at[p] \in Local /\ lockPath \in Names
  BY MovesTyped DEF InspectLock, VerifyReclaim, ReleaseBarrier, RemoveBarrier, paths, TypeInv, TypeOK,
     Names
<1>2. at[p].pc \notin Taking \cup {"hold", "checked", "release"}
  BY DEF InspectLock, VerifyReclaim, ReleaseBarrier, RemoveBarrier, At, Taking
<1>3. CASE NextRound(p) \/ Becomes(p, Again)
  BY <1>1, <1>2, <1>3, ShakenRoundEnd DEF NextRound
<1>4. CASE Becomes(p, [at[p] EXCEPT !.pc = "open_barrier", !.seen = lockPath])
  <2>. DEFINE l == [at[p] EXCEPT !.pc = "open_barrier", !.seen = lockPath]
  <2>1. l \in Local /\ l.pc = "open_barrier" /\ l.file = at[p].file /\ l.heartbeat = at[p].heartbeat
    BY <1>1 DEF Local, Places
  <2>2. l.pc \notin Having \cup {"barrier", "write_barrier"}
    BY <2>1 DEF Having, Owning
  <2>3. Becomes(p, l)
    BY <1>4
  <2>. HIDE DEF l
  <2>. QED  BY <1>1, <1>2, <2>1, <2>2, <2>3, ShakenMove
<1>5. CASE VerifyReclaim(p)
  <2>1. PICK pc \in {"rename", "release_barrier"} : Becomes(p, [at[p] EXCEPT !.pc = pc, !.seen = None])
    BY <1>5 DEF VerifyReclaim
  <2>2. pc \in Places /\ pc \notin Having \cup {"barrier", "write_barrier"} /\ None \in Names
    BY DEF Places, Having, Owning, Names
  <2>. DEFINE l == [at[p] EXCEPT !.pc = pc, !.seen = None]
  <2>3. l \in Local /\ l.pc = pc /\ l.file = at[p].file /\ l.heartbeat = at[p].heartbeat
    BY <1>1, <2>2 DEF Local
  <2>4. Becomes(p, l)
    BY <2>1
  <2>. HIDE DEF l
  <2>. QED  BY <1>1, <1>2, <2>2, <2>3, <2>4, ShakenMove
<1>6. CASE Goto(p, "remove_barrier")
  <2>1. "remove_barrier" \in Places \ (Having \cup {"barrier", "write_barrier"})
    BY DEF Places, Having, Owning
  <2>. QED  BY <1>1, <1>2, <1>6, <2>1, ShakenGoto
<1>. QED  BY <1>3, <1>4, <1>5, <1>6 DEF InspectLock, ReleaseBarrier, RemoveBarrier

\* A barrier is a file of its own.
LEMMA BarrierWrittenShaken ==
    ASSUME AtMostTwo, TypeInv, Shaken, NEW p \in Procs, OpenBarrier(p) \/ WriteBarrier(p)
    PROVE  Shaken'
<1>1. UNCHANGED lockPath /\ at[p] \in Local /\ file \in [Files -> Content]
  BY MovesTyped DEF OpenBarrier, WriteBarrier, paths, TypeInv, TypeOK
<1>2. /\ at[p].pc \in {"open_barrier", "write_barrier"}
      /\ at[p].pc \notin Taking \cup {"hold", "checked", "release"}
  BY DEF OpenBarrier, WriteBarrier, At, Taking
<1>3. at[p].heartbeat = "off" /\ at[p].barrier \in Names
  BY <1>1, <1>2 DEF Shaken, Knows, Local
<1>4. \A q \in Procs : q /= p /\ at[q].pc \in Sure => lockPath' = at[q].file
  BY <1>1, <1>2, KeptByTheOther
<1>5. CASE OpenBarrier(p) /\ barrierPath /= None
  BY <1>1, <1>2, <1>5, ShakenRoundEnd DEF OpenBarrier, NextRound
<1>6. CASE OpenBarrier(p) /\ barrierPath = None
  <2>1. PICK f \in Files : f = FreshFile /\ f \notin InUse
    BY FreshFileIsFresh
  <2>2. f /= None /\ \A q \in Procs : at[q].file /= f
    BY <2>1, KnownFiles, Measures
  <2>. DEFINE l == [at[p] EXCEPT !.pc = "write_barrier", !.barrier = f]
  <2>3. /\ l \in Local /\ l.pc = "write_barrier" /\ l.file = at[p].file /\ l.barrier = f
        /\ l.heartbeat = at[p].heartbeat
    BY <1>1 DEF Local, Places, Names
  <2>4. Becomes(p, l) /\ file' = [file EXCEPT ![f] = EmptyFile]
    BY <1>6, <2>1 DEF OpenBarrier
  <2>. HIDE DEF l
  <2>5. Knows(l, late'[p], file')
    BY <1>3, <2>3, KnowsLittle DEF Having, Owning
  <2>6. \A q \in Procs : at[q].file /= None => file'[at[q].file] = file[at[q].file]
    BY <1>1, <2>2, <2>4, KnownFiles
  <2>7. l.pc \notin Sure
    BY <2>3 DEF Sure
  <2>. QED  BY <1>4, <2>2, <2>3, <2>4, <2>5, <2>6, <2>7, ShakenStep
<1>7. CASE WriteBarrier(p)
  <2>1. "verify" \in Places /\ "verify" \notin Having \cup Sure \cup {"barrier", "write_barrier"}
    BY DEF Places, Having, Owning, Sure
  <2>. DEFINE l == [at[p] EXCEPT !.pc = "verify"]
  <2>2. l \in Local /\ l.pc = "verify" /\ l.file = at[p].file /\ l.heartbeat = at[p].heartbeat
    BY <2>1, GotoFields
  <2>3. Becomes(p, l)
    BY <1>7 DEF WriteBarrier, Goto
  <2>. HIDE DEF l
  <2>4. Knows(l, late'[p], file')
    BY <1>3, <2>1, <2>2, KnowsLittle
  <2>5. \A q \in Procs : at[q].file /= at[p].barrier
    BY <1>7 DEF WriteBarrier, At, Shaken
  <2>6. file' = [file EXCEPT ![at[p].barrier] = BarrierState]
    BY <1>7 DEF WriteBarrier
  <2>7. \A q \in Procs : at[q].file /= None => file'[at[q].file] = file[at[q].file]
    BY <1>1, <2>5, <2>6, KnownFiles
  <2>. QED  BY <1>4, <2>1, <2>2, <2>3, <2>4, <2>7, ShakenStep
<1>. QED  BY <1>5, <1>6, <1>7

\* The lock is taken away, and put back if it is alive.
LEMMA LockMovedShaken ==
    ASSUME AtMostTwo, TypeInv, Shaken, NEW p \in Procs,
           RenameLock(p) \/ CheckMoved(p) \/ RestoreLock(p)
    PROVE  Shaken'
<1>1. /\ at[p].pc \in {"rename", "check", "restore"} /\ UNCHANGED file /\ at[p] \in Local
      /\ lockPath \in Names /\ None \in Names
  BY MovesTyped DEF RenameLock, CheckMoved, RestoreLock, At, paths, TypeInv, TypeOK, Names
<1>2. at[p].heartbeat = "off"
  BY <1>1 DEF Shaken, Knows
<1>3. \A q \in Procs : at[q].file /= None => file'[at[q].file] = file[at[q].file]
  BY <1>1
<1>4. ASSUME NEW l \in Local, Becomes(p, l), l.pc \in {"check", "restore", "release_barrier"},
             l.file = at[p].file, l.heartbeat = at[p].heartbeat,
             \A q \in Procs : q /= p /\ at[q].pc \in Sure =>
                 \/ lockPath' = at[q].file
                 \/ lockPath' = None /\ l.pc \in Taking /\ l.moved = at[q].file
      PROVE  Shaken'
  <2>1. l.pc \notin Having \cup Sure \cup {"barrier", "write_barrier"}
    BY <1>4 DEF Having, Owning, Sure
  <2>2. Knows(l, late'[p], file')
    BY <1>2, <1>4, <2>1, KnowsLittle
  <2>. QED  BY <1>3, <1>4, <2>1, <2>2, ShakenStep
<1>5. ASSUME NEW q \in Procs, q /= p, at[q].pc \in Sure
      PROVE  /\ ~Reclaimable(at[q].file)
             /\ \/ lockPath = at[q].file
                \/ lockPath = None /\ at[p].pc \in Taking /\ at[p].moved = at[q].file
  BY <1>5, KeptByTheOther, SureIsNotSpent
<1>6. CASE RenameLock(p) /\ lockPath = None
  <2>. DEFINE l == [at[p] EXCEPT !.pc = "release_barrier"]
  <2>1. l \in Local /\ l.pc = "release_barrier" /\ l.file = at[p].file /\ l.heartbeat = at[p].heartbeat
    BY GotoFields DEF Places
  <2>2. Becomes(p, l) /\ at[p].pc = "rename" /\ lockPath' = None
    BY <1>6 DEF RenameLock, Goto, At
  <2>. HIDE DEF l
  <2>3. \A q \in Procs : q /= p => at[q].pc \notin Sure
    BY <1>5, <1>6, <2>2, SureIsNotSpent DEF Taking
  <2>. QED  BY <1>4, <2>1, <2>2, <2>3
<1>7. CASE RenameLock(p) /\ lockPath /= None
  <2>. DEFINE l == [at[p] EXCEPT !.pc = "check", !.moved = lockPath]
  <2>1. /\ l \in Local /\ l.pc = "check" /\ l.file = at[p].file /\ l.heartbeat = at[p].heartbeat
        /\ l.moved = lockPath
    BY <1>1 DEF Local, Places
  <2>2. Becomes(p, l) /\ lockPath' = None
    BY <1>7 DEF RenameLock
  <2>. HIDE DEF l
  <2>3. l.pc \in Taking
    BY <2>1 DEF Taking
  <2>. QED  BY <1>4, <1>5, <1>7, <2>1, <2>2, <2>3
<1>8. CASE CheckMoved(p) /\ ~Reclaimable(at[p].moved)
  <2>. DEFINE l == [at[p] EXCEPT !.pc = "restore"]
  <2>1. /\ l \in Local /\ l.pc = "restore" /\ l.file = at[p].file /\ l.heartbeat = at[p].heartbeat
        /\ l.moved = at[p].moved
    BY GotoFields DEF Places
  <2>2. Becomes(p, l) /\ lockPath' = lockPath
    BY <1>8 DEF CheckMoved, Goto, paths
  <2>. HIDE DEF l
  <2>3. l.pc \in Taking
    BY <2>1 DEF Taking
  <2>. QED  BY <1>4, <1>5, <2>1, <2>2, <2>3
<1>9. CASE (CheckMoved(p) /\ Reclaimable(at[p].moved)) \/ RestoreLock(p)
  <2>. DEFINE l == [at[p] EXCEPT !.pc = "release_barrier", !.moved = None]
  <2>1. /\ l \in Local /\ l.pc = "release_barrier" /\ l.file = at[p].file
        /\ l.heartbeat = at[p].heartbeat
    BY <1>1 DEF Local, Places
  <2>2. Becomes(p, l)
    BY <1>9 DEF CheckMoved, RestoreLock
  <2>. HIDE DEF l
  <2>3. CASE CheckMoved(p) /\ Reclaimable(at[p].moved)
    <3>1. lockPath' = lockPath
      BY <2>3 DEF CheckMoved, paths
    <3>. QED  BY <1>4, <1>5, <2>1, <2>2, <2>3, <3>1
  <2>4. CASE RestoreLock(p)
    <3>1. lockPath' = IF lockPath = None THEN at[p].moved ELSE lockPath
      BY <2>4 DEF RestoreLock
    <3>2. \A q \in Procs : q /= p /\ at[q].pc \in Sure => lockPath' = at[q].file
      BY <1>5, <3>1, SureIsNotSpent
    <3>. QED  BY <1>4, <2>1, <2>2, <3>2
  <2>. QED  BY <1>9, <2>3, <2>4
<1>. QED  BY <1>6, <1>7, <1>8, <1>9

\* The holder, its looks at its lease included.
LEMMA HolderShaken ==
    ASSUME StopsNowhereElse, AtMostTwo, TypeInv, Shaken, NEW p \in Procs,
           AssertOwnership(p) \/ ProtectedWrite(p) \/ RefreshLooks(p) \/ RefreshConfirms(p)
    PROVE  Shaken'
<1>1. UNCHANGED <<lockPath, file>> /\ at[p] \in Local
  BY MovesTyped DEF AssertOwnership, ProtectedWrite, RefreshLooks, RefreshConfirms, paths
<1>2. Knows(at[p], late[p], file) /\ late[p] \in Nat
  BY Measures DEF Shaken
<1>3. CASE AssertOwnership(p)
  <2>1. PICK pc \in {"checked", "release"} :
           /\ Goto(p, pc) /\ at[p].pc = "hold" /\ at[p].heartbeat \in {"rest", "lost"}
           /\ pc = "checked" => Owns(p)
    BY <1>3 DEF AssertOwnership, At
  <2>. DEFINE l == [at[p] EXCEPT !.pc = pc]
  <2>2. l \in Local /\ l.pc = pc /\ l.file = at[p].file /\ l.heartbeat = at[p].heartbeat
    BY GotoFields DEF Places
  <2>3. Becomes(p, l)
    BY <2>1 DEF Goto
  <2>. HIDE DEF l
  <2>4. l.file /= None /\ l.file \in Files /\ l.heartbeat /= "write"
    BY <1>2, <2>1, <2>2, KnownFiles DEF Knows, Having, Owning
  <2>5. file[l.file].left \in Int /\ late'[p] \in Nat
    BY <2>2, <2>3, <2>4, Measures, BecomesTyped
  <2>6. Knows(l, late'[p], file)
    BY <2>1, <2>2, <2>4, <2>5 DEF Knows, Owns
  <2>7. l.pc /= "write_barrier" /\ (l.pc \in Sure => lockPath = l.file) /\ at[p].pc \notin Taking
    BY <2>1, <2>2 DEF Sure, Taking, Owns
  <2>. QED  BY <1>1, <2>2, <2>3, <2>6, <2>7, ShakenQuietly
<1>4. CASE ProtectedWrite(p)
  <2>1. PICK pc \in {"hold", "release"} : Goto(p, pc) /\ at[p].pc = "checked"
    BY <1>4 DEF ProtectedWrite, At
  <2>. DEFINE l == [at[p] EXCEPT !.pc = pc]
  <2>2. l \in Local /\ l.pc = pc /\ l.file = at[p].file /\ l.heartbeat = at[p].heartbeat
    BY GotoFields DEF Places
  <2>3. Becomes(p, l)
    BY <2>1 DEF Goto
  <2>. HIDE DEF l
  <2>4. l.file /= None
    BY <1>2, <2>1, <2>2 DEF Knows, Having, Owning
  <2>5. Knows(l, late'[p], file)
    BY <2>2, <2>4, KnowsLittle
  <2>6. l.pc /= "write_barrier" /\ l.pc \notin Sure /\ at[p].pc \notin Taking
    BY <2>1, <2>2 DEF Sure, Taking
  <2>. QED  BY <1>1, <2>2, <2>3, <2>5, <2>6, ShakenQuietly
<1>5. CASE RefreshLooks(p) \/ RefreshConfirms(p)
  <2>1. PICK b \in Beats : /\ Heartbeat(p, b)
                           /\ at[p].pc \in {"hold", "checked", "release"}
    BY <1>2, <1>5 DEF RefreshLooks, RefreshConfirms, Beats, Knows
  <2>. DEFINE l == [at[p] EXCEPT !.heartbeat = b]
  <2>2. l \in Local /\ l.pc = at[p].pc /\ l.file = at[p].file /\ l.heartbeat = b
    BY <1>1 DEF Local
  <2>3. Becomes(p, l)
    BY <2>1 DEF Heartbeat
  <2>. HIDE DEF l
  <2>4. at[p].pc \notin Taking /\ at[p].pc /= "write_barrier"
    BY <2>1 DEF Taking
  <2>5. Knows(l, late'[p], file)
    <3>1. CASE at[p].pc = "checked"
      <4>1. ~Unhurried(l)
        BY <2>2, <3>1, Hurries DEF StopsNowhereElse, Relies
      <4>2. late'[p] = late[p]
        BY <2>2, <2>3, <4>1, BecomesTyped
      <4>. QED  BY <1>2, <2>2, <3>1, <4>2 DEF Knows
    <3>2. CASE at[p].pc \in {"hold", "release"}
      <4>1. l.file /= None
        BY <1>2, <2>2, <3>2 DEF Knows, Having, Owning
      <4>. QED  BY <2>2, <3>2, <4>1, KnowsLittle
    <3>. QED  BY <2>1, <3>1, <3>2
  <2>. QED  BY <1>1, <2>2, <2>3, <2>4, <2>5, ShakenQuietly
<1>. QED  BY <1>3, <1>4, <1>5

\* A process that releases its lock marks no file but its own.
LEMMA ReleaseLockShaken ==
    ASSUME AtMostTwo, TypeInv, Shaken, NEW p \in Procs, ReleaseLock(p)
    PROVE  Shaken'
<1>1. /\ at[p].pc \in {"release", "give_up"} /\ UNCHANGED lockPath
      /\ file' = IF lockPath = at[p].file THEN [file EXCEPT ![lockPath].released = TRUE] ELSE file
  BY DEF ReleaseLock, paths
<1>2. PICK l \in {Idle, Again} : Becomes(p, l)
  BY DEF ReleaseLock
<1>3. l \in Local /\ l.file = None /\ l.heartbeat = "off" /\ l.pc \in {"idle", "barrier"}
  BY StartStates, RoundEnds
<1>4. Knows(l, late'[p], file')
  BY <1>3, KnowsLittle DEF Having, Owning
<1>5. l.pc \notin Sure /\ l.pc /= "write_barrier" /\ at[p].pc \notin Taking
  BY <1>1, <1>3 DEF Sure, Taking
<1>6. file \in [Files -> Content]
  BY DEF TypeInv, TypeOK
<1>7. ASSUME NEW q \in Procs, q /= p, at[q].file /= None
      PROVE  file'[at[q].file] = file[at[q].file]
  <2>1. at[q].file /= at[p].file /\ at[q].file \in Files
    BY <1>7, KnownFiles DEF Shaken
  <2>. QED  BY <1>1, <1>6, <2>1
<1>8. \A q \in Procs : q /= p /\ at[q].pc \in Sure => lockPath' = at[q].file
  BY <1>1, <1>5, KeptByTheOther
<1>. QED  BY <1>2, <1>3, <1>4, <1>5, <1>7, <1>8, ShakenStep

\* Time passes: what a lease loses, the process that counts on it has been late.
LEMMA TickShaken ==
    ASSUME StopsNowhereElse, TypeInv, Shaken, Tick
    PROVE  Shaken'
<1>1. UNCHANGED <<lockPath, at>>
  BY DEF Tick, paths
<1>2. ASSUME NEW f \in Files, f \in InUse
      PROVE  /\ file'[f].written = file[f].written /\ file'[f].released = file[f].released
             /\ file'[f].left \in Int /\ file'[f].left >= file[f].left - 1
  <2>1. file[f] \in Content
    BY DEF TypeInv, TypeOK
  <2>2. file'[f] = [file[f] EXCEPT !.left = IF @ > -GraceMs THEN @ - 1 ELSE @]
    BY <1>2 DEF Tick
  <2>3. /\ file'[f].written = file[f].written /\ file'[f].released = file[f].released
        /\ file'[f].left = IF file[f].left > -GraceMs THEN file[f].left - 1 ELSE file[f].left
    BY <2>1, <2>2 DEF Content
  <2>. QED  BY <2>3, Measures
<1>3. ASSUME NEW p \in Procs PROVE Knows(at'[p], late'[p], file')
  <2>1. Knows(at[p], late[p], file) /\ at'[p] = at[p]
    BY <1>1 DEF Shaken
  <2>2. CASE at[p].pc \in {"barrier_again", "own", "cleanup", "unlink", "checked"}
    <3>1. ~Unhurried(at[p])
      BY <2>2 DEF StopsNowhereElse, StopsWhereItMay, MustGoOn, Unhurried
    <3>2. late'[p] = late[p] + 1
      BY <3>1 DEF Tick
    <3>3. at[p].file \in Files /\ at[p].file \in InUse
      BY <2>1, <2>2, KnownFiles DEF Knows, Having, Owning
    <3>4. PICK f \in Files : f = at[p].file
      BY <3>3
    <3>5. /\ file'[f].written = file[f].written /\ file'[f].released = file[f].released
          /\ file'[f].left \in Int /\ file[f].left \in Int /\ file'[f].left >= file[f].left - 1
      BY <1>2, <3>3, <3>4, Measures
    <3>6. late[p] \in Nat /\ GraceMs \in Nat /\ LeaseMs \in Nat
      BY Measures
    <3>7. Knows(at[p], late'[p], file')
      BY <2>1, <3>2, <3>4, <3>5, <3>6 DEF Knows
    <3>. QED  BY <2>1, <3>7
  <2>3. CASE at[p].pc \notin {"barrier_again", "own", "cleanup", "unlink", "checked"}
    BY <2>1, <2>3, KnowsLittle DEF Knows
  <2>. QED  BY <2>2, <2>3
<1>4. \A p \in Procs : Kept(p) => Kept(p)'
  BY <1>1 DEF Kept
<1>. QED  BY <1>1, <1>3, <1>4 DEF Shaken

\* The first fault, wherever it strikes.
LEMMA FirstFaultShaken ==
    ASSUME StopsNowhereElse, AtMostTwo, TypeInv, Calm, Shaken, NEW p \in Procs,
           WriteFails(p) \/ BarrierWriteFails(p) \/ Crash(p) \/ Delay(p)
    PROVE  Shaken'
<1>1. UNCHANGED <<lockPath, file>> /\ at[p] \in Local
  BY MovesTyped DEF WriteFails, BarrierWriteFails, Crash, Delay, paths
<1>2. Fits(at[p], late[p], lockPath, barrierPath, file) /\ Knows(at[p], late[p], file)
  BY DEF Calm, Shaken
<1>3. CASE WriteFails(p)
  <2>1. at[p].pc = "write" /\ at[p].pc \notin Taking
    BY <1>3 DEF WriteFails, At, Taking
  <2>. DEFINE l == [at[p] EXCEPT !.pc = "cleanup"]
  <2>2. l \in Local /\ l.pc = "cleanup" /\ l.file = at[p].file /\ l.heartbeat = at[p].heartbeat
    BY GotoFields DEF Places
  <2>3. Becomes(p, l)
    BY <1>3 DEF WriteFails, Goto
  <2>. HIDE DEF l
  <2>4. ~Unhurried(l)
    BY <2>2 DEF StopsNowhereElse, Unhurried
  <2>5. late'[p] = late[p]
    BY <2>2, <2>3, <2>4, BecomesTyped
  <2>6. /\ at[p].file /= None /\ at[p].file \in Files /\ at[p].heartbeat = "off"
        /\ ~file[at[p].file].released /\ file[at[p].file].left + late[p] >= LeaseMs
    BY <1>2, <2>1, KnownFiles DEF Fits, Knows, Owning, Acquiring
  <2>7. file[at[p].file].left \in Int /\ late[p] \in Nat /\ GraceMs \in Nat /\ LeaseMs \in Nat
    BY <2>6, Measures
  <2>8. Knows(l, late'[p], file)
    BY <2>2, <2>5, <2>6, <2>7 DEF Knows
  <2>9. l.pc \notin Sure /\ l.pc /= "write_barrier"
    BY <2>2 DEF Sure
  <2>. QED  BY <1>1, <2>1, <2>2, <2>3, <2>8, <2>9, ShakenQuietly
<1>4. CASE BarrierWriteFails(p)
  BY <1>1, <1>4, ShakenRoundEnd DEF BarrierWriteFails, At, Taking
<1>5. CASE Crash(p)
  <2>1. Becomes(p, Idle)
    BY <1>5 DEF Crash
  <2>2. Idle \in Local /\ Idle.file = None /\ Idle.heartbeat = "off" /\ Idle.pc = "idle"
    BY StartStates, RoundEnds
  <2>3. Knows(Idle, late'[p], file')
    BY <2>2, KnowsLittle DEF Having, Owning
  <2>4. ASSUME NEW q \in Procs, at[q].pc \in Sure PROVE lockPath' = at[q].file
    <3>1. at[q].pc = "checked"
      BY <2>4 DEF Sure, Calm, Fits, Troubled
    <3>. QED  BY <1>1, <3>1, ReliedOnIsNotSpent DEF Relies
  <2>5. Idle.pc \notin Sure /\ Idle.pc /= "write_barrier"
    BY <2>2 DEF Sure
  <2>6. \A q \in Procs : at[q].file /= None => file'[at[q].file] = file[at[q].file]
    BY <1>1
  <2>. QED  BY <2>1, <2>2, <2>3, <2>4, <2>5, <2>6, ShakenStep
<1>6. CASE Delay(p)
  <2>1. /\ at[p].pc /= "checked" /\ late[p] = GraceMs /\ at' = at
        /\ late' = [late EXCEPT ![p] = 0] /\ UNCHANGED <<lockPath, file>>
    BY <1>6 DEF Delay, At, paths
  <2>2. late'[p] = 0 /\ \A q \in Procs : q /= p => late'[q] = late[q]
    BY <2>1 DEF TypeInv, TypeOK
  <2>3. at[p].pc \notin {"cleanup", "unlink"}
    BY <1>2 DEF Fits, Troubled
  <2>4. Knows(at[p], 0, file)
    <3>1. CASE at[p].pc \in {"barrier_again", "own"}
      <4>1. /\ file[at[p].file].left + GraceMs >= LeaseMs /\ at[p].file \in Files
        BY <1>2, <2>1, <3>1, KnownFiles DEF Fits, Knows, Acquiring, Having, Owning
      <4>2. file[at[p].file].left \in Int /\ GraceMs \in Nat /\ LeaseMs \in Nat
        BY <4>1, Measures
      <4>. QED  BY <1>2, <3>1, <4>1, <4>2 DEF Knows
    <3>2. CASE at[p].pc \notin {"barrier_again", "own"}
      BY <1>2, <2>1, <2>3, <3>2, KnowsLittle DEF Knows
    <3>. QED  BY <3>1, <3>2
  <2>5. \A q \in Procs : Knows(at'[q], late'[q], file')
    BY <2>1, <2>2, <2>4 DEF Shaken
  <2>6. \A q \in Procs : Kept(q) => Kept(q)'
    BY <2>1 DEF Kept
  <2>. QED  BY <2>1, <2>5, <2>6 DEF Shaken
<1>. QED  BY <1>3, <1>4, <1>5, <1>6

\* Nobody has begun.
LEMMA ShakenAtFirst == Init => Shaken
<1>1. SUFFICES ASSUME Init PROVE Shaken
  OBVIOUS
<1>2. \A p \in Procs : at[p] = Idle
  BY <1>1 DEF Init
<1>3. Idle.pc \notin Having \cup Sure \cup {"barrier", "write_barrier"}
  BY RoundEnds DEF Having, Owning, Sure
<1>4. \A p \in Procs : Knows(at[p], late[p], file)
  BY <1>2, <1>3, RoundEnds, KnowsLittle
<1>. QED  BY <1>2, <1>3, <1>4, RoundEnds DEF Shaken

\* Two processes keep what saves them through the first fault and everything after it.
LEMMA ShakenKept ==
    ASSUME StopsNowhereElse, AtMostTwo, TypeInv, CalmUntilFault, ShakenByOneFault, [Next]_vars
    PROVE  ShakenByOneFault'
<1>1. SUFFICES ASSUME faults' <= 1 PROVE Shaken'
  BY DEF ShakenByOneFault
<1>2. faults \in Nat
  BY LockAssumption DEF TypeInv, TypeOK
<1>3. CASE UNCHANGED vars
  BY <1>1, <1>3 DEF vars, ShakenByOneFault, Shaken, Kept
<1>4. CASE Tick
  <2>1. Shaken
    BY <1>1, <1>4 DEF Tick, ShakenByOneFault
  <2>. QED  BY <1>4, <2>1, TickShaken
<1>5. ASSUME NEW p \in Procs, Start(p) \/ Acquires(p) \/ Reclaims(p) \/ Holds(p) \/ Refreshes(p)
      PROVE  Shaken'
  <2>1. faults' = faults
    BY <1>5 DEF Start, Acquires, Reclaims, Holds, Refreshes, InspectBarrier, VerifyRetire,
       RenameBarrier, CheckRetired, RestoreBarrier, OpenLock, WriteLockState, ConfirmOwned,
       CleanupCheck, CleanupUnlink, InspectLock, OpenBarrier, WriteBarrier, VerifyReclaim,
       RenameLock, CheckMoved, RestoreLock, ReleaseBarrier, RemoveBarrier, AssertOwnership,
       ProtectedWrite, ReleaseLock, RefreshLooks, RefreshWrites, RefreshConfirms
  <2>2. Shaken
    BY <1>1, <2>1 DEF ShakenByOneFault
  <2>3. CASE Start(p)
    BY <2>2, <2>3, ShakenRoundEnd DEF Start, At, paths, Taking
  <2>4. CASE Acquires(p)
    BY <2>2, <2>4, BarrierShaken, OpenLockShaken, LeaseWrittenShaken, SureOfLockShaken,
       CleanupUnlinkShaken DEF Acquires
  <2>5. CASE Reclaims(p)
    BY <2>2, <2>5, ReclaimerLooksShaken, BarrierWrittenShaken, LockMovedShaken DEF Reclaims
  <2>6. CASE Holds(p)
    BY <2>2, <2>6, HolderShaken, ReleaseLockShaken DEF Holds
  <2>7. CASE Refreshes(p)
    BY <2>2, <2>7, HolderShaken, LeaseWrittenShaken DEF Refreshes
  <2>. QED  BY <1>5, <2>3, <2>4, <2>5, <2>6, <2>7
<1>6. ASSUME NEW p \in Procs, WriteFails(p) \/ BarrierWriteFails(p) \/ Crash(p) \/ Delay(p)
      PROVE  Shaken'
  <2>1. faults' = faults + 1
    BY <1>6 DEF WriteFails, BarrierWriteFails, Crash, Delay, Fault
  <2>2. faults = 0
    BY <1>1, <1>2, <2>1
  <2>3. Calm /\ Shaken
    BY <2>2 DEF CalmUntilFault, ShakenByOneFault
  <2>. QED  BY <1>6, <2>3, FirstFaultShaken
<1>. QED  BY <1>3, <1>4, <1>5, <1>6 DEF Next

\* Of two processes that write, each would have to keep the path from the other.
LEMMA ShakenExcludes ==
    ASSUME AtMostTwo, TypeInv, Shaken
    PROVE  ExclusiveWrites
<1>1. SUFFICES ASSUME NEW p \in Procs, NEW q \in Procs, At(p, "checked"), At(q, "checked"), p /= q
               PROVE  FALSE
  BY DEF ExclusiveWrites
<1>2. at[p].pc \in Sure /\ at[q].pc \in Sure /\ at[p].pc \notin Taking /\ at[q].pc \notin Taking
  BY <1>1 DEF At, Sure, Taking
<1>3. lockPath = at[p].file /\ lockPath = at[q].file
  BY <1>1, <1>2, KeptByTheOther
<1>4. at[p].file /= None
  BY <1>2, SureIsNotSpent
<1>. QED  BY <1>1, <1>3, <1>4 DEF Shaken

\* Two processes never write what the lock protects at the same time, though one of
\* them dies, is delayed or fails to write once, wherever that happens but between its
\* last check and its write, and whatever the leases are (withRegistryLock, reclaimLock,
\* restoreLiveLock, cleanupFailedRegistryLockAcquisition).
THEOREM ExclusiveForTwo ==
    StopsNowhereElse /\ AtMostTwo => (Spec => [](faults <= 1 => ExclusiveWrites))
<1>1. SUFFICES ASSUME StopsNowhereElse, AtMostTwo
               PROVE  Spec => [](faults <= 1 => ExclusiveWrites)
  OBVIOUS
<1>. DEFINE IInv == TypeInv /\ CalmUntilFault /\ ShakenByOneFault
<1>2. Init => IInv
  BY TypesAtFirst, CalmAtFirst, ShakenAtFirst DEF CalmUntilFault, ShakenByOneFault
<1>3. IInv /\ [Next]_vars => IInv'
  BY <1>1, TypesKept, CalmKept, ShakenKept DEF StopsNowhereElse
<1>4. IInv => (faults <= 1 => ExclusiveWrites)
  BY <1>1, ShakenExcludes DEF ShakenByOneFault
<1>. QED  BY <1>2, <1>3, <1>4, PTL DEF Spec

\* Where at most one fault is to be reckoned with, two processes exclude each other
\* for good: what the lock's run finds for one choice of the leases (withRegistryLock).
THEOREM ExclusiveWithOneFault ==
    StopsNowhereElse /\ AtMostTwo /\ MaxFaults <= 1 => (Spec => []ExclusiveWrites)
<1>1. SUFFICES ASSUME StopsNowhereElse, AtMostTwo, MaxFaults <= 1 PROVE Spec => []ExclusiveWrites
  OBVIOUS
<1>2. TypeOK => faults <= 1
  BY <1>1, LockAssumption DEF TypeOK
<1>3. Spec => [](faults <= 1 => ExclusiveWrites)
  BY <1>1, ExclusiveForTwo
<1>. QED  BY <1>2, <1>3, TypeCorrect, PTL

==============================================================================
