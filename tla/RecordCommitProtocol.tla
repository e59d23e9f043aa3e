------------------------ MODULE RecordCommitProtocol ------------------------
(***************************************************************************)
(* The staged publication of one Record (record-commit-protocol.ts on top  *)
(* of record-commit-storage-adapter.ts): a commit ledger walks through its *)
(* stages, each announced by a persisted intent and confirmed after the     *)
(* write was read back, and a cancelled commit puts back what it replaced.  *)
(*                                                                         *)
(* Two callers work on the same ledger at the same time.  The pump opens a  *)
(* storage adapter and advances the commit; the control cancels the task.   *)
(* Both act under the scheduler owner's lease, so nothing but the ledger's  *)
(* compare-and-swap and the registry's authority keeps them apart.  A step  *)
(* here ends where the code awaits something the other caller can change.   *)
(*                                                                         *)
(* One commit is followed, of task Me.  Other tasks appear as attachments   *)
(* to its Record work, and as the winner that published before it.  Audit   *)
(* entries, and the bytes behind a body reference, are left out.            *)
(***************************************************************************)
EXTENDS Naturals, Sequences

CONSTANTS
    Me,            \* the task of the commit
    Others,        \* other tasks that may share the Record work
    InitialClaims, \* who may hold the publication claim at the start
    MayCancel,     \* TRUE when the user may cancel the task
    MayLoseFence,  \* TRUE when the work's lease may pass to somebody else
    MaxJoins,      \* bound on attachments by other tasks
    MaxCrashes     \* bound on crashes

ASSUME CommitAssumption ==
    /\ Me \notin Others
    /\ InitialClaims \subseteq {"none", "same", "other"}
    /\ MayCancel \in BOOLEAN /\ MayLoseFence \in BOOLEAN
    /\ MaxJoins \in Nat /\ MaxCrashes \in Nat

VARIABLES
    ledger,    \* the protocol ledger of the commit
    artifact,  \* who wrote each visible artifact
    attached,  \* activeTaskIds of the Record work
    current,   \* the work's lease, epoch and token are the ones of the binding
    claim,     \* the work's publication claim
    seen,      \* who knows the newest registryRevision
    cancelled, \* the scheduler task is in a cancellation state
    at,        \* where each caller is, and its local variables
    joins,
    crashes

vars == <<ledger, artifact, attached, current, claim, seen, cancelled, at, joins, crashes>>
registryVars == <<attached, current, claim, seen>>

Callers == {"pump", "control"}

-----------------------------------------------------------------------------
(* The ledger. *)

Stages == <<"ResultReady", "BodyStaged", "PublishIntent", "BodyPublished",
            "MainIndexWritten", "ReaderIndexWritten", "Verified">>
Stage == {Stages[i] : i \in DOMAIN Stages}

\* NEXT_STAGE
NextStage(s) == Stages[1 + CHOOSE i \in DOMAIN Stages : Stages[i] = s]

Artifacts == {"body", "main", "reader"}
Writer == {"before", "mine", "other"}

\* The artifact a stage writes.
ArtifactOf == [BodyPublished |-> "body", MainIndexWritten |-> "main",
               ReaderIndexWritten |-> "reader"]
WritesArtifact(s) == s \in DOMAIN ArtifactOf

NoImages == [a \in Artifacts |-> "none"]
HasImages(l) == l.images /= NoImages

\* intent is the stage aimed at, or "cleanup"; captured are the before-images
\* that a PublishIntent intent carries until it is confirmed.
Ledger == [stage : Stage,
           lifecycle : {"Absent", "Active", "Cancelling", "Cancelled", "Detached"},
           repair : BOOLEAN,
           intent : Stage \cup {"none", "cleanup"},
           captured : [Artifacts -> Writer \cup {"none"}],
           images : [Artifacts -> Writer \cup {"none"}]]

InitialLedger(lifecycle) ==
    [stage |-> "ResultReady", lifecycle |-> lifecycle, repair |-> FALSE,
     intent |-> "none", captured |-> NoImages, images |-> NoImages]

Settled(l) == l.lifecycle \in {"Cancelled", "Detached"}

\* validateRecordCommitLedger, the check that relates lifecycle and repairState.
Readable == ~(Settled(ledger) /\ ledger.repair)

-----------------------------------------------------------------------------
(* Authority: what the registry grants the commit's binding. *)

\* The scheduler ledger holds the newest registryRevision.
Synced == "scheduler" \in seen

\* Mutant: a detached task keeps its authority.
AuthorizedDetached == current /\ Synced

\* authorizeRecordWorkCommit
Authorized == current /\ Synced /\ Me \in attached

\* validateRegistry for a cleanup, which the detached task may do.
CleanupAuthorized == current /\ Synced

\* Cleanup of an artifact: a detached task may, if nobody else is attached.
ExclusiveAuthorized == current /\ Synced /\ (Me \in attached \/ attached = {})

\* A change of the registry by p leaves p alone with the newest revision.
RegistryChangedBy(p) == seen' = {p}
RegistryChangedByOther == seen' = {}

\* The compare-and-swap of the ledger asks for authority, unless the new ledger
\* is a safety transition.
MayStore(l) == l.lifecycle /= "Active" \/ l.repair \/ Authorized

-----------------------------------------------------------------------------
(* Callers. *)

Idle == [pc |-> "idle", target |-> "ResultReady", img |-> NoImages,
         reuse |-> FALSE, effect |-> "none", ok |-> TRUE]

At(p, pc) == at[p].pc = pc
Goto(p, pc) == at' = [at EXCEPT ![p].pc = pc]
Return(p) == at' = [at EXCEPT ![p] = Idle]

Target(p) == at[p].target

\* What p reads of an artifact.  An adapter that reuses a winner's publication
\* shows it as its own, and fails when the artifact is not the winner's.
View(p, a) ==
    IF ~at[p].reuse THEN artifact[a]
    ELSE IF artifact[a] = "other" THEN "mine" ELSE "mismatch"

Init ==
    /\ ledger = InitialLedger("Absent")
    /\ claim \in InitialClaims
    /\ artifact = [a \in Artifacts |-> IF claim = "none" THEN "before" ELSE "other"]
    /\ attached = {}
    /\ current = TRUE
    /\ seen = {}
    /\ cancelled = FALSE
    /\ at = [p \in Callers |-> Idle]
    /\ joins = 0
    /\ crashes = 0

\* The steps of one caller leave these alone unless they say otherwise.
Elsewhere == <<cancelled, joins, crashes>>

\* Every step reads the ledger; one that is not readable ends the call.
Step(p, pc) == At(p, pc) /\ Readable

ReadFails(p) ==
    /\ at[p].pc /= "idle"
    /\ ~Readable
    /\ Return(p)
    /\ UNCHANGED <<ledger, artifact, registryVars, Elsewhere>>

-----------------------------------------------------------------------------
(* The pump opens an adapter: commitRecordSchedulerFinalizedRecord, initialize. *)

PumpStarts(p) ==
    /\ p = "pump"
    /\ At(p, "idle")
    /\ ~cancelled
    /\ Goto(p, "attach")
    /\ UNCHANGED <<ledger, artifact, registryVars, Elsewhere>>

\* startOrAttachRecordWork and acquireRecordWorkLease, which renews the lease.
Attach(p) ==
    /\ Step(p, "attach")
    /\ attached' = attached \cup {Me}
    /\ RegistryChangedBy(p)
    /\ Goto(p, "sync")
    /\ UNCHANGED <<ledger, artifact, current, claim, Elsewhere>>

\* syncRegistryWorkIntoScheduler fails when the registry has moved on.
SyncThen(p, from, to) ==
    /\ Step(p, from)
    /\ IF p \in seen
       THEN seen' = seen \cup {"scheduler"} /\ Goto(p, to)
       ELSE UNCHANGED seen /\ Return(p)
    /\ UNCHANGED <<ledger, artifact, attached, current, claim, Elsewhere>>

\* The cancellation is looked at again, and the ledger created or found.  It is
\* created only with authority, and taken up only under its own binding.
Create(p) ==
    /\ Step(p, "create")
    /\ IF cancelled \/ ~current \/ (ledger.lifecycle = "Absent" /\ ~Authorized)
       THEN Return(p) /\ UNCHANGED ledger
       ELSE /\ Goto(p, "advance")
            /\ IF ledger.lifecycle = "Absent"
               THEN ledger' = InitialLedger("Active")
               ELSE UNCHANGED ledger
    /\ UNCHANGED <<artifact, registryVars, Elsewhere>>

-----------------------------------------------------------------------------
(* advanceOnce *)

\* What advanceOnce does with the ledger it reads.
Advance(p) ==
    /\ Step(p, "advance")
    /\ \/ /\ \/ Settled(ledger)
             \/ ledger.repair /\ ledger.lifecycle /= "Cancelling"
             \/ ledger.stage = "Verified" /\ ledger.lifecycle = "Active"
          /\ Return(p)
       \/ /\ ledger.lifecycle = "Cancelling"
          /\ Goto(p, "cleanup")
       \/ /\ ledger.lifecycle = "Active"
          /\ ~ledger.repair
          /\ ledger.stage /= "Verified"
          /\ at' = [at EXCEPT ![p].pc = "guard",
                              ![p].target = NextStage(ledger.stage)]
    /\ UNCHANGED <<ledger, artifact, registryVars, Elsewhere>>

\* guard and stopForGuard: a stale binding stops the call, a cancelled task
\* turns it into a cancellation.
GuardThen(p, from, to) ==
    /\ Step(p, from)
    /\ IF ~Authorized THEN Return(p)
       ELSE IF cancelled THEN Goto(p, "cancel")
       ELSE Goto(p, to)
    /\ UNCHANGED <<ledger, artifact, registryVars, Elsewhere>>

\* The guards around each stage.  PublishIntent writes nothing.  The payload's body, which
\* verifyPayloadBodyReference looks at beside them, is always intact here.
Guard(p) ==
    \/ GuardThen(p, "guard", IF Target(p) = "PublishIntent" THEN "capture" ELSE "intent")
    \/ GuardThen(p, "guard_captured", "intent")
    \/ GuardThen(p, "guard_intent", IF Target(p) = "PublishIntent" THEN "guard_written"
                                    ELSE IF WritesArtifact(Target(p)) THEN "claim" ELSE "write")
    \/ GuardThen(p, "guard_written", "confirm")

\* captureBeforeImages, unless the intent already has them.
Capture(p) ==
    /\ Step(p, "capture")
    /\ IF ledger.intent /= "PublishIntent" /\ ~Authorized
       THEN Goto(p, "repair")
       ELSE at' = [at EXCEPT ![p].pc = "guard_captured",
                             ![p].img = IF ledger.intent = "PublishIntent"
                                        THEN ledger.captured ELSE artifact]
    /\ UNCHANGED <<ledger, artifact, registryVars, Elsewhere>>

Confirmed(s) == ledger.stage = s /\ ledger.intent = "none"

\* ensureIntent
EnsureIntent(p) ==
    LET s == Target(p)
        next == [ledger EXCEPT !.intent = s,
                               !.captured = IF s = "PublishIntent" THEN at[p].img ELSE NoImages]
        fresh == ledger.stage /= "Verified" /\ NextStage(ledger.stage) = s /\ ledger.intent = "none"
    IN
    /\ Step(p, "intent")
    /\ IF Confirmed(s) \/ ledger.intent = s
       THEN Goto(p, "guard_intent") /\ UNCHANGED ledger
       ELSE IF fresh /\ MayStore(next)
       THEN Goto(p, "guard_intent") /\ ledger' = next
       ELSE Return(p) /\ UNCHANGED ledger
    /\ UNCHANGED <<artifact, registryVars, Elsewhere>>

\* preparePublicationClaim
ClaimPublication(p) ==
    /\ Step(p, "claim")
    /\ \/ /\ ~Authorized \/ claim = "other"
          /\ Goto(p, "repair")
          /\ UNCHANGED <<claim, seen>>
       \/ /\ Authorized /\ claim = "none"
          /\ claim' = "mine"
          /\ RegistryChangedBy(p)
          /\ Goto(p, "claim_sync")
       \/ /\ Authorized /\ claim = "mine"
          /\ Goto(p, "write")
          /\ UNCHANGED <<claim, seen>>
       \/ /\ Authorized /\ claim = "same"
          /\ at' = [at EXCEPT ![p].pc = "verify", ![p].reuse = TRUE]
          /\ UNCHANGED <<claim, seen>>
    /\ UNCHANGED <<ledger, artifact, attached, current, Elsewhere>>

\* Mutant: a write that was made before a restart counts as somebody else's.
ReplaceableOnce(a) == artifact[a] = ledger.images[a]

\* A write goes over the before-image, or finds itself already made.
Replaceable(a) == artifact[a] \in {ledger.images[a], "mine"}

\* performWrite
PerformWrite(p) ==
    LET s == Target(p)
        a == ArtifactOf[s]
        granted == Authorized /\ (WritesArtifact(s) => claim = "mine" /\ Replaceable(a))
    IN
    /\ Step(p, "write")
    /\ IF s /= "Verified" /\ ~granted
       THEN Goto(p, "repair") /\ UNCHANGED artifact
       ELSE /\ Goto(p, "verify")
            /\ artifact' = IF WritesArtifact(s) THEN [artifact EXCEPT ![a] = "mine"] ELSE artifact
    /\ UNCHANGED <<ledger, registryVars, Elsewhere>>

\* The artifacts that verifyStageWrite reads back at a stage.
ReadBack(s) ==
    IF s = "Verified" THEN Artifacts
    ELSE IF WritesArtifact(s) THEN {ArtifactOf[s]} ELSE {}

\* verifyStageWrite.  The staged body of a cancelled ledger reads as gone.
VerifyStageWrite(p) ==
    LET s == Target(p)
        good == /\ \A a \in ReadBack(s) : View(p, a) = "mine"
                /\ s = "BodyStaged" => ledger.lifecycle = "Active"
    IN
    /\ Step(p, "verify")
    /\ Goto(p, IF good THEN "guard_written" ELSE "repair")
    /\ UNCHANGED <<ledger, artifact, registryVars, Elsewhere>>

\* confirmStage
ConfirmStage(p) ==
    LET s == Target(p)
        next == [ledger EXCEPT !.stage = s, !.intent = "none", !.captured = NoImages,
                               !.images = IF s = "PublishIntent" THEN ledger.captured ELSE @]
        matches == ledger.stage /= "Verified" /\ NextStage(ledger.stage) = s /\ ledger.intent = s
        more == IF s = "Verified" THEN Return(p) ELSE at' = [at EXCEPT ![p].pc = "advance",
                                                                       ![p].img = NoImages]
    IN
    /\ Step(p, "confirm")
    /\ IF Confirmed(s) \/ (matches /\ MayStore(next))
       THEN more /\ ledger' = IF Confirmed(s) THEN ledger ELSE next
       ELSE Return(p) /\ UNCHANGED ledger
    /\ UNCHANGED <<artifact, registryVars, Elsewhere>>

\* markRepair, with the lifecycle as it is.
MarkRepair(p) ==
    /\ Step(p, "repair")
    /\ ledger' = [ledger EXCEPT !.repair = TRUE]
    /\ Return(p)
    /\ UNCHANGED <<artifact, registryVars, Elsewhere>>

-----------------------------------------------------------------------------
(* cancel *)

\* The ledger is read, and the cleanup guard asked.
Cancel(p) ==
    /\ Step(p, "cancel")
    /\ IF Settled(ledger) THEN Return(p) ELSE Goto(p, "cancel_guard")
    /\ UNCHANGED <<ledger, artifact, registryVars, Elsewhere>>

CancelGuard(p) ==
    /\ Step(p, "cancel_guard")
    /\ IF ~CleanupAuthorized THEN Return(p)
       ELSE Goto(p, IF Me \in attached THEN "detach" ELSE "shared")
    /\ UNCHANGED <<ledger, artifact, registryVars, Elsewhere>>

\* detachTask: a compare-and-swap on the revision the scheduler ledger holds.
DetachTask(p) ==
    /\ Step(p, "detach")
    /\ \/ ~Synced /\ Return(p) /\ UNCHANGED <<attached, seen>>
       \/ Synced /\ Me \notin attached /\ Goto(p, "detached_guard") /\ UNCHANGED <<attached, seen>>
       \/ /\ Synced /\ Me \in attached
          /\ attached' = attached \ {Me}
          /\ RegistryChangedBy(p)
          /\ Goto(p, "detach_sync")
    /\ UNCHANGED <<ledger, artifact, current, claim, Elsewhere>>

DetachedGuard(p) ==
    /\ Step(p, "detached_guard")
    /\ IF CleanupAuthorized THEN Goto(p, "shared") ELSE Return(p)
    /\ UNCHANGED <<ledger, artifact, registryVars, Elsewhere>>

\* With other tasks attached the commit is left to them.
ReadSharedWork(p) ==
    /\ Step(p, "shared")
    /\ Goto(p, IF Me \in attached THEN "repair"
               ELSE IF attached /= {} THEN "mark_detached" ELSE "cleanup")
    /\ UNCHANGED <<ledger, artifact, registryVars, Elsewhere>>

MarkDetached(p) ==
    /\ Step(p, "mark_detached")
    /\ ledger' = IF ledger.lifecycle = "Detached" THEN ledger
                 ELSE [ledger EXCEPT !.lifecycle = "Detached", !.repair = FALSE,
                                     !.intent = "none", !.captured = NoImages]
    /\ Return(p)
    /\ UNCHANGED <<artifact, registryVars, Elsewhere>>

-----------------------------------------------------------------------------
(* cleanup *)

\* Mutant: cleanup starts without saying so in the ledger.
CleanupIntentUnsaved(l) == l

\* Mutant: the cleanup intent is made from the intent it replaces.
CleanupIntentKeepingImages(l) == [l EXCEPT !.lifecycle = "Cancelling", !.intent = "cleanup"]

\* The intent replaces whichever one there was; the lifecycle says Cancelling.
CleanupIntent(l) ==
    IF l.intent = "cleanup" THEN l
    ELSE [l EXCEPT !.lifecycle = "Cancelling", !.intent = "cleanup", !.captured = NoImages]

StartEffect(p, effect) ==
    at' = [at EXCEPT ![p].pc = "checkpoint", ![p].effect = effect, ![p].ok = TRUE]

\* ensureCleanupIntent
EnsureCleanupIntent(p) ==
    /\ Step(p, "cleanup")
    /\ IF Settled(ledger)
       THEN Return(p) /\ UNCHANGED ledger
       ELSE ledger' = CleanupIntent(ledger) /\ StartEffect(p, "staged")
    /\ UNCHANGED <<artifact, registryVars, Elsewhere>>

\* cleanupCheckpoint: stop when the fence is lost, or somebody has attached.
Checkpoint(p, from, then) ==
    /\ Step(p, from)
    /\ IF ~CleanupAuthorized THEN Return(p)
       ELSE IF attached /= {} THEN Goto(p, "mark_detached")
       ELSE then
    /\ UNCHANGED <<ledger, artifact, registryVars, Elsewhere>>

CheckpointBefore(p) == Checkpoint(p, "checkpoint", Goto(p, "effect"))

\* Mutant: ownership is not looked at again when the artifact is replaced.
OwnedRegardless(a) == TRUE

\* The artifact is the commit's own, to be replaced by its before-image.
Owned(a) == artifact[a] = "mine"

Restored(a) == artifact[a] = ledger.images[a]

\* verifyBefore of each effect
Precondition(p) ==
    LET ViewRestored(a) == View(p, a) = ledger.images[a]
        ViewMine(a) == View(p, a) = "mine"
    IN CASE at[p].effect = "staged" -> TRUE
         [] at[p].effect = "reader" ->
               /\ ViewRestored("body") /\ ViewRestored("main")
               /\ ViewRestored("reader") \/ ViewMine("reader")
         [] OTHER -> ViewRestored(at[p].effect) \/ ViewMine(at[p].effect)

\* restoreBodyIfOwned, restoreMainIndexIfOwned, rebuildReaderIndexFromBody: the
\* result, or FALSE for ownership_changed.
EffectApplies(effect) ==
    CASE effect = "staged" -> TRUE
      [] effect = "reader" -> /\ Restored("body") /\ Restored("main")
                              /\ Restored("reader") \/ Owned("reader")
      [] OTHER -> Restored(effect) \/ Owned(effect)

\* The reader index is rebuilt from the restored body.
EffectOn(effect) ==
    IF effect = "staged" THEN artifact
    ELSE [artifact EXCEPT ![effect] =
             ledger.images[IF effect = "reader" THEN "body" ELSE effect]]

\* The effect proper, under the registry's lock.
CleanupEffect(p) ==
    LET effect == at[p].effect IN
    /\ Step(p, "effect")
    /\ \/ /\ ~Precondition(p) \/ ~ExclusiveAuthorized
          /\ Goto(p, "cleanup_repair")
          /\ UNCHANGED artifact
       \/ /\ Precondition(p) /\ ExclusiveAuthorized
          /\ at' = [at EXCEPT ![p].pc = "checkpoint_after", ![p].ok = EffectApplies(effect)]
          /\ artifact' = IF EffectApplies(effect) THEN EffectOn(effect) ELSE artifact
    /\ UNCHANGED <<ledger, registryVars, Elsewhere>>

\* verifyAfter of each effect
Postcondition(p) ==
    CASE at[p].effect = "staged" -> TRUE
      [] at[p].effect = "reader" ->
            /\ View(p, "body") = ledger.images["body"]
            /\ View(p, "main") = ledger.images["main"]
            /\ View(p, "reader") \notin {"mine", "mismatch"}
      [] OTHER -> View(p, at[p].effect) = ledger.images[at[p].effect]

\* Without before-images nothing was published, and nothing is restored.
NextEffect(p) ==
    CASE at[p].effect = "staged" -> IF HasImages(ledger) THEN "body" ELSE "none"
      [] at[p].effect = "body" -> "main"
      [] at[p].effect = "main" -> "reader"
      [] at[p].effect = "reader" -> "none"

CheckpointAfter(p) ==
    Checkpoint(p, "checkpoint_after",
        IF ~at[p].ok \/ ~Postcondition(p) THEN Goto(p, "cleanup_repair")
        ELSE IF NextEffect(p) = "none" THEN Goto(p, "checkpoint_final")
        ELSE StartEffect(p, NextEffect(p)))

\* verifyTaskExclusiveResultsInvisible, between two checkpoints.
Invisible(p) ==
    Checkpoint(p, "checkpoint_final",
        at' = [at EXCEPT ![p].pc = "checkpoint_invisible",
                         ![p].ok = \A a \in Artifacts : View(p, a) \notin {"mine", "mismatch"}])

CheckpointInvisible(p) ==
    Checkpoint(p, "checkpoint_invisible",
        Goto(p, IF at[p].ok THEN "finish" ELSE "cleanup_repair"))

FinishCleanup(p) ==
    /\ Step(p, "finish")
    /\ \/ /\ ledger.lifecycle = "Cancelled"
          /\ Return(p)
          /\ UNCHANGED ledger
       \/ /\ ledger.lifecycle = "Cancelling"
          /\ ledger' = [ledger EXCEPT !.lifecycle = "Cancelled", !.repair = FALSE,
                                      !.intent = "none", !.captured = NoImages]
          /\ Return(p)
       \/ /\ ledger.lifecycle \notin {"Cancelled", "Cancelling"}
          /\ Goto(p, "cleanup_repair")
          /\ UNCHANGED ledger
    /\ UNCHANGED <<artifact, registryVars, Elsewhere>>

\* markRepair with the lifecycle Cancelling, from whatever it was.
MarkCleanupRepair(p) ==
    /\ Step(p, "cleanup_repair")
    /\ ledger' = [ledger EXCEPT !.lifecycle = "Cancelling", !.repair = TRUE]
    /\ Return(p)
    /\ UNCHANGED <<artifact, registryVars, Elsewhere>>

-----------------------------------------------------------------------------
(* The control cancels the task: cancelSingleFlight. *)

\* requestCancellation
RequestCancellation ==
    /\ MayCancel
    /\ ~cancelled
    /\ cancelled' = TRUE
    /\ UNCHANGED <<ledger, artifact, registryVars, at, joins, crashes>>

\* cancelTaskExclusiveCommits cleans up the commits that may be visible.
MayBeVisible == HasImages(ledger) /\ (ledger.lifecycle = "Detached" => ledger.repair)

\* reopenRecordCommitStorageAdapterForCleanup refuses a stale scheduler ledger.
ControlCancels(p) ==
    /\ p = "control"
    /\ At(p, "idle")
    /\ cancelled
    /\ MayBeVisible
    /\ Synced
    /\ Goto(p, "cancel")
    /\ UNCHANGED <<ledger, artifact, registryVars, Elsewhere>>

\* detachTaskFromRecordWork, when no commit is left to clean up or the commit is
\* shared.  It does not store the registry's new revision.
ControlDetaches(p) ==
    /\ p = "control"
    /\ At(p, "idle")
    /\ cancelled
    /\ ~MayBeVisible \/ ledger.lifecycle = "Cancelled" \/ Others /= {}
    /\ Me \in attached
    /\ attached' = attached \ {Me}
    /\ RegistryChangedByOther
    /\ UNCHANGED <<ledger, artifact, current, claim, at, Elsewhere>>

-----------------------------------------------------------------------------
(* Everybody else. *)

OtherAttaches(t) ==
    /\ joins < MaxJoins
    /\ t \notin attached
    /\ attached' = attached \cup {t}
    /\ RegistryChangedByOther
    /\ joins' = joins + 1
    /\ UNCHANGED <<ledger, artifact, current, claim, cancelled, at, crashes>>

OtherDetaches(t) ==
    /\ t \in attached
    /\ attached' = attached \ {t}
    /\ RegistryChangedByOther
    /\ UNCHANGED <<ledger, artifact, current, claim, at, Elsewhere>>

\* The lease passes on, is fenced off by a manual edit, or the work superseded:
\* for good, as RecordWorkRegistry!FencedForever says.
LoseFence ==
    /\ MayLoseFence
    /\ current
    /\ current' = FALSE
    /\ RegistryChangedByOther
    /\ UNCHANGED <<ledger, artifact, attached, claim, at, Elsewhere>>

\* Another task of the work claims the publication first, for a result that is
\* content-equal to this commit's or not.
OtherClaims(kind) ==
    /\ current
    /\ attached \cap Others /= {}
    /\ claim = "none"
    /\ claim' = kind
    /\ RegistryChangedByOther
    /\ UNCHANGED <<ledger, artifact, attached, current, at, Elsewhere>>

\* The artifacts a commit has written by the time it writes artifact a.
Earlier == [body |-> {}, main |-> {"body"}, reader |-> {"body", "main"}]

\* Somebody else writes an artifact: in the order of the stages under the claim,
\* or after this commit has lost its fence.
OtherPublishes(a) ==
    /\ \/ ~current
       \/ /\ claim \in {"same", "other"}
          /\ \A b \in Earlier[a] : artifact[b] = "other"
    /\ artifact[a] /= "other"
    /\ artifact' = [artifact EXCEPT ![a] = "other"]
    /\ UNCHANGED <<ledger, registryVars, at, Elsewhere>>

\* A process dies, and with it what its adapter remembered.
Crash(p) ==
    /\ crashes < MaxCrashes
    /\ ~At(p, "idle")
    /\ crashes' = crashes + 1
    /\ Return(p)
    /\ UNCHANGED <<ledger, artifact, registryVars, cancelled, joins>>

-----------------------------------------------------------------------------
Opens(p) ==
    \/ PumpStarts(p) \/ Attach(p) \/ SyncThen(p, "sync", "create") \/ Create(p)

Advances(p) ==
    \/ Advance(p) \/ Guard(p) \/ Capture(p) \/ EnsureIntent(p)
    \/ ClaimPublication(p) \/ SyncThen(p, "claim_sync", "write") \/ PerformWrite(p)
    \/ VerifyStageWrite(p) \/ ConfirmStage(p) \/ MarkRepair(p)

Cancels(p) ==
    \/ Cancel(p) \/ CancelGuard(p) \/ DetachTask(p) \/ SyncThen(p, "detach_sync", "detached_guard")
    \/ DetachedGuard(p) \/ ReadSharedWork(p) \/ MarkDetached(p)

Cleans(p) ==
    \/ EnsureCleanupIntent(p) \/ CheckpointBefore(p) \/ CleanupEffect(p) \/ CheckpointAfter(p)
    \/ Invisible(p) \/ CheckpointInvisible(p) \/ FinishCleanup(p) \/ MarkCleanupRepair(p)

CallerStep(p) ==
    Opens(p) \/ Advances(p) \/ Cancels(p) \/ Cleans(p) \/ ReadFails(p)
       \/ ControlCancels(p) \/ ControlDetaches(p)

Next ==
    \/ \E p \in Callers : CallerStep(p) \/ Crash(p)
    \/ RequestCancellation
    \/ \E t \in Others : OtherAttaches(t) \/ OtherDetaches(t)
    \/ LoseFence
    \/ \E kind \in {"same", "other"} : OtherClaims(kind)
    \/ \E a \in Artifacts : OtherPublishes(a)

\* A running process goes on, and the scheduler runs the task again after a
\* restart.
Spec == Init /\ [][Next]_vars /\ \A p \in Callers : WF_vars(CallerStep(p))

-----------------------------------------------------------------------------
(* Properties. *)

\* The ledger and the callers' local variables have the shape the source gives
\* them; before-images are captured with one intent and kept from then on.
TypeOK ==
    /\ ledger \in Ledger
    /\ HasImages(ledger) <=> ledger.stage \notin {"ResultReady", "BodyStaged"}
    /\ ledger.captured /= NoImages <=> ledger.intent = "PublishIntent"
    /\ artifact \in [Artifacts -> Writer]
    /\ attached \subseteq Others \cup {Me}
    /\ current \in BOOLEAN
    /\ claim \in {"none", "mine", "same", "other"}
    /\ seen \subseteq Callers \cup {"scheduler"}
    /\ cancelled \in BOOLEAN
    /\ \A p \in Callers :
          /\ at[p].target \in Stage
          /\ at[p].img \in [Artifacts -> Writer \cup {"none"}]
          /\ at[p].effect \in Artifacts \cup {"staged", "none"}
    /\ joins \in 0..MaxJoins
    /\ crashes \in 0..MaxCrashes

\* A commit that reports Cancelled has left nothing of its own visible: what it
\* replaced is back, or somebody else has published, whatever the pump was doing
\* meanwhile.
CancelledIsUndone ==
    ledger.lifecycle = "Cancelled" /\ current =>
       \A a \in Artifacts :
          /\ artifact[a] /= "mine"
          /\ HasImages(ledger) => artifact[a] \in {ledger.images[a], "other"}

\* A commit that reports Verified is what readers see, or is content-equal to the
\* winner they see, for as long as it keeps its fence.
VerifiedIsVisible ==
    ledger.stage = "Verified" /\ ledger.lifecycle = "Active" /\ current =>
       \A a \in Artifacts : artifact[a] = (IF claim = "same" THEN "other" ELSE "mine")

\* Nothing more is published once the ledger says that the commit is being
\* cancelled: a write the pump had under way fails.
NoPublicationAfterCancel ==
    [][\A a \in Artifacts :
          artifact'[a] = "mine" /\ artifact[a] /= "mine" => ledger.lifecycle = "Active"]_vars

\* Neither advancing nor cleaning up ever replaces an artifact that somebody else
\* has published.
ForeignArtifactsKept ==
    [][\A a \in Artifacts : artifact[a] = "other" => artifact'[a] = "other"]_vars

\* What is stored can be read back: a ledger that says Cancelled or Detached has
\* no repairState.
LedgerStaysReadable == Readable

\* However often the process crashes, the commit ends up Verified.
CommitVerifies == <>(ledger.stage = "Verified")

=============================================================================
