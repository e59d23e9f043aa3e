------------------------ MODULE RecordSchedulerDispatch ------------------------
(***************************************************************************)
(* How the production pump (record-scheduler-production-pump.ts) gets a     *)
(* model unit from "submitted" to a recorded outcome, over three stores     *)
(* that are written one after the other: the task ledger (units, attempts,  *)
(* task), the coordinator snapshot (claims) and the provider control store  *)
(* (leases).  The process may die between any two writes, and a write of    *)
(* the coordinator snapshot may fail, before or after the bytes are there.  *)
(*                                                                         *)
(* Everything that touches the coordinator is one chain of jobs             *)
(* (coordinatorMutationTail), each starting with openCoordinatorSession;    *)
(* submissions and provider calls run beside it.                            *)
(*                                                                         *)
(* One task and one physical provider.  An attempt is bound once, to the    *)
(* claim and the lease made for it, so that the identities the code         *)
(* compares (claimId, permitId, dispatchSeq, lease) are the attempt's own.  *)
(***************************************************************************)
EXTENDS Integers, FiniteSets

CONSTANTS
    Units,       \* model units of the task
    RetryBudget, \* retryBudget of a new unit
    Capacity,    \* leases the provider grants at a time
    MaxCrashes,  \* bound on crashes of the process
    MaxFailures  \* bound on failing reads and writes

ASSUME DispatchAssumption ==
    /\ IsFiniteSet(Units)
    /\ RetryBudget \in Nat
    /\ Capacity \in Nat \ {0}
    /\ MaxCrashes \in Nat /\ MaxFailures \in Nat

VARIABLES
    task,     \* ledger: state of the task
    unit,     \* ledger: state and retryBudget of each unit
    attempt,  \* ledger: attempts by unit and ordinal
    store,    \* coordinator snapshot: the claim of each unit
    lease,    \* provider control store: the lease of each attempt
    call,     \* submissions: where each unit's submitPreparedAttempt is
    pending,  \* this.pending: the ordinal each unit waits for, 0 for none
    draining, \* drainOperation is set
    running,  \* this.runningByAttempt: where each unit's provider call is
    job,      \* the job at the head of coordinatorMutationTail
    invoked,  \* history: how often each attempt's invoke reached the provider
    crashes,
    failures

ledger == <<task, unit, attempt>>
process == <<call, pending, draining, running, job>>
faults == <<crashes, failures>>
vars == <<task, unit, attempt, store, lease, call, pending, draining, running,
          job, invoked, crashes, failures>>

Ordinals == 1..(RetryBudget + 1)
Attempts == Units \X Ordinals

-----------------------------------------------------------------------------
(* The stores. *)

NoAttempt == [state |-> "none", phase |-> "none", preInvoke |-> FALSE]
AttemptStates == {"none", "DispatchIntentPersisted", "Dispatched", "KnownSuccess",
                  "KnownFailure", "UnknownOutcome", "Discarded"}
Phases == {"permit-granted", "attempt-bound", "invoking"}
Attempt == [state : AttemptStates, phase : Phases \cup {"none"}, preInvoke : BOOLEAN]

UnitStates == {"none", "Queued", "Running", "WaitingRetry", "ResultReady",
               "UnknownOutcome", "FailedFinal"}
Unit == [state : UnitStates, budget : 0..RetryBudget]

NoClaim == [ordinal |-> 0, phase |-> "none"]
Claim == [ordinal : Ordinals, phase : Phases]

Outcomes == {"success", "congested", "rejected", "threw", "unsent"}

\* A job of the chain: for one unit, or for none yet; todo are the units it still
\* has to look at, or has denied.
JobSteps == {"idle", "reconcile", "step", "suspend", "intent", "grant", "grant_failed",
             "bind", "bound", "bind_invoking", "invoking", "start", "not_invoked",
             "release", "repair", "mark", "settle"}
Job == [for : {"none", "submit", "dispatch", "settle"}, at : JobSteps,
        unit : {{}} \cup {{u} : u \in Units}, todo : SUBSET Units]
Idle == [for |-> "none", at |-> "idle", unit |-> {}, todo |-> {}]

TypeOK ==
    /\ task \in {"Running", "RepairRequired"}
    /\ unit \in [Units -> Unit]
    /\ attempt \in [Attempts -> Attempt]
    /\ store \in [Units -> Claim \cup {NoClaim}]
    /\ lease \in [Attempts -> {"absent", "active", "uncertain"}]
    /\ call \in [Units -> {"none", "open", "read"}]
    /\ pending \in [Units -> Ordinals \cup {0}]
    /\ draining \in BOOLEAN
    /\ running \in [Units -> {"none", "ready", "calling"} \cup Outcomes]
    /\ job \in Job
    /\ invoked \in [Attempts -> 0..2]
    /\ crashes \in 0..MaxCrashes /\ failures \in 0..MaxFailures

Init ==
    /\ task = "Running"
    /\ unit = [u \in Units |-> [state |-> "none", budget |-> RetryBudget]]
    /\ attempt = [a \in Attempts |-> NoAttempt]
    /\ store = [u \in Units |-> NoClaim]
    /\ lease = [a \in Attempts |-> "absent"]
    /\ call = [u \in Units |-> "none"]
    /\ pending = [u \in Units |-> 0]
    /\ draining = FALSE
    /\ running = [u \in Units |-> "none"]
    /\ job = Idle
    /\ invoked = [a \in Attempts |-> 0]
    /\ crashes = 0 /\ failures = 0

\* Ordinal of the latest attempt of u, 0 when there is none.
Latest(u) == Cardinality({n \in Ordinals : attempt[<<u, n>>].state # "none"})
LatestAttempt(u) == <<u, Latest(u)>>

\* selectModelAttemptOrdinal
SelectOrdinal(u) ==
    IF \/ Latest(u) = 0
       \/ /\ attempt[LatestAttempt(u)].state \in {"KnownFailure", "Discarded"}
          /\ unit[u].state = "Queued"
    THEN Latest(u) + 1 ELSE Latest(u)

\* Mutant: a retry is granted whatever is left of the budget.
RetriedFreely(u, next) == [state |-> next, budget |-> unit[u].budget - 1]

\* What a failed attempt makes of its unit: it costs a retry, or is final.
Retried(u, next) ==
    IF unit[u].budget > 0
    THEN [state |-> next, budget |-> unit[u].budget - 1]
    ELSE [state |-> "FailedFinal", budget |-> 0]

SetUnit(u, value) == unit' = [unit EXCEPT ![u] = value]
SetState(u, state) == SetUnit(u, [unit[u] EXCEPT !.state = state])

\* The outcomes the pump records for a dispatched attempt a of u.
MarkKnownPreInvokeFailure(u, a) ==
    /\ attempt' = [attempt EXCEPT ![a] = [state |-> "KnownFailure", phase |-> "invoking",
                                          preInvoke |-> TRUE]]
    /\ SetUnit(u, Retried(u, "Queued"))

MarkUnknownOutcome(u, a) ==
    /\ attempt' = [attempt EXCEPT ![a].state = "UnknownOutcome"]
    /\ SetState(u, "UnknownOutcome")

MarkKnownSuccess(u, a) ==
    /\ attempt' = [attempt EXCEPT ![a].state = "KnownSuccess"]
    /\ SetState(u, "ResultReady")

\* Congestion is retried after a delay; with one route nothing else is.
MarkKnownFailure(u, a, retry) ==
    /\ attempt' = [attempt EXCEPT ![a].state = "KnownFailure"]
    /\ IF retry THEN SetUnit(u, Retried(u, "WaitingRetry")) ELSE SetState(u, "FailedFinal")

-----------------------------------------------------------------------------
(* Submitting a unit, beside the chain. *)

CanSubmit(u) == task = "Running" /\ call[u] = "none" /\ pending[u] = 0

\* advanceExpiredUnknownOutcome, once the grace period is over.
AdvanceExpiredUnknownOutcome(u) ==
    /\ CanSubmit(u)
    /\ unit[u].state = "UnknownOutcome"
    /\ attempt' = [attempt EXCEPT ![LatestAttempt(u)].state = "Discarded"]
    /\ SetUnit(u, Retried(u, "Queued"))
    /\ UNCHANGED <<task, store, lease, process, invoked, faults>>

\* activateWaitingRetry, once nextEligibleAt has come.
ActivateWaitingRetry(u) ==
    /\ CanSubmit(u)
    /\ unit[u].state = "WaitingRetry"
    /\ SetState(u, "Queued")
    /\ UNCHANGED <<task, attempt, store, lease, process, invoked, faults>>

\* prepareModelAttempt makes the unit and asks for a session.
PrepareModelAttempt(u) ==
    /\ CanSubmit(u)
    /\ unit[u].state \in {"none", "Queued", "Running"}
    /\ IF unit[u].state = "none" THEN SetState(u, "Queued") ELSE UNCHANGED unit
    /\ call' = [call EXCEPT ![u] = "open"]
    /\ UNCHANGED <<task, attempt, store, lease, pending, draining, running, job,
                   invoked, faults>>

\* After the session: wait for the attempt to be dispatched, or for the call
\* that already runs; an attempt with an outcome is answered from the ledger.
EnqueuePending(u) ==
    /\ call[u] = "read"
    /\ call' = [call EXCEPT ![u] = "none"]
    /\ IF unit[u].state \in {"Queued", "Running"}
       THEN /\ pending' = [pending EXCEPT ![u] = SelectOrdinal(u)]
            /\ draining' = TRUE
       ELSE UNCHANGED <<pending, draining>>
    /\ UNCHANGED <<ledger, store, lease, running, job, invoked, faults>>

-----------------------------------------------------------------------------
(* The chain: opening a session. *)

At(for, at) == job.for = for /\ job.at = at
Goto(at) == job' = [job EXCEPT !.at = at]

\* Mutant: claims of calls in flight are reconciled as if their runner was gone.
Interrupted == {u \in Units : store[u] # NoClaim}

\* Claims whose attempt this process is not calling the provider for.
Restarted == {u \in Units : store[u] # NoClaim /\ running[u] = "none"}

Open(for, us) == job' = [for |-> for, at |-> "reconcile", unit |-> us, todo |-> Restarted]

SubmitOpens(u) ==
    /\ job = Idle /\ call[u] = "open"
    /\ Open("submit", {u})
    /\ UNCHANGED <<ledger, store, lease, call, pending, draining, running, invoked, faults>>

\* drain: another round while somebody waits.
DrainOpens ==
    /\ job = Idle /\ draining
    /\ IF \E u \in Units : pending[u] # 0
       THEN Open("dispatch", {}) /\ UNCHANGED draining
       ELSE draining' = FALSE /\ UNCHANGED job
    /\ UNCHANGED <<ledger, store, lease, call, pending, running, invoked, faults>>

SettleOpens(u) ==
    /\ job = Idle /\ running[u] \in Outcomes
    /\ Open("settle", {u})
    /\ UNCHANGED <<ledger, store, lease, call, pending, draining, running, invoked, faults>>

\* The job throws: its submission is refused, its drain refuses everybody who
\* waits, its call is over with nothing recorded.
Abort ==
    /\ job' = Idle
    /\ call' = [u \in Units |-> IF job.for = "submit" /\ u \in job.unit THEN "none" ELSE call[u]]
    /\ pending' = [u \in Units |-> IF \/ job.for = "dispatch"
                                      \/ job.for = "settle" /\ u \in job.unit
                                   THEN 0 ELSE pending[u]]
    /\ running' = [u \in Units |-> IF job.for = "settle" /\ u \in job.unit
                                   THEN "none" ELSE running[u]]
    /\ draining' = CASE job.for = "dispatch" -> FALSE
                     [] job.for = "settle" -> TRUE
                     [] OTHER -> draining

\* markRestartRecoveryRepair, and the REPAIR_REQUIRED it throws.
RestartRepair ==
    /\ task' = "RepairRequired"
    /\ Abort
    /\ UNCHANGED <<unit, attempt, store, lease, invoked, faults>>

\* A write of the coordinator snapshot that fails; the bytes may be there.
Fails(written) ==
    /\ failures < MaxFailures
    /\ failures' = failures + 1
    /\ store' \in {store, written}
    /\ UNCHANGED crashes

\* recoveryDiscardedUnknownClaimMatchesAttempt, recoverySettledClaimMatchesAttempt
ClaimIsOver(u) ==
    LET a == <<u, store[u].ordinal>> IN
    /\ store[u].phase = "invoking"
    /\ \/ attempt[a].state = "Discarded" /\ unit[u].state \in {"Queued", "FailedFinal"}
       \/ attempt[a].state = "KnownSuccess" /\ unit[u].state = "ResultReady"

\* recoveryPermitClaimMatchesAttempt
ClaimIsUnbound(u) ==
    /\ store[u].phase = "permit-granted"
    /\ attempt[<<u, store[u].ordinal>>].state = "DispatchIntentPersisted"
    /\ unit[u].state = "Queued"

\* recoveryClaimMatchesAttempt
ClaimIsBound(u) ==
    LET a == attempt[<<u, store[u].ordinal>>] IN
    /\ store[u].phase \in {"attempt-bound", "invoking"}
    /\ store[u].phase = a.phase
    /\ a.state = "Dispatched"
    /\ unit[u].state = "Running"

\* Mutant: what was bound is taken for not called, whatever its phase.
RecoverAsNotCalled(u) ==
    LET a == <<u, store[u].ordinal>> IN
    lease' = [lease EXCEPT ![a] = "absent"] /\ MarkKnownPreInvokeFailure(u, a)

\* Mutant: the lease of an attempt that made no call is left to run out.
RecoverKeepingLease(u) ==
    LET a == <<u, store[u].ordinal>> IN
    /\ IF store[u].phase = "attempt-bound" /\ lease[a] # "uncertain"
       THEN MarkKnownPreInvokeFailure(u, a) ELSE MarkUnknownOutcome(u, a)
    /\ UNCHANGED lease

\* Mutant: what was bound goes back to its dispatch intent.
RecoverToIntent(u) ==
    LET a == <<u, store[u].ordinal>> IN
    /\ lease' = [lease EXCEPT ![a] = "absent"]
    /\ attempt' = [attempt EXCEPT ![a].state = "DispatchIntentPersisted", ![a].phase = "none"]
    /\ SetState(u, "Queued")

\* reconcileBoundProviderLease: a lease that is active or gone proves that an
\* attempt-bound attempt made no call; anything else is unknown.
RecoverBound(u) ==
    LET a == <<u, store[u].ordinal>> IN
    IF store[u].phase = "attempt-bound" /\ lease[a] # "uncertain"
    THEN lease' = [lease EXCEPT ![a] = "absent"] /\ MarkKnownPreInvokeFailure(u, a)
    ELSE MarkUnknownOutcome(u, a) /\ UNCHANGED lease

\* reconcileRestartedDispatches, for one persisted claim.  A lease is settled
\* before the ledger is written; that it is settled alone is as if it expired.
ReconcileRestartedDispatch(u) ==
    /\ job.at = "reconcile" /\ u \in job.todo
    /\ IF ClaimIsOver(u) \/ ClaimIsUnbound(u) \/ ClaimIsBound(u)
       THEN /\ job' = [job EXCEPT !.todo = @ \ {u}]
            /\ IF ClaimIsBound(u) THEN RecoverBound(u)
               ELSE /\ lease' = [lease EXCEPT ![<<u, store[u].ordinal>>] = "absent"]
                    /\ UNCHANGED <<unit, attempt>>
            /\ UNCHANGED <<task, store, call, pending, draining, running, invoked, faults>>
       ELSE RestartRepair

\* A dispatched attempt nobody calls the provider for, and no claim accounts for.
Orphaned(u) ==
    /\ Latest(u) # 0
    /\ attempt[LatestAttempt(u)].state = "Dispatched"
    /\ running[u] = "none"

\* Claims a rebuilt coordinator keeps: those with dispatch evidence in the ledger.
Evidenced ==
    [u \in Units |-> IF /\ store[u] # NoClaim
                        /\ attempt[<<u, store[u].ordinal>>].state = "Dispatched"
                     THEN store[u] ELSE NoClaim]

SessionReady ==
    /\ call' = [u \in Units |-> IF job.for = "submit" /\ u \in job.unit THEN "read" ELSE call[u]]
    /\ job' = CASE job.for = "submit" -> Idle
                [] job.for = "dispatch" -> [job EXCEPT !.at = "step"]
                [] job.for = "settle" -> [job EXCEPT !.at = "mark"]
    /\ UNCHANGED <<pending, draining, running>>

\* The end of openCoordinatorSession: rebuild and persist.
RebuildCoordinator ==
    /\ job.at = "reconcile" /\ job.todo = {}
    /\ IF \E u \in Units : Orphaned(u) THEN RestartRepair
       ELSE /\ \/ store' = Evidenced /\ SessionReady /\ UNCHANGED faults
               \/ Fails(Evidenced) /\ Abort
            /\ UNCHANGED <<ledger, lease, invoked>>

-----------------------------------------------------------------------------
(* The chain: dispatching one pending unit. *)

Dispatching(u, at) == At("dispatch", at) /\ job.unit = {u}
Of(u) == <<u, pending[u]>>

\* Units the coordinator may pick and somebody waits for.
Dispatchable ==
    {u \in Units : task = "Running" /\ unit[u].state = "Queued" /\ pending[u] # 0}

LeasesBut(a) == {b \in Attempts \ {a} : lease[b] # "absent"}

\* One candidate of step: reconcileUnboundProviderLease takes back a lease an
\* earlier life of the process left, then tryAcquire.  todo are the candidates
\* that were denied.
TryAcquire(u) ==
    /\ At("dispatch", "step") /\ job.unit = {}
    /\ u \in Dispatchable \ job.todo
    /\ lease[Of(u)] # "uncertain"
    /\ IF Cardinality(LeasesBut(Of(u))) < Capacity
       THEN /\ lease' = [lease EXCEPT ![Of(u)] = "active"]
            /\ job' = [job EXCEPT !.at = "intent", !.unit = {u}, !.todo = {}]
       ELSE /\ lease' = [lease EXCEPT ![Of(u)] = "absent"]
            /\ job' = [job EXCEPT !.todo = @ \cup {u}]
    /\ UNCHANGED <<ledger, store, call, pending, draining, running, invoked, faults>>

\* Nobody could be dispatched: the snapshot is written, and those who wait for
\* no call in flight are to be suspended.
NothingDispatched ==
    /\ At("dispatch", "step") /\ job.unit = {}
    /\ Dispatchable \subseteq job.todo
    /\ \/ /\ job' = [job EXCEPT !.at = "suspend",
                                !.todo = {u \in Units : pending[u] # 0 /\ running[u] = "none"}]
          /\ UNCHANGED <<store, call, pending, draining, running, faults>>
       \/ Fails(store) /\ Abort
    /\ UNCHANGED <<ledger, lease, invoked>>

\* Mutant: the drain ends without telling those who wait.
SuspendNobody ==
    /\ At("dispatch", "suspend")
    /\ draining' = FALSE
    /\ job' = Idle
    /\ UNCHANGED <<ledger, store, lease, call, pending, running, invoked, faults>>

\* suspendDispatchablePending, after it has read the ledger.  Who began to wait
\* meanwhile is left waiting, and the drain is over.
SuspendDispatchablePending ==
    /\ At("dispatch", "suspend")
    /\ pending' = [u \in Units |-> IF u \in job.todo THEN 0 ELSE pending[u]]
    /\ draining' = FALSE
    /\ job' = Idle
    /\ UNCHANGED <<ledger, store, lease, call, running, invoked, faults>>

\* ensureModelAttemptIntent
EnsureModelAttemptIntent(u) ==
    /\ Dispatching(u, "intent")
    /\ attempt' = [attempt EXCEPT ![Of(u)].state =
                      IF @ = "none" THEN "DispatchIntentPersisted" ELSE @]
    /\ Goto("grant")
    /\ UNCHANGED <<task, unit, store, lease, call, pending, draining, running, invoked, faults>>

Claimed(u, phase) == [store EXCEPT ![u] = [ordinal |-> pending[u], phase |-> phase]]
Unclaimed(u) == [store EXCEPT ![u] = NoClaim]

\* persistCoordinator with the new claim, or with its next phase.
PersistClaim(u, at, phase, next, failed) ==
    /\ Dispatching(u, at)
    /\ \/ store' = Claimed(u, phase) /\ Goto(next) /\ UNCHANGED faults
       \/ Fails(Claimed(u, phase)) /\ Goto(failed)
    /\ UNCHANGED <<ledger, lease, call, pending, draining, running, invoked>>

PersistGrant(u) == PersistClaim(u, "grant", "permit-granted", "bind", "grant_failed")
PersistBound(u) == PersistClaim(u, "bound", "attempt-bound", "bind_invoking", "not_invoked")
PersistInvoking(u) == PersistClaim(u, "invoking", "invoking", "start", "not_invoked")

\* failClosedAfterGrantPersistFailure: the lease is released; a claim that is on
\* disk all the same needs repair, otherwise the snapshot is written without it.
FailClosedAfterGrantPersistFailure(u) ==
    /\ Dispatching(u, "grant_failed")
    /\ lease' = [lease EXCEPT ![Of(u)] = "absent"]
    /\ task' = IF store[u] # NoClaim THEN "RepairRequired" ELSE task
    /\ pending' = [pending EXCEPT ![u] = 0]
    /\ draining' = FALSE
    /\ job' = Idle
    /\ UNCHANGED <<unit, attempt, store, call, running, invoked, faults>>

\* bindAttempt
BindAttempt(u) ==
    /\ Dispatching(u, "bind")
    /\ attempt[Of(u)].state = "DispatchIntentPersisted"
    /\ attempt' = [attempt EXCEPT ![Of(u)].state = "Dispatched", ![Of(u)].phase = "attempt-bound"]
    /\ SetState(u, "Running")
    /\ Goto("bound")
    /\ UNCHANGED <<task, store, lease, call, pending, draining, running, invoked, faults>>

BindInvoking(u) ==
    /\ Dispatching(u, "bind_invoking")
    /\ attempt' = [attempt EXCEPT ![Of(u)].phase = "invoking"]
    /\ Goto("invoking")
    /\ UNCHANGED <<task, unit, store, lease, call, pending, draining, running, invoked, faults>>

\* assertClaimBinding and startRunningInvocation: the job ends, the call begins.
StartRunningInvocation(u) ==
    /\ Dispatching(u, "start")
    /\ running' = [running EXCEPT ![u] = "ready"]
    /\ job' = Idle
    /\ UNCHANGED <<ledger, store, lease, call, pending, draining, invoked, faults>>

\* settlePreInvokeFailure: the ledger, then the claim and its lease.
SettlePreInvokeFailure(u) ==
    /\ Dispatching(u, "not_invoked")
    /\ MarkKnownPreInvokeFailure(u, Of(u))
    /\ Goto("release")
    /\ UNCHANGED <<task, store, lease, call, pending, draining, running, invoked, faults>>

ReleasePreInvokeClaim(u) ==
    /\ Dispatching(u, "release")
    /\ lease' = [lease EXCEPT ![Of(u)] = "absent"]
    /\ \/ /\ store' = Unclaimed(u)
          /\ pending' = [pending EXCEPT ![u] = 0]
          /\ job' = Idle
          /\ UNCHANGED faults
       \/ Fails(Unclaimed(u)) /\ Goto("repair") /\ UNCHANGED pending
    /\ UNCHANGED <<ledger, call, draining, running, invoked>>

\* failClosedPreInvokeRepair, once the attempt has its outcome: the snapshot is
\* written again and the task marked, whichever of them fails.
FailClosedPreInvokeRepair(u) ==
    /\ Dispatching(u, "repair")
    /\ store' = Unclaimed(u)
    /\ task' = "RepairRequired"
    /\ pending' = [pending EXCEPT ![u] = 0]
    /\ job' = Idle
    /\ UNCHANGED <<unit, attempt, lease, call, draining, running, invoked, faults>>

-----------------------------------------------------------------------------
(* The provider call, beside the chain, and its settlement. *)

Called(u) == LatestAttempt(u)

\* runProviderInvocation: the ledger is read once more; a lease that ran out is
\* refused by the transport, which the pump cannot tell from a lost call.
Invoke(u) ==
    /\ running[u] = "ready"
    /\ IF lease[Called(u)] = "active"
       THEN /\ running' = [running EXCEPT ![u] = "calling"]
            /\ invoked' = [invoked EXCEPT ![Called(u)] = @ + 1]
       ELSE running' = [running EXCEPT ![u] = "threw"] /\ UNCHANGED invoked
    /\ UNCHANGED <<ledger, store, lease, call, pending, draining, job, faults>>

\* The read fails before the call: its lease is given back.
InvokeFails(u) ==
    /\ running[u] = "ready" /\ failures < MaxFailures
    /\ running' = [running EXCEPT ![u] = "unsent"]
    /\ lease' = [lease EXCEPT ![Called(u)] = "absent"]
    /\ failures' = failures + 1
    /\ UNCHANGED <<ledger, store, call, pending, draining, job, invoked, crashes>>

\* The provider answers, or the call is lost and its lease becomes uncertain.
ProviderAnswers(u) ==
    /\ running[u] = "calling"
    /\ \E outcome \in Outcomes \ {"unsent"} :
          /\ running' = [running EXCEPT ![u] = outcome]
          /\ lease' = [lease EXCEPT ![Called(u)] =
                          IF @ = "active" /\ outcome = "threw" THEN "uncertain" ELSE "absent"]
    /\ UNCHANGED <<ledger, store, call, pending, draining, job, invoked, faults>>

Settling(u, at) == At("settle", at) /\ job.unit = {u}

\* settleInvocationResult, settleInvocationFailure: the ledger ...
SettleInvocation(u) ==
    /\ Settling(u, "mark")
    /\ attempt[Called(u)].state = "Dispatched"
    /\ CASE running[u] = "success" -> MarkKnownSuccess(u, Called(u))
         [] running[u] = "congested" -> MarkKnownFailure(u, Called(u), TRUE)
         [] running[u] = "rejected" -> MarkKnownFailure(u, Called(u), FALSE)
         [] running[u] = "threw" -> MarkUnknownOutcome(u, Called(u))
         [] running[u] = "unsent" -> MarkKnownPreInvokeFailure(u, Called(u))
    /\ Goto("settle")
    /\ UNCHANGED <<task, store, lease, call, pending, draining, running, invoked, faults>>

\* Mutant: the snapshot is not written after the claim is settled.
SettleClaimInMemory(u) ==
    /\ Settling(u, "settle")
    /\ Abort
    /\ UNCHANGED <<ledger, store, lease, invoked, faults>>

\* ... and the claim.  Either way the call is over and the drain goes on.
SettleClaim(u) ==
    /\ Settling(u, "settle")
    /\ \/ store' = Unclaimed(u) /\ UNCHANGED faults
       \/ Fails(Unclaimed(u))
    /\ Abort
    /\ UNCHANGED <<ledger, lease, invoked>>

-----------------------------------------------------------------------------
(* The environment. *)

\* A lease runs out: nobody renews it.
ExpireLease(a) ==
    /\ lease[a] # "absent"
    /\ lease' = [lease EXCEPT ![a] = "absent"]
    /\ UNCHANGED <<ledger, store, process, invoked, faults>>

\* The process dies and another one starts over the same data root.
Crash ==
    /\ crashes < MaxCrashes
    /\ crashes' = crashes + 1
    /\ call' = [u \in Units |-> "none"]
    /\ pending' = [u \in Units |-> 0]
    /\ draining' = FALSE
    /\ running' = [u \in Units |-> "none"]
    /\ job' = Idle
    /\ UNCHANGED <<ledger, store, lease, invoked, failures>>

Submits(u) ==
    \/ AdvanceExpiredUnknownOutcome(u)
    \/ ActivateWaitingRetry(u)
    \/ PrepareModelAttempt(u)
    \/ EnqueuePending(u)

ChainSteps ==
    \/ DrainOpens
    \/ RebuildCoordinator
    \/ NothingDispatched
    \/ SuspendDispatchablePending
    \/ \E u \in Units :
          \/ SubmitOpens(u)
          \/ SettleOpens(u)
          \/ ReconcileRestartedDispatch(u)
          \/ TryAcquire(u)
          \/ EnsureModelAttemptIntent(u)
          \/ PersistGrant(u)
          \/ FailClosedAfterGrantPersistFailure(u)
          \/ BindAttempt(u)
          \/ PersistBound(u)
          \/ BindInvoking(u)
          \/ PersistInvoking(u)
          \/ StartRunningInvocation(u)
          \/ SettlePreInvokeFailure(u)
          \/ ReleasePreInvokeClaim(u)
          \/ FailClosedPreInvokeRepair(u)
          \/ SettleInvocation(u)
          \/ SettleClaim(u)

Calls(u) == Invoke(u) \/ InvokeFails(u) \/ ProviderAnswers(u)

Next ==
    \/ ChainSteps
    \/ \E u \in Units : Submits(u) \/ Calls(u)
    \/ \E a \in Attempts : ExpireLease(a)
    \/ Crash

Spec == Init /\ [][Next]_vars

\* The chain runs its jobs in the order they came; calls end, leases run out, and
\* whoever was suspended is woken to submit again.
Fairness ==
    /\ WF_vars(ChainSteps)
    /\ SF_vars(DrainOpens)
    /\ \A u \in Units :
          /\ SF_vars(SubmitOpens(u)) /\ SF_vars(SettleOpens(u))
          /\ WF_vars(Submits(u))
          /\ WF_vars(Invoke(u)) /\ WF_vars(ProviderAnswers(u))
    /\ \A a \in Attempts : WF_vars(ExpireLease(a))

FairSpec == Spec /\ Fairness

-----------------------------------------------------------------------------
(* Properties. *)

\* An attempt is called at most once, through every crash and failed write
\* (runProviderInvocation; the hard-exit tests count POSTs per attempt).
CalledOnce == \A a \in Attempts : invoked[a] <= 1

\* What the ledger says of an attempt is what happened to it: a failure recorded
\* as before the call made none (markKnownPreInvokeFailure), a result had a call
\* (markKnownSuccess), and only an attempt about to be called may be recorded as
\* unknown (markUnknownOutcome): a crash that is provably before the call is not.
OutcomeIsHonest ==
    \A a \in Attempts :
        /\ attempt[a].preInvoke => invoked[a] = 0
        /\ attempt[a].state = "KnownSuccess" => invoked[a] = 1
        /\ attempt[a].state \in {"UnknownOutcome", "Discarded"} => attempt[a].phase = "invoking"

\* While a call is in flight, the sessions that other units' submissions,
\* dispatches and settlements open leave its attempt and its claim alone
\* (runningByAttempt in reconcileRestartedDispatches).
InFlightIsUndisturbed ==
    \A u \in Units : running[u] \in {"ready", "calling"} =>
        /\ attempt[Called(u)].state = "Dispatched"
        /\ store[u] = [ordinal |-> Latest(u), phase |-> "invoking"]

\* The attempt whose lease this process holds (leaseByAttempt) for u.
HoldsLease(u, n) ==
    \/ /\ job.for = "dispatch" /\ job.unit = {u} /\ pending[u] = n
    \/ running[u] \in {"ready", "calling"} /\ Latest(u) = n

\* An active lease, which takes a slot from everybody else, is held by this
\* process for a dispatch or a call; or a crash left it, and then its attempt has
\* no outcome that says the call is over (releaseUnconsumedLease,
\* reconcileBoundProviderLease).  Only settlePreInvokeFailure, after a failed
\* write, records the failure before it gives the lease back.
LeaseIsAccountedFor ==
    \A u \in Units, n \in Ordinals : lease[<<u, n>>] = "active" =>
        \/ HoldsLease(u, n)
        \/ crashes > 0 /\ attempt[<<u, n>>].state \notin {"KnownSuccess", "KnownFailure"}
        \/ crashes > 0 /\ failures > 0 /\ attempt[<<u, n>>].preInvoke

\* However submissions, dispatches, calls and settlements of several units
\* interleave, the task needs repair only after a crash or a failed write.
RepairNeedsFault == task = "RepairRequired" => crashes + failures > 0

\* Unless a write fails, every unit ends in a result or a final failure, or the
\* task is left for repair: no submission waits forever for a drain that is over
\* or for a lease that nobody holds, and no crash leaves a unit running.
UnitsEnd ==
    \A u \in Units :
        <>(\/ unit[u].state \in {"ResultReady", "FailedFinal"}
           \/ task = "RepairRequired"
           \/ failures > 0)
==============================================================================
