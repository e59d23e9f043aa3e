------------------------- MODULE ProviderControlStore -------------------------
(***************************************************************************)
(* The provider control of memory-store: one file, shared by all processes, *)
(* that says how many calls a model provider may run at once.  An admission *)
(* (provider-admission.ts) becomes its owner, grants leases to attempts,    *)
(* learns from their outcomes (AIMD limit, circuit breaker) and is fenced   *)
(* off when another admission claims the file (provider-control-store.ts).  *)
(*                                                                         *)
(* One provider's pool is modelled.  Every store operation runs under the   *)
(* control file's lock and is one step; an admission runs one control       *)
(* operation at a time and may lose the file between any two of its steps.  *)
(*                                                                         *)
(* Times are what is left until them, on the wall clock; drift is by how    *)
(* much the clock is ahead of lastObservedWallClockMs.  Epochs and          *)
(* generations matter only by being current or not.                         *)
(***************************************************************************)
EXTENDS Integers, FiniteSets, Sequences

CONSTANTS
    Owners,         \* admissions, one per process
    Attempts,       \* attempt ids
    PhysicalMax,    \* PROVIDER_CONTROL_PHYSICAL_MAX
    InitialLimit,   \* PROVIDER_CONTROL_INITIAL_LIMIT
    OwnerLeaseMs,   \* ownerLeaseDurationMs
    RenewalMs,      \* ownerRenewalWindowMs
    CallLeaseMs,    \* leaseDurationMs of a call
    GraceMs,        \* uncertainGraceMs
    MaxOpenMs,      \* MAX_BREAKER_OPEN_MS
    FailureBudgets, \* BREAKER_FAILURE_BUDGETS
    Outcomes,       \* the outcomes calls may have
    RetryAfters,    \* the delays a provider may ask for
    MaxBack,        \* how far the clock may be set back
    MaxBacks,       \* bound on setting it back
    MaxCrashes      \* bound on crashes

None == "none"
NoDelay == -1

AllOutcomes == {"success", "congestion", "availability", "cancelled", "unknown-outcome"}

ASSUME ProviderAssumption ==
    /\ PhysicalMax \in Nat \ {0} /\ InitialLimit \in 1..PhysicalMax
    /\ CallLeaseMs \in Nat \ {0} /\ CallLeaseMs <= OwnerLeaseMs
    /\ OwnerLeaseMs \in Nat /\ RenewalMs \in 1..OwnerLeaseMs
    /\ GraceMs \in Nat \ {0} /\ MaxOpenMs \in Nat \ {0}
    /\ FailureBudgets \in Seq(Nat \ {0}) /\ FailureBudgets /= <<>>
    /\ Outcomes \subseteq AllOutcomes /\ RetryAfters \subseteq 0..MaxOpenMs
    /\ MaxBack \in Nat /\ MaxBacks \in Nat /\ MaxCrashes \in Nat
    /\ None \notin Owners \cup Attempts

\* 2 ** backoffExponent is a number: arithmetic, but no prover here interprets ^.
ASSUME PowersAssumption ==
    \A n \in 0..(Len(FailureBudgets) - 1) : 2^n \in Nat

VARIABLES
    pool,    \* the pool of the control file
    owner,   \* its ownerLease
    drift,   \* now - lastObservedWallClockMs, at most MaxBack
    local,   \* each admission's ownerFence and ownerLeaseExpiresAtMs
    op,      \* its running control operation
    permits, \* the permits its callers hold
    backs,
    crashes

vars == <<pool, owner, drift, local, op, permits, backs, crashes>>
control == <<pool, owner, drift>>
faults == <<backs, crashes>>

Least(a, b) == IF a < b THEN a ELSE b
Most(a, b) == IF a > b THEN a ELSE b

-----------------------------------------------------------------------------
(* The pool. *)

\* left: of the lease, or of the grace of an uncertain one.  fresh: granted in
\* the current capacityGeneration.
NoLease == [status |-> "none", left |-> 0, fresh |-> FALSE]

InitialPool ==
    [limit |-> InitialLimit, credits |-> 0, lease |-> [a \in Attempts |-> NoLease],
     open |-> FALSE, openLeft |-> 0, failures |-> 0, backoff |-> 0, probe |-> None,
     frozen |-> "no"]

Leased(p) == {a \in Attempts : p.lease[a].status /= "none"}
Occupied(p) == Cardinality(Leased(p))

Without(p, gone) ==
    [p EXCEPT !.lease = [a \in Attempts |-> IF a \in gone THEN NoLease ELSE @[a]]]

\* Mutant: what was granted in an earlier generation is taken for left behind.
PrunedStale(p) ==
    LET gone == {a \in Leased(p) : p.lease[a].left <= 0 \/ ~p.lease[a].fresh}
    IN  [Without(p, gone) EXCEPT !.probe = IF @ \in gone THEN None ELSE @]

\* pruneExpiredProviderLeases
Pruned(p) ==
    LET gone == {a \in Leased(p) : p.lease[a].left <= 0}
    IN  [Without(p, gone) EXCEPT !.probe = IF @ \in gone THEN None ELSE @]

\* A new capacityGeneration.
NewGeneration(p, limit) ==
    [p EXCEPT !.limit = limit, !.credits = 0,
              !.lease = [a \in Attempts |-> [@[a] EXCEPT !.fresh = FALSE]]]

\* Mutant: the limit grows past physicalMax.
CreditedFreely(p) ==
    IF p.credits + 1 >= p.limit THEN NewGeneration(p, p.limit + 1)
    ELSE [p EXCEPT !.credits = Least(@ + 1, PhysicalMax)]

\* Credits above PhysicalMax make no difference.
Credited(p) ==
    IF p.credits + 1 >= p.limit /\ p.limit < PhysicalMax
    THEN NewGeneration(p, p.limit + 1)
    ELSE [p EXCEPT !.credits = Least(@ + 1, PhysicalMax)]

\* applyCongestion
Congested(p, lease) ==
    IF lease.fresh THEN NewGeneration(p, Most(1, p.limit \div 2)) ELSE p

\* openUntilMs = max(openUntilMs ?? 0, nowMs + delay)
OpenFor(p, delay) ==
    [p EXCEPT !.open = TRUE, !.openLeft = IF p.open THEN Most(@, delay) ELSE delay]

\* applyRetryAfter
RetryAfter(p, delay) == IF delay = NoDelay THEN p ELSE OpenFor(p, delay)

\* openBreaker: five times as long as the call took, doubled every time.
OpenBreaker(p, lease, delay) ==
    LET failures == p.failures + 1
        budget == FailureBudgets[p.backoff + 1]
        elapsed == Most(1, CallLeaseMs - lease.left)
        exponential == Least(MaxOpenMs, 5 * elapsed * 2^p.backoff)
    IN  IF delay = NoDelay /\ failures < budget
        THEN [p EXCEPT !.failures = failures]
        ELSE [OpenFor(p, IF delay = NoDelay THEN exponential ELSE delay)
                 EXCEPT !.backoff = Least(@ + 1, Len(FailureBudgets) - 1), !.failures = 0]

ClosedBreaker(p) == [p EXCEPT !.open = FALSE, !.openLeft = 0, !.failures = 0, !.backoff = 0]

\* Mutant: the reason of the freeze is not looked at.
RefreshedAlways(p) ==
    [p EXCEPT !.frozen = IF Occupied(p) > p.limit THEN "capacity" ELSE "no"]

\* refreshCapacityFrozen
Refreshed(p) ==
    [p EXCEPT !.frozen = IF @ = "clock" THEN @
                         ELSE IF Occupied(p) > p.limit THEN "capacity" ELSE "no"]

\* completeLeaseExclusive: the outcome of attempt a's call, whose lease is active.
Completed(p, a, outcome, delay) ==
    LET lease == p.lease[a]
        isProbe == p.probe = a
        rest == Without(p, {a})
        unprobed(q) == [q EXCEPT !.probe = None]
    IN  Refreshed(
          CASE outcome = "unknown-outcome" ->
                 [p EXCEPT !.lease[a].status = "uncertain", !.lease[a].left = GraceMs]
            [] outcome = "success" ->
                 LET credited == IF p.frozen = "no" /\ lease.fresh THEN Credited(rest) ELSE rest
                 IN  unprobed(IF isProbe THEN ClosedBreaker(credited) ELSE credited)
            [] outcome = "congestion" ->
                 LET congested == RetryAfter(Congested(rest, lease), delay)
                 IN  unprobed(IF isProbe THEN OpenBreaker(congested, lease, delay) ELSE congested)
            [] outcome = "availability" -> unprobed(OpenBreaker(rest, lease, delay))
            [] OTHER -> IF isProbe THEN unprobed(OpenBreaker(rest, lease, delay)) ELSE rest)

-----------------------------------------------------------------------------
(* The control file. *)

\* assertCurrentOwnerFence at nowMs; nothing is published once the owner's lease has
\* run out at the later of nowMs and lastObservedWallClockMs.
HasFence(o) == local[o].fence /\ owner.by = o /\ owner.left > 0
MayMutate(o) == HasFence(o) /\ owner.left + Least(drift, 0) > 0

\* prepareNextRevision and publishProviderControlState: openUntilMs never lies
\* before the observed time.
Publish(p, observed) ==
    /\ drift' = observed
    /\ pool' = [p EXCEPT !.openLeft = IF p.open THEN Most(@, -observed) ELSE @]

\* lastObservedWallClockMs = max(lastObservedWallClockMs, nowMs)
Observed == Least(drift, 0)

\* What tryGrantExclusive asks of the pool, before and in the grant.
Blocked(p) ==
    \/ p.frozen /= "no"
    \/ p.open /\ p.openLeft > 0
    \/ p.probe /= None
    \/ Occupied(p) >= p.limit

-----------------------------------------------------------------------------
(* Admissions. *)

NoOp == [kind |-> "none", pc |-> "idle", attempt |-> None]

At(o, pc) == op[o].pc = pc
Goto(o, pc) == op' = [op EXCEPT ![o].pc = pc]
EndOp(o) == op' = [op EXCEPT ![o] = NoOp]
Begin(o, kind, a) ==
    /\ At(o, "idle")
    /\ op' = [op EXCEPT ![o] = [kind |-> kind, pc |-> "own", attempt |-> a]]

\* Attempts in the hands of some admission.
InHand == {op[o].attempt : o \in Owners} \cup {p.attempt : p \in UNION {permits[o] : o \in Owners}}

Init ==
    /\ pool = InitialPool
    /\ owner = [by |-> None, left |-> 0]
    /\ drift = 0
    /\ local = [o \in Owners |-> [fence |-> FALSE, left |-> 0]]
    /\ op = [o \in Owners |-> NoOp]
    /\ permits = [o \in Owners |-> {}]
    /\ backs = 0
    /\ crashes = 0

\* acquire, tryAcquire: an attempt is carried out by one admission at a time, and
\* may have been begun before a crash.
Acquire(o) ==
    /\ \E a \in Attempts \ InHand : Begin(o, "grant", a)
    /\ UNCHANGED <<control, local, permits, faults>>

\* ProviderAdmissionPermit.complete, and the cancellation of a fresh grant: once.
Complete(o) ==
    /\ \E p \in permits[o] :
          /\ Begin(o, "complete", p.attempt)
          /\ permits' = [permits EXCEPT ![o] = @ \ {p}]
    /\ UNCHANGED <<control, local, faults>>

\* settleRecoveredLease, cancelRecoveredLease: of an attempt nobody carries out.
Recover(o) ==
    /\ \E a \in Leased(pool) \ InHand : Begin(o, "settle", a)
    /\ UNCHANGED <<control, local, permits, faults>>

\* clearTimeFrozen, by an operator.
Thaw(o) ==
    /\ pool.frozen /= "no"
    /\ Begin(o, "thaw", None)
    /\ UNCHANGED <<control, local, permits, faults>>

-----------------------------------------------------------------------------
(* ensureOwner *)

OwnerNeeded(o) == IF At(o, "own_again") THEN Most(RenewalMs, CallLeaseMs) ELSE RenewalMs

\* Where the operation goes on once the file is owned.
Owned(o) ==
    IF At(o, "own_again") THEN "grant"
    ELSE IF op[o].kind = "grant" THEN "reclaim" ELSE op[o].kind

KeepOwner(o) ==
    /\ op[o].pc \in {"own", "own_again"}
    /\ local[o].fence /\ local[o].left > 0 /\ local[o].left >= OwnerNeeded(o)
    /\ Goto(o, Owned(o))
    /\ UNCHANGED <<control, local, permits, faults>>

\* renewProviderControlOwner, and the check of the fence after it, in one step.
RenewOwner(o) ==
    /\ op[o].pc \in {"own", "own_again"}
    /\ local[o].fence /\ local[o].left > 0 /\ local[o].left < OwnerNeeded(o)
    /\ IF HasFence(o) /\ drift >= 0
       THEN /\ owner' = [owner EXCEPT !.left = OwnerLeaseMs]
            /\ local' = [local EXCEPT ![o].left = OwnerLeaseMs]
            /\ Publish(pool, drift)
            /\ Goto(o, Owned(o))
       ELSE EndOp(o) /\ UNCHANGED <<control, local>>
    /\ UNCHANGED <<permits, faults>>

\* claimProviderControlOwner: the previous owner is not asked.
ClaimOwner(o) ==
    /\ op[o].pc \in {"own", "own_again"}
    /\ ~local[o].fence \/ local[o].left <= 0
    /\ IF drift >= 0
       THEN /\ owner' = [by |-> o, left |-> OwnerLeaseMs]
            /\ local' = [local EXCEPT ![o] = [fence |-> TRUE, left |-> OwnerLeaseMs]]
            /\ Publish([pool EXCEPT !.probe = None], 0)
            /\ op' = [op EXCEPT ![o].pc = IF @ = "own" THEN "claimed" ELSE "claimed_again"]
       ELSE /\ local' = [local EXCEPT ![o] = [fence |-> FALSE, left |-> 0]]
            /\ EndOp(o)
            /\ UNCHANGED control
    /\ UNCHANGED <<permits, faults>>

\* The claim's receipt is verified, and expired leases are reclaimed.
ReconcileLeases(o) ==
    /\ op[o].pc \in {"claimed", "claimed_again"}
    /\ IF HasFence(o) /\ (Pruned(pool) = pool \/ MayMutate(o))
       THEN /\ IF Pruned(pool) = pool THEN UNCHANGED <<pool, drift>>
               ELSE Publish(Pruned(pool), Observed)
            /\ Goto(o, IF At(o, "claimed_again") THEN "grant" ELSE Owned(o))
            /\ UNCHANGED local
       ELSE /\ \E fence \in {local[o], [fence |-> FALSE, left |-> 0]} :
                  local' = [local EXCEPT ![o] = fence]
            /\ EndOp(o)
            /\ UNCHANGED <<pool, drift>>
    /\ UNCHANGED <<owner, permits, faults>>

-----------------------------------------------------------------------------
(* tryGrantExclusive *)

\* freezeForClockRollback, or reclaimExpiredProviderLeases and a first look.
ReclaimExpired(o) ==
    /\ At(o, "reclaim")
    /\ IF ~MayMutate(o) THEN EndOp(o) /\ UNCHANGED <<pool, drift>>
       ELSE IF drift < 0
       THEN Publish([pool EXCEPT !.frozen = "clock"], drift) /\ EndOp(o)
       ELSE /\ IF Pruned(pool) = pool THEN UNCHANGED <<pool, drift>>
               ELSE Publish(Pruned(pool), Observed)
            /\ IF Blocked(Pruned(pool)) THEN EndOp(o) ELSE Goto(o, "own_again")
    /\ UNCHANGED <<owner, local, permits, faults>>

NewLease == [status |-> "active", left |-> CallLeaseMs, fresh |-> TRUE]

\* The lease must not outlive its owner.
Grant(o) ==
    /\ At(o, "grant")
    /\ IF \/ ~MayMutate(o) \/ drift < 0 \/ owner.left < CallLeaseMs
          \/ Blocked(pool)
          \/ op[o].attempt \in Leased(pool)
       THEN EndOp(o) /\ UNCHANGED <<pool, drift>>
       ELSE /\ Publish([pool EXCEPT !.lease[op[o].attempt] = NewLease,
                                    !.probe = IF pool.open THEN op[o].attempt ELSE @], 0)
            /\ Goto(o, "verify")
    /\ UNCHANGED <<owner, local, permits, faults>>

\* The permit is handed out when the receipt is still current.  Otherwise the
\* lease is looked up again and settled (reconcileGrantMutationFailure).
VerifyGrant(o) ==
    /\ At(o, "verify")
    /\ IF owner.by = o
       THEN /\ permits' = [permits EXCEPT ![o] = @ \cup
                  {[attempt |-> op[o].attempt, left |-> pool.lease[op[o].attempt].left]}]
            /\ EndOp(o)
       ELSE /\ IF op[o].attempt \in Leased(pool)
               THEN op' = [op EXCEPT ![o].kind = "settle", ![o].pc = "own"]
               ELSE EndOp(o)
            /\ UNCHANGED permits
    /\ UNCHANGED <<control, local, faults>>

-----------------------------------------------------------------------------
(* Completing, settling, thawing *)

\* A lease that is gone, or no longer active, stays as it is.
CompleteLease(o) ==
    /\ At(o, "complete")
    /\ EndOp(o)
    /\ IF ~MayMutate(o) THEN UNCHANGED <<pool, drift>>
       ELSE IF pool.lease[op[o].attempt].status /= "active" THEN Publish(pool, drift)
       ELSE \E outcome \in Outcomes, delay \in RetryAfters \cup {NoDelay} :
               Publish(Completed(pool, op[o].attempt, outcome, delay), Observed)
    /\ UNCHANGED <<owner, local, permits, faults>>

\* settleRecoveredProviderLease
SettleRecovered(o) ==
    /\ At(o, "settle")
    /\ EndOp(o)
    /\ IF MayMutate(o) /\ op[o].attempt \in Leased(pool)
       THEN Publish([Without(pool, {op[o].attempt})
                        EXCEPT !.probe = IF @ = op[o].attempt THEN None ELSE @], Observed)
       ELSE UNCHANGED <<pool, drift>>
    /\ UNCHANGED <<owner, local, permits, faults>>

\* clearProviderTimeFrozen
ClearTimeFrozen(o) ==
    /\ At(o, "thaw")
    /\ EndOp(o)
    /\ IF MayMutate(o) /\ drift >= 0 /\ pool.frozen /= "no"
       THEN Publish([pool EXCEPT !.frozen = "no"], 0)
       ELSE UNCHANGED <<pool, drift>>
    /\ UNCHANGED <<owner, local, permits, faults>>

-----------------------------------------------------------------------------
(* maintainExpiredUncertainProviderLease: by an operator, while nobody owns the *)
(* file.  It takes the file over and gives it back in two writes under the lock. *)

Maintain ==
    /\ owner.left <= 0 /\ drift >= 0
    /\ \E a \in Leased(pool) :
          /\ pool.lease[a].status = "uncertain" /\ pool.lease[a].left <= 0
          /\ pool' = [Without(pool, {a}) EXCEPT !.probe = IF @ = a THEN None ELSE @]
    /\ owner' = [by |-> None, left |-> 0]
    /\ UNCHANGED <<drift, local, op, permits, faults>>

-----------------------------------------------------------------------------
(* Time and failures. *)

\* What has passed is only remembered for as long as a clock may be set back.
Later(left) == Most(left - 1, -MaxBack)

Shift(move(_)) ==
    /\ owner' = [owner EXCEPT !.left = move(@)]
    /\ local' = [o \in Owners |-> [local[o] EXCEPT !.left = IF local[o].fence THEN move(@) ELSE 0]]
    /\ pool' = [pool EXCEPT
                  !.openLeft = IF pool.open THEN move(@) ELSE 0,
                  !.lease = [a \in Attempts |->
                               IF a \in Leased(pool)
                               THEN [pool.lease[a] EXCEPT !.left = move(pool.lease[a].left)]
                               ELSE pool.lease[a]]]

Tick ==
    /\ Shift(Later)
    /\ drift' = Least(drift + 1, MaxBack)
    /\ permits' = [o \in Owners |-> {[p EXCEPT !.left = Most(@ - 1, 0)] : p \in permits[o]}]
    /\ UNCHANGED <<op, faults>>

\* The wall clock is set back.
ClockBack ==
    /\ backs < MaxBacks
    /\ LET Earlier(left) == left + MaxBack IN Shift(Earlier)
    /\ drift' = drift - MaxBack
    /\ backs' = backs + 1
    /\ UNCHANGED <<op, permits, crashes>>

Crash(o) ==
    /\ crashes < MaxCrashes
    /\ crashes' = crashes + 1
    /\ local' = [local EXCEPT ![o] = [fence |-> FALSE, left |-> 0]]
    /\ EndOp(o)
    /\ permits' = [permits EXCEPT ![o] = {}]
    /\ UNCHANGED <<control, backs>>

Works(o) ==
    \/ KeepOwner(o) \/ RenewOwner(o) \/ ClaimOwner(o) \/ ReconcileLeases(o)
    \/ ReclaimExpired(o) \/ Grant(o) \/ VerifyGrant(o)
    \/ CompleteLease(o) \/ SettleRecovered(o) \/ ClearTimeFrozen(o)

Next ==
    \/ \E o \in Owners :
          Acquire(o) \/ Complete(o) \/ Recover(o) \/ Thaw(o) \/ Works(o) \/ Crash(o)
    \/ Maintain
    \/ Tick
    \/ ClockBack

Spec == Init /\ [][Next]_vars

-----------------------------------------------------------------------------
(* Properties. *)

\* The control file and the admissions have the shape the source gives them.
TypeOK ==
    /\ pool.limit \in 1..PhysicalMax /\ pool.credits \in 0..PhysicalMax
    /\ pool.lease \in [Attempts -> [status : {"none", "active", "uncertain"},
                                    left : Int, fresh : BOOLEAN]]
    /\ pool.open \in BOOLEAN /\ pool.openLeft \in -MaxBack..(MaxOpenMs + MaxBack * MaxBacks)
    /\ pool.failures \in Nat /\ pool.backoff \in 0..(Len(FailureBudgets) - 1)
    /\ pool.probe \in Attempts \cup {None} /\ pool.frozen \in {"no", "capacity", "clock"}
    /\ owner.by \in Owners \cup {None}
    /\ \A o \in Owners : op[o].attempt \in Attempts \cup {None}

\* A permit in hand is a slot taken: until its lease has run out, no takeover,
\* reclaim, failed grant, crash of another process or clock set back gives its
\* slot to somebody else.
PermitHoldsSlot ==
    \A o \in Owners : \A p \in permits[o] :
        p.left > 0 => pool.lease[p.attempt].status = "active"

\* Only an operator lifts the freeze of a clock that was set back.
ClockFreezeStays ==
    [][pool.frozen = "clock" /\ pool'.frozen /= "clock"
          => \E o \in Owners : op[o].kind = "thaw"]_vars

=============================================================================
