# Formal model of the memory-store Record pipeline

TLA+ modules, TLC runs and TLAPS proofs for the part of this repository in which
several processes share files and must not overwrite each other: the way
`mcps/memory-store` decides who may produce and publish the *Record* (summary) of
a conversation, and how it gets the model calls for it made: each at most once, on
slots shared with other processes, through crashes between any two writes.

`PROJECT.json` lists the components, the runs, the source lines behind every
definition, the hazards and the theorems. Paths below are relative to
`src/mcps/memory-store/src/` unless they say otherwise.

## 1. Inventory

### The Record system of memory-store

| Component | State | Operations | Hard behaviour | What makes it correct |
|---|---|---|---|---|
| Work registry (`record-work-registry.ts`) | one JSON document per conversation: `registryRevision`, epoch and token cursors, one entry per desired revision (tasks, lease, publication claim, history) | start/attach, detach, acquire/renew, recover, advance, rollover, claim, publish under a claim, manual edit or delete | holders that pause and wake up with an old fence; takeovers by a later scheduler epoch; manual edits in the middle of a publication | a fence refused once is refused forever; one publisher per epoch; artifacts move forward only; the document stays loadable |
| Registry files (same file) | identity manifest, registry file | initialize, create, load, save, recover the first creation | death between the two writes, lost files, restored copies | the files behave as one versioned document |
| Registry file lock (same file, 1097–1563) | lock file, heartbeat, reclaim barrier | acquire, heartbeat, reclaim, release | two processes reclaiming the same stale lock; processes that stop between a look and what follows | mutual exclusion; a dead owner's lock makes way |
| Commit protocol (`record-commit-protocol.ts`) | commit ledger: stage, lifecycle, intent, before-images, repair state | create, advanceOnce, recover, cancel, cleanup, discardLateResult | pump and control on one ledger; crashes between any two awaits | Cancelled leaves nothing behind; Verified is visible; a commit nobody stops gets verified |
| Commit storage adapter (`record-commit-storage-adapter.ts`, `record-store.ts`, `record-update-coordination.ts`) | protocol ledger file, artifacts and sidecars, an in-memory map of reused publications | initialize, authority check, compare-and-swap, claim preparation, conditional write, conditional restore | check under one lock, use under another; memory lost in a restart | no write without authority; nobody else's artifact replaced |
| Scheduler control (`record-scheduler-control.ts`) | the task's cancellation state | cancelSingleFlight: request, cancel exclusive commits, detach | bounded retries against a moving registry | cancellation converges and reports truthfully |
| Scheduler execution driver (`record-scheduler-execution-driver.ts`) | none of its own | commit a finalized Record, bind outputs, dispatch attempts | cancellation checked before and after opening the adapter | every finalized Record is committed or given up explicitly |
| Scheduler ledger store (`record-scheduler-store.ts`, `-contracts.ts`) | scheduler ledger: tasks, units, attempts, commits, owner lease | compare-and-swap, takeover of the owner lease | stale owners, interrupted saves | one owner at a time; legal state transitions only |
| Coordinator, queue, fairness (`record-scheduler-coordinator*.ts`, `-queue.ts`, `-fairness.ts`) | claims in a snapshot file, queue heads, fairness cursors | step, bind, settle, rebuild | starvation; claims that contradict the ledger after a crash | a claim belongs to one dispatched attempt; every task is picked |
| Production pump (`record-scheduler-production-pump.ts`) and runtime | pending and running attempts in memory; units and attempts in the ledger | submit, drain, dispatch, call, settle, recover | three stores written one after the other; sessions opened beside calls in flight; lost wake-ups | an attempt is called at most once; the ledger tells what happened; every unit ends |
| Admission and spool (`record-scheduler-admission.ts`, `-spool.ts`) | capsules, content-addressed objects | admit, seal, read, collect | collection of an object about to be referenced | what is referenced exists |
| Provider admission (`provider-admission.ts`, `provider-control-*.ts`) | one control file: owner lease, leases on providers, limit, breaker, freezes; in memory a queue with two lanes | claim and renew the file, grant, complete, reclaim, recover, thaw; acquire, tryAcquire, cancel, pump, close | the file is taken over between two steps; clock set back; cancellation in the middle of a grant | a permit keeps its slot; nobody is forgotten or overtaken |
| Background tasks (`background-tasks.ts`, `-recovery.ts`, `-suspension.ts`) | task table, persisted snapshot | submit, cancel, suspend, recover | restart in the middle of a task | one terminal state per task |
| Record generation and reading, conversation sources | – | text processing, model calls, reading other programs' files | – | out of scope |

How they interact. The *pump* picks a task from the scheduler ledger, attaches it
to a work of the registry, leases the work, generates the Record, and then opens a
storage adapter and walks a commit through its stages. Every step asks the registry
for authority, and the registry answers by comparing lease, epoch, token and
attachment; the scheduler ledger keeps the `registryRevision` the answer is valid
for. The *control* cancels a task from another call: it detaches the task in the
registry and cleans up its commits, possibly while the pump is in the middle of
one. A user who edits or deletes a Record by hand fences off whoever holds the lease.
All of them meet in files only. For each model call the pump asks the process's
*provider admission* for a lease, which that takes from the control file shared by
all processes, and records attempt and claim before and after the call.

### The rest of the repository

`mcps/broker` (HTTP front of stdio servers), `mcps/sandbox` (a scheduler of its own),
`mcps/napcat-mcp`, `mcps/wechat-docs-mcp`, `mcps/web-fetcher`, `mcps/mcp-subagent`,
and the installation scripts, rules, skills and templates are separate programs or
texts. None is modelled; `PROJECT.json` gives the reason for each.

## 2. Modules

| Module | What it is |
|---|---|
| `RecordWorkRegistry` | the registry document and every operation on it |
| `RecordWorkRegistryStore` | abstract specification: one versioned document that may be unavailable |
| `RecordWorkRegistryFiles` | the two files behind the document, and their faults |
| `RecordCommitProtocol` | one commit, worked on by a pump and a control |
| `RecordWorkRegistryLock` | the lock file, its heartbeat and the reclaim barrier |
| `ProviderControlStore` | the provider control file and the processes that share it |
| `ProviderAdmission` | the queue of one process in front of that file |
| `RecordSchedulerDispatch` | the production pump: units, attempts, claims and leases |
| `…Proofs` | theorems about the module of that name (section 5) |
| `MC…` | instances for TLC |

The modules meet as follows. `RecordWorkRegistry` treats a call as one
step, which is sound if the document is a single versioned store behind a lock;
`RecordWorkRegistryFiles` shows that the two files are such a store, given the lock.
Both are tied to `RecordWorkRegistryStore`: the files implement it
(`ImplementsStore`), and the registry's operations are steps of it
(`RevisionGuardsDocument`). `RecordCommitProtocol` sees the registry only through
what it answers to one binding. That a lost fence never comes back (`LoseFence` is
for good) is what `FencedForever` shows; that until then tasks join and leave one at a
time and the first claim stands is `HonouredWorkIsStable`.
`RecordWorkRegistryLock` is the lock the two registry modules assume.
`RecordSchedulerDispatch` sees providers through leases that are granted, completed,
lost or expire; that such a lease is a slot nobody else gets is `PermitHoldsSlot` of
`ProviderControlStore`, and that a process's own requests are served in turn is what
`ProviderAdmission` shows.

### RecordWorkRegistry

One action per exported mutation. `works` is the `works` array indexed by desired
revision, since `recordWorkKey` is a hash of one; an entry that is not there has
state `Absent`. A caller is not a process of the model: `granted` holds every fence
that was ever returned, and any of them may be presented at any time, which covers
every way a caller can be slow, paused, restarted or duplicated. `artifact` and
`published` record who wrote the visible Record under
`withRecordWorkPublicationAuthority` or `withRecordWorkManualMutationAuthority`.

One thing is modelled of the callers, since the registry relies on it.
`claimRecordWorkPublication` does not look for the commit in `publicationHistory`, and a
commit id is a hash of task, work, unit and attempt, not of the epoch
(`record-scheduler-production-pump.ts:3104`, `record-scheduler-execution-driver.ts:799`).
What keeps a commit from claiming in a second epoch is its task's scheduler ledger:
`ledger` holds, of a task and a work, the epoch in which the ledger has units, attempts or
commits of the work. `synchronizeSchedulerWorkFromRegistry` refuses another epoch from then
on (`MayFollow`), and a claim is made only with a fence of the ledger's epoch
(`commitAuthorityInput`, here `InLedger`). `EnsureUnit` is `ensureRecordWork` together with
the first unit (`ensureModelUnit`, `ensureLocalFinalizeAttempt`, or the driver's), with any
fence that was ever returned. The driver and the pump make the same checks.

Time moves forward. `nowMs` is read before the caller waits for the lock, so an
operation may work with a reading that lags (`Now`), by less than a lease.

A refused call, or a failed compare-and-swap, saves nothing and is a stuttering
step. The revision is not a parameter of the actions: a call that passes the
compare-and-swap sees the current document, and the others have no effect.

### RecordWorkRegistryFiles

A save writes the manifest, which names the new document by hash, and then the
registry file. `Interrupt` is a crash or a failing second write; `TamperRegistry`
loses the registry file or puts an earlier copy back. SHA-256 is taken as injective,
and the replacement of one file as atomic (a temporary file and a rename).

### RecordCommitProtocol

The ledger of one commit, the three artifacts it publishes (body, main index, reader
index), and two callers with a program counter each.

- A step ends at an await after which something the other caller changed can
  matter. Guards that only read and follow each other directly are merged, as are
  the scheduler revision check and the registry check of one authority question.
- `artifact[a]` is who wrote the artifact: what was there `before`, `mine`, or
  somebody `other`. The content is not needed: the code decides by the
  `ownerCommitId` and hash of the artifact image.
- `seen` is who knows the newest `registryRevision`. Every registry change resets
  it; the code's staleness checks compare exactly that.
- The winner, another task that publishes first, comes either before the start
  (`InitialClaims`) or in the middle (`OtherClaims`, `OtherPublishes`). Its result
  may be content-equal to this commit's, which the adapter then reuses, or not.
  The winner itself is not cancelled.
- `ControlDetaches` is allowed whenever another task may share the work; the code's
  ownership mode is finer. The model therefore has more behaviours than the code
  here, which is safe for the invariants.

### RecordWorkRegistryLock

File operation by file operation: exclusive creation, the writes through the
creator's handle, rename, link back, unlink. A file is a token that lives on under
whatever path it is renamed to. Every look at a path and the act that follows it are
two steps, as in the code.

No protocol of this kind excludes if a process may stop for any length of time between
a look and the act it justifies, and the code does not claim so. `MayStopAt` names the
places where a process may stop for any length of time; from one such place to the
next it gets within `GraceMs`, which is `heartbeatMs`. The run lets processes stop
before the barrier, before they inspect the lock, and while they hold it (a slow
operation, a suspended laptop). Beyond that there is one fault: a process dies, a write
fails, or a process is late anywhere but between its last check and a protected write
(`Delay`). Section 4 says what two faults can do.

### ProviderControlStore

One action per step of a control operation: making sure of the file's ownership
(`KeepOwner`, `RenewOwner`, `ClaimOwner`, `ReconcileLeases`), reclaiming, granting,
verifying the receipt, completing, settling, thawing. Each store operation runs
under the file's lock and is one step; another admission may claim the file
between any two. Times are kept as what is left until them, and `drift` as how far the
clock is ahead of `lastObservedWallClockMs`, so that the model needs no absolute clock;
`ClockBack` sets the clock back. `Completed` is the whole of
`completeLeaseExclusive`: additive increase, halving, breaker, probe and freeze.

### ProviderAdmission

One process, interleaved at awaits. `tail` is `controlTail`, the promise chain every
control operation queues up in; a pump puts one operation at a time into it. `pumping`
and `waiters` are the pump that runs and the calls of `pump()` that await it: each pumps
once more when it is their turn. The history variables `passed` and `before` observe
who was served before whom.

### RecordSchedulerDispatch

Three stores: the ledger (`task`, `unit`, `attempt`), the coordinator snapshot (`store`)
and the provider's leases (`lease`). `job` is the head of `coordinatorMutationTail`:
everything that touches the coordinator is serialized there, opens a session first
(`openCoordinatorSession`, which reconciles the claims of an earlier life), and takes one
step per write. Submissions and provider calls run beside the chain.

- `SubmitOpens`, `DrainOpens` and `SettleOpens` take the next job; which of the waiting
  ones is not fixed, which includes the order of the promise chain.
- A coordinator write that fails leaves the old or the new bytes (`Fails`), since the
  file may have been replaced before the error.
- A call that throws leaves its lease *uncertain*, and its attempt is an
  `UnknownOutcome`: it is not called again, and after the grace period a new attempt
  is made if the retry budget allows.
- An attempt is bound once, to the claim and the lease made for it, so the identities
  the code compares (claim id, permit id, dispatch sequence, lease) are the attempt's.
- One route with one provider per unit; congestion is then the only failure that is
  retried.
- A crash may fall between any two steps. Settling a recovered lease and writing the
  ledger are one step; dying between them is as if the lease had expired.

## 3. Runs

| Run | Expected | States | What it shows |
|---|---|---|---|
| `registry` | pass | 1,069,774 | no stale holder gets back in; an honoured one keeps its claim; tokens unique; one publisher per epoch; artifacts only move forward; every saved document can be loaded |
| `registry_files` | pass | 5,569 | the files implement one versioned document; an interrupted creation gets completed when the caller passes one clock value |
| `registry_files_unpinned` | violation | – | the same creation, called as the production pump calls it, can stay incomplete for ever |
| `commit_protocol` | pass | 2,158,215 | Cancelled and Verified mean what they say; no publication after cancellation; nobody else's artifact replaced |
| `commit_recovery` | pass | 875 | a commit nobody cancels or fences off gets verified, wherever up to four crashes fall |
| `commit_reuse` | violation | – | the same for a commit that reuses a winner's publication fails |
| `commit_readable` | violation | – | a stored ledger can become unreadable |
| `registry_lock` | pass | 541,099 | two processes never write under the lock at the same time; a lock left by a dead process makes way |
| `provider_control` | pass | 4,233,305 | a permit in hand keeps its slot until its lease has run out, through takeovers, crashes and a clock set back; only an operator lifts a clock freeze |
| `provider_admission` | pass | 337,713 | no request's lease lost or given to who cancelled; order within a lane; record gets its turn; every queued request answered and closing ends, unless a recovery waits for the pump or expiring leases of others fill the slots (section 4); a closed admission leaves nothing |
| `dispatch` | pass | 2,565,449 | no attempt called twice; recorded outcomes are true; calls in flight undisturbed; leases accounted for; repair only after a fault |
| `dispatch_liveness` | pass | 290,339 | every unit ends, wherever the process dies |

Every property of a passing run has a mutant in `PROJECT.json`: a plausible slip in
one mapped definition under which TLC finds the property violated. The mutated
forms stand next to the definitions they replace, under a comment `Mutant:`.

### Bounds

- `registry`: two revisions, so that a work can be superseded and come back; two
  tasks; two owners in two scheduler epochs, so that a lease can be taken over by a
  stranger or by the same owner's next life; three commits, two of them on one
  revision, so that two compete for a claim. `MaxRevision = 7` allows six saves:
  start, lease, claim, rollover or fence, lease again, claim again. `LeaseMs = 2` and
  `MaxClock = 2` let a lease expire and an operation work with a late reading. Nothing
  compares owners but for equality, so TLC takes them up to symmetry. The
  safety properties of this and the other runs are also proved without these bounds;
  only `ExclusiveWrites` keeps two of them, two processes and one fault (section 5).
- `registry_files`: three callers, two of which share a `firstPublicationToken`, as
  a restarted task and its predecessor do; three revisions cover the creation and
  two ordinary saves; three faults allow an interruption, a loss and a restored copy
  in any order.
- `commit_protocol`: pump and control, one other task, one joining, one crash, one
  lost fence, all of it at any point. Stages, artifacts and cleanup effects have
  their real number. More joins or crashes repeat what one does: a crash resets one
  caller's locals, a joining resets `seen` and stops a cleanup.
- `commit_recovery`: nothing but crashes; four are enough for one in several
  different stages.
- `registry_lock`: two processes, since the file lock is decided between an owner and
  a reclaimer; one crash, delay or failing write at any point; a lease of two ticks and a
  grace of one, so that a heartbeat can be in time, late within the grace, or too late.
  Files are reused once nobody knows them; eleven are one more than two processes can
  know of.
- `provider_control`: two admissions with two attempts on two slots; the limit can
  be halved to one and grow back; a call lease as long as an owner lease, so that
  granting needs a renewal and owners change while calls run; one clock step back, one crash; one failure opens the
  breaker (`BREAKER_FAILURE_BUDGETS` shortened to its last entry); a provider may ask for
  a delay.
- `provider_admission`: two callers per lane, one of them without queueing, on two slots;
  callers come back, so the order of service is checked over any number of rounds. One
  cancellation, one refused operation, one opening of the breaker. Calls of `pump()`
  that wait beyond the first (`MaxWaiters`) are dropped: they would find what the first
  one finds.
- `dispatch`: two units, so that one's sessions meet the other's call, with one retry
  each; one lease at a time, so that units are denied and suspended (two calls still
  overlap when a lease runs out during its call); one crash; two failures, since
  `failClosedPreInvokeRepair` is reached only by a second one. `dispatch_liveness` is the
  same without failing writes.

Deadlock is not checked where a bound (revisions, crashes) or a terminal state ends
the behaviour: an admission that is closed, a task whose units have all ended.

### Fairness

- `RecordWorkRegistryFiles`: weak fairness of `WriteRegistry` (a call that is under
  way goes on), and of `Initialize`, `Create` and `RecoverCreation` for each caller,
  since each scheduling of a task calls `ensureRecordWork`, which makes these calls.
  Mutations and faults are not fair.
- `RecordCommitProtocol`: weak fairness of each caller's steps. A process that runs
  goes on, and after a crash the scheduler runs an unfinished task again
  (`PumpStarts`). Nothing that others do is fair. That a cancellation finishes is not
  claimed: `cancelSingleFlight` retries a bounded number of times
  (`MAX_CAS_RETRIES`), so the code does not promise it.
- `RecordWorkRegistryLock`: weak fairness of time and of each process's steps, the start
  of another call included: every scheduled task of the conversation uses the registry.
- `ProviderAdmission`: weak fairness of operations on the file, of timers, of expiry and
  of completing calls (the transport has a timeout). Callers, failures and closing are
  not fair.
- `RecordSchedulerDispatch`: the chain goes on, and since it is first in, first out no job
  waits for ever (strong fairness of opening each). Calls end by answer or timeout, and
  leases, which nobody renews, run out. A suspended unit is submitted again: the runtime
  gives every suspension a wake time (`PROVIDER_BLOCKED_WAKE_MS`, the end of the grace
  period, `nextEligibleAt`). Crashes and failures are not fair.

## 4. Findings

1. **An interrupted registry creation may never be completed**
   (`record-work-registry.ts:1806–1807`, run `registry_files_unpinned`). The
   registry's `createdAt` and the manifest's `updatedAt` come from two readings of
   the clock unless the caller passes `nowMs`. The recovery rebuilds the registry
   from `updatedAt` and compares hashes, so it fails when the readings differ. The
   test of the recovery passes `nowMs`; the production pump does not.
2. **A reused publication is forgotten in a restart**
   (`record-commit-storage-adapter.ts:1249`, run `commit_reuse`). That a winner's
   content-equal publication counts as the commit's own is kept in a map of the
   adapter. If the process restarts when only the verify stage is left, nothing fills
   the map again, verification sees a foreign owner, and the commit ends in repair.
3. **A settled ledger may get a repair state** (`record-commit-protocol.ts:1411`,
   run `commit_readable`). If the pump's write fails because the control has just
   cancelled the commit, `markRepair` adds a `repairState` to a `Cancelled` ledger. The
   adapter stores it, and `validateRecordCommitLedger` refuses it from then on.

### Beyond the listed runs

The following showed on other instances of the same modules, with other constants or
an exception removed. They concern rare schedules.

- **Lock, cleanup** (`record-work-registry.ts:1207–1210`). With
  `MaxFaults = 2`, a write fails, the cleanup is late, and between its look at the path and
  its unlink another process reclaims the empty file and creates its own lock, which the
  unlink removes: `ExclusiveWrites` fails. `tests/record-work-registry.test.ts:943` says that
  a failed acquisition must never delete a new owner's lock.
- **A commit claimed twice** (`record-work-registry.ts:2324`). The registry alone does not
  prevent it: a claim, a forced rollover and a claim of the same commit id save a document
  in which the commit is in the history and claims, which `validateWorkEntry` (864, 868)
  refuses at the next load. With callers that do not keep to their ledger's epoch (the mutant
  `FollowsWithUnits`) TLC finds it. Driver (1656–1662) and pump (3753–3762) do keep to it,
  so that no run of the program reaches it.
- **Lock, rename** (`record-work-registry.ts:1387`). A reclaimer that stops past its barrier's
  lease renames a living lock and dies before putting it back (`"verify"` in `MayStopAt`).
- **Lock, barrier** (`record-work-registry.ts:1300`). With three processes, after a
  reclaimer has died, two retire its barrier; the second renames the living barrier of the
  first, and two processes may end up holding the lock. The tests at :1132 and :1180
  exclude this for the schedules they build.
- **Lock, heartbeat** (`record-work-registry.ts:1449`). A heartbeat that stops for longer
  than the grace period between its look and its write (`"heartbeat"` in `MayStopAt`),
  while another process dies, can revive a lock file that a reclaimer has looked at.
- **Two probes** (`provider-admission.ts:743`). Every outcome clears the breaker's
  `probeLease`, also that of a call granted before the breaker opened. If such a call ends
  while the probe runs, a second probe is granted.
- **A freeze that stays** (`provider-control-store.ts:1893`). `refreshCapacityFrozen` runs when
  a lease completes. If congestion freezes the pool over its halved limit and the
  remaining leases expire, they are pruned and the freeze stays, although it is marked
  `requiresManualClear: false` (`provider-admission.ts:1226`).
- **Recovery waits for itself** (`provider-admission.ts:407`). `settleRecoveredLease` awaits
  `pump()` inside its control operation. With a request queued, the pump's operation waits
  in `controlTail` behind the one that waits for it. This is the exception in
  `QueuedIsServed` and `CloseTerminates` (`stage = "pumps"`); without it both fail.
- **Expiry wakes nobody** (`provider-admission.ts:541`). With `InitStrays = Slots`, a request
  queued behind the leases of a dead process stays queued after these have expired, until
  somebody else calls. The run has `InitStrays = 0` and `MaxFailures < Slots`, so that
  `QueuedIsServed` holds there: it shows that no call of the pump is forgotten elsewhere,
  and neither this nor the wait above.
- **Dispatch, crash windows that end in repair.** A death between the ledger's and the
  coordinator's write of a binding, or between a recorded failure or unknown outcome and
  the removal of its claim, leaves the two stores in disagreement, and the next session
  marks the task `RepairRequired` (`record-scheduler-production-pump.ts:2480–2553`). This is
  fail-closed and by design; it is why `UnitsEnd` has repair among its outcomes.
- **Dispatch, a drain that ends early.** A unit that begins to wait while
  `suspendDispatchablePending` (1219–1254) reads the ledger is left without a drain until a
  suspended one comes back; a failed grant write (1735–1771) ends the drain for
  everybody who waits. Both heal with the next submission; `UnitsEnd` shows it for the
  first.
- **Dispatch, a lease left behind.** `settlePreInvokeFailure` (1535–1554) records the failure
  before it releases the lease. A death between the two leaves an active lease that only
  expiry takes back: the exception in `LeaseIsAccountedFor`.

## 5. Proofs

Each module has its theorems in a module of its own: the name, then `Proofs`. They hold for every
choice of the constants that satisfies the module's named `ASSUME`, of which TLC
evaluates the instance of every run. They rest on inductive invariants. `FencingInv` and
`PublicationInv` are invariants of the run `registry`; TLC has checked the others too, on
the instances of these runs:

| Invariant | Run's instance | Distinct states |
|---|---|---|
| `DocumentInv` | `registry` | 1,069,774 |
| `FilesInv` | `registry_files`, and with `PinnedClock = FALSE` | 5,569 and 5,621 |
| `TypeInv`, `CalmUntilFault` | `registry_lock`; three processes and no faults (up to symmetry) | 541,099 and 2,174,512 |
| `ShakenByOneFault` | `registry_lock`; processes also stopping at other places `StopsNowhereElse` allows | 541,099 and 1,481,214 |
| `CommitInv` | `commit_protocol` | 2,158,215 |
| `ProviderInv` | `provider_control` | 4,233,305 |
| `AdmissionInv` | `provider_admission`, and a fifth caller with a second cancellation | 337,713 and 4,090,362 |
| `DispatchInv` | `dispatch` | 2,565,449 |

### RecordWorkRegistry

Assumed: a positive lease, positive scheduler epochs, every commit with one revision and
one task, `"none"` not an owner or a commit.

| Theorem | States |
|---|---|
| `TypeCorrect` | `Spec => []TypeOK` |
| `FencingInvariant` | `Spec => []FencingInv` |
| `TokensAreUnique` | `Spec => []TokenNamesOneLease` |
| `FencedGrantsStayFenced` | `Spec => FencedForever` |
| `HonouredWorksAreStable` | `Spec => HonouredWorkIsStable` |
| `PublicationInvariant` | `Spec => []PublicationInv` |
| `OneCommitPublishes` | `Spec => []OnePublisherPerEpoch` |
| `ArtifactsMoveForward` | `Spec => VisibleNeverRegresses` |
| `DocumentInvariant` | `Spec => []DocumentInv` |
| `SavedRegistryIsValid` | `Spec => []PersistedRegistryValid` |
| `RevisionCountsChanges` | `Spec => RevisionGuardsDocument` |

**Fencing.** `TokenNamesOneLease` alone is not inductive: it speaks of grants, and
new grants are made from works. `FencingInv` adds that no token lies past the cursor,
that whoever holds a lease was granted it, and that of all scheduler epochs a token
was granted in the holder's is the latest. Each step is then one of three kinds, and
`StepKinds` puts every action into one: it grants nothing and gives no work a lease
it did not have (*quiet*), it *issues* a lease under a fresh token, or it *passes on*
a lease to a later scheduler epoch under the token it has. One lemma per kind
shows that the invariant is kept and that a grant the registry has stopped
honouring is not honoured again.

**Honoured works.** For a commit whose binding is honoured before and after a step,
`HonouredWorkIsStable` says what the step can have done to the work: nothing, one task
more or less, or the first claim, by an attached task under the commit's own grant. The proof
follows the actions. Those that withdraw a claim also issue a fresh token, which matches no
grant, by `FencingInv`; recovery rewrites a claim only for a new owner or scheduler epoch, and
starting a work leaves the others superseded, so that the grant is not honoured
afterwards; the others change one thing. This
is the registry's side of what `RecordCommitProtocol` assumes of `attached` and `claim`.

**Publication.** `OnePublisherPerEpoch` speaks of the past, so the invariant must tie
it to the present: a work that is still in an epoch somebody published in holds that
commit's claim (`ClaimOutlivesPublication`), epochs come from the cursor and belong
to one work, one work is active, and the visible artifact is older than the present
lease, strictly if a user wrote it. `DocumentMoves` describes what every
operation but `Publish` may do to a work (keep its epoch and a claim that is there,
or move it to a fresh epoch); `DocumentKinds` shows that each operation does just
that, `DocumentMovesInv` that this keeps the invariant, and `PublishKeepsInv` deals
with publication itself.

**The saved document.** Most of what `validateRegistry` asks for is kept by each operation
for itself. Two clauses are not. A lease must end after it began, also when `renew` works
with a time that was read before the lock: it does, because that time lags the clock by less
than a lease, so `acquiredAt <= clock < now + LeaseMs`. And no commit may be retired
twice: every claim, held or retired, is of the epoch that the ledger of the commit's task
has of the work, this epoch never changes once it is there (`LedgerKeepsEpoch`), and the
epochs in the history are all below the work's. So a commit that claims is not in the
history, although the registry does not look. `DocumentInv` states both, with the types and
the two invariants above as hypotheses of its step. `RevisionGuardsDocument` needs no invariant: every action is a
step of the store or leaves the document alone.

### RecordWorkRegistryFiles

Assumed: no content is called `"initial"`; the bounds are numbers.

| Theorem | States |
|---|---|
| `FilesInvariant` | `Spec => []FilesInv` |
| `TypeCorrect` | `Spec => []TypeOK` |
| `FilesImplementStore` | `Spec => ImplementsStore` |

The refinement, for any callers, contents and faults, pinned clock or not. The mapping
(`Newest`, `Available`) rests on the manifest: outside a save the newest version is the
one it names, whatever is in the registry file (`NewestIsNamed`); during a save it names
the version being written, one revision above the one that callers know (`SavingOK`). Every
step is then one of three: nothing is seen of it, the newest document becomes available or
unavailable (`Flips`), or a save ends and there is one more revision (`Decides`), available if
the registry file was written and unavailable if the save stopped half way.

### RecordWorkRegistryLock

Assumed: `LeaseMs > GraceMs > 0`, `BarrierLeaseMs >= LeaseMs`, and enough tokens: more
than four for each process and two, which is how many can be known at a time
(`randomUUID` never repeats one).

| Theorem | States |
|---|---|
| `TypeCorrect` | `Spec => []TypeOK` |
| `ExclusiveUntilFault` | `StopsWhereItMay => (Spec => [](faults = 0 => ExclusiveWrites))` |
| `ExclusiveForTwo` | `StopsNowhereElse /\ AtMostTwo => (Spec => [](faults <= 1 => ExclusiveWrites))` |
| `ExclusiveWithOneFault` | `StopsNowhereElse /\ AtMostTwo /\ MaxFaults <= 1 => (Spec => []ExclusiveWrites)` |

With three processes, or two faults, `ExclusiveWrites` is false (section 4).

**No fault.** With any number of processes and any leases, whatever
stops where a process waits for the lock, looks at it or holds it, writes exclude each
other until a process dies, is delayed or fails to write. `StopsWhereItMay` says that
the places where processes stop at will are none of those where the source relies on a
lease it has looked at (`MustGoOn`); the run's `MayStopAt` satisfies it.
The argument (`Calm`): a file that may be reclaimed is spent for good, since its owner
finds the lease over and writes no more. A process that acts on a look at its lease does
so within the grace period, so its file is not spent, and a file that is not spent is
at the lock path. The barrier of a reclaimer outlasts its work, so there is one
reclaimer at a time, and what it renames is the spent file it has seen. Each clause is
a race between two clocks, and is stated as one: what is left of the lease plus
how late the process is.

**One fault, two processes.** A delay makes most of `Calm` false: a reclaimer may wake up
with its barrier expired and a living lock in place, and take that lock away. `Shaken`
keeps what two processes do not lose. A process about to act on the lock path
(`checked`, `unlink`) has its own file there, or the other process has that file in
its hands and the path is empty (`Kept`). In the second case the other creates nothing, finds
on its look after the rename that the lock is alive, and puts it back. Neither the barrier nor
the look before the rename is used. A lease that was written may be one `GraceMs` shorter than
`Calm` promises, which is still enough for the owner's last check. The step of the fault itself starts from
`Calm`, so `IInv` is `TypeInv`, `CalmUntilFault` and `ShakenByOneFault` together.
`StopsNowhereElse` adds to `StopsWhereItMay` the two places where a failed acquisition
removes its file (`cleanup`, `unlink`); the run's `MayStopAt` satisfies it too.
`ExclusiveWithOneFault` is the run's own invariant for any leases.

### RecordCommitProtocol

Assumed: the task is not one of the others; bounds are numbers.

| Theorem | States |
|---|---|
| `CommitInvariant` | `Spec => []CommitInv` |
| `TypeCorrect` | `Spec => []TypeOK` |
| `CancelledLeavesNothing` | `Spec => []CancelledIsUndone` |
| `VerifiedStaysVisible` | `Spec => []VerifiedIsVisible` |
| `NothingPublishedAfterCancel` | `Spec => NoPublicationAfterCancel` |
| `ForeignArtifactsStay` | `Spec => ForeignArtifactsKept` |

Pump and control work on one ledger without a lock between them; the registry keeps them
apart. Whoever cleans up has seen the task detached, and from then on a pump that is
still publishing has lost its authority for good (`RetreatOK`). Before-images hold nothing
of the commit's own and nothing that anybody replaces (`GoodImages`), so restoring them
undoes the commit and nothing else; and a caller's place in its procedure tells which
stage and lifecycle the ledger has reached (`CallerOK`).

### ProviderControlStore

Assumed: positive limits and durations, a call lease no longer than the owner's. That `2^n`
is a natural number is an assumption too (`PowersAssumption`), since no prover here
interprets exponentiation; TLC evaluates it.

| Theorem | States |
|---|---|
| `ProviderInvariant` | `Spec => []ProviderInv` |
| `TypeCorrect` | `Spec => []TypeOK` |
| `PermitsHoldSlots` | `Spec => []PermitHoldsSlot` |
| `OnlyOperatorThaws` | `Spec => ClockFreezeStays` |

A permit holds its slot because an attempt is in the hands of one admission at a time
(`Unique`), and because a permit runs out no later than its lease does, whatever happens
to the clock (`LeasesOK`). `Follows` says what an operation on the pool may do to leases that
are not its own, and is shown once for each operator.

### ProviderAdmission

Assumed: finitely many callers, foreground and record apart, at least one slot.

| Theorem | States |
|---|---|
| `AdmissionInvariant` | `Spec => []AdmissionInv` |
| `TypeCorrect` | `Spec => []TypeOK` |
| `LeasesAreHeld` | `Spec => []LeaseIsHeld` |
| `CancelledGetNoPermit` | `Spec => []CancelledGetsNoPermit` |
| `RecordTurnsCome` | `Spec => []RecordTurnComes` |
| `LanesInOrder` | `Spec => []LaneInOrder` |
| `ClosedAdmissionsAreQuiet` | `Spec => []ClosedIsQuiet` |

The source keeps the lanes, the state of a request and the operations that wait in
`controlTail` apart. The invariant says that they agree after every await: every operation in
the tail is the only one of its request and knows what state that is in (`TailOK`), the
request being granted stays at the head of its lane unless it is cancelled (`StageOK`), and
who came before whom is what the lane says (`BeforeOK`).

### RecordSchedulerDispatch

Assumed: finitely many units, at least one slot.

| Theorem | States |
|---|---|
| `TypeCorrect` | `Spec => []TypeOK` |
| `CalledAtMostOnce` | `Spec => []CalledOnce` |
| `OutcomesAreHonest` | `Spec => []OutcomeIsHonest` |
| `InFlightUndisturbed` | `Spec => []InFlightIsUndisturbed` |
| `LeasesAccountedFor` | `Spec => []LeaseIsAccountedFor` |
| `RepairOnlyAfterFault` | `Spec => []RepairNeedsFault` |

`DispatchInv` is about one unit at a time: that the ledger's unit, the state of its latest
attempt and the budget agree (`LedgerOK`, `AttemptOK`), what runs for it (`CallOK`), who waits
for it (`WaitOK`), the dispatch the chain is in the middle of (`DispatchOK`), whose its claim
(`OwnOK`) and leases are (`LeaseOK`); and about the job at the head of the chain (`JobOK`).
The six theorems follow from it.

### Only model-checked

- Liveness: `InterruptedCreationCompletes`, `CommitVerifies`, `DeadLockGivesWay`,
  `QueuedIsServed`, `CloseTerminates`, `UnitsEnd`. They need reasoning about fairness
  and `ENABLED`, which the proof system does not support.
- The three properties that the code violates (section 4).

## 6. Not modelled

- In the commit protocol: audit entries, `discardLateResult` and the isolation of late
  output, the validation of payloads (`verifyPayloadBodyReference`: a staged body
  that is gone or altered around a stage's write, also at `guard_written` and in the
  `Verified` stage, leads to repair; here it never is), the sidecar files behind one artifact write
  (a conditional write is one step under the registry's lock), reconciliation of
  publications, takeover of the scheduler owner during a commit, the number of
  cancellation retries.
- In the registry: a wall clock that is set back. Of the scheduler ledgers there is only the
  epoch of a work with units: which advances `isPublicationGenerationAdvanceForTask` lets
  through before the first unit is left open, and the ledger's copies of token, lease and
  revision, which make a caller refuse more, are left out.
- In the provider control: installation and bootstrap of the file, its own file lock
  (`provider-control-store.ts:1217–1600`; each operation is one step instead), the two
  record lanes and the memory limit of the `agy` provider, shadow and legacy mode,
  `applyProviderCongestionLoss`, `observeProviderControlTime`, the transport adapter.
  Renewing the ownership and verifying it are one step, and so are the two writes of
  maintenance: a crash between these is left out. In
  the queue: probes and freezes, which it only sees as "no slot".
- In the pump: cancellation, splitting of prompts, further routes and the overflow
  provider, synthetic admission, record-work fences (`resolveRetryFence`), the window of
  materialized prompts, failing ledger writes, fencing of the coordinator's owner,
  quiesce and close, local finalization, `failClosedPermitGrantFailure` and
  `discardUnboundClaim` (failures inside the permit callback and of a test hook).
- Fairness accounting, the scheduler ledger's own store, admission and spool, the runtime
  loop, and background tasks.
- Record generation, conversation sources, and the other programs of the repository:
  text processing, input and output, or separate programs.

## 7. Plan

In this order:

1. Proofs: every safety property of a passing run is proved. What
   `RecordCommitProtocol` assumes of the registry is proved on the registry's side
   (`FencedForever`, `HonouredWorkIsStable`); a refinement that derives its environment from
   `RecordWorkRegistry` is left.
2. `RecordSchedulerStore`: the ledger's compare-and-swap, owner lease and state machines;
   one owner at a time, an interrupted save is noticed.
3. Cancellation in `RecordSchedulerDispatch`, and its composition with the commit
   protocol: the bounded retries, takeover by a new scheduler owner, what happens to a
   detached commit.
4. `RecordSchedulerFairness`: admission order, no starvation.
5. `BackgroundTasks`: one terminal state per task across restarts.
