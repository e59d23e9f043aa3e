-------------------------- MODULE RecordWorkRegistry --------------------------
(***************************************************************************)
(* The Record work registry of memory-store (record-work-registry.ts): the *)
(* per-conversation document that says which Record revision is being      *)
(* produced, which tasks want it, who holds the lease to produce it, and    *)
(* which commit may publish the artifacts.                                  *)
(*                                                                         *)
(* Every operation of the source runs under the registry's file lock and    *)
(* ends in one durable save, so it is one action here.  A rejected call or  *)
(* a compare-and-swap conflict saves nothing and is a stuttering step.      *)
(* RecordWorkRegistryFiles opens up the save itself.                        *)
(*                                                                         *)
(* Any caller may present any fence that was ever granted, however stale,   *)
(* at any later time.  Of the callers only one thing is modelled: the epoch *)
(* in which a task's scheduler ledger has units of a work.  The registry    *)
(* does not ask whether a commit has claimed before, so that this is what   *)
(* keeps a commit from claiming in a second epoch.                          *)
(***************************************************************************)
EXTENDS Integers, Sequences

CONSTANTS
    Revisions,       \* desired revisions; recordWorkKey is a hash of one
    Tasks,           \* task ids
    Owners,          \* scheduler owner ids
    Commits,         \* commit ids
    WorkOf,          \* the revision a commit covers
    TaskOf,          \* the task a commit belongs to
    SchedulerEpochs, \* scheduler epochs callers may run in
    LeaseMs,         \* leaseDurationMs
    MaxRevision,     \* bound on registryRevision
    MaxClock         \* bound on the clock

\* "none" stands for the null or absent field of the JSON document.
NoOwner == "none"
NoCommit == "none"

ASSUME ConstantsAssumption ==
    /\ LeaseMs \in Nat \ {0}
    /\ SchedulerEpochs \subseteq Nat \ {0}
    /\ WorkOf \in [Commits -> Revisions]
    /\ TaskOf \in [Commits -> Tasks]
    /\ NoOwner \notin Owners
    /\ NoCommit \notin Commits

VARIABLES
    revision,    \* registryRevision
    epochCursor, \* recordCommitEpochCursor
    tokenCursor, \* fencingTokenCursor
    works,       \* the works array, by revision
    uuids,       \* how many lease ids randomUUID has produced
    clock,       \* wall clock of the machine
    granted,     \* every grant ever returned to a caller
    ledger,      \* of a task and a work: the epoch in which the task's scheduler ledger
                 \* has units, attempts or commits of the work, 0 while it has none
    artifact,    \* who wrote the visible Record artifacts last
    published    \* every publication ever made

registryVars == <<revision, epochCursor, tokenCursor, works>>
vars == <<revision, epochCursor, tokenCursor, works, uuids, clock,
          granted, ledger, artifact, published>>

-----------------------------------------------------------------------------
(* The registry document. *)

NoLease == [id |-> 0, owner |-> NoOwner, sched |-> 0,
            acquiredAt |-> 0, expiresAt |-> 0]

Lease == [id : Nat, owner : Owners, sched : Nat, acquiredAt : Nat, expiresAt : Nat]
            \cup {NoLease}

\* A fence together with the owner it was handed to.
Grant == [work : Revisions, owner : Owners, sched : Nat,
          epoch : Nat, token : Nat, leaseId : Nat]

NoClaim == [commit |-> NoCommit, owner |-> NoOwner,
            sched |-> 0, epoch |-> 0, token |-> 0, leaseId |-> 0]

Claim == [commit : Commits, owner : Owners,
          sched : Nat, epoch : Nat, token : Nat, leaseId : Nat] \cup {NoClaim}

HistoryEntry == [claim : Claim, nextEpoch : Nat]

Work == [state : {"Absent", "Active", "Superseded"},
         epoch : Nat, token : Nat,
         active : SUBSET Tasks, retired : SUBSET Tasks,
         lease : Lease, claim : Claim, history : Seq(HistoryEntry)]

AbsentWork == [state |-> "Absent", epoch |-> 0, token |-> 0,
               active |-> {}, retired |-> {},
               lease |-> NoLease, claim |-> NoClaim, history |-> <<>>]

Artifact == [by : {"nobody", "commit", "user"},
             commit : Commits \cup {NoCommit}, token : Nat]

NoArtifact == [by |-> "nobody", commit |-> NoCommit, token |-> 0]

\* Which tasks have commits of which works.
Binding(c) == <<TaskOf[c], WorkOf[c]>>
Bindings == {Binding(c) : c \in Commits}

HasLease(w) == w.lease /= NoLease
HasClaim(w) == w.claim /= NoClaim

-----------------------------------------------------------------------------
(* Time.  A caller reads the clock before it waits for the file lock, so the *)
(* time an operation works with may lag, by less than a lease.               *)

Now == {n \in 0..MaxClock : n <= clock /\ clock < n + LeaseMs}

Tick ==
    /\ clock < MaxClock
    /\ clock' = clock + 1
    /\ UNCHANGED <<registryVars, uuids, granted, ledger, artifact, published>>

Expired(lease, now) == lease.expiresAt <= now

NewLease(id, owner, sched, now) ==
    [id |-> id, owner |-> owner, sched |-> sched,
     acquiredAt |-> now, expiresAt |-> now + LeaseMs]

-----------------------------------------------------------------------------
(* Grants and authorization. *)

\* workFence plus the holder: what the operations return to their caller.
GrantOf(r, w) ==
    [work |-> r, owner |-> w.lease.owner, sched |-> w.lease.sched,
     epoch |-> w.epoch, token |-> w.token, leaseId |-> w.lease.id]

\* The work still honours the grant: same lease, same owner, same fence.
Matches(w, g) ==
    /\ w.state = "Active"
    /\ w.lease.id = g.leaseId
    /\ w.lease.owner = g.owner
    /\ w.lease.sched = g.sched
    /\ w.epoch = g.epoch
    /\ w.token = g.token

\* evaluateConditionalCommitAuthorization for an attached task.
Authorized(w, g, task, now) ==
    /\ w.state = "Active"
    /\ task \in w.active
    /\ HasLease(w)
    /\ ~Expired(w.lease, now)
    /\ Matches(w, g)

ClaimBy(c, g) ==
    [commit |-> c, owner |-> g.owner, sched |-> g.sched,
     epoch |-> g.epoch, token |-> g.token, leaseId |-> g.leaseId]

-----------------------------------------------------------------------------
(* Saving: mutateRegistry bumps the revision of every changed document. *)

\* Mutant: the cursor is read but not advanced.
RepeatedToken == tokenCursor

NextToken == tokenCursor + 1
NextEpoch == epochCursor + 1

\* Mutant: the document is saved under its old revision.
SaveUnderOldRevision == revision < MaxRevision /\ UNCHANGED revision

Save ==
    /\ revision < MaxRevision
    /\ revision' = revision + 1

\* A save that changes one work and neither cursor, grants or artifacts.
SaveWork(r, w) ==
    /\ Save
    /\ works' = [works EXCEPT ![r] = w]
    /\ UNCHANGED <<epochCursor, clock>>

Init ==
    /\ revision = 1
    /\ epochCursor = 0
    /\ tokenCursor = 0
    /\ works = [r \in Revisions |-> AbsentWork]
    /\ uuids = 0
    /\ clock = 0
    /\ granted = {}
    /\ ledger = [b \in Bindings |-> 0]
    /\ artifact = NoArtifact
    /\ published = {}

-----------------------------------------------------------------------------
(* startOrAttachRecordWork *)

Supersede(w) ==
    IF w.state = "Active"
    THEN [w EXCEPT !.state = "Superseded", !.lease = NoLease]
    ELSE w

\* A new desired revision supersedes the one being produced.
StartWork(r, task) ==
    /\ works[r].state = "Absent"
    /\ Save
    /\ epochCursor' = NextEpoch
    /\ works' = [q \in Revisions |->
                    IF q = r
                    THEN [AbsentWork EXCEPT !.state = "Active",
                                            !.epoch = NextEpoch,
                                            !.active = {task}]
                    ELSE Supersede(works[q])]
    /\ UNCHANGED <<tokenCursor, uuids, clock, granted, ledger, artifact, published>>

AttachTask(r, task) ==
    /\ works[r].state = "Active"
    /\ task \notin works[r].retired
    /\ task \notin works[r].active
    /\ SaveWork(r, [works[r] EXCEPT !.active = @ \cup {task}])
    /\ UNCHANGED <<tokenCursor, uuids, granted, ledger, artifact, published>>

\* detachRecordWorkTask: also allowed on a superseded work.
DetachTask(r, task) ==
    /\ works[r].state /= "Absent"
    /\ task \in works[r].active
    /\ SaveWork(r, [works[r] EXCEPT !.active = @ \ {task}])
    /\ UNCHANGED <<tokenCursor, uuids, granted, ledger, artifact, published>>

-----------------------------------------------------------------------------
(* acquireRecordWorkLease *)

\* The holder extends a lease that has not run out; the fence is unchanged.
RenewLease(r, task, g, now) ==
    LET w == works[r] IN
    /\ w.state = "Active"
    /\ task \in w.active
    /\ HasLease(w)
    /\ ~Expired(w.lease, now)
    /\ w.lease.owner = g.owner
    /\ w.lease.id = g.leaseId
    /\ w.lease.sched = g.sched
    /\ SaveWork(r, [w EXCEPT !.lease.expiresAt = now + LeaseMs])
    /\ UNCHANGED <<tokenCursor, uuids, granted, ledger, artifact, published>>

\* A fresh lease with a fresh token, when there is none or it has run out.
AcquireLease(r, task, owner, sched, now) ==
    LET w == [works[r] EXCEPT !.token = NextToken,
                              !.lease = NewLease(uuids + 1, owner, sched, now)]
    IN
    /\ works[r].state = "Active"
    /\ task \in works[r].active
    /\ HasLease(works[r]) => Expired(works[r].lease, now)
    /\ SaveWork(r, w)
    /\ tokenCursor' = NextToken
    /\ uuids' = uuids + 1
    /\ granted' = granted \cup {GrantOf(r, w)}
    /\ UNCHANGED <<ledger, artifact, published>>

-----------------------------------------------------------------------------
(* recoverRecordWorkLease *)

\* The claim, if any, was made under exactly the current lease.
ClaimFollowsLease(r, w) ==
    HasClaim(w) => w.claim = ClaimBy(w.claim.commit, GrantOf(r, w))

\* Mutant: two owners of one scheduler epoch can take the lease from each other.
MayTakeOverBetweenOwners(w, g, owner, sched) ==
    w.lease.sched >= g.sched /\ w.lease.sched <= sched

\* The lease moves to a later scheduler epoch, or stays with its owner.
MayTakeOver(w, g, owner, sched) ==
    /\ w.lease.sched >= g.sched
    /\ w.lease.sched <= sched
    /\ w.lease.sched = sched => w.lease.owner = owner

\* A later scheduler epoch takes the lease over under the same token, with the
\* claim made under it.  The lease need not have run out.
RecoverLease(r, task, g, owner, sched, now) ==
    LET w == works[r]
        claim == IF HasClaim(w)
                 THEN [w.claim EXCEPT !.owner = owner, !.sched = sched]
                 ELSE w.claim
        next == [w EXCEPT !.lease = NewLease(w.lease.id, owner, sched, now),
                          !.claim = claim]
    IN
    /\ sched > g.sched
    /\ w.state = "Active"
    /\ task \in w.active
    /\ HasLease(w)
    /\ w.epoch = g.epoch
    /\ w.lease.id = g.leaseId
    /\ w.token = g.token
    /\ MayTakeOver(w, g, owner, sched)
    /\ ClaimFollowsLease(r, w)
    /\ SaveWork(r, next)
    /\ granted' = granted \cup {GrantOf(r, next)}
    /\ UNCHANGED <<tokenCursor, uuids, ledger, artifact, published>>

-----------------------------------------------------------------------------
(* advanceRecordWorkFence *)

\* The holder trades its lease for a new one with a new token, cutting off
\* whoever else still uses the old one.  It does not look at the expiry.
AdvanceFence(r, task, g, now) ==
    LET w == works[r]
        next == [w EXCEPT !.token = NextToken,
                          !.lease = NewLease(uuids + 1, w.lease.owner, w.lease.sched, now)]
    IN
    /\ w.state = "Active"
    /\ task \in w.active
    /\ ~HasClaim(w)
    /\ HasLease(w)
    /\ Matches(w, g)
    /\ SaveWork(r, next)
    /\ tokenCursor' = NextToken
    /\ uuids' = uuids + 1
    /\ granted' = granted \cup {GrantOf(r, next)}
    /\ UNCHANGED <<ledger, artifact, published>>

-----------------------------------------------------------------------------
(* The tasks' scheduler ledgers (execution driver and production pump).  A   *)
(* commit id is a hash of task, work, unit and attempt, not of the epoch.    *)

\* Mutant: a ledger with units of an older epoch follows the registry too.
FollowsWithUnits(b, epoch) == TRUE

\* synchronizeSchedulerWorkFromRegistry: a ledger follows the registry to another epoch
\* only while it has nothing bound to the one before.
MayFollow(b, epoch) == ledger[b] \in {0, epoch}

\* ensureRecordWork stores the epoch that a lease or a rollover returned, however long
\* ago, and the first unit of the work is created in it.  Before that the entry may
\* change, and which changes isPublicationGenerationAdvanceForTask lets through is left
\* open: only the epoch the unit is created in counts.
EnsureUnit(b, g) ==
    /\ b[2] = g.work
    /\ MayFollow(b, g.epoch)
    /\ ledger' = [ledger EXCEPT ![b] = g.epoch]
    /\ UNCHANGED <<registryVars, uuids, clock, granted, artifact, published>>

\* commitAuthorityInput: a commit is in its task's ledger, with a unit and an attempt, and
\* goes to the registry only with a fence of the ledger's epoch.
InLedger(c, g) == ledger[Binding(c)] = g.epoch

-----------------------------------------------------------------------------
(* claimRecordWorkPublication and withRecordWorkPublicationAuthority *)

\* Mutant: a later claim replaces an earlier one.
ClaimOpenToAll(w) == TRUE

ClaimOpen(w) == ~HasClaim(w)

\* The first commit of an epoch to claim the publication gets it.
ClaimPublication(c, g, now) ==
    LET r == WorkOf[c] IN
    /\ g.work = r
    /\ Authorized(works[r], g, TaskOf[c], now)
    /\ ClaimOpen(works[r])
    /\ InLedger(c, g)
    /\ SaveWork(r, [works[r] EXCEPT !.claim = ClaimBy(c, g)])
    /\ UNCHANGED <<tokenCursor, uuids, granted, ledger, artifact, published>>

\* Artifacts are written under the lock, by the claimant, with the claim's fence.
Publish(c, g, now) ==
    LET r == WorkOf[c] IN
    /\ g.work = r
    /\ Authorized(works[r], g, TaskOf[c], now)
    /\ works[r].claim = ClaimBy(c, g)
    /\ artifact' = [by |-> "commit", commit |-> c, token |-> g.token]
    /\ published' = published \cup {[epoch |-> g.epoch, commit |-> c]}
    /\ UNCHANGED <<registryVars, uuids, clock, granted, ledger>>

-----------------------------------------------------------------------------
(* rolloverRecordWorkPublication *)

ArtifactsConsistent(claim) ==
    artifact.by = "commit" /\ artifact.commit = claim.commit

RetireClaim(w, nextEpoch) ==
    Append(w.history, [claim |-> w.claim, nextEpoch |-> nextEpoch])

\* A finished publication is retired into the history and the work moves to a
\* new epoch, lease and token: forced when the visible artifacts are the
\* claim's, unforced when they are not.
RolloverPublication(r, task, g, force, now) ==
    LET w == works[r]
        next == [w EXCEPT !.epoch = NextEpoch,
                          !.token = NextToken,
                          !.lease = NewLease(uuids + 1, g.owner, g.sched, now),
                          !.claim = NoClaim,
                          !.history = RetireClaim(w, NextEpoch)]
    IN
    /\ Authorized(w, g, task, now)
    /\ HasClaim(w)
    /\ force <=> ArtifactsConsistent(w.claim)
    /\ Save
    /\ works' = [works EXCEPT ![r] = next]
    /\ epochCursor' = NextEpoch
    /\ tokenCursor' = NextToken
    /\ uuids' = uuids + 1
    /\ granted' = granted \cup {GrantOf(r, next)}
    /\ UNCHANGED <<clock, ledger, artifact, published>>

-----------------------------------------------------------------------------
(* withRecordWorkManualMutationAuthority *)

\* Mutant: only a work with attached tasks counts as being produced.
FenceableByTasks(w) == w.state = "Active" /\ w.active /= {}

Fenceable(w) ==
    /\ w.state = "Active"
    /\ w.active /= {} \/ HasLease(w) \/ HasClaim(w)

\* Mutant: the claim's commit id is retired in place of its task id.
RetiredByCommit(w) ==
    w.retired \cup w.active \cup (IF HasClaim(w) THEN {w.claim.commit} ELSE {})

RetiredBy(w) ==
    w.retired \cup w.active
       \cup (IF HasClaim(w) THEN {TaskOf[w.claim.commit]} ELSE {})

Fence(w) ==
    [w EXCEPT !.epoch = NextEpoch,
              !.token = NextToken,
              !.active = {},
              !.retired = RetiredBy(w),
              !.lease = NoLease,
              !.claim = NoClaim,
              !.history = IF HasClaim(w) THEN RetireClaim(w, NextEpoch) ELSE @]

UserWrites(token) == artifact' = [by |-> "user", commit |-> NoCommit, token |-> token]

\* A manual edit or delete first fences every producer of the Record off, then
\* changes the artifacts.  The process may die in between.
ManualFence(r, done) ==
    /\ Fenceable(works[r])
    /\ Save
    /\ works' = [works EXCEPT ![r] = Fence(works[r])]
    /\ epochCursor' = NextEpoch
    /\ tokenCursor' = NextToken
    /\ IF done THEN UserWrites(NextToken) ELSE UNCHANGED artifact
    /\ UNCHANGED <<uuids, clock, granted, ledger, published>>

\* With nobody to fence off, the registry is left alone.
ManualUnfenced ==
    /\ \A r \in Revisions : ~Fenceable(works[r])
    /\ UserWrites(tokenCursor)
    /\ UNCHANGED <<registryVars, uuids, clock, granted, ledger, published>>

-----------------------------------------------------------------------------
Next ==
    \/ Tick
    \/ \E r \in Revisions, task \in Tasks :
          \/ StartWork(r, task)
          \/ AttachTask(r, task)
          \/ DetachTask(r, task)
          \/ \E now \in Now, owner \in Owners, sched \in SchedulerEpochs :
                AcquireLease(r, task, owner, sched, now)
    \/ \E b \in Bindings, g \in granted : EnsureUnit(b, g)
    \/ \E g \in granted, task \in Tasks, now \in Now :
          \/ RenewLease(g.work, task, g, now)
          \/ AdvanceFence(g.work, task, g, now)
          \/ \E force \in BOOLEAN : RolloverPublication(g.work, task, g, force, now)
          \/ \E owner \in Owners, sched \in SchedulerEpochs :
                RecoverLease(g.work, task, g, owner, sched, now)
    \/ \E g \in granted, c \in Commits, now \in Now :
          \/ ClaimPublication(c, g, now)
          \/ Publish(c, g, now)
    \/ \E r \in Revisions, done \in BOOLEAN : ManualFence(r, done)
    \/ ManualUnfenced

Spec == Init /\ [][Next]_vars

-----------------------------------------------------------------------------
(* Properties. *)

\* Every field of the registry document, and every observation of it, has the
\* type the source declares for it.
TypeOK ==
    /\ revision \in Nat \ {0}
    /\ epochCursor \in Nat
    /\ tokenCursor \in Nat
    /\ works \in [Revisions -> Work]
    /\ uuids \in Nat
    /\ clock \in Nat
    /\ granted \in SUBSET Grant
    /\ ledger \in [Bindings -> Nat]
    /\ artifact \in Artifact
    /\ published \in SUBSET [epoch : Nat, commit : Commits]

\* validateLease: a lease ends after it began.
ValidLease(lease) == lease.expiresAt > lease.acquiredAt

ValidHistory(w) ==
    /\ \A i \in DOMAIN w.history :
          /\ w.history[i].nextEpoch > w.history[i].claim.epoch
          /\ w.history[i].nextEpoch <= w.epoch
          /\ w.history[i].claim.commit /= w.claim.commit
    /\ \A i, j \in DOMAIN w.history :
          i < j => /\ w.history[i].nextEpoch < w.history[j].nextEpoch
                   /\ w.history[i].claim.commit /= w.history[j].claim.commit

\* validateWorkEntry, the checks that relate fields to each other.
ValidWork(w) ==
    /\ w.epoch > 0
    /\ HasLease(w) => ValidLease(w.lease)
    /\ w.state = "Superseded" => ~HasLease(w)
    /\ HasClaim(w) => w.claim.epoch = w.epoch /\ w.claim.token > 0
    /\ ValidHistory(w)
    /\ w.active \cap w.retired = {}

Present == {r \in Revisions : works[r].state /= "Absent"}

\* Whatever sequence of calls is made, in which claims come from tasks that keep a
\* scheduler ledger, the document that is saved is one that validateRegistry accepts
\* when it is loaded again: otherwise every later call on this conversation answers
\* repair_required.
PersistedRegistryValid ==
    /\ \A r \in Present :
          /\ ValidWork(works[r])
          /\ works[r].epoch <= epochCursor
          /\ works[r].token <= tokenCursor
    /\ \A q, r \in Present :
          q /= r => /\ works[q].epoch /= works[r].epoch
                    /\ ~(works[q].state = "Active" /\ works[r].state = "Active")

Store == INSTANCE RecordWorkRegistryStore
            WITH rev <- revision, body <- <<epochCursor, tokenCursor, works>>,
                 available <- TRUE

\* Every change of the document raises its revision by exactly one and no call
\* changes it otherwise, so the compare-and-swap on expectedRegistryRevision that
\* all mutations rely on cannot miss a change.
RevisionGuardsDocument == [][Store!Next]_(Store!vars)

\* Once the registry stops honouring a grant (expired and reacquired, advanced,
\* rolled over, taken over by a later scheduler epoch, superseded or fenced off
\* by a manual edit) it never honours it again, so a paused holder that wakes up
\* cannot regain authority.
StaysFenced ==
    \A g \in granted : ~Matches(works[g.work], g) => ~Matches(works'[g.work], g)

FencedForever == [][StaysFenced]_vars

\* While the registry honours a grant, its work changes one thing at a time: a task
\* joins or leaves, or the first claim is made, by an attached task and under this very
\* grant.  No claim is replaced or withdrawn.  RecordCommitProtocol takes this for
\* granted of its attached, claim and current.
ChangesOneThing(w, v, g) ==
    \/ v.active = w.active /\ v.claim = w.claim
    \/ v.claim = w.claim /\ \E task \in Tasks : v.active \in {w.active \cup {task}, w.active \ {task}}
    \/ /\ v.active = w.active /\ ~HasClaim(w)
       /\ \E c \in Commits : TaskOf[c] \in w.active /\ v.claim = ClaimBy(c, g)

HonouredIsStable ==
    \A g \in granted :
        Matches(works[g.work], g) /\ Matches(works'[g.work], g) =>
            ChangesOneThing(works[g.work], works'[g.work], g)

HonouredWorkIsStable == [][HonouredIsStable]_vars

\* A fencing token is handed out once: two grants with the same token are the
\* same lease of the same work and epoch, passed on by recovery from one
\* scheduler epoch to a later one.
TokenNamesOneLease ==
    \A g, h \in granted :
       g.token = h.token =>
          /\ g.work = h.work
          /\ g.epoch = h.epoch
          /\ g.leaseId = h.leaseId
          /\ g.sched = h.sched => g.owner = h.owner

\* Within one recordCommitEpoch only one commit ever writes the artifacts.
OnePublisherPerEpoch ==
    \A p, q \in published : p.epoch = q.epoch => p.commit = q.commit

\* The visible artifacts move forward only: a commit never overwrites what was
\* written under a later token, and never overwrites a manual change made since
\* its lease was granted.
MovesForward ==
    /\ artifact'.token >= artifact.token
    /\ artifact.by = "user" /\ artifact'.by = "commit" => artifact'.token > artifact.token

VisibleNeverRegresses == [][MovesForward]_artifact

-----------------------------------------------------------------------------
(* The inductive strengthening of the properties above. *)

\* Tokens come from the cursor, and no token past it is in use.
TokensFromCursor ==
    /\ \A r \in Revisions : works[r].token <= tokenCursor
    /\ \A g \in granted : g.token <= tokenCursor

\* Whoever holds a lease was granted it.
HolderWasGranted ==
    \A r \in Revisions : HasLease(works[r]) => GrantOf(r, works[r]) \in granted

\* Of the scheduler epochs a lease passed through, its holder's is the last.
HolderIsLatest ==
    \A g \in granted :
       HasLease(works[g.work]) /\ g.token = works[g.work].token
          => g.sched <= works[g.work].lease.sched

\* Why a fenced-off grant stays fenced off: the lease a work has now was granted
\* under a token of its own, to the latest scheduler epoch that recovered it.
FencingInv ==
    TokensFromCursor /\ HolderWasGranted /\ HolderIsLatest /\ TokenNamesOneLease

\* One revision is being produced at a time, and only it is leased.
OneActive ==
    /\ \A q, r \in Revisions :
          works[q].state = "Active" /\ works[r].state = "Active" => q = r
    /\ \A r \in Revisions : HasLease(works[r]) => works[r].state = "Active"

\* Epochs come from the cursor and belong to one work.
EpochsFromCursor ==
    /\ \A r \in Revisions :
          /\ works[r].epoch <= epochCursor
          /\ works[r].state /= "Absent" => works[r].epoch > 0
    /\ \A q, r \in Present : works[q].epoch = works[r].epoch => q = r
    /\ \A p \in published : p.epoch > 0 /\ p.epoch <= epochCursor

\* A work still in an epoch that has been published in holds that commit's claim.
ClaimOutlivesPublication ==
    \A p \in published, r \in Present :
       works[r].epoch = p.epoch => works[r].claim.commit = p.commit

\* What is visible was written before the present lease was granted, or under it.
VisibleBehindLease ==
    /\ artifact.token <= tokenCursor
    /\ \A r \in Revisions : HasLease(works[r]) =>
          /\ artifact.token <= works[r].token
          /\ artifact.by = "user" => artifact.token < works[r].token

\* Why an epoch has one publisher and the artifacts only move forward: a claim
\* lasts as long as its epoch, and every lease is newer than what is visible.
PublicationInv ==
    /\ OneActive
    /\ EpochsFromCursor
    /\ ClaimOutlivesPublication
    /\ OnePublisherPerEpoch
    /\ VisibleBehindLease

=============================================================================
