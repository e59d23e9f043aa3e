----------------------- MODULE RecordWorkRegistryProofs -----------------------
(***************************************************************************)
(* Proofs about RecordWorkRegistry, for every value of its constants.      *)
(***************************************************************************)
EXTENDS RecordWorkRegistry, TLAPS

-----------------------------------------------------------------------------
(* Facts about the records the document is made of. *)

\* The empty records are of the types they stand for.
LEMMA EmptyRecords ==
    /\ NoLease \in Lease
    /\ NoClaim \in Claim
    /\ AbsentWork \in Work
    /\ NoArtifact \in Artifact
BY DEF NoLease, Lease, NoClaim, Claim, AbsentWork, Work, NoArtifact, Artifact, NoOwner, NoCommit

\* The time an operation works with is a natural number.
LEMMA NowIsNat == ASSUME NEW now \in Now PROVE now \in Nat
BY DEF Now

\* A lease written by acquire, recover, advance or rollover is a lease, and is
\* told apart from no lease by its owner.
LEMMA NewLeaseType ==
    ASSUME NEW id \in Nat, NEW owner \in Owners, NEW sched \in Nat, NEW now \in Nat
    PROVE  /\ NewLease(id, owner, sched, now) \in Lease
           /\ NewLease(id, owner, sched, now) /= NoLease
BY ConstantsAssumption DEF NewLease, Lease, NoLease

\* The numbers in a lease are numbers, and a lease that is one has an owner.
LEMMA LeaseFields ==
    ASSUME NEW l \in Lease
    PROVE  /\ l.id \in Nat /\ l.sched \in Nat
           /\ l.acquiredAt \in Nat /\ l.expiresAt \in Nat
           /\ l /= NoLease => l.owner \in Owners
           /\ l = NoLease => l.owner = NoOwner
BY DEF Lease, NoLease

\* The grant read off a leased work is a grant.
LEMMA GrantType ==
    ASSUME NEW r \in Revisions, NEW w \in Work, w.lease.owner \in Owners
    PROVE  GrantOf(r, w) \in Grant
BY DEF GrantOf, Grant, Work, Lease, NoLease

\* A claim made from a grant is a claim, and is told apart from no claim.
LEMMA ClaimType ==
    ASSUME NEW c \in Commits, NEW g \in Grant
    PROVE  ClaimBy(c, g) \in Claim /\ ClaimBy(c, g) /= NoClaim
BY ConstantsAssumption DEF ClaimBy, Claim, NoClaim, Grant

\* Retiring a claim keeps the history a sequence of entries.
LEMMA RetireClaimType ==
    ASSUME NEW w \in Work, NEW next \in Nat
    PROVE  RetireClaim(w, next) \in Seq(HistoryEntry)
BY DEF RetireClaim, Work, HistoryEntry

-----------------------------------------------------------------------------
(* Type correctness. *)

\* The empty registry has the types.
LEMMA TypeInit == Init => TypeOK
BY EmptyRecords DEF Init, TypeOK

\* A save that replaces one work by a well-typed one keeps the works typed.
LEMMA SaveWorkType ==
    ASSUME TypeOK, NEW r \in Revisions, NEW w \in Work, SaveWork(r, w)
    PROVE  /\ revision' \in Nat \ {0}
           /\ works' \in [Revisions -> Work]
           /\ epochCursor' \in Nat
           /\ clock' \in Nat
BY DEF TypeOK, SaveWork, Save

\* Superseding a work yields a work.
LEMMA SupersedeType == ASSUME NEW w \in Work PROVE Supersede(w) \in Work
BY EmptyRecords DEF Supersede, Work

\* Fencing a work off yields a work.
LEMMA FenceType ==
    ASSUME TypeOK, NEW w \in Work
    PROVE  Fence(w) \in Work
<1>1. RetireClaim(w, NextEpoch) \in Seq(HistoryEntry)
  BY RetireClaimType DEF TypeOK, NextEpoch
<1>2. RetiredBy(w) \in SUBSET Tasks
  <2>1. HasClaim(w) => w.claim.commit \in Commits
    BY DEF HasClaim, Work, Claim
  <2> QED
    BY <2>1, ConstantsAssumption DEF RetiredBy, Work
<1>3. NextEpoch \in Nat /\ NextToken \in Nat
  BY DEF TypeOK, NextEpoch, NextToken
<1> QED
  BY <1>1, <1>2, <1>3, EmptyRecords DEF Fence, Work

\* Every step keeps the types.
LEMMA TypeNext == TypeOK /\ [Next]_vars => TypeOK'
<1> SUFFICES ASSUME TypeOK, [Next]_vars PROVE TypeOK'
  OBVIOUS
<1> USE NowIsNat
<1>a. /\ NextToken \in Nat /\ NextEpoch \in Nat /\ uuids + 1 \in Nat
      /\ \A r \in Revisions : works[r] \in Work
      /\ \A g \in granted : g \in Grant /\ g.work \in Revisions
      /\ SchedulerEpochs \subseteq Nat
  BY ConstantsAssumption DEF TypeOK, NextToken, NextEpoch, Grant
<1>1. CASE Tick
  BY <1>1 DEF Tick, TypeOK, registryVars
<1>2. ASSUME NEW r \in Revisions, NEW task \in Tasks, StartWork(r, task)
      PROVE  TypeOK'
  <2> DEFINE new == [AbsentWork EXCEPT !.state = "Active", !.epoch = NextEpoch, !.active = {task}]
  <2>1. new \in Work
    BY <1>a, EmptyRecords DEF Work
  <2>2. works' \in [Revisions -> Work]
    BY <1>2, <1>a, <2>1, SupersedeType DEF StartWork
  <2> QED
    BY <1>2, <1>a, <2>2 DEF StartWork, Save, TypeOK
<1>3. ASSUME NEW r \in Revisions, NEW task \in Tasks, AttachTask(r, task)
      PROVE  TypeOK'
  <2>1. [works[r] EXCEPT !.active = @ \cup {task}] \in Work
    BY <1>a DEF Work
  <2> QED
    BY <1>3, <2>1, SaveWorkType DEF AttachTask, TypeOK
<1>4. ASSUME NEW r \in Revisions, NEW task \in Tasks, DetachTask(r, task)
      PROVE  TypeOK'
  <2>1. [works[r] EXCEPT !.active = @ \ {task}] \in Work
    BY <1>a DEF Work
  <2> QED
    BY <1>4, <2>1, SaveWorkType DEF DetachTask, TypeOK
<1>5. ASSUME NEW r \in Revisions, NEW task \in Tasks, NEW now \in Now,
             NEW owner \in Owners, NEW sched \in SchedulerEpochs,
             AcquireLease(r, task, owner, sched, now)
      PROVE  TypeOK'
  <2> DEFINE lease == NewLease(uuids + 1, owner, sched, now)
             w == [works[r] EXCEPT !.token = NextToken, !.lease = lease]
  <2>1. lease \in Lease /\ lease.owner \in Owners
    BY <1>a, NewLeaseType, LeaseFields
  <2> HIDE DEF lease
  <2>2. w \in Work /\ w.lease = lease
    BY <1>a, <2>1 DEF Work
  <2> HIDE DEF w
  <2>3. GrantOf(r, w) \in Grant
    BY <2>1, <2>2, GrantType
  <2>4. SaveWork(r, w) /\ granted' = granted \cup {GrantOf(r, w)}
    BY <1>5 DEF AcquireLease, w, lease
  <2> QED
    BY <1>5, <1>a, <2>2, <2>3, <2>4, SaveWorkType DEF AcquireLease, TypeOK
<1>6. ASSUME NEW g \in granted, NEW task \in Tasks, NEW now \in Now,
             RenewLease(g.work, task, g, now)
      PROVE  TypeOK'
  <2> DEFINE w == works[g.work]
             lease == [w.lease EXCEPT !.expiresAt = now + LeaseMs]
  <2>1. w \in Work /\ w.lease /= NoLease
    BY <1>6, <1>a DEF RenewLease, HasLease
  <2>a. /\ now + LeaseMs \in Nat
        /\ w.lease \in [id : Nat, owner : Owners, sched : Nat, acquiredAt : Nat, expiresAt : Nat]
    BY <2>1, ConstantsAssumption DEF Work, Lease
  <2>2. lease \in Lease
    BY <2>a DEF Lease
  <2>3. [w EXCEPT !.lease.expiresAt = now + LeaseMs] = [w EXCEPT !.lease = lease]
    BY <2>1 DEF Work
  <2>4. [w EXCEPT !.lease.expiresAt = now + LeaseMs] \in Work
    BY <2>1, <2>2, <2>3 DEF Work
  <2> QED
    BY <1>6, <1>a, <2>4, SaveWorkType DEF RenewLease, TypeOK
<1>7. ASSUME NEW g \in granted, NEW task \in Tasks, NEW now \in Now,
             AdvanceFence(g.work, task, g, now)
      PROVE  TypeOK'
  <2> DEFINE w == works[g.work]
             lease == NewLease(uuids + 1, w.lease.owner, w.lease.sched, now)
             next == [w EXCEPT !.token = NextToken, !.lease = lease]
  <2>1. w \in Work /\ w.lease \in Lease /\ w.lease /= NoLease
    BY <1>7, <1>a DEF AdvanceFence, HasLease, Work
  <2>2. lease \in Lease /\ lease.owner \in Owners
    BY <1>a, <2>1, NewLeaseType, LeaseFields
  <2> HIDE DEF lease
  <2>3. next \in Work /\ next.lease = lease
    BY <1>a, <2>1, <2>2 DEF Work
  <2> HIDE DEF next
  <2>4. GrantOf(g.work, next) \in Grant
    BY <1>a, <2>2, <2>3, GrantType
  <2>5. SaveWork(g.work, next) /\ granted' = granted \cup {GrantOf(g.work, next)}
    BY <1>7 DEF AdvanceFence, next, lease
  <2> QED
    BY <1>7, <1>a, <2>3, <2>4, <2>5, SaveWorkType DEF AdvanceFence, TypeOK
<1>8. ASSUME NEW g \in granted, NEW task \in Tasks, NEW now \in Now, NEW force \in BOOLEAN,
             RolloverPublication(g.work, task, g, force, now)
      PROVE  TypeOK'
  <2> DEFINE w == works[g.work]
             lease == NewLease(uuids + 1, g.owner, g.sched, now)
             history == RetireClaim(w, NextEpoch)
             next == [w EXCEPT !.epoch = NextEpoch, !.token = NextToken, !.lease = lease,
                               !.claim = NoClaim, !.history = history]
  <2>1. w \in Work /\ g.owner \in Owners /\ g.sched \in Nat
    BY <1>a DEF Grant
  <2>2. lease \in Lease /\ lease.owner \in Owners
    BY <1>a, <2>1, NewLeaseType, LeaseFields
  <2>3. history \in Seq(HistoryEntry)
    BY <1>a, <2>1, RetireClaimType
  <2> HIDE DEF lease, history
  <2>4. next \in Work /\ next.lease = lease
    BY <1>a, <2>1, <2>2, <2>3, EmptyRecords DEF Work
  <2> HIDE DEF next
  <2>5. GrantOf(g.work, next) \in Grant
    BY <1>a, <2>2, <2>4, GrantType
  <2>6. /\ works' = [works EXCEPT ![g.work] = next]
        /\ granted' = granted \cup {GrantOf(g.work, next)}
    BY <1>8 DEF RolloverPublication, next, lease, history
  <2> QED
    BY <1>8, <1>a, <2>4, <2>5, <2>6 DEF RolloverPublication, Save, TypeOK
<1>9. ASSUME NEW g \in granted, NEW task \in Tasks, NEW now \in Now,
             NEW owner \in Owners, NEW sched \in SchedulerEpochs,
             RecoverLease(g.work, task, g, owner, sched, now)
      PROVE  TypeOK'
  <2> DEFINE w == works[g.work]
             lease == NewLease(w.lease.id, owner, sched, now)
             claim == IF HasClaim(w)
                      THEN [w.claim EXCEPT !.owner = owner, !.sched = sched]
                      ELSE w.claim
             next == [w EXCEPT !.lease = lease, !.claim = claim]
  <2>1. w \in Work /\ w.lease.id \in Nat
    BY <1>a, LeaseFields DEF Work
  <2>2. lease \in Lease /\ lease.owner \in Owners
    BY <1>a, <2>1, NewLeaseType, LeaseFields
  <2>3. claim \in Claim
    BY <1>a, <2>1 DEF Work, Claim, HasClaim
  <2> HIDE DEF lease, claim
  <2>4. next \in Work /\ next.lease = lease
    BY <1>a, <2>1, <2>2, <2>3 DEF Work
  <2> HIDE DEF next
  <2>5. GrantOf(g.work, next) \in Grant
    BY <1>a, <2>2, <2>4, GrantType
  <2>6. SaveWork(g.work, next) /\ granted' = granted \cup {GrantOf(g.work, next)}
    BY <1>9 DEF RecoverLease, next, lease, claim
  <2> QED
    BY <1>9, <1>a, <2>4, <2>5, <2>6, SaveWorkType DEF RecoverLease, TypeOK
<1>10. ASSUME NEW g \in granted, NEW c \in Commits, NEW now \in Now,
              ClaimPublication(c, g, now)
       PROVE  TypeOK'
  <2>1. WorkOf[c] \in Revisions
    BY ConstantsAssumption
  <2>2. [works[WorkOf[c]] EXCEPT !.claim = ClaimBy(c, g)] \in Work
    BY <1>a, <2>1, ClaimType DEF Work
  <2> QED
    BY <1>10, <2>1, <2>2, SaveWorkType DEF ClaimPublication, TypeOK
<1>11. ASSUME NEW g \in granted, NEW c \in Commits, NEW now \in Now, Publish(c, g, now)
       PROVE  TypeOK'
  BY <1>11, <1>a DEF Publish, TypeOK, Artifact, Grant, registryVars
<1>12. ASSUME NEW r \in Revisions, NEW done \in BOOLEAN, ManualFence(r, done)
       PROVE  TypeOK'
  <2>1. Fence(works[r]) \in Work
    BY <1>a, FenceType
  <2>2. artifact' \in Artifact
    BY <1>12, <1>a DEF ManualFence, UserWrites, Artifact, TypeOK
  <2> QED
    BY <1>12, <1>a, <2>1, <2>2 DEF ManualFence, Save, TypeOK
<1>13. CASE ManualUnfenced
  BY <1>13 DEF ManualUnfenced, UserWrites, Artifact, TypeOK, registryVars
<1>14. ASSUME NEW b \in Bindings, NEW g \in granted, EnsureUnit(b, g)
       PROVE  TypeOK'
  BY <1>14, <1>a DEF EnsureUnit, TypeOK, Grant, registryVars
<1>15. CASE UNCHANGED vars
  BY <1>15 DEF vars, TypeOK
<1> QED
  BY <1>1, <1>2, <1>3, <1>4, <1>5, <1>6, <1>7, <1>8, <1>9, <1>10, <1>11, <1>12, <1>13, <1>14, <1>15
  DEF Next

\* Every reachable registry document, grant and artifact has its declared type,
\* whatever the callers do.
THEOREM TypeCorrect == Spec => []TypeOK
BY TypeInit, TypeNext, PTL DEF Spec

-----------------------------------------------------------------------------
(* Fencing.  As far as grants are concerned a step is of one of three kinds:  *)
(* it leaves every lease alone or drops it, it issues a lease under a fresh    *)
(* token, or it passes a lease on to a later scheduler epoch.                  *)

\* Two works are under the same lease.
SameLease(v, w) ==
    /\ v.state = w.state /\ v.token = w.token /\ v.epoch = w.epoch
    /\ v.lease.id = w.lease.id /\ v.lease.owner = w.lease.owner /\ v.lease.sched = w.lease.sched

\* No lease is issued or passed on.
Quiet ==
    /\ granted' = granted
    /\ tokenCursor' >= tokenCursor
    /\ \A r \in Revisions :
          /\ works'[r].token <= tokenCursor'
          /\ HasLease(works'[r]) => HasLease(works[r]) /\ SameLease(works'[r], works[r])

\* One work gets a lease under the next token.
Issues(r) ==
    /\ tokenCursor' = tokenCursor + 1
    /\ works'[r].token = tokenCursor + 1
    /\ \A q \in Revisions \ {r} : works'[q] = works[q]
    /\ granted' = granted \cup {GrantOf(r, works'[r])}

\* One work's lease goes to a later scheduler epoch, or stays where it is.
PassesOn(r) ==
    /\ tokenCursor' = tokenCursor
    /\ HasLease(works[r])
    /\ works'[r].state = works[r].state
    /\ works'[r].token = works[r].token
    /\ works'[r].epoch = works[r].epoch
    /\ works'[r].lease.id = works[r].lease.id
    /\ works'[r].lease.sched >= works[r].lease.sched
    /\ works'[r].lease.sched = works[r].lease.sched => works'[r].lease.owner = works[r].lease.owner
    /\ \A q \in Revisions \ {r} : works'[q] = works[q]
    /\ granted' = granted \cup {GrantOf(r, works'[r])}

\* A work honours a grant only while it is leased.
LEMMA MatchNeedsLease ==
    ASSUME NEW w \in Work, NEW g \in Grant, Matches(w, g)
    PROVE  HasLease(w)
BY ConstantsAssumption DEF Matches, HasLease, NoLease, Grant

\* Leaving leases alone or dropping them keeps the fencing invariant.
LEMMA QuietFencing ==
    ASSUME TypeOK, TypeOK', FencingInv, Quiet
    PROVE  FencingInv' /\ StaysFenced
<1>1. \A r \in Revisions : HasLease(works'[r]) => GrantOf(r, works'[r]) = GrantOf(r, works[r])
  BY DEF Quiet, SameLease, GrantOf
<1>2. \A g \in granted : g \in Grant /\ g.work \in Revisions /\ g.token \in Nat
  BY DEF TypeOK, Grant
<1>3. TokensFromCursor'
  BY <1>2 DEF FencingInv, TokensFromCursor, Quiet, TypeOK
<1>4. HolderWasGranted'
  BY <1>1 DEF FencingInv, HolderWasGranted, Quiet
<1>5. HolderIsLatest'
  BY <1>2 DEF FencingInv, HolderIsLatest, Quiet, SameLease
<1>6. TokenNamesOneLease'
  BY DEF FencingInv, TokenNamesOneLease, Quiet
<1>7. StaysFenced
  <2> SUFFICES ASSUME NEW g \in granted, Matches(works'[g.work], g)
               PROVE  Matches(works[g.work], g)
    BY DEF StaysFenced
  <2>1. HasLease(works'[g.work])
    BY <1>2, MatchNeedsLease DEF TypeOK
  <2> QED
    BY <1>2, <2>1 DEF Quiet, SameLease, Matches
<1> QED
  BY <1>3, <1>4, <1>5, <1>6, <1>7 DEF FencingInv

\* So does issuing a lease under a fresh token.
LEMMA IssuesFencing ==
    ASSUME TypeOK, TypeOK', FencingInv, NEW r \in Revisions, Issues(r)
    PROVE  FencingInv' /\ StaysFenced
<1> DEFINE new == GrantOf(r, works'[r])
<1>1. /\ new.work = r /\ new.token = tokenCursor + 1
      /\ new.sched = works'[r].lease.sched
  BY DEF GrantOf, Issues
<1>2. \A g \in granted : g \in Grant /\ g.work \in Revisions /\ g.token \in Nat /\ g.token <= tokenCursor
  BY DEF TypeOK, Grant, FencingInv, TokensFromCursor
<1>3. tokenCursor \in Nat /\ works'[r].lease.sched \in Nat
  BY LeaseFields DEF TypeOK, Work
<1>4. granted' = granted \cup {new}
  BY DEF Issues
<1>a. \A q \in Revisions : works[q].token \in Nat
  BY DEF TypeOK, Work
<1> HIDE DEF new
<1>5. TokensFromCursor'
  BY <1>1, <1>2, <1>3, <1>4, <1>a DEF FencingInv, TokensFromCursor, Issues
<1>6. HolderWasGranted'
  BY <1>4 DEF FencingInv, HolderWasGranted, Issues, new
<1>7. HolderIsLatest'
  BY <1>1, <1>2, <1>3, <1>4 DEF FencingInv, HolderIsLatest, Issues
<1>8. TokenNamesOneLease'
  BY <1>1, <1>2, <1>3, <1>4 DEF FencingInv, TokenNamesOneLease
<1>9. StaysFenced
  BY <1>2, <1>3 DEF StaysFenced, Matches, Issues
<1> QED
  BY <1>5, <1>6, <1>7, <1>8, <1>9 DEF FencingInv

\* So does passing a lease on: the scheduler epochs under one token only grow.
LEMMA PassesOnFencing ==
    ASSUME TypeOK, TypeOK', FencingInv, NEW r \in Revisions, PassesOn(r)
    PROVE  FencingInv' /\ StaysFenced
<1> DEFINE old == GrantOf(r, works[r])
           new == GrantOf(r, works'[r])
<1>1. /\ old \in granted
      /\ old.work = r /\ old.token = works[r].token /\ old.epoch = works[r].epoch
      /\ old.leaseId = works[r].lease.id /\ old.sched = works[r].lease.sched
      /\ old.owner = works[r].lease.owner
  BY DEF FencingInv, HolderWasGranted, PassesOn, GrantOf
<1>2. /\ new.work = r /\ new.token = old.token /\ new.epoch = old.epoch
      /\ new.leaseId = old.leaseId
      /\ new.sched = works'[r].lease.sched /\ new.owner = works'[r].lease.owner
  BY <1>1 DEF PassesOn, GrantOf
<1>3. granted' = granted \cup {new}
  BY DEF PassesOn
<1>4. \A g \in granted : g \in Grant /\ g.work \in Revisions /\ g.token \in Nat /\ g.sched \in Nat
  BY DEF TypeOK, Grant
<1>5. works[r].lease.sched \in Nat /\ works'[r].lease.sched \in Nat
  BY LeaseFields DEF TypeOK, Work
<1>6. \A g \in granted : g.token = old.token =>
         /\ g.work = r /\ g.epoch = old.epoch /\ g.leaseId = old.leaseId
         /\ g.sched <= works[r].lease.sched
         /\ g.sched = old.sched => g.owner = old.owner
  BY <1>1 DEF FencingInv, TokenNamesOneLease, HolderIsLatest, PassesOn
<1>7. /\ works'[r].lease.sched >= works[r].lease.sched
      /\ works'[r].lease.sched = works[r].lease.sched
            => works'[r].lease.owner = works[r].lease.owner
  BY DEF PassesOn
<1> HIDE DEF old, new
<1>8. TokensFromCursor'
  BY <1>1, <1>2, <1>3 DEF FencingInv, TokensFromCursor, PassesOn
<1>9. HolderWasGranted'
  BY <1>3 DEF FencingInv, HolderWasGranted, PassesOn, new
<1>10. HolderIsLatest'
  BY <1>1, <1>2, <1>3, <1>4, <1>5, <1>6, <1>7 DEF FencingInv, HolderIsLatest, PassesOn
<1>11. TokenNamesOneLease'
  <2>1. \A g \in granted : g.token = new.token =>
           /\ g.work = new.work /\ g.epoch = new.epoch /\ g.leaseId = new.leaseId
           /\ g.sched = new.sched => g.owner = new.owner
    BY <1>1, <1>2, <1>4, <1>5, <1>6, <1>7
  <2> QED
    BY <1>3, <2>1 DEF FencingInv, TokenNamesOneLease
<1>12. StaysFenced
  <2> SUFFICES ASSUME NEW g \in granted, Matches(works'[g.work], g)
               PROVE  Matches(works[g.work], g)
    BY DEF StaysFenced
  <2>1. CASE g.work = r
    <3>1. g.token = old.token /\ g.sched = works'[r].lease.sched /\ g.owner = works'[r].lease.owner
      BY <1>1, <2>1 DEF Matches, PassesOn
    <3>2. g.sched = works[r].lease.sched
      BY <1>4, <1>5, <1>6, <1>7, <3>1
    <3> QED
      BY <1>7, <2>1, <3>1, <3>2 DEF Matches, PassesOn
  <2>2. CASE g.work /= r
    BY <1>4, <2>2 DEF PassesOn
  <2> QED
    BY <2>1, <2>2
<1> QED
  BY <1>8, <1>9, <1>10, <1>11, <1>12 DEF FencingInv

\* A step that leaves the registry and the grants alone is quiet.
LEMMA UnchangedIsQuiet ==
    ASSUME TypeOK, FencingInv, works' = works, tokenCursor' = tokenCursor, granted' = granted
    PROVE  Quiet
BY DEF Quiet, SameLease, FencingInv, TokensFromCursor, TypeOK

\* A save that keeps a work's token, epoch, state and lease is quiet.
LEMMA SameLeaseIsQuiet ==
    ASSUME TypeOK, FencingInv, NEW r \in Revisions, NEW w,
           works' = [works EXCEPT ![r] = w],
           HasLease(w) => HasLease(works[r]), SameLease(w, works[r]),
           tokenCursor' = tokenCursor, granted' = granted
    PROVE  Quiet
BY DEF Quiet, SameLease, FencingInv, TokensFromCursor, TypeOK

\* Every step is of one of the three kinds.
LEMMA StepKinds ==
    ASSUME TypeOK, FencingInv, [Next]_vars
    PROVE  Quiet \/ \E r \in Revisions : Issues(r) \/ PassesOn(r)
<1>a. /\ \A r \in Revisions : works[r] \in Work /\ works[r].token \in Nat /\ works[r].lease \in Lease
      /\ \A g \in granted : g \in Grant /\ g.work \in Revisions
      /\ tokenCursor \in Nat
  BY DEF TypeOK, Grant, Work
<1>1. CASE Tick
  BY <1>1, UnchangedIsQuiet DEF Tick, registryVars
<1>2. ASSUME NEW r \in Revisions, NEW task \in Tasks, StartWork(r, task)
      PROVE  Quiet
  <2>1. ASSUME NEW q \in Revisions
        PROVE  /\ works'[q].token <= tokenCursor'
               /\ HasLease(works'[q]) => HasLease(works[q]) /\ SameLease(works'[q], works[q])
    <3>1. CASE q = r
      <4>1. works'[q] = [AbsentWork EXCEPT !.state = "Active", !.epoch = NextEpoch,
                                           !.active = {task}]
        BY <1>2, <3>1 DEF StartWork
      <4>2. works'[q].token = 0 /\ works'[q].lease = NoLease
        BY <4>1 DEF AbsentWork
      <4> QED
        BY <1>2, <1>a, <4>2 DEF StartWork, HasLease
    <3>2. CASE q /= r
      <4>1. works'[q] = Supersede(works[q])
        BY <1>2, <3>2 DEF StartWork
      <4> QED
        BY <1>2, <1>a, <4>1
        DEF StartWork, Supersede, HasLease, SameLease, Work, FencingInv, TokensFromCursor
    <3> QED
      BY <3>1, <3>2
  <2> QED
    BY <1>2, <1>a, <2>1 DEF StartWork, Quiet
<1>3. ASSUME NEW r \in Revisions, NEW task \in Tasks, AttachTask(r, task)
      PROVE  Quiet
  <2>1. SameLease([works[r] EXCEPT !.active = @ \cup {task}], works[r])
        /\ [works[r] EXCEPT !.active = @ \cup {task}].lease = works[r].lease
    BY <1>a DEF SameLease, Work
  <2> QED
    BY <1>3, <2>1, SameLeaseIsQuiet DEF AttachTask, SaveWork, HasLease
<1>4. ASSUME NEW r \in Revisions, NEW task \in Tasks, DetachTask(r, task)
      PROVE  Quiet
  <2>1. SameLease([works[r] EXCEPT !.active = @ \ {task}], works[r])
        /\ [works[r] EXCEPT !.active = @ \ {task}].lease = works[r].lease
    BY <1>a DEF SameLease, Work
  <2> QED
    BY <1>4, <2>1, SameLeaseIsQuiet DEF DetachTask, SaveWork, HasLease
<1>5. ASSUME NEW r \in Revisions, NEW task \in Tasks, NEW now \in Now,
             NEW owner \in Owners, NEW sched \in SchedulerEpochs,
             AcquireLease(r, task, owner, sched, now)
      PROVE  Issues(r)
  BY <1>5, <1>a DEF AcquireLease, SaveWork, Issues, NextToken, TypeOK, Work
<1>6. ASSUME NEW g \in granted, NEW task \in Tasks, NEW now \in Now,
             RenewLease(g.work, task, g, now)
      PROVE  Quiet
  <2> DEFINE w == works[g.work]
             next == [w EXCEPT !.lease.expiresAt = now + LeaseMs]
  <2>1. w \in Work /\ HasLease(w)
    BY <1>6, <1>a DEF RenewLease
  <2>2. SameLease(next, w)
    BY <2>1 DEF SameLease, Work, Lease, HasLease
  <2>3. works' = [works EXCEPT ![g.work] = next] /\ tokenCursor' = tokenCursor /\ granted' = granted
    BY <1>6 DEF RenewLease, SaveWork
  <2> HIDE DEF next
  <2> QED
    BY <1>a, <2>1, <2>2, <2>3, SameLeaseIsQuiet
<1>7. ASSUME NEW g \in granted, NEW task \in Tasks, NEW now \in Now,
             AdvanceFence(g.work, task, g, now)
      PROVE  Issues(g.work)
  <2> DEFINE w == works[g.work]
             next == [w EXCEPT !.token = NextToken,
                               !.lease = NewLease(uuids + 1, w.lease.owner, w.lease.sched, now)]
  <2>1. /\ works' = [works EXCEPT ![g.work] = next] /\ tokenCursor' = NextToken
        /\ granted' = granted \cup {GrantOf(g.work, next)}
    BY <1>7 DEF AdvanceFence, SaveWork
  <2>2. w \in Work /\ works \in [Revisions -> Work] /\ g.work \in Revisions
    BY <1>a DEF TypeOK
  <2>3. next.token = NextToken
    BY <2>2 DEF Work
  <2> HIDE DEF next
  <2>4. works'[g.work] = next /\ \A q \in Revisions \ {g.work} : works'[q] = works[q]
    BY <2>1, <2>2
  <2> QED
    BY <2>1, <2>3, <2>4 DEF Issues, NextToken
<1>8. ASSUME NEW g \in granted, NEW task \in Tasks, NEW now \in Now, NEW force \in BOOLEAN,
             RolloverPublication(g.work, task, g, force, now)
      PROVE  Issues(g.work)
  <2> DEFINE w == works[g.work]
             next == [w EXCEPT !.epoch = NextEpoch, !.token = NextToken,
                               !.lease = NewLease(uuids + 1, g.owner, g.sched, now),
                               !.claim = NoClaim, !.history = RetireClaim(w, NextEpoch)]
  <2>1. /\ works' = [works EXCEPT ![g.work] = next] /\ tokenCursor' = NextToken
        /\ granted' = granted \cup {GrantOf(g.work, next)}
    BY <1>8 DEF RolloverPublication
  <2>2. w \in Work /\ works \in [Revisions -> Work] /\ g.work \in Revisions
    BY <1>a DEF TypeOK
  <2>3. next.token = NextToken
    BY <2>2 DEF Work
  <2> HIDE DEF next
  <2>4. works'[g.work] = next /\ \A q \in Revisions \ {g.work} : works'[q] = works[q]
    BY <2>1, <2>2
  <2> QED
    BY <2>1, <2>3, <2>4 DEF Issues, NextToken
<1>9. ASSUME NEW g \in granted, NEW task \in Tasks, NEW now \in Now,
             NEW owner \in Owners, NEW sched \in SchedulerEpochs,
             RecoverLease(g.work, task, g, owner, sched, now)
      PROVE  PassesOn(g.work)
  <2> DEFINE w == works[g.work]
             lease == NewLease(w.lease.id, owner, sched, now)
             claim == IF HasClaim(w)
                      THEN [w.claim EXCEPT !.owner = owner, !.sched = sched]
                      ELSE w.claim
             next == [w EXCEPT !.lease = lease, !.claim = claim]
  <2>1. lease.id = w.lease.id /\ lease.owner = owner /\ lease.sched = sched
    BY DEF NewLease
  <2> HIDE DEF lease, claim
  <2>2. next.state = w.state /\ next.token = w.token /\ next.epoch = w.epoch /\ next.lease = lease
    BY <1>a DEF Work
  <2> HIDE DEF next
  <2>3. /\ works' = [works EXCEPT ![g.work] = next]
        /\ granted' = granted \cup {GrantOf(g.work, next)}
        /\ tokenCursor' = tokenCursor
        /\ HasLease(w)
        /\ MayTakeOver(w, g, owner, sched)
    BY <1>9 DEF RecoverLease, SaveWork, next, lease, claim
  <2>4. works'[g.work] = next /\ \A q \in Revisions \ {g.work} : works'[q] = works[q]
    BY <1>a, <2>3 DEF TypeOK
  <2>5. sched \in Nat /\ w.lease.sched \in Nat
    BY <1>a, ConstantsAssumption, LeaseFields
  <2> QED
    BY <2>1, <2>2, <2>3, <2>4, <2>5 DEF PassesOn, MayTakeOver
<1>10. ASSUME NEW g \in granted, NEW c \in Commits, NEW now \in Now,
              ClaimPublication(c, g, now)
       PROVE  Quiet
  <2>1. WorkOf[c] \in Revisions
    BY ConstantsAssumption
  <2>2. /\ SameLease([works[WorkOf[c]] EXCEPT !.claim = ClaimBy(c, g)], works[WorkOf[c]])
        /\ [works[WorkOf[c]] EXCEPT !.claim = ClaimBy(c, g)].lease = works[WorkOf[c]].lease
    BY <1>a, <2>1 DEF SameLease, Work
  <2> QED
    BY <1>10, <2>1, <2>2, SameLeaseIsQuiet DEF ClaimPublication, SaveWork, HasLease
<1>11. ASSUME NEW g \in granted, NEW c \in Commits, NEW now \in Now, Publish(c, g, now)
       PROVE  Quiet
  BY <1>11, UnchangedIsQuiet DEF Publish, registryVars
<1>12. ASSUME NEW r \in Revisions, NEW done \in BOOLEAN, ManualFence(r, done)
       PROVE  Quiet
  <2>1. Fence(works[r]).token = tokenCursor + 1 /\ ~HasLease(Fence(works[r]))
    BY <1>a DEF Fence, NextToken, HasLease, Work
  <2>2. works' = [works EXCEPT ![r] = Fence(works[r])] /\ tokenCursor' = tokenCursor + 1
        /\ granted' = granted
    BY <1>12 DEF ManualFence, NextToken
  <2>3. works'[r] = Fence(works[r]) /\ \A q \in Revisions \ {r} : works'[q] = works[q]
    BY <2>2 DEF TypeOK
  <2>4. ASSUME NEW q \in Revisions
        PROVE  /\ works'[q].token <= tokenCursor'
               /\ HasLease(works'[q]) => HasLease(works[q]) /\ SameLease(works'[q], works[q])
    BY <1>a, <2>1, <2>2, <2>3 DEF SameLease, FencingInv, TokensFromCursor
  <2> QED
    BY <1>a, <2>2, <2>4 DEF Quiet
<1>13. CASE ManualUnfenced
  BY <1>13, UnchangedIsQuiet DEF ManualUnfenced, registryVars
<1>14. ASSUME NEW b \in Bindings, NEW g \in granted, EnsureUnit(b, g)
       PROVE  Quiet
  BY <1>14, UnchangedIsQuiet DEF EnsureUnit, registryVars
<1>15. CASE UNCHANGED vars
  BY <1>15, UnchangedIsQuiet DEF vars
<1> QED
  BY <1>1, <1>2, <1>3, <1>4, <1>5, <1>6, <1>7, <1>8, <1>9, <1>10, <1>11, <1>12, <1>13, <1>14, <1>15, <1>a
  DEF Next

\* Nothing has been granted at the start.
LEMMA FencingInit == Init => FencingInv
BY EmptyRecords
DEF Init, FencingInv, TokensFromCursor, HolderWasGranted, HolderIsLatest, TokenNamesOneLease,
    AbsentWork, HasLease

\* Every step keeps the fencing invariant, being of one of the three kinds.
LEMMA FencingNext ==
    ASSUME TypeOK, TypeOK', FencingInv, [Next]_vars
    PROVE  FencingInv' /\ StaysFenced
BY StepKinds, QuietFencing, IssuesFencing, PassesOnFencing

\* The inductive invariant behind the fencing results: every lease in force was
\* granted, under a token of its own, to the latest scheduler epoch.
THEOREM FencingInvariant == Spec => []FencingInv
<1>1. TypeOK /\ TypeOK' /\ FencingInv /\ [Next]_vars => FencingInv'
  BY FencingNext
<1> QED
  BY <1>1, FencingInit, TypeCorrect, PTL DEF Spec

\* No fencing token is ever handed out twice: the grants of one token are one
\* lease of one work, passed on from scheduler epoch to scheduler epoch.
THEOREM TokensAreUnique == Spec => []TokenNamesOneLease
<1>1. FencingInv => TokenNamesOneLease
  BY DEF FencingInv
<1> QED
  BY <1>1, FencingInvariant, PTL

\* A grant the registry has stopped honouring is never honoured again, however
\* long its holder was paused and whatever the others did meanwhile.
THEOREM FencedGrantsStayFenced == Spec => FencedForever
<1>1. TypeOK /\ TypeOK' /\ FencingInv /\ [Next]_vars => [StaysFenced]_vars
  BY FencingNext
<1> QED
  BY <1>1, TypeCorrect, FencingInvariant, PTL DEF Spec, FencedForever

-----------------------------------------------------------------------------
(* Publication. *)

\* What a step may do to a work other than the one it opens an epoch for: drop its
\* lease, or issue one under a new token; leave its epoch and keep its claim, or
\* put one where there was none.
WorkMoves(r) ==
    /\ HasLease(works'[r]) =>
          /\ works'[r].state = "Active"
          /\ \/ works'[r].token > tokenCursor
             \/ HasLease(works[r]) /\ works'[r].token = works[r].token
    /\ works'[r].epoch = works[r].epoch
    /\ (works'[r].state = "Absent") <=> (works[r].state = "Absent")
    /\ works'[r].claim.commit = works[r].claim.commit \/ works[r].claim.commit = NoCommit

\* The work that a new epoch is opened for.
WorkRenewed(r) ==
    /\ epochCursor' = epochCursor + 1
    /\ works'[r].epoch = epochCursor + 1
    /\ works'[r].state = "Active"
    /\ HasLease(works'[r]) => works'[r].token > tokenCursor

\* A step that publishes nothing.
DocumentMoves(opened) ==
    /\ published' = published
    /\ tokenCursor' >= tokenCursor
    /\ epochCursor' >= epochCursor
    /\ \A r \in opened : WorkRenewed(r)
    /\ \A r \in Revisions \ opened : WorkMoves(r)
    /\ \A q, r \in Revisions : works'[q].state = "Active" /\ works'[r].state = "Active" => q = r

\* Numbers and commits in the document are what they should be.
LEMMA WorkFields ==
    ASSUME TypeOK, NEW r \in Revisions
    PROVE  /\ works[r] \in Work
           /\ works[r].epoch \in Nat /\ works[r].token \in Nat
           /\ works[r].lease \in Lease /\ works[r].claim \in Claim
           /\ works[r].claim.commit \in Commits \cup {NoCommit}
           /\ works[r].claim.commit = NoCommit <=> ~HasClaim(works[r])
BY ConstantsAssumption DEF TypeOK, Work, Claim, NoClaim, HasClaim

\* Steps that publish nothing keep the part of the invariant about the document.
LEMMA DocumentMovesInv ==
    ASSUME TypeOK, TypeOK', PublicationInv,
           NEW opened \in SUBSET Revisions, \A q, r \in opened : q = r,
           DocumentMoves(opened)
    PROVE  OneActive' /\ EpochsFromCursor' /\ ClaimOutlivesPublication' /\ OnePublisherPerEpoch'
<1>a. /\ epochCursor \in Nat /\ epochCursor' \in Nat /\ tokenCursor \in Nat /\ tokenCursor' \in Nat
      /\ \A r \in Revisions : works[r].epoch \in Nat /\ works'[r].epoch \in Nat
      /\ \A p \in published : p.epoch \in Nat /\ p.commit \in Commits
  BY WorkFields DEF TypeOK, Work
<1>1. OneActive'
  BY DEF OneActive, DocumentMoves, WorkMoves, WorkRenewed
<1>2. \A r \in Revisions : /\ works'[r].epoch <= epochCursor'
                           /\ works'[r].state /= "Absent" => works'[r].epoch > 0
  BY <1>a DEF PublicationInv, EpochsFromCursor, DocumentMoves, WorkMoves, WorkRenewed
<1>3. \A q, r \in Revisions :
         works'[q].state /= "Absent" /\ works'[r].state /= "Absent"
            => (works'[q].epoch = works'[r].epoch => q = r)
  BY <1>a DEF PublicationInv, EpochsFromCursor, Present, DocumentMoves, WorkMoves, WorkRenewed
<1>4. EpochsFromCursor'
  BY <1>a, <1>2, <1>3 DEF PublicationInv, EpochsFromCursor, Present, DocumentMoves
<1>5. ClaimOutlivesPublication'
  <2> SUFFICES ASSUME NEW p \in published, NEW r \in Revisions,
                      works'[r].state /= "Absent", works'[r].epoch = p.epoch
               PROVE  works'[r].claim.commit = p.commit
    BY DEF ClaimOutlivesPublication, Present, DocumentMoves
  <2>1. r \notin opened
    BY <1>a DEF PublicationInv, EpochsFromCursor, DocumentMoves, WorkRenewed
  <2>2. WorkMoves(r)
    BY <2>1 DEF DocumentMoves
  <2>3. works[r].claim.commit = p.commit
    BY <2>2 DEF PublicationInv, ClaimOutlivesPublication, Present, WorkMoves
  <2> QED
    BY <1>a, <2>2, <2>3, ConstantsAssumption DEF WorkMoves
<1>6. OnePublisherPerEpoch'
  BY DEF PublicationInv, OnePublisherPerEpoch, DocumentMoves
<1> QED
  BY <1>1, <1>4, <1>5, <1>6

\* Leases that a step keeps are ahead of what was visible, and so are new ones.
LEMMA VisibleStaysBehind ==
    ASSUME TypeOK, TypeOK', PublicationInv,
           NEW opened \in SUBSET Revisions, DocumentMoves(opened),
           artifact' = artifact
    PROVE  VisibleBehindLease'
<1>a. /\ tokenCursor \in Nat /\ tokenCursor' \in Nat /\ artifact.token \in Nat
      /\ \A r \in Revisions : works[r].token \in Nat /\ works'[r].token \in Nat
  BY WorkFields DEF TypeOK, Work, Artifact
<1> QED
  BY <1>a DEF PublicationInv, VisibleBehindLease, DocumentMoves, WorkMoves, WorkRenewed

\* A step that leaves the document alone moves nothing.
LEMMA UnchangedMoves ==
    ASSUME TypeOK, PublicationInv, registryVars' = registryVars, published' = published
    PROVE  DocumentMoves({})
BY DEF TypeOK, registryVars, DocumentMoves, WorkMoves, PublicationInv, OneActive

\* A save of one work that stays in its epoch moves nothing else.
LEMMA SaveMoves ==
    ASSUME TypeOK, PublicationInv, NEW r \in Revisions, NEW w,
           works' = [works EXCEPT ![r] = w],
           w.state = works[r].state, w.epoch = works[r].epoch,
           w.claim.commit = works[r].claim.commit \/ works[r].claim.commit = NoCommit,
           HasLease(w) => /\ w.state = "Active"
                          /\ w.token > tokenCursor \/ (HasLease(works[r]) /\ w.token = works[r].token),
           published' = published, tokenCursor' >= tokenCursor, epochCursor' = epochCursor
    PROVE  DocumentMoves({})
<1>1. works'[r] = w /\ \A q \in Revisions \ {r} : works'[q] = works[q]
  BY DEF TypeOK
<1>2. \A q \in Revisions : WorkMoves(q)
  BY <1>1 DEF WorkMoves, PublicationInv, OneActive
<1> QED
  BY <1>1, <1>2 DEF DocumentMoves, PublicationInv, OneActive, TypeOK

\* A save that opens a new epoch for the work in production moves nothing else.
LEMMA RenewMoves ==
    ASSUME TypeOK, PublicationInv, NEW r \in Revisions, NEW w,
           works' = [works EXCEPT ![r] = w],
           works[r].state = "Active", w.state = "Active", w.epoch = epochCursor + 1,
           HasLease(w) => w.token > tokenCursor,
           published' = published, tokenCursor' >= tokenCursor, epochCursor' = epochCursor + 1
    PROVE  DocumentMoves({r})
<1>1. works'[r] = w /\ \A q \in Revisions \ {r} : works'[q] = works[q]
  BY DEF TypeOK
<1>2. \A q \in Revisions \ {r} : WorkMoves(q)
  BY <1>1 DEF WorkMoves, PublicationInv, OneActive
<1>3. WorkRenewed(r)
  BY <1>1 DEF WorkRenewed
<1> QED
  BY <1>1, <1>2, <1>3 DEF DocumentMoves, PublicationInv, OneActive, TypeOK

\* Nothing has been published at the start.
LEMMA PublicationInit == Init => PublicationInv
BY EmptyRecords
DEF Init, PublicationInv, OneActive, EpochsFromCursor, ClaimOutlivesPublication, Present,
    OnePublisherPerEpoch, VisibleBehindLease, AbsentWork, NoArtifact, HasLease

\* The step that publishes.
LEMMA PublishKeepsInv ==
    ASSUME TypeOK, TypeOK', FencingInv, PublicationInv,
           NEW g \in granted, NEW c \in Commits, NEW now \in Now, Publish(c, g, now)
    PROVE  PublicationInv' /\ MovesForward
<1> DEFINE r == WorkOf[c]
           new == [epoch |-> g.epoch, commit |-> c]
<1>1. /\ r \in Revisions
      /\ works[r].state = "Active" /\ HasLease(works[r])
      /\ works[r].epoch = g.epoch /\ works[r].token = g.token
      /\ works[r].claim.commit = c
  BY ConstantsAssumption DEF Publish, Authorized, Matches, ClaimBy
<1>2. /\ works' = works /\ epochCursor' = epochCursor /\ tokenCursor' = tokenCursor
      /\ published' = published \cup {new}
      /\ artifact'.token = works[r].token /\ artifact'.by = "commit"
  BY <1>1 DEF Publish, registryVars
<1>3. /\ epochCursor \in Nat /\ tokenCursor \in Nat /\ artifact.token \in Nat
      /\ works[r].token \in Nat /\ works[r].token <= tokenCursor
      /\ \A q \in Revisions : works[q].epoch \in Nat
  BY <1>1, WorkFields DEF TypeOK, Artifact, FencingInv, TokensFromCursor
<1>4. new.epoch = works[r].epoch /\ new.commit = c /\ r \in Present
  BY <1>1 DEF Present
<1> HIDE DEF r, new
<1>5. \A p \in published : p.epoch = new.epoch => p.commit = new.commit
  BY <1>1, <1>4 DEF PublicationInv, ClaimOutlivesPublication
<1>6. \A q \in Present : works[q].epoch = new.epoch => works[q].claim.commit = new.commit
  BY <1>1, <1>4 DEF PublicationInv, EpochsFromCursor
<1>7. OneActive'
  BY <1>2 DEF PublicationInv, OneActive
<1>8. EpochsFromCursor'
  BY <1>1, <1>2, <1>3, <1>4 DEF PublicationInv, EpochsFromCursor, Present
<1>9. ClaimOutlivesPublication'
  BY <1>2, <1>6 DEF PublicationInv, ClaimOutlivesPublication, Present
<1>10. OnePublisherPerEpoch'
  BY <1>2, <1>5 DEF PublicationInv, OnePublisherPerEpoch
<1>11. VisibleBehindLease'
  <2>1. \A q \in Revisions : HasLease(works[q]) => q = r
    BY <1>1 DEF PublicationInv, OneActive
  <2> QED
    BY <1>2, <1>3, <2>1 DEF VisibleBehindLease
<1>12. MovesForward
  BY <1>1, <1>2, <1>3 DEF MovesForward, PublicationInv, VisibleBehindLease
<1> QED
  BY <1>7, <1>8, <1>9, <1>10, <1>11, <1>12 DEF PublicationInv

\* Every other step moves the document, and changes the artifacts only when it is
\* a manual change, after which nobody holds a lease.
LEMMA DocumentKinds ==
    ASSUME TypeOK, TypeOK', PublicationInv, [Next]_vars
    PROVE  \/ \E g \in granted, c \in Commits, now \in Now : Publish(c, g, now)
           \/ \E opened \in SUBSET Revisions :
                 /\ \A q, r \in opened : q = r
                 /\ DocumentMoves(opened)
                 /\ \/ artifact' = artifact
                    \/ /\ artifact' = [by |-> "user", commit |-> NoCommit, token |-> tokenCursor']
                       /\ \A r \in Revisions : ~HasLease(works'[r])
<1> DEFINE Kind(opened) ==
             /\ \A q, r \in opened : q = r
             /\ DocumentMoves(opened)
             /\ \/ artifact' = artifact
                \/ /\ artifact' = [by |-> "user", commit |-> NoCommit, token |-> tokenCursor']
                   /\ \A r \in Revisions : ~HasLease(works'[r])
<1>a. /\ \A r \in Revisions : works[r] \in Work /\ works[r].token \in Nat
      /\ \A g \in granted : g \in Grant /\ g.work \in Revisions
      /\ tokenCursor \in Nat
      /\ \A r \in Revisions : HasLease(works[r]) => works[r].state = "Active"
  BY WorkFields DEF TypeOK, Grant, PublicationInv, OneActive
<1>1. CASE Tick
  BY <1>1, UnchangedMoves DEF Tick, registryVars
<1>2. ASSUME NEW r \in Revisions, NEW task \in Tasks, StartWork(r, task)
      PROVE  Kind({r})
  <2>1. works'[r] = [AbsentWork EXCEPT !.state = "Active", !.epoch = NextEpoch, !.active = {task}]
    BY <1>2 DEF StartWork
  <2>2. works'[r].epoch = epochCursor + 1 /\ works'[r].state = "Active" /\ works'[r].lease = NoLease
    BY <2>1 DEF AbsentWork, NextEpoch
  <2>3. ASSUME NEW q \in Revisions \ {r}
        PROVE  WorkMoves(q) /\ works'[q].state /= "Active"
    <3>1. works'[q] = Supersede(works[q])
      BY <1>2 DEF StartWork
    <3> QED
      BY <1>a, <3>1 DEF Supersede, WorkMoves, HasLease, Work
  <2>4. /\ published' = published /\ artifact' = artifact
        /\ tokenCursor' = tokenCursor /\ epochCursor' = epochCursor + 1
    BY <1>2 DEF StartWork, NextEpoch
  <2>5. WorkRenewed(r)
    BY <2>2, <2>4 DEF WorkRenewed, HasLease
  <2> QED
    BY <2>2, <2>3, <2>4, <2>5 DEF DocumentMoves, TypeOK
<1>3. ASSUME NEW r \in Revisions, NEW task \in Tasks, AttachTask(r, task)
      PROVE  Kind({})
  <2> DEFINE w == [works[r] EXCEPT !.active = @ \cup {task}]
  <2>1. /\ w.state = works[r].state /\ w.epoch = works[r].epoch /\ w.token = works[r].token
        /\ w.claim = works[r].claim /\ w.lease = works[r].lease
    BY <1>a DEF Work
  <2>2. SaveWork(r, w) /\ UNCHANGED <<tokenCursor, published, artifact>>
    BY <1>3 DEF AttachTask
  <2> HIDE DEF w
  <2> QED
    <3>1. HasLease(w) => /\ w.state = "Active"
                         /\ w.token > tokenCursor \/ (HasLease(works[r]) /\ w.token = works[r].token)
      BY <1>a, <2>1 DEF HasLease
    <3>2. /\ works' = [works EXCEPT ![r] = w]
          /\ published' = published /\ tokenCursor' >= tokenCursor /\ epochCursor' = epochCursor
      BY <1>a, <2>2 DEF SaveWork
    <3>3. DocumentMoves({})
      BY <2>1, <3>1, <3>2, SaveMoves
    <3> QED
      BY <2>2, <3>3
<1>4. ASSUME NEW r \in Revisions, NEW task \in Tasks, DetachTask(r, task)
      PROVE  Kind({})
  <2> DEFINE w == [works[r] EXCEPT !.active = @ \ {task}]
  <2>1. /\ w.state = works[r].state /\ w.epoch = works[r].epoch /\ w.token = works[r].token
        /\ w.claim = works[r].claim /\ w.lease = works[r].lease
    BY <1>a DEF Work
  <2>2. SaveWork(r, w) /\ UNCHANGED <<tokenCursor, published, artifact>>
    BY <1>4 DEF DetachTask
  <2> HIDE DEF w
  <2> QED
    <3>1. HasLease(w) => /\ w.state = "Active"
                         /\ w.token > tokenCursor \/ (HasLease(works[r]) /\ w.token = works[r].token)
      BY <1>a, <2>1 DEF HasLease
    <3>2. /\ works' = [works EXCEPT ![r] = w]
          /\ published' = published /\ tokenCursor' >= tokenCursor /\ epochCursor' = epochCursor
      BY <1>a, <2>2 DEF SaveWork
    <3>3. DocumentMoves({})
      BY <2>1, <3>1, <3>2, SaveMoves
    <3> QED
      BY <2>2, <3>3
<1>5. ASSUME NEW r \in Revisions, NEW task \in Tasks, NEW now \in Now,
             NEW owner \in Owners, NEW sched \in SchedulerEpochs,
             AcquireLease(r, task, owner, sched, now)
      PROVE  Kind({})
  <2> DEFINE w == [works[r] EXCEPT !.token = NextToken,
                                   !.lease = NewLease(uuids + 1, owner, sched, now)]
  <2>1. /\ w.state = works[r].state /\ w.epoch = works[r].epoch /\ w.token = tokenCursor + 1
        /\ w.claim = works[r].claim
    BY <1>a DEF Work, NextToken
  <2>2. /\ SaveWork(r, w) /\ UNCHANGED <<published, artifact>> /\ tokenCursor' = tokenCursor + 1
        /\ works[r].state = "Active"
    BY <1>5 DEF AcquireLease, NextToken
  <2> HIDE DEF w
  <2> QED
    <3>1. HasLease(w) => /\ w.state = "Active"
                         /\ w.token > tokenCursor \/ (HasLease(works[r]) /\ w.token = works[r].token)
      BY <1>a, <2>1, <2>2
    <3>2. /\ works' = [works EXCEPT ![r] = w]
          /\ published' = published /\ tokenCursor' >= tokenCursor /\ epochCursor' = epochCursor
      BY <1>a, <2>2 DEF SaveWork
    <3>3. DocumentMoves({})
      BY <1>a, <2>1, <2>2, <3>1, <3>2, SaveMoves
    <3> QED
      BY <2>2, <3>3
<1>6. ASSUME NEW g \in granted, NEW task \in Tasks, NEW now \in Now,
             RenewLease(g.work, task, g, now)
      PROVE  Kind({})
  <2> DEFINE r == g.work
             w == [works[r] EXCEPT !.lease.expiresAt = now + LeaseMs]
  <2>1. /\ w.state = works[r].state /\ w.epoch = works[r].epoch /\ w.token = works[r].token
        /\ w.claim = works[r].claim
    BY <1>a DEF Work
  <2>2. /\ SaveWork(r, w) /\ UNCHANGED <<tokenCursor, published, artifact>>
        /\ works[r].state = "Active" /\ HasLease(works[r])
    BY <1>6 DEF RenewLease
  <2> HIDE DEF w
  <2> QED
    <3>1. HasLease(w) => /\ w.state = "Active"
                         /\ w.token > tokenCursor \/ (HasLease(works[r]) /\ w.token = works[r].token)
      BY <1>a, <2>1, <2>2
    <3>2. /\ works' = [works EXCEPT ![r] = w]
          /\ published' = published /\ tokenCursor' >= tokenCursor /\ epochCursor' = epochCursor
      BY <1>a, <2>2 DEF SaveWork
    <3>3. DocumentMoves({})
      BY <1>a, <2>1, <2>2, <3>1, <3>2, SaveMoves
    <3> QED
      BY <2>2, <3>3
<1>7. ASSUME NEW g \in granted, NEW task \in Tasks, NEW now \in Now,
             AdvanceFence(g.work, task, g, now)
      PROVE  Kind({})
  <2> DEFINE r == g.work
             w == [works[r] EXCEPT !.token = NextToken,
                        !.lease = NewLease(uuids + 1, works[r].lease.owner, works[r].lease.sched, now)]
  <2>1. /\ w.state = works[r].state /\ w.epoch = works[r].epoch /\ w.token = tokenCursor + 1
        /\ w.claim = works[r].claim
    BY <1>a DEF Work, NextToken
  <2>2. /\ SaveWork(r, w) /\ UNCHANGED <<published, artifact>> /\ tokenCursor' = tokenCursor + 1
        /\ works[r].state = "Active"
    BY <1>7 DEF AdvanceFence, NextToken
  <2> HIDE DEF w
  <2> QED
    <3>1. HasLease(w) => /\ w.state = "Active"
                         /\ w.token > tokenCursor \/ (HasLease(works[r]) /\ w.token = works[r].token)
      BY <1>a, <2>1, <2>2
    <3>2. /\ works' = [works EXCEPT ![r] = w]
          /\ published' = published /\ tokenCursor' >= tokenCursor /\ epochCursor' = epochCursor
      BY <1>a, <2>2 DEF SaveWork
    <3>3. DocumentMoves({})
      BY <1>a, <2>1, <2>2, <3>1, <3>2, SaveMoves
    <3> QED
      BY <2>2, <3>3
<1>8. ASSUME NEW g \in granted, NEW task \in Tasks, NEW now \in Now, NEW force \in BOOLEAN,
             RolloverPublication(g.work, task, g, force, now)
      PROVE  Kind({g.work})
  <2> DEFINE r == g.work
             w == [works[r] EXCEPT !.epoch = NextEpoch, !.token = NextToken,
                                   !.lease = NewLease(uuids + 1, g.owner, g.sched, now),
                                   !.claim = NoClaim,
                                   !.history = RetireClaim(works[r], NextEpoch)]
  <2>1. w.state = works[r].state /\ w.epoch = epochCursor + 1 /\ w.token = tokenCursor + 1
    BY <1>a DEF Work, NextToken, NextEpoch
  <2>2. /\ works' = [works EXCEPT ![r] = w] /\ UNCHANGED <<published, artifact>>
        /\ tokenCursor' = tokenCursor + 1 /\ epochCursor' = epochCursor + 1
        /\ works[r].state = "Active"
    BY <1>8 DEF RolloverPublication, NextToken, NextEpoch, Authorized
  <2> HIDE DEF w
  <2>3. w.token > tokenCursor /\ tokenCursor' >= tokenCursor /\ w.state = "Active"
    BY <1>a, <2>1, <2>2
  <2>4. DocumentMoves({r})
    BY <1>a, <2>1, <2>2, <2>3, RenewMoves
  <2> QED
    BY <2>2, <2>4
<1>9. ASSUME NEW g \in granted, NEW task \in Tasks, NEW now \in Now,
             NEW owner \in Owners, NEW sched \in SchedulerEpochs,
             RecoverLease(g.work, task, g, owner, sched, now)
      PROVE  Kind({})
  <2> DEFINE r == g.work
             claim == IF HasClaim(works[r])
                      THEN [works[r].claim EXCEPT !.owner = owner, !.sched = sched]
                      ELSE works[r].claim
             w == [works[r] EXCEPT !.lease = NewLease(works[r].lease.id, owner, sched, now),
                                   !.claim = claim]
  <2>1. claim.commit = works[r].claim.commit
    BY <1>a DEF Work, Claim, HasClaim
  <2> HIDE DEF claim
  <2>2. /\ w.state = works[r].state /\ w.epoch = works[r].epoch /\ w.token = works[r].token
        /\ w.claim = claim
    BY <1>a DEF Work
  <2>3. /\ SaveWork(r, w) /\ UNCHANGED <<tokenCursor, published, artifact>>
        /\ works[r].state = "Active" /\ HasLease(works[r])
    BY <1>9 DEF RecoverLease, claim
  <2> HIDE DEF w
  <2> QED
    <3>1. HasLease(w) => /\ w.state = "Active"
                         /\ w.token > tokenCursor \/ (HasLease(works[r]) /\ w.token = works[r].token)
      BY <1>a, <2>1, <2>2, <2>3
    <3>2. /\ works' = [works EXCEPT ![r] = w]
          /\ published' = published /\ tokenCursor' >= tokenCursor /\ epochCursor' = epochCursor
      BY <1>a, <2>3 DEF SaveWork
    <3>3. DocumentMoves({})
      BY <1>a, <2>1, <2>2, <2>3, <3>1, <3>2, SaveMoves
    <3> QED
      BY <2>3, <3>3
<1>10. ASSUME NEW g \in granted, NEW c \in Commits, NEW now \in Now,
              ClaimPublication(c, g, now)
       PROVE  Kind({})
  <2> DEFINE r == WorkOf[c]
             w == [works[r] EXCEPT !.claim = ClaimBy(c, g)]
  <2>1. r \in Revisions
    BY ConstantsAssumption
  <2>2. /\ w.state = works[r].state /\ w.epoch = works[r].epoch /\ w.token = works[r].token
        /\ w.lease = works[r].lease
    BY <1>a, <2>1 DEF Work
  <2>3. /\ SaveWork(r, w) /\ UNCHANGED <<tokenCursor, published, artifact>>
        /\ works[r].state = "Active"
    BY <1>10 DEF ClaimPublication, Authorized
  <2>4. works[r].claim.commit = NoCommit
    BY <1>10, <2>1, WorkFields DEF ClaimPublication, ClaimOpen
  <2> HIDE DEF w
  <2> QED
    <3>1. HasLease(w) => /\ w.state = "Active"
                         /\ w.token > tokenCursor \/ (HasLease(works[r]) /\ w.token = works[r].token)
      BY <1>a, <2>1, <2>2, <2>3, <2>4 DEF HasLease
    <3>2. /\ works' = [works EXCEPT ![r] = w]
          /\ published' = published /\ tokenCursor' >= tokenCursor /\ epochCursor' = epochCursor
      BY <1>a, <2>3 DEF SaveWork
    <3>3. DocumentMoves({})
      BY <1>a, <2>1, <2>2, <2>3, <2>4, <3>1, <3>2, SaveMoves
    <3> QED
      BY <2>3, <3>3
<1>11. ASSUME NEW r \in Revisions, NEW done \in BOOLEAN, ManualFence(r, done)
       PROVE  Kind({r})
  <2>1. /\ Fence(works[r]).state = works[r].state /\ Fence(works[r]).epoch = epochCursor + 1
        /\ ~HasLease(Fence(works[r]))
    BY <1>a DEF Fence, Work, NextEpoch, HasLease
  <2>2. /\ works' = [works EXCEPT ![r] = Fence(works[r])] /\ published' = published
        /\ tokenCursor' = tokenCursor + 1 /\ epochCursor' = epochCursor + 1
        /\ works[r].state = "Active"
    BY <1>11 DEF ManualFence, NextToken, NextEpoch, Fenceable
  <2>a. tokenCursor' >= tokenCursor /\ Fence(works[r]).state = "Active"
    BY <1>a, <2>1, <2>2
  <2>3. DocumentMoves({r})
    BY <2>1, <2>2, <2>a, RenewMoves
  <2>4. \A q \in Revisions : ~HasLease(works'[q])
    BY <1>a, <2>1, <2>2 DEF TypeOK, PublicationInv, OneActive
  <2>5. artifact' = artifact \/ artifact' = [by |-> "user", commit |-> NoCommit, token |-> tokenCursor']
    BY <1>11, <2>2 DEF ManualFence, UserWrites, NextToken
  <2> QED
    BY <2>3, <2>4, <2>5
<1>12. CASE ManualUnfenced
  <2>1. DocumentMoves({})
    BY <1>12, UnchangedMoves DEF ManualUnfenced, registryVars
  <2>2. \A r \in Revisions : ~HasLease(works'[r])
    BY <1>a, <1>12 DEF ManualUnfenced, Fenceable, registryVars
  <2>3. artifact' = [by |-> "user", commit |-> NoCommit, token |-> tokenCursor']
    BY <1>12 DEF ManualUnfenced, UserWrites, registryVars
  <2> QED
    BY <2>1, <2>2, <2>3
<1>13. ASSUME NEW b \in Bindings, NEW g \in granted, EnsureUnit(b, g)
       PROVE  Kind({})
  BY <1>13, UnchangedMoves DEF EnsureUnit
<1>14. CASE UNCHANGED vars
  BY <1>14, UnchangedMoves DEF vars, registryVars
<1>b. \A r \in Revisions : {r} \in SUBSET Revisions
  OBVIOUS
<1> HIDE DEF Kind
<1>c. (\E opened \in SUBSET Revisions : Kind(opened))
      \/ \E g \in granted, c \in Commits, now \in Now : Publish(c, g, now)
  BY <1>1, <1>2, <1>3, <1>4, <1>5, <1>6, <1>7, <1>8, <1>9, <1>10, <1>11, <1>12, <1>13, <1>14, <1>a, <1>b
  DEF Next, Kind
<1> QED
  BY <1>c DEF Kind

\* Every step keeps the publication invariant and moves the artifacts forward.
LEMMA PublicationNext ==
    ASSUME TypeOK, TypeOK', FencingInv, PublicationInv, [Next]_vars
    PROVE  PublicationInv' /\ (artifact' = artifact \/ MovesForward)
<1>1. CASE \E g \in granted, c \in Commits, now \in Now : Publish(c, g, now)
  BY <1>1, PublishKeepsInv
<1>2. CASE \E opened \in SUBSET Revisions :
              /\ \A q, r \in opened : q = r
              /\ DocumentMoves(opened)
              /\ \/ artifact' = artifact
                 \/ /\ artifact' = [by |-> "user", commit |-> NoCommit, token |-> tokenCursor']
                    /\ \A r \in Revisions : ~HasLease(works'[r])
  <2>1. PICK opened \in SUBSET Revisions :
              /\ \A q, r \in opened : q = r
              /\ DocumentMoves(opened)
              /\ \/ artifact' = artifact
                 \/ /\ artifact' = [by |-> "user", commit |-> NoCommit, token |-> tokenCursor']
                    /\ \A r \in Revisions : ~HasLease(works'[r])
    BY <1>2
  <2>2. OneActive' /\ EpochsFromCursor' /\ ClaimOutlivesPublication' /\ OnePublisherPerEpoch'
    BY <2>1, DocumentMovesInv
  <2>3. CASE artifact' = artifact
    BY <2>1, <2>2, <2>3, VisibleStaysBehind DEF PublicationInv
  <2>4. CASE /\ artifact' = [by |-> "user", commit |-> NoCommit, token |-> tokenCursor']
             /\ \A r \in Revisions : ~HasLease(works'[r])
    <3>1. artifact'.token = tokenCursor' /\ artifact'.by = "user"
      BY <2>4
    <3>2. tokenCursor \in Nat /\ tokenCursor' \in Nat /\ artifact.token \in Nat
          /\ tokenCursor' >= tokenCursor
      BY <2>1 DEF TypeOK, Artifact, DocumentMoves
    <3>3. VisibleBehindLease'
      BY <2>4, <3>1, <3>2 DEF VisibleBehindLease
    <3>4. MovesForward
      BY <3>1, <3>2 DEF MovesForward, PublicationInv, VisibleBehindLease
    <3> QED
      BY <2>2, <3>3, <3>4 DEF PublicationInv
  <2> QED
    BY <2>1, <2>3, <2>4
<1> QED
  BY <1>1, <1>2, DocumentKinds

\* The inductive invariant behind the publication results: a claim lasts as long
\* as its epoch, and every lease is newer than what is visible.
THEOREM PublicationInvariant == Spec => []PublicationInv
<1>1. TypeOK /\ TypeOK' /\ FencingInv /\ PublicationInv /\ [Next]_vars => PublicationInv'
  BY PublicationNext
<1> QED
  BY <1>1, PublicationInit, TypeCorrect, FencingInvariant, PTL DEF Spec

\* However claims, takeovers, rollovers and manual edits interleave, the artifacts
\* of one recordCommitEpoch are written by one commit.
THEOREM OneCommitPublishes == Spec => []OnePublisherPerEpoch
<1>1. PublicationInv => OnePublisherPerEpoch
  BY DEF PublicationInv
<1> QED
  BY <1>1, PublicationInvariant, PTL

\* No commit overwrites what was written under a later token, nor a manual change
\* made after its lease was granted.
THEOREM ArtifactsMoveForward == Spec => VisibleNeverRegresses
<1>1. TypeOK /\ TypeOK' /\ FencingInv /\ PublicationInv /\ [Next]_vars => [MovesForward]_artifact
  BY PublicationNext
<1> QED
  BY <1>1, TypeCorrect, FencingInvariant, PublicationInvariant, PTL DEF Spec, VisibleNeverRegresses

-----------------------------------------------------------------------------
(* What is saved can be loaded again.                                         *)
(*                                                                           *)
(* Two parts of validateRegistry rest on more than the document.  A renewed   *)
(* lease ends after it began because nobody reads a time that lags the clock  *)
(* by a lease.  A commit is retired once because its task's ledger keeps the  *)
(* epoch in which it has units, so that the commit claims in this epoch only, *)
(* and a retired epoch is never the work's again.                             *)

\* The epoch that the scheduler ledger of its task gives a commit.
Bound == [c \in Commits |-> ledger[Binding(c)]]

\* A work as the clock clk and the epochs bnd of the commits allow it.
WorkOK(w, clk, bnd) ==
    /\ HasLease(w) => ValidLease(w.lease) /\ w.lease.acquiredAt <= clk /\ w.token > 0
    /\ HasClaim(w) => /\ w.claim.epoch = w.epoch /\ w.claim.token > 0
                      /\ w.epoch > 0 /\ bnd[w.claim.commit] = w.epoch
    /\ \A i \in DOMAIN w.history :
          LET claim == w.history[i].claim
          IN  claim /= NoClaim /\ claim.epoch > 0 /\ bnd[claim.commit] = claim.epoch
    /\ ValidHistory(w)
    /\ w.active \cap w.retired = {}

DocumentInv == \A r \in Revisions : WorkOK(works[r], clock, Bound)

\* Claims and retired claims have numbers and commits in them.
LEMMA ClaimFields ==
    ASSUME NEW w \in Work
    PROVE  /\ w.epoch \in Nat /\ w.token \in Nat /\ w.claim \in Claim /\ w.claim.epoch \in Nat
           /\ w.claim.token \in Nat
           /\ HasClaim(w) => w.claim.commit \in Commits
           /\ w.history \in Seq(HistoryEntry)
           /\ \A i \in DOMAIN w.history :
                 /\ w.history[i].nextEpoch \in Nat /\ w.history[i].claim.epoch \in Nat
                 /\ w.history[i].claim /= NoClaim => w.history[i].claim.commit \in Commits
<1>1. \A c \in Claim : c.epoch \in Nat /\ c.token \in Nat /\ (c /= NoClaim => c.commit \in Commits)
  BY DEF Claim, NoClaim
<1>2. w.history \in Seq(HistoryEntry) /\ w.claim \in Claim /\ w.epoch \in Nat /\ w.token \in Nat
  BY DEF Work
<1>3. \A i \in DOMAIN w.history : w.history[i].nextEpoch \in Nat /\ w.history[i].claim \in Claim
  <2>1. \A i \in DOMAIN w.history : w.history[i] \in HistoryEntry
    BY <1>2
  <2>. QED  BY <2>1 DEF HistoryEntry
<1>. QED  BY <1>1, <1>2, <1>3 DEF HasClaim

\* A work that is left alone stays so as the clock moves and ledgers get units.
LEMMA WorkKept ==
    ASSUME NEW w \in Work, NEW k \in Nat, NEW l \in Nat, k <= l, NEW b, NEW d,
           \A c \in Commits : b[c] /= 0 => d[c] = b[c],
           WorkOK(w, k, b)
    PROVE  WorkOK(w, l, d)
<1>1. HasLease(w) => w.lease.acquiredAt \in Nat
  BY LeaseFields DEF Work
<1>2. HasLease(w) => w.lease.acquiredAt <= l
  BY <1>1 DEF WorkOK
<1>3. HasClaim(w) => d[w.claim.commit] = w.epoch
  BY ClaimFields DEF WorkOK
<1>4. ASSUME NEW i \in DOMAIN w.history
      PROVE  d[w.history[i].claim.commit] = w.history[i].claim.epoch
  BY ClaimFields DEF WorkOK
<1>. QED  BY <1>2, <1>3, <1>4 DEF WorkOK

\* The history stays valid while it, the epoch and the claimant stay.
LEMMA SameHistory ==
    ASSUME NEW w, NEW v, v.history = w.history, v.epoch = w.epoch, v.claim.commit = w.claim.commit,
           ValidHistory(w)
    PROVE  ValidHistory(v)
BY DEF ValidHistory

\* A work that changes in its tasks, its lease or the holder named in its claim.
LEMMA WorkRewritten ==
    ASSUME NEW w \in Work, NEW v \in Work, NEW k \in Nat, NEW b, WorkOK(w, k, b),
           v.history = w.history, v.epoch = w.epoch, v.claim.commit = w.claim.commit,
           HasClaim(v) => HasClaim(w) /\ v.claim.epoch = w.claim.epoch /\ v.claim.token = w.claim.token,
           HasLease(v) => ValidLease(v.lease) /\ v.lease.acquiredAt <= k /\ v.token > 0,
           v.active \cap v.retired = {}
    PROVE  WorkOK(v, k, b)
<1>1. ValidHistory(v)
  BY SameHistory DEF WorkOK
<1>. QED  BY <1>1 DEF WorkOK

\* Retiring a claim keeps the history valid: its epochs go up, and no commit is
\* retired twice.
LEMMA ClaimRetired ==
    ASSUME NEW w \in Work, NEW v \in Work, NEW k, NEW b, WorkOK(w, k, b),
           HasClaim(w), NEW next \in Nat, w.epoch < next,
           v.history = RetireClaim(w, next), v.epoch = next, v.claim = NoClaim
    PROVE  /\ ValidHistory(v)
           /\ \A i \in DOMAIN v.history :
                 LET claim == v.history[i].claim
                 IN  claim /= NoClaim /\ claim.epoch > 0 /\ b[claim.commit] = claim.epoch
<1>. DEFINE new == [claim |-> w.claim, nextEpoch |-> next]
            h == w.history
            n == Len(w.history)
<1>1. /\ w.epoch \in Nat /\ w.claim \in Claim /\ w.claim.commit \in Commits /\ h \in Seq(HistoryEntry)
      /\ \A i \in DOMAIN h : /\ h[i].nextEpoch \in Nat /\ h[i].claim.epoch \in Nat
                             /\ h[i].claim /= NoClaim => h[i].claim.commit \in Commits
  BY ClaimFields
<1>2. new \in HistoryEntry /\ new.claim = w.claim /\ new.nextEpoch = next
  BY <1>1 DEF HistoryEntry
<1>3. v.history = Append(h, new)
  BY DEF RetireClaim
<1>. HIDE DEF new
<1>4. /\ n \in Nat /\ DOMAIN h = 1..n /\ DOMAIN v.history = 1..(n + 1)
      /\ \A i \in 1..n : v.history[i] = h[i]
      /\ v.history[n + 1] = new
  BY <1>1, <1>2, <1>3
<1>5. w.claim.epoch = w.epoch /\ w.epoch > 0 /\ b[w.claim.commit] = w.epoch /\ w.claim /= NoClaim
  BY DEF WorkOK, HasClaim
<1>6. \A i \in 1..n : /\ h[i].claim /= NoClaim /\ h[i].claim.epoch > 0 /\ b[h[i].claim.commit] = h[i].claim.epoch
                      /\ h[i].nextEpoch > h[i].claim.epoch /\ h[i].nextEpoch <= w.epoch
                      /\ h[i].claim.commit /= w.claim.commit
  BY <1>4 DEF WorkOK, ValidHistory
<1>7. \A i, j \in 1..n : i < j => h[i].nextEpoch < h[j].nextEpoch /\ h[i].claim.commit /= h[j].claim.commit
  BY <1>4 DEF WorkOK, ValidHistory
<1>. HIDE DEF n, h
<1>8. v.claim.commit = NoCommit /\ NoCommit \notin Commits
  BY ConstantsAssumption DEF NoClaim
<1>9. \A i \in 1..(n + 1) : i \in 1..n \/ i = n + 1
  BY <1>4
<1>10. ASSUME NEW i \in 1..(n + 1)
       PROVE  /\ v.history[i].nextEpoch > v.history[i].claim.epoch /\ v.history[i].nextEpoch <= v.epoch
              /\ v.history[i].claim.commit /= v.claim.commit
              /\ v.history[i].claim /= NoClaim /\ v.history[i].claim.epoch > 0
              /\ b[v.history[i].claim.commit] = v.history[i].claim.epoch
  <2>1. CASE i \in 1..n
    BY <1>1, <1>4, <1>6, <1>8, <2>1
  <2>2. CASE i = n + 1
    BY <1>1, <1>2, <1>4, <1>5, <1>8, <2>2
  <2>. QED  BY <1>9, <2>1, <2>2
<1>11. ASSUME NEW i \in 1..(n + 1), NEW j \in 1..(n + 1), i < j
       PROVE  /\ v.history[i].nextEpoch < v.history[j].nextEpoch
              /\ v.history[i].claim.commit /= v.history[j].claim.commit
  <2>1. i \in 1..n
    BY <1>4, <1>11
  <2>2. CASE j \in 1..n
    BY <1>4, <1>7, <1>11, <2>1, <2>2
  <2>3. CASE j = n + 1
    BY <1>1, <1>2, <1>4, <1>6, <2>1, <2>3
  <2>. QED  BY <1>9, <2>2, <2>3
<1>. QED  BY <1>4, <1>10, <1>11 DEF ValidHistory

\* A lease that was just written is valid, and began when the clock said.
LEMMA NewLeaseValid ==
    ASSUME TypeOK, NEW id, NEW owner, NEW sched, NEW now \in Now
    PROVE  LET l == NewLease(id, owner, sched, now) IN ValidLease(l) /\ l.acquiredAt <= clock
BY ConstantsAssumption DEF NewLease, ValidLease, Now, TypeOK

\* A ledger that has units of a work keeps their epoch, and so do its commits.
LEMMA LedgerKeepsEpoch ==
    ASSUME TypeOK, NEW b \in Bindings, NEW g \in granted, EnsureUnit(b, g)
    PROVE  \A c \in Commits : Bound[c] /= 0 => Bound'[c] = Bound[c]
<1>1. ASSUME NEW c \in Commits, ledger[Binding(c)] /= 0 PROVE ledger'[Binding(c)] = ledger[Binding(c)]
  <2>1. Binding(c) \in Bindings
    BY DEF Bindings
  <2>. QED  BY <1>1, <2>1 DEF EnsureUnit, MayFollow, TypeOK
<1>. QED  BY <1>1 DEF Bound

\* The commits keep their epochs while the ledgers stay.
LEMMA SameLedgers == ASSUME UNCHANGED ledger PROVE Bound' = Bound
BY DEF Bound

\* A step that saves one work and leaves the ledgers alone.
LEMMA DocumentSaved ==
    ASSUME TypeOK, TypeOK', DocumentInv, NEW r \in Revisions, NEW w,
           works' = [works EXCEPT ![r] = w], UNCHANGED <<clock, ledger>>,
           WorkOK(w, clock, Bound)
    PROVE  DocumentInv'
<1>1. ASSUME NEW q \in Revisions PROVE WorkOK(works'[q], clock', Bound')
  <2>1. CASE q = r
    BY <2>1, SameLedgers DEF TypeOK
  <2>2. CASE q /= r
    <3>1. works'[q] = works[q]
      BY <2>2 DEF TypeOK
    <3>. QED  BY <3>1, SameLedgers DEF DocumentInv
  <2>. QED  BY <2>1, <2>2
<1>. QED  BY <1>1 DEF DocumentInv

\* The empty registry.
LEMMA DocumentInit == Init => DocumentInv
<1>1. /\ ~HasLease(AbsentWork) /\ ~HasClaim(AbsentWork) /\ DOMAIN AbsentWork.history = {}
      /\ AbsentWork.active = {}
  BY DEF AbsentWork, HasLease, HasClaim
<1>2. WorkOK(AbsentWork, clock, Bound)
  BY <1>1 DEF WorkOK, ValidHistory
<1>. QED  BY <1>2 DEF Init, DocumentInv

\* A step that leaves the works alone.
LEMMA DocumentUnchanged ==
    ASSUME TypeOK, TypeOK', DocumentInv, UNCHANGED works, clock' >= clock,
           \A c \in Commits : Bound[c] /= 0 => Bound'[c] = Bound[c]
    PROVE  DocumentInv'
<1>1. \A r \in Revisions : works[r] \in Work
  BY DEF TypeOK
<1>2. clock \in Nat /\ clock' \in Nat
  BY DEF TypeOK
<1>. QED  BY <1>1, <1>2, WorkKept DEF DocumentInv

\* A step that saves one work with other tasks, another lease or another holder.
LEMMA DocumentRewritten ==
    ASSUME TypeOK, TypeOK', DocumentInv, NEW r \in Revisions, NEW v,
           works' = [works EXCEPT ![r] = v], UNCHANGED <<clock, ledger>>,
           v.history = works[r].history, v.epoch = works[r].epoch, v.claim.commit = works[r].claim.commit,
           HasClaim(v) => /\ HasClaim(works[r]) /\ v.claim.epoch = works[r].claim.epoch
                          /\ v.claim.token = works[r].claim.token,
           HasLease(v) => ValidLease(v.lease) /\ v.lease.acquiredAt <= clock /\ v.token > 0,
           v.active \cap v.retired = {}
    PROVE  DocumentInv'
<1>1. v \in Work /\ works[r] \in Work /\ clock \in Nat
  BY DEF TypeOK
<1>2. WorkOK(v, clock, Bound)
  BY <1>1, WorkRewritten DEF DocumentInv
<1>. QED  BY <1>1, <1>2, DocumentSaved

\* Every step keeps the document valid.
LEMMA DocumentNext ==
    ASSUME TypeOK, TypeOK', FencingInv, PublicationInv, DocumentInv, [Next]_vars
    PROVE  DocumentInv'
<1>a. /\ \A r \in Revisions : works[r] \in Work /\ works'[r] \in Work /\ WorkOK(works[r], clock, Bound)
      /\ \A g \in granted : g \in Grant /\ g.work \in Revisions
      /\ clock \in Nat /\ tokenCursor \in Nat /\ epochCursor \in Nat
      /\ \A r \in Revisions : works[r].epoch <= epochCursor /\ works[r].epoch \in Nat
      /\ \A r \in Revisions : works[r].active \cap works[r].retired = {}
  BY WorkFields DEF TypeOK, Grant, DocumentInv, PublicationInv, EpochsFromCursor, WorkOK
<1>1. CASE Tick
  BY <1>1, <1>a, DocumentUnchanged, SameLedgers DEF Tick, registryVars
<1>2. ASSUME NEW r \in Revisions, NEW task \in Tasks, StartWork(r, task)
      PROVE  DocumentInv'
  <2>1. clock' = clock /\ Bound' = Bound
    BY <1>2, SameLedgers DEF StartWork
  <2>2. works'[r] = [AbsentWork EXCEPT !.state = "Active", !.epoch = NextEpoch, !.active = {task}]
    BY <1>2 DEF StartWork
  <2>3. /\ ~HasLease(works'[r]) /\ ~HasClaim(works'[r]) /\ DOMAIN works'[r].history = {} /\ works'[r].retired = {}
    BY <2>2 DEF AbsentWork, HasLease, HasClaim
  <2>4. WorkOK(works'[r], clock, Bound)
    BY <2>3 DEF WorkOK, ValidHistory
  <2>5. ASSUME NEW q \in Revisions, q /= r PROVE WorkOK(works'[q], clock, Bound)
    <3>1. works'[q] = Supersede(works[q])
      BY <1>2, <2>5 DEF StartWork
    <3>2. CASE works[q].state = "Active"
      <4>. DEFINE v == [works[q] EXCEPT !.state = "Superseded", !.lease = NoLease]
      <4>1. works'[q] = v
        BY <3>1, <3>2 DEF Supersede
      <4>2. /\ v.history = works[q].history /\ v.epoch = works[q].epoch /\ v.claim = works[q].claim
            /\ v.lease = NoLease /\ v.active = works[q].active /\ v.retired = works[q].retired
        BY <1>a DEF Work
      <4>. HIDE DEF v
      <4>3. v \in Work
        BY <1>a, <4>1
      <4>4. WorkOK(v, clock, Bound)
        BY <1>a, <4>2, <4>3, WorkRewritten DEF HasClaim, HasLease
      <4>. QED  BY <4>1, <4>4
    <3>3. CASE works[q].state /= "Active"
      BY <1>a, <3>1, <3>3 DEF Supersede
    <3>. QED  BY <3>2, <3>3
  <2>. QED  BY <2>1, <2>4, <2>5 DEF DocumentInv
<1>3. ASSUME NEW r \in Revisions, NEW task \in Tasks, AttachTask(r, task)
      PROVE  DocumentInv'
  <2>. DEFINE v == [works[r] EXCEPT !.active = @ \cup {task}]
  <2>1. works' = [works EXCEPT ![r] = v] /\ UNCHANGED <<clock, ledger>> /\ task \notin works[r].retired
    BY <1>3 DEF AttachTask, SaveWork
  <2>2. /\ v.history = works[r].history /\ v.epoch = works[r].epoch /\ v.claim = works[r].claim
        /\ v.lease = works[r].lease /\ v.token = works[r].token
        /\ v.active = works[r].active \cup {task} /\ v.retired = works[r].retired
    BY <1>a DEF Work
  <2>. HIDE DEF v
  <2>3. v.active \cap v.retired = {}
    BY <1>a, <2>1, <2>2
  <2>4. HasLease(v) => ValidLease(v.lease) /\ v.lease.acquiredAt <= clock /\ v.token > 0
    BY <1>a, <2>2 DEF WorkOK, HasLease
  <2>. QED  BY <2>1, <2>2, <2>3, <2>4, DocumentRewritten DEF HasClaim
<1>4. ASSUME NEW r \in Revisions, NEW task \in Tasks, DetachTask(r, task)
      PROVE  DocumentInv'
  <2>. DEFINE v == [works[r] EXCEPT !.active = @ \ {task}]
  <2>1. works' = [works EXCEPT ![r] = v] /\ UNCHANGED <<clock, ledger>>
    BY <1>4 DEF DetachTask, SaveWork
  <2>2. /\ v.history = works[r].history /\ v.epoch = works[r].epoch /\ v.claim = works[r].claim
        /\ v.lease = works[r].lease /\ v.token = works[r].token
        /\ v.active = works[r].active \ {task} /\ v.retired = works[r].retired
    BY <1>a DEF Work
  <2>. HIDE DEF v
  <2>3. v.active \cap v.retired = {}
    BY <1>a, <2>2
  <2>4. HasLease(v) => ValidLease(v.lease) /\ v.lease.acquiredAt <= clock /\ v.token > 0
    BY <1>a, <2>2 DEF WorkOK, HasLease
  <2>. QED  BY <2>1, <2>2, <2>3, <2>4, DocumentRewritten DEF HasClaim
<1>5. ASSUME NEW r \in Revisions, NEW task \in Tasks, NEW now \in Now,
             NEW owner \in Owners, NEW sched \in SchedulerEpochs,
             AcquireLease(r, task, owner, sched, now)
      PROVE  DocumentInv'
  <2>. DEFINE lease == NewLease(uuids + 1, owner, sched, now)
              v == [works[r] EXCEPT !.token = NextToken, !.lease = lease]
  <2>1. works' = [works EXCEPT ![r] = v] /\ UNCHANGED <<clock, ledger>>
    BY <1>5 DEF AcquireLease, SaveWork
  <2>2. ValidLease(lease) /\ lease.acquiredAt <= clock
    BY NewLeaseValid
  <2>. HIDE DEF lease
  <2>3. /\ v.history = works[r].history /\ v.epoch = works[r].epoch /\ v.claim = works[r].claim
        /\ v.lease = lease /\ v.token = tokenCursor + 1
        /\ v.active = works[r].active /\ v.retired = works[r].retired
    BY <1>a DEF Work, NextToken
  <2>. HIDE DEF v
  <2>4. v.token > 0 /\ v.active \cap v.retired = {}
    BY <1>a, <2>3
  <2>. QED  BY <2>1, <2>2, <2>3, <2>4, DocumentRewritten DEF HasClaim
<1>6. ASSUME NEW g \in granted, NEW task \in Tasks, NEW now \in Now,
             RenewLease(g.work, task, g, now)
      PROVE  DocumentInv'
  <2>. DEFINE r == g.work
              lease == [works[r].lease EXCEPT !.expiresAt = now + LeaseMs]
              v == [works[r] EXCEPT !.lease = lease]
  <2>1. r \in Revisions /\ works[r] \in Work /\ HasLease(works[r]) /\ works[r].lease \in Lease
    BY <1>a, <1>6 DEF RenewLease, Work
  <2>2. /\ works[r].lease.acquiredAt <= clock /\ works[r].token > 0 /\ works[r].lease.acquiredAt \in Nat
    BY <1>a, <2>1, LeaseFields DEF WorkOK
  <2>3. [works[r] EXCEPT !.lease.expiresAt = now + LeaseMs] = v
    BY <2>1 DEF Work
  <2>4. works' = [works EXCEPT ![r] = v] /\ UNCHANGED <<clock, ledger>>
    BY <1>6, <2>3 DEF RenewLease, SaveWork
  <2>5. ValidLease(lease) /\ lease.acquiredAt <= clock
    <3>1. lease.expiresAt = now + LeaseMs /\ lease.acquiredAt = works[r].lease.acquiredAt
      BY <2>1 DEF Lease, NoLease
    <3>2. clock < now + LeaseMs /\ now \in Nat /\ LeaseMs \in Nat
      BY ConstantsAssumption DEF Now
    <3>. QED  BY <1>a, <2>2, <3>1, <3>2 DEF ValidLease
  <2>. HIDE DEF lease
  <2>6. /\ v.history = works[r].history /\ v.epoch = works[r].epoch /\ v.claim = works[r].claim
        /\ v.lease = lease /\ v.token = works[r].token
        /\ v.active = works[r].active /\ v.retired = works[r].retired
    BY <2>1 DEF Work
  <2>. HIDE DEF v
  <2>7. v.active \cap v.retired = {}
    BY <1>a, <2>1, <2>6
  <2>. QED  BY <2>1, <2>2, <2>4, <2>5, <2>6, <2>7, DocumentRewritten DEF HasClaim
<1>7. ASSUME NEW g \in granted, NEW task \in Tasks, NEW now \in Now,
             AdvanceFence(g.work, task, g, now)
      PROVE  DocumentInv'
  <2>. DEFINE r == g.work
              lease == NewLease(uuids + 1, works[r].lease.owner, works[r].lease.sched, now)
              v == [works[r] EXCEPT !.token = NextToken, !.lease = lease]
  <2>1. works' = [works EXCEPT ![r] = v] /\ UNCHANGED <<clock, ledger>> /\ r \in Revisions
    BY <1>7, <1>a DEF AdvanceFence, SaveWork
  <2>2. ValidLease(lease) /\ lease.acquiredAt <= clock
    BY NewLeaseValid
  <2>. HIDE DEF lease
  <2>3. /\ v.history = works[r].history /\ v.epoch = works[r].epoch /\ v.claim = works[r].claim
        /\ v.lease = lease /\ v.token = tokenCursor + 1
        /\ v.active = works[r].active /\ v.retired = works[r].retired
    BY <1>a DEF Work, NextToken
  <2>. HIDE DEF v
  <2>4. v.token > 0 /\ v.active \cap v.retired = {}
    BY <1>a, <2>3
  <2>. QED  BY <2>1, <2>2, <2>3, <2>4, DocumentRewritten DEF HasClaim
<1>8. ASSUME NEW g \in granted, NEW task \in Tasks, NEW now \in Now, NEW force \in BOOLEAN,
             RolloverPublication(g.work, task, g, force, now)
      PROVE  DocumentInv'
  <2>. DEFINE r == g.work
              lease == NewLease(uuids + 1, g.owner, g.sched, now)
              history == RetireClaim(works[r], NextEpoch)
              v == [works[r] EXCEPT !.epoch = NextEpoch, !.token = NextToken, !.lease = lease,
                                    !.claim = NoClaim, !.history = history]
  <2>1. /\ works' = [works EXCEPT ![r] = v] /\ UNCHANGED <<clock, ledger>> /\ r \in Revisions
        /\ HasClaim(works[r])
    BY <1>8, <1>a DEF RolloverPublication
  <2>2. ValidLease(lease) /\ lease.acquiredAt <= clock
    BY NewLeaseValid
  <2>. HIDE DEF lease, history
  <2>3. /\ v.history = history /\ v.epoch = NextEpoch /\ v.claim = NoClaim
        /\ v.lease = lease /\ v.token = tokenCursor + 1
        /\ v.active = works[r].active /\ v.retired = works[r].retired
    BY <1>a DEF Work, NextToken
  <2>. HIDE DEF v
  <2>4. v.token > 0 /\ v.active \cap v.retired = {} /\ v \in Work
    BY <1>a, <2>1, <2>3 DEF TypeOK
  <2>5. NextEpoch \in Nat /\ works[r].epoch < NextEpoch
    BY <1>a DEF NextEpoch
  <2>6. /\ ValidHistory(v)
        /\ \A i \in DOMAIN v.history :
              LET claim == v.history[i].claim
              IN  claim /= NoClaim /\ claim.epoch > 0 /\ Bound[claim.commit] = claim.epoch
    BY <1>a, <2>1, <2>3, <2>4, <2>5, ClaimRetired DEF history
  <2>7. WorkOK(v, clock, Bound)
    BY <2>2, <2>3, <2>4, <2>6 DEF WorkOK, HasClaim
  <2>. QED  BY <2>1, <2>7, DocumentSaved
<1>9. ASSUME NEW g \in granted, NEW task \in Tasks, NEW now \in Now,
             NEW owner \in Owners, NEW sched \in SchedulerEpochs,
             RecoverLease(g.work, task, g, owner, sched, now)
      PROVE  DocumentInv'
  <2>. DEFINE r == g.work
              lease == NewLease(works[r].lease.id, owner, sched, now)
              claim == IF HasClaim(works[r])
                       THEN [works[r].claim EXCEPT !.owner = owner, !.sched = sched]
                       ELSE works[r].claim
              v == [works[r] EXCEPT !.lease = lease, !.claim = claim]
  <2>1. /\ works' = [works EXCEPT ![r] = v] /\ UNCHANGED <<clock, ledger>> /\ r \in Revisions
        /\ HasLease(works[r])
    BY <1>9, <1>a DEF RecoverLease, SaveWork
  <2>2. ValidLease(lease) /\ lease.acquiredAt <= clock
    BY NewLeaseValid
  <2>3. /\ claim.commit = works[r].claim.commit /\ claim.epoch = works[r].claim.epoch
        /\ claim.token = works[r].claim.token /\ (claim /= NoClaim => HasClaim(works[r]))
    <3>1. CASE ~HasClaim(works[r])
      BY <3>1 DEF HasClaim
    <3>2. CASE HasClaim(works[r])
      <4>1. works[r].claim \in Claim
        BY <1>a, <2>1 DEF Work
      <4>2. claim = [works[r].claim EXCEPT !.owner = owner, !.sched = sched]
        BY <3>2
      <4>. QED  BY <3>2, <4>1, <4>2 DEF Claim, NoClaim
    <3>. QED  BY <3>1, <3>2
  <2>. HIDE DEF lease, claim
  <2>4. /\ v.history = works[r].history /\ v.epoch = works[r].epoch /\ v.claim = claim
        /\ v.lease = lease /\ v.token = works[r].token
        /\ v.active = works[r].active /\ v.retired = works[r].retired
    BY <1>a, <2>1 DEF Work
  <2>. HIDE DEF v
  <2>5. v.token > 0 /\ v.active \cap v.retired = {}
    BY <1>a, <2>1, <2>4 DEF WorkOK
  <2>. QED  BY <2>1, <2>2, <2>3, <2>4, <2>5, DocumentRewritten DEF HasClaim
<1>10. ASSUME NEW g \in granted, NEW c \in Commits, NEW now \in Now,
              ClaimPublication(c, g, now)
       PROVE  DocumentInv'
  <2>. DEFINE r == WorkOf[c]
              claim == ClaimBy(c, g)
              w == works[r]
              v == [works[r] EXCEPT !.claim = claim]
  <2>1. /\ r \in Revisions /\ works' = [works EXCEPT ![r] = v] /\ UNCHANGED <<clock, ledger>>
        /\ HasLease(w) /\ w.epoch = g.epoch /\ w.token = g.token
        /\ ledger[Binding(c)] = g.epoch
    BY <1>10, ConstantsAssumption DEF ClaimPublication, InLedger, SaveWork, Authorized, Matches
  <2>2. claim.commit = c /\ claim.epoch = g.epoch /\ claim.token = g.token
    BY DEF ClaimBy
  <2>. HIDE DEF claim, r
  <2>3. /\ v.history = w.history /\ v.epoch = w.epoch /\ v.claim = claim
        /\ v.lease = w.lease /\ v.token = w.token /\ v.active = w.active /\ v.retired = w.retired
    BY <1>a, <2>1 DEF Work
  <2>. HIDE DEF v
  <2>4. /\ ValidLease(w.lease) /\ w.lease.acquiredAt <= clock /\ w.token > 0 /\ w \in Work
        /\ w.active \cap w.retired = {} /\ w.epoch \in Nat
    BY <1>a, <2>1 DEF WorkOK
  <2>5. w.epoch > 0
    <3>1. w.state = "Active"
      BY <2>1 DEF PublicationInv, OneActive
    <3>. QED  BY <2>1, <3>1 DEF PublicationInv, EpochsFromCursor
  <2>6. Bound[c] = w.epoch
    BY <2>1 DEF Bound
  <2>7. WorkOK(w, clock, Bound)
    BY <1>a, <2>1
  <2>8. \A i \in DOMAIN w.history : w.history[i].claim.commit /= c
    <3>1. SUFFICES ASSUME NEW i \in DOMAIN w.history, w.history[i].claim.commit = c PROVE FALSE
      OBVIOUS
    <3>2. w.history[i].claim.epoch = w.epoch
      BY <2>6, <2>7, <3>1 DEF WorkOK
    <3>3. w.history[i].nextEpoch > w.history[i].claim.epoch /\ w.history[i].nextEpoch <= w.epoch
      BY <2>7 DEF WorkOK, ValidHistory
    <3>4. w.history[i].nextEpoch \in Nat /\ w.history[i].claim.epoch \in Nat
      BY <2>4, ClaimFields
    <3>. QED  BY <2>4, <3>2, <3>3, <3>4
  <2>9. ValidHistory(v)
    <3>1. ValidHistory(w)
      BY <2>7 DEF WorkOK
    <3>2. v.history = w.history /\ v.epoch = w.epoch /\ v.claim.commit = c
      BY <2>2, <2>3
    <3>. HIDE DEF w
    <3>. QED  BY <2>8, <3>1, <3>2 DEF ValidHistory
  <2>10. WorkOK(v, clock, Bound)
    <3>1. HasLease(v) => ValidLease(v.lease) /\ v.lease.acquiredAt <= clock /\ v.token > 0
      BY <2>3, <2>4
    <3>2. v.claim.epoch = v.epoch /\ v.claim.token > 0 /\ v.epoch > 0 /\ Bound[v.claim.commit] = v.epoch
      BY <2>1, <2>2, <2>3, <2>4, <2>5, <2>6
    <3>. QED  BY <2>3, <2>4, <2>7, <2>9, <3>1, <3>2 DEF WorkOK
  <2>. QED  BY <2>1, <2>10, DocumentSaved
<1>11. ASSUME NEW g \in granted, NEW c \in Commits, NEW now \in Now, Publish(c, g, now)
       PROVE  DocumentInv'
  BY <1>11, <1>a, DocumentUnchanged, SameLedgers DEF Publish, registryVars
<1>12. ASSUME NEW r \in Revisions, NEW done \in BOOLEAN, ManualFence(r, done)
       PROVE  DocumentInv'
  <2>. DEFINE w == works[r]
              v == Fence(w)
  <2>1. works' = [works EXCEPT ![r] = v] /\ UNCHANGED <<clock, ledger>>
    BY <1>12 DEF ManualFence
  <2>2. /\ v.history = (IF HasClaim(w) THEN RetireClaim(w, NextEpoch) ELSE w.history)
        /\ v.epoch = NextEpoch /\ v.claim = NoClaim /\ v.lease = NoLease /\ v.active = {}
    BY <1>a DEF Fence, Work
  <2>. HIDE DEF v
  <2>3. v \in Work /\ w \in Work /\ WorkOK(w, clock, Bound)
    BY <1>a, <2>1 DEF TypeOK
  <2>4. NextEpoch \in Nat /\ w.epoch < NextEpoch /\ w.epoch \in Nat
    BY <1>a DEF NextEpoch
  <2>5. /\ ValidHistory(v)
        /\ \A i \in DOMAIN v.history :
              LET claim == v.history[i].claim
              IN  claim /= NoClaim /\ claim.epoch > 0 /\ Bound[claim.commit] = claim.epoch
    <3>1. CASE HasClaim(w)
      BY <2>2, <2>3, <2>4, <3>1, ClaimRetired
    <3>2. CASE ~HasClaim(w)
      <4>1. v.history = w.history /\ v.claim = w.claim
        BY <2>2, <3>2 DEF HasClaim
      <4>2. \A i \in DOMAIN w.history : w.history[i].nextEpoch \in Nat /\ w.history[i].nextEpoch <= w.epoch
        BY <2>3, ClaimFields DEF WorkOK, ValidHistory
      <4>3. \A i \in DOMAIN w.history : w.history[i].nextEpoch <= v.epoch
        BY <2>2, <2>4, <4>2
      <4>4. ValidHistory(v)
        BY <2>3, <4>1, <4>3 DEF WorkOK, ValidHistory
      <4>. QED  BY <2>3, <4>1, <4>4 DEF WorkOK
    <3>. QED  BY <3>1, <3>2
  <2>6. WorkOK(v, clock, Bound)
    BY <2>2, <2>5 DEF WorkOK, HasClaim, HasLease
  <2>. QED  BY <2>1, <2>6, DocumentSaved
<1>13. CASE ManualUnfenced
  BY <1>13, <1>a, DocumentUnchanged, SameLedgers DEF ManualUnfenced, registryVars
<1>14. ASSUME NEW b \in Bindings, NEW g \in granted, EnsureUnit(b, g)
       PROVE  DocumentInv'
  <2>1. UNCHANGED works /\ clock' >= clock
    BY <1>14, <1>a DEF EnsureUnit, registryVars
  <2>. QED  BY <1>14, <2>1, LedgerKeepsEpoch, DocumentUnchanged
<1>15. CASE UNCHANGED vars
  BY <1>15, <1>a, DocumentUnchanged, SameLedgers DEF vars
<1>. QED
  BY <1>1, <1>2, <1>3, <1>4, <1>5, <1>6, <1>7, <1>8, <1>9, <1>10, <1>11, <1>12, <1>13, <1>14, <1>15
  DEF Next

\* The inductive invariant behind validateRegistry: leases began before now, and
\* every claim that is held or retired is of the epoch that the ledger of its task
\* keeps for the commit.
THEOREM DocumentInvariant == Spec => []DocumentInv
<1>1. TypeOK /\ TypeOK' /\ FencingInv /\ PublicationInv /\ DocumentInv /\ [Next]_vars => DocumentInv'
  BY DocumentNext
<1>. QED
  BY <1>1, DocumentInit, TypeCorrect, FencingInvariant, PublicationInvariant, PTL DEF Spec

\* Whatever sequence of calls is made, in which claims come from tasks that keep a
\* scheduler ledger, validateRegistry accepts the document that is saved.
THEOREM SavedRegistryIsValid == Spec => []PersistedRegistryValid
<1>1. ASSUME TypeOK, FencingInv, PublicationInv, DocumentInv PROVE PersistedRegistryValid
  <2>1. ASSUME NEW r \in Present
        PROVE  ValidWork(works[r]) /\ works[r].epoch <= epochCursor /\ works[r].token <= tokenCursor
    <3>1. r \in Revisions /\ works[r].state /= "Absent"
      BY DEF Present
    <3>2. works[r].epoch > 0 /\ works[r].epoch <= epochCursor
      BY <1>1, <3>1 DEF PublicationInv, EpochsFromCursor
    <3>3. works[r].token <= tokenCursor
      BY <1>1, <3>1 DEF FencingInv, TokensFromCursor
    <3>4. HasLease(works[r]) => works[r].state = "Active"
      BY <1>1, <3>1 DEF PublicationInv, OneActive
    <3>. QED  BY <1>1, <3>1, <3>2, <3>3, <3>4 DEF DocumentInv, WorkOK, ValidWork
  <2>2. \A q, r \in Present :
           q /= r => /\ works[q].epoch /= works[r].epoch
                     /\ ~(works[q].state = "Active" /\ works[r].state = "Active")
    BY <1>1 DEF PublicationInv, EpochsFromCursor, OneActive, Present
  <2>. QED  BY <2>1, <2>2 DEF PersistedRegistryValid
<1>. QED
  BY <1>1, TypeCorrect, FencingInvariant, PublicationInvariant, DocumentInvariant, PTL

-----------------------------------------------------------------------------
(* The revision. *)

\* A step saves the document under the next revision, or leaves it alone.
LEMMA SavesOrLeaves ==
    ASSUME [Next]_vars
    PROVE  revision' = revision + 1 \/ UNCHANGED registryVars
<1>1. CASE Tick
  BY <1>1 DEF Tick
<1>2. CASE \E r \in Revisions, task \in Tasks :
              \/ StartWork(r, task) \/ AttachTask(r, task) \/ DetachTask(r, task)
              \/ \E now \in Now, owner \in Owners, sched \in SchedulerEpochs :
                    AcquireLease(r, task, owner, sched, now)
  <2>1. ASSUME NEW r, NEW task, StartWork(r, task) PROVE revision' = revision + 1
    BY <2>1 DEF StartWork, Save
  <2>2. ASSUME NEW r, NEW task, AttachTask(r, task) PROVE revision' = revision + 1
    BY <2>2 DEF AttachTask, SaveWork, Save
  <2>3. ASSUME NEW r, NEW task, DetachTask(r, task) PROVE revision' = revision + 1
    BY <2>3 DEF DetachTask, SaveWork, Save
  <2>4. ASSUME NEW r, NEW task, NEW owner, NEW sched, NEW now, AcquireLease(r, task, owner, sched, now)
        PROVE  revision' = revision + 1
    BY <2>4 DEF AcquireLease, SaveWork, Save
  <2>. QED  BY <1>2, <2>1, <2>2, <2>3, <2>4
<1>3. CASE \E g \in granted, task \in Tasks, now \in Now :
              \/ RenewLease(g.work, task, g, now) \/ AdvanceFence(g.work, task, g, now)
              \/ \E force \in BOOLEAN : RolloverPublication(g.work, task, g, force, now)
              \/ \E owner \in Owners, sched \in SchedulerEpochs :
                    RecoverLease(g.work, task, g, owner, sched, now)
  <2>1. ASSUME NEW g, NEW task, NEW now, RenewLease(g.work, task, g, now) PROVE revision' = revision + 1
    BY <2>1 DEF RenewLease, SaveWork, Save
  <2>2. ASSUME NEW g, NEW task, NEW now, AdvanceFence(g.work, task, g, now) PROVE revision' = revision + 1
    BY <2>2 DEF AdvanceFence, SaveWork, Save
  <2>3. ASSUME NEW g, NEW task, NEW now, NEW force, RolloverPublication(g.work, task, g, force, now)
        PROVE  revision' = revision + 1
    BY <2>3 DEF RolloverPublication, Save
  <2>4. ASSUME NEW g, NEW task, NEW now, NEW owner, NEW sched, RecoverLease(g.work, task, g, owner, sched, now)
        PROVE  revision' = revision + 1
    BY <2>4 DEF RecoverLease, SaveWork, Save
  <2>. QED  BY <1>3, <2>1, <2>2, <2>3, <2>4
<1>4. CASE \E g \in granted, c \in Commits, now \in Now :
              ClaimPublication(c, g, now) \/ Publish(c, g, now)
  BY <1>4 DEF ClaimPublication, Publish, SaveWork, Save
<1>5. CASE \E r \in Revisions, done \in BOOLEAN : ManualFence(r, done)
  BY <1>5 DEF ManualFence, Save
<1>6. CASE ManualUnfenced
  BY <1>6 DEF ManualUnfenced
<1>7. CASE \E b \in Bindings, g \in granted : EnsureUnit(b, g)
  BY <1>7 DEF EnsureUnit
<1>8. CASE UNCHANGED vars
  BY <1>8 DEF vars, registryVars
<1>. QED  BY <1>1, <1>2, <1>3, <1>4, <1>5, <1>6, <1>7, <1>8 DEF Next

\* Every change of the document raises its revision by exactly one, so that a
\* compare-and-swap on expectedRegistryRevision cannot miss a change.
THEOREM RevisionCountsChanges == Spec => RevisionGuardsDocument
<1>1. ASSUME [Next]_vars PROVE [Store!Next]_(Store!vars)
  <2>1. CASE revision' = revision + 1
    BY <2>1 DEF Store!Next, Store!Update
  <2>2. CASE UNCHANGED registryVars
    BY <2>2 DEF registryVars, Store!vars
  <2>. QED  BY <1>1, <2>1, <2>2, SavesOrLeaves
<1>. QED  BY <1>1, PTL DEF Spec, RevisionGuardsDocument

-----------------------------------------------------------------------------
(* The work of a grant that is honoured. *)

\* A step that leaves the works alone.
LEMMA SameWorksAreStable == ASSUME works' = works PROVE HonouredIsStable
BY DEF HonouredIsStable, ChangesOneThing

\* A step that changes one work.
LEMMA OneWorkIsStable ==
    ASSUME TypeOK, NEW r \in Revisions, NEW v, works' = [works EXCEPT ![r] = v],
           \A g \in granted : g.work = r /\ Matches(works[r], g) /\ Matches(v, g)
                                 => ChangesOneThing(works[r], v, g)
    PROVE  HonouredIsStable
<1>1. SUFFICES ASSUME NEW g \in granted, Matches(works[g.work], g), Matches(works'[g.work], g)
               PROVE  ChangesOneThing(works[g.work], works'[g.work], g)
  BY DEF HonouredIsStable
<1>2. g.work \in Revisions /\ works \in [Revisions -> Work]
  BY DEF TypeOK, Grant
<1>3. CASE g.work = r
  <2>1. works'[g.work] = v
    BY <1>2, <1>3
  <2>. QED  BY <1>1, <1>3, <2>1
<1>4. CASE g.work /= r
  <2>1. works'[g.work] = works[g.work]
    BY <1>2, <1>4
  <2>. QED  BY <2>1 DEF ChangesOneThing
<1>. QED  BY <1>3, <1>4

\* A work under a fresh token honours no grant that it honoured before.
LEMMA FreshTokenIsStable ==
    ASSUME TypeOK, FencingInv, NEW r \in Revisions, NEW v, works' = [works EXCEPT ![r] = v],
           v.token = NextToken
    PROVE  HonouredIsStable
<1>1. ASSUME NEW g \in granted, Matches(works[r], g), Matches(v, g) PROVE FALSE
  <2>1. works[r].token = g.token /\ v.token = g.token
    BY <1>1 DEF Matches
  <2>2. works[r].token <= tokenCursor /\ works[r].token \in Nat /\ tokenCursor \in Nat
    BY DEF TypeOK, Work, FencingInv, TokensFromCursor
  <2>. QED  BY <2>1, <2>2 DEF NextToken
<1>. QED  BY <1>1, OneWorkIsStable

\* Every operation of the registry.
LEMMA StableStep ==
    ASSUME TypeOK, FencingInv, [Next]_vars
    PROVE  HonouredIsStable
<1>a. /\ works \in [Revisions -> Work] /\ \A r \in Revisions : works[r] \in Work
      /\ \A g \in granted : g \in Grant /\ g.work \in Revisions
  BY DEF TypeOK, Grant
<1>1. CASE Tick \/ ManualUnfenced \/ UNCHANGED vars
  BY <1>1, SameWorksAreStable DEF Tick, ManualUnfenced, registryVars, vars
<1>2. ASSUME NEW r \in Revisions, NEW task \in Tasks, StartWork(r, task) PROVE HonouredIsStable
  <2>1. SUFFICES ASSUME NEW g \in granted, Matches(works[g.work], g), Matches(works'[g.work], g)
                 PROVE  FALSE
    BY DEF HonouredIsStable
  <2>2. works[g.work].state = "Active" /\ works'[g.work].state = "Active" /\ works[r].state = "Absent"
    BY <1>2, <2>1 DEF Matches, StartWork
  <2>3. works'[g.work] = Supersede(works[g.work])
    BY <1>2, <1>a, <2>2 DEF StartWork
  <2>. QED  BY <1>a, <2>2, <2>3 DEF Supersede, Work
<1>3. ASSUME NEW r \in Revisions, NEW task \in Tasks, AttachTask(r, task) \/ DetachTask(r, task)
      PROVE  HonouredIsStable
  <2>1. PICK tasks : /\ works' = [works EXCEPT ![r] = [works[r] EXCEPT !.active = tasks]]
                     /\ tasks \in {works[r].active \cup {task}, works[r].active \ {task}}
    BY <1>3 DEF AttachTask, DetachTask, SaveWork
  <2>. DEFINE v == [works[r] EXCEPT !.active = tasks]
  <2>2. v.active = tasks /\ v.claim = works[r].claim
    BY <1>a DEF Work
  <2>3. works' = [works EXCEPT ![r] = v]
    BY <2>1
  <2>. HIDE DEF v
  <2>4. \A g : ChangesOneThing(works[r], v, g)
    BY <2>1, <2>2 DEF ChangesOneThing
  <2>. QED  BY <2>3, <2>4, OneWorkIsStable
<1>4. ASSUME NEW r \in Revisions, NEW task \in Tasks, NEW now \in Now,
             NEW owner \in Owners, NEW sched \in SchedulerEpochs,
             AcquireLease(r, task, owner, sched, now)
      PROVE  HonouredIsStable
  <2>. DEFINE v == [works[r] EXCEPT !.token = NextToken,
                                    !.lease = NewLease(uuids + 1, owner, sched, now)]
  <2>1. v.token = NextToken
    BY <1>a DEF Work
  <2>2. works' = [works EXCEPT ![r] = v]
    BY <1>4 DEF AcquireLease, SaveWork
  <2>. HIDE DEF v
  <2>. QED  BY <2>1, <2>2, FreshTokenIsStable
<1>5. ASSUME NEW g \in granted, NEW task \in Tasks, NEW now \in Now,
             RenewLease(g.work, task, g, now)
      PROVE  HonouredIsStable
  <2>. DEFINE w == works[g.work]
              v == [w EXCEPT !.lease.expiresAt = now + LeaseMs]
  <2>1. v.active = w.active /\ v.claim = w.claim
    BY <1>a DEF Work
  <2>2. works' = [works EXCEPT ![g.work] = v]
    BY <1>5 DEF RenewLease, SaveWork
  <2>. HIDE DEF v
  <2>3. \A h : ChangesOneThing(works[g.work], v, h)
    BY <2>1 DEF ChangesOneThing
  <2>. QED  BY <1>a, <2>2, <2>3, OneWorkIsStable
<1>6. ASSUME NEW g \in granted, NEW task \in Tasks, NEW now \in Now,
             AdvanceFence(g.work, task, g, now)
      PROVE  HonouredIsStable
  <2>. DEFINE w == works[g.work]
              v == [w EXCEPT !.token = NextToken,
                             !.lease = NewLease(uuids + 1, w.lease.owner, w.lease.sched, now)]
  <2>1. v.token = NextToken
    BY <1>a DEF Work
  <2>2. works' = [works EXCEPT ![g.work] = v]
    BY <1>6 DEF AdvanceFence, SaveWork
  <2>. HIDE DEF v
  <2>. QED  BY <1>a, <2>1, <2>2, FreshTokenIsStable
<1>7. ASSUME NEW g \in granted, NEW task \in Tasks, NEW now \in Now, NEW force \in BOOLEAN,
             RolloverPublication(g.work, task, g, force, now)
      PROVE  HonouredIsStable
  <2>. DEFINE w == works[g.work]
              v == [w EXCEPT !.epoch = NextEpoch, !.token = NextToken,
                             !.lease = NewLease(uuids + 1, g.owner, g.sched, now),
                             !.claim = NoClaim, !.history = RetireClaim(w, NextEpoch)]
  <2>1. v.token = NextToken
    BY <1>a DEF Work
  <2>2. works' = [works EXCEPT ![g.work] = v]
    BY <1>7 DEF RolloverPublication
  <2>. HIDE DEF v
  <2>. QED  BY <1>a, <2>1, <2>2, FreshTokenIsStable
<1>8. ASSUME NEW g \in granted, NEW task \in Tasks, NEW now \in Now,
             NEW owner \in Owners, NEW sched \in SchedulerEpochs,
             RecoverLease(g.work, task, g, owner, sched, now)
      PROVE  HonouredIsStable
  <2>. DEFINE r == g.work
              w == works[r]
              lease == NewLease(w.lease.id, owner, sched, now)
              claim == IF HasClaim(w)
                       THEN [w.claim EXCEPT !.owner = owner, !.sched = sched]
                       ELSE w.claim
              v == [w EXCEPT !.lease = lease, !.claim = claim]
  <2>1. works' = [works EXCEPT ![r] = v] /\ ClaimFollowsLease(r, w)
    BY <1>8 DEF RecoverLease, SaveWork
  <2>2. lease.owner = owner /\ lease.sched = sched
    BY DEF NewLease
  <2>3. w.lease.owner = owner /\ w.lease.sched = sched => claim = w.claim
    <3>1. CASE ~HasClaim(w)
      BY <3>1
    <3>2. CASE HasClaim(w) /\ w.lease.owner = owner /\ w.lease.sched = sched
      <4>1. w.claim = ClaimBy(w.claim.commit, GrantOf(r, w))
        BY <2>1, <3>2 DEF ClaimFollowsLease
      <4>2. w.claim.owner = owner /\ w.claim.sched = sched
        BY <3>2, <4>1 DEF ClaimBy, GrantOf
      <4>3. w.claim \in Claim
        BY <1>a DEF Work
      <4>4. [w.claim EXCEPT !.owner = owner, !.sched = sched] = w.claim
        BY <4>2, <4>3 DEF Claim, NoClaim
      <4>. QED  BY <4>4
    <3>. QED  BY <3>1, <3>2
  <2>. HIDE DEF lease, claim
  <2>4. v.active = w.active /\ v.claim = claim /\ v.lease = lease
    BY <1>a DEF Work
  <2>. HIDE DEF v
  <2>5. ASSUME NEW h \in granted, Matches(w, h), Matches(v, h) PROVE ChangesOneThing(w, v, h)
    <3>1. w.lease.owner = owner /\ w.lease.sched = sched
      BY <2>2, <2>4, <2>5 DEF Matches
    <3>. QED  BY <2>3, <2>4, <3>1 DEF ChangesOneThing
  <2>. QED  BY <1>a, <2>1, <2>5, OneWorkIsStable
<1>9. ASSUME NEW g \in granted, NEW c \in Commits, NEW now \in Now, ClaimPublication(c, g, now)
      PROVE  HonouredIsStable
  <2>. DEFINE r == WorkOf[c]
              v == [works[r] EXCEPT !.claim = ClaimBy(c, g)]
  <2>1. /\ g.work = r /\ r \in Revisions /\ works' = [works EXCEPT ![r] = v] /\ ~HasClaim(works[r])
        /\ TaskOf[c] \in works[r].active /\ Matches(works[r], g)
    BY <1>9, <1>a DEF ClaimPublication, SaveWork, ClaimOpen, Authorized
  <2>2. v.active = works[r].active /\ v.claim = ClaimBy(c, g)
    BY <1>a, <2>1 DEF Work
  <2>. HIDE DEF v
  <2>3. ASSUME NEW h \in granted, h.work = r, Matches(works[r], h)
        PROVE  ChangesOneThing(works[r], v, h)
    <3>1. ClaimBy(c, h) = ClaimBy(c, g)
      BY <2>1, <2>3 DEF Matches, ClaimBy
    <3>. QED  BY <2>1, <2>2, <3>1 DEF ChangesOneThing
  <2>. QED  BY <2>1, <2>3, OneWorkIsStable
<1>10. ASSUME NEW g \in granted, NEW c \in Commits, NEW now \in Now, Publish(c, g, now)
       PROVE  HonouredIsStable
  BY <1>10, SameWorksAreStable DEF Publish, registryVars
<1>11. ASSUME NEW r \in Revisions, NEW done \in BOOLEAN, ManualFence(r, done)
       PROVE  HonouredIsStable
  <2>. DEFINE v == Fence(works[r])
  <2>1. v.token = NextToken
    BY <1>a DEF Fence, Work
  <2>2. works' = [works EXCEPT ![r] = v]
    BY <1>11 DEF ManualFence
  <2>. HIDE DEF v
  <2>. QED  BY <2>1, <2>2, FreshTokenIsStable
<1>12. ASSUME NEW b \in Bindings, NEW g \in granted, EnsureUnit(b, g)
       PROVE  HonouredIsStable
  BY <1>12, SameWorksAreStable DEF EnsureUnit, registryVars
<1>. QED
  BY <1>1, <1>2, <1>3, <1>4, <1>5, <1>6, <1>7, <1>8, <1>9, <1>10, <1>11, <1>12 DEF Next

\* While the registry honours a grant, tasks join and leave its work one at a time, and
\* the first claim of an attached task under that grant stands: what the commit protocol
\* takes for granted between two looks (attachRecordWorkTask, detachRecordWorkTask,
\* claimRecordWorkPublication, recoverRecordWorkLease).
THEOREM HonouredWorksAreStable == Spec => HonouredWorkIsStable
<1>1. TypeOK /\ FencingInv /\ [Next]_vars => [HonouredIsStable]_vars
  BY StableStep
<1>. QED
  BY <1>1, TypeCorrect, FencingInvariant, PTL DEF Spec, HonouredWorkIsStable

==============================================================================
