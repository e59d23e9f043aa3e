--------------------- MODULE RecordSchedulerDispatchProofs ---------------------
(***************************************************************************)
(* Proofs about RecordSchedulerDispatch, for every set of units, retry     *)
(* budget, capacity and number of crashes and failing writes.              *)
(*                                                                         *)
(* All the invariants follow from one inductive invariant, DispatchInv.    *)
(* It is about one unit at a time: what the ledger says of it (LedgerOK,   *)
(* AttemptOK), the provider call that runs for it (CallOK), who waits for  *)
(* it (WaitOK), the dispatch that the chain is in the middle of            *)
(* (DispatchOK), whose its claim (OwnOK) and its leases are (LeaseOK); and *)
(* about the job at the head of the chain (JobOK).                         *)
(***************************************************************************)
EXTENDS RecordSchedulerDispatch, FiniteSetTheorems, TLAPS

-----------------------------------------------------------------------------
(* The inductive invariant. *)

Dispatches(u) == job.for = "dispatch" /\ job.unit = {u}

\* The outcome of u's call is in the ledger, its claim not yet settled.
IsSettled(u) == job.for = "settle" /\ job.at = "settle" /\ job.unit = {u}

LatestState(u) == attempt[<<u, Latest(u)>>].state

Failed == {"KnownFailure", "Discarded"}

\* A unit x agrees with the state s of its latest attempt, the k-th: what is left of
\* its budget is what the attempts that failed have not used.
Agree(x, k, s) ==
    IF k = 0 THEN x.state \in {"none", "Queued"} /\ x.budget = RetryBudget
    ELSE \/ x.state = "Queued" /\ s = "DispatchIntentPersisted" /\ x.budget + k = RetryBudget + 1
         \/ x.state = "Running" /\ s = "Dispatched" /\ x.budget + k = RetryBudget + 1
         \/ x.state = "UnknownOutcome" /\ s = "UnknownOutcome" /\ x.budget + k = RetryBudget + 1
         \/ x.state = "Queued" /\ s \in Failed /\ x.budget + k = RetryBudget
         \/ x.state = "WaitingRetry" /\ s = "KnownFailure" /\ x.budget + k = RetryBudget
         \/ x.state = "ResultReady" /\ s = "KnownSuccess"
         \/ x.state = "FailedFinal" /\ s \in Failed

\* Attempts are made in order, and each one only after the one before it failed.
LedgerOK(u) ==
    /\ Latest(u) \in 0..(RetryBudget + 1)
    /\ \A n \in Ordinals : attempt[<<u, n>>].state # "none" <=> n <= Latest(u)
    /\ \A n \in Ordinals : n < Latest(u) => attempt[<<u, n>>].state \in Failed
    /\ Agree(unit[u], Latest(u), LatestState(u))

\* An attempt is not called before the ledger says it may be, and its lease is
\* uncertain only after a call.
AttemptOK(a) ==
    /\ attempt[a].state \in {"none", "DispatchIntentPersisted"} =>
         ~attempt[a].preInvoke /\ attempt[a].phase = "none"
    /\ attempt[a].state = "Dispatched" =>
         ~attempt[a].preInvoke /\ attempt[a].phase \in {"attempt-bound", "invoking"}
    /\ attempt[a].phase # "invoking" => invoked[a] = 0
    /\ attempt[a].preInvoke => invoked[a] = 0
    /\ attempt[a].state = "KnownSuccess" => invoked[a] = 1
    /\ attempt[a].state \in {"UnknownOutcome", "Discarded"} => attempt[a].phase = "invoking"
    /\ lease[a] = "uncertain" => invoked[a] = 1
    /\ invoked[a] <= 1

\* While u is in runningByAttempt its claim is on disk, and until its outcome is in
\* the ledger its attempt is dispatched.
CallOK(u) == running[u] # "none" =>
    /\ Latest(u) # 0
    /\ store[u] = [ordinal |-> Latest(u), phase |-> "invoking"]
    /\ attempt[<<u, Latest(u)>>].phase = "invoking"
    /\ LatestState(u) = "Dispatched" <=> ~IsSettled(u)
    /\ running[u] \in {"ready", "unsent"} => invoked[<<u, Latest(u)>>] = 0
    /\ running[u] \in {"calling", "success"} => invoked[<<u, Latest(u)>>] = 1
    /\ running[u] \in Outcomes => lease[<<u, Latest(u)>>] # "active"
    /\ ~Dispatches(u)

\* Who waits for u waits for the attempt that is to be dispatched next, or for a call;
\* the ledger of a unit somebody waits for is not left between two writes of a dispatch.
WaitOK(u) ==
    /\ call[u] # "none" => pending[u] = 0
    /\ /\ call[u] = "read" \/ pending[u] # 0
       /\ ~Dispatches(u)
       /\ Latest(u) # 0 /\ LatestState(u) = "Dispatched"
       => attempt[<<u, Latest(u)>>].phase = "invoking"
    /\ pending[u] # 0 /\ unit[u].state = "Queued" =>
         \/ pending[u] = SelectOrdinal(u)
         \/ Dispatches(u) /\ job.at \in {"release", "repair"}
         \/ IsSettled(u)

\* The steps of a dispatch, between the writes of the ledger and of the snapshot.
DispatchOK(u) == Dispatches(u) =>
    /\ pending[u] # 0
    /\ invoked[<<u, pending[u]>>] = 0
    /\ job.at # "intent" => pending[u] = Latest(u)
    /\ job.at \in {"intent", "grant", "grant_failed", "bind"} => unit[u].state = "Queued"
    /\ job.at \in {"grant", "grant_failed", "bind"} => LatestState(u) = "DispatchIntentPersisted"
    /\ job.at \in {"bound", "bind_invoking", "invoking", "start", "not_invoked"} =>
         unit[u].state = "Running"
    /\ job.at \in {"invoking", "start"} => attempt[<<u, Latest(u)>>].phase = "invoking"
    /\ job.at = "start" => store[u] = [ordinal |-> Latest(u), phase |-> "invoking"]
    /\ job.at \in {"release", "repair"} => attempt[<<u, Latest(u)>>].preInvoke
    /\ job.at = "repair" => lease[<<u, Latest(u)>>] # "active"
    /\ job.at \in {"grant_failed", "not_invoked", "release", "repair"} => failures > 0

\* Without a fault, a claim or a dispatched attempt is this process's own.
OwnOK(u) == crashes = 0 /\ failures = 0 =>
    (store[u] # NoClaim \/ (Latest(u) # 0 /\ LatestState(u) = "Dispatched") =>
        running[u] # "none" \/ Dispatches(u))

\* LeaseIsAccountedFor, for the attempts of u.
LeaseOK(u) ==
    \A n \in Ordinals : lease[<<u, n>>] = "active" =>
        \/ HoldsLease(u, n)
        \/ crashes > 0 /\ attempt[<<u, n>>].state \notin {"KnownSuccess", "KnownFailure"}
        \/ crashes > 0 /\ failures > 0 /\ attempt[<<u, n>>].preInvoke

UnitOK(u) ==
    /\ LedgerOK(u) /\ CallOK(u) /\ WaitOK(u) /\ DispatchOK(u)
    /\ OwnOK(u) /\ LeaseOK(u)
    /\ \A n \in Ordinals : AttemptOK(<<u, n>>)

\* Steps of a job that opens a session or looks for a unit, and of one that has it.
UnitSteps == {"intent", "grant", "grant_failed", "bind", "bound", "bind_invoking",
              "invoking", "start", "not_invoked", "release", "repair"}

JobOK ==
    /\ job.for = "none" => job = Idle
    /\ job.for = "submit" =>
         job.at = "reconcile" /\ \E u \in Units : job.unit = {u} /\ call[u] = "open"
    /\ job.for = "dispatch" =>
         \/ job.at \in {"reconcile", "step", "suspend"} /\ job.unit = {}
         \/ job.at \in UnitSteps /\ \E u \in Units : job.unit = {u}
    /\ job.for = "settle" =>
         /\ job.at \in {"reconcile", "mark", "settle"}
         /\ \E u \in Units : job.unit = {u} /\ running[u] \in Outcomes
    /\ job.at = "reconcile" => job.todo \subseteq Restarted

DispatchInv ==
    /\ TypeOK /\ JobOK /\ RepairNeedsFault
    /\ \A u \in Units : UnitOK(u)

-----------------------------------------------------------------------------
(* Lemmas about the operators. *)

\* The latest attempt is the same as long as the same attempts exist.
LEMMA LatestSame ==
    ASSUME NEW u \in Units,
           \A n \in Ordinals : (attempt'[<<u, n>>].state # "none") <=> (attempt[<<u, n>>].state # "none")
    PROVE  Latest(u)' = Latest(u)
BY DEF Latest

\* When the attempts that exist are the first k, the latest is the k-th.
LEMMA FirstOrdinals ==
    ASSUME NEW f, NEW u \in Units, NEW k \in 0..(RetryBudget + 1),
           \A n \in Ordinals : f[<<u, n>>].state # "none" <=> n <= k
    PROVE  Cardinality({n \in Ordinals : f[<<u, n>>].state # "none"}) = k
<1>1. {n \in Ordinals : f[<<u, n>>].state # "none"} = 1..k
  BY DispatchAssumption DEF Ordinals
<1>2. Cardinality(1..k) = k
  <2>. 1 \in Int /\ k \in Int /\ (1 > k <=> k = 0)
    BY DispatchAssumption
  <2>. Cardinality(1..k) = IF 1 > k THEN 0 ELSE k - 1 + 1
    BY FS_Interval
  <2>. QED  BY DispatchAssumption
<1>. QED  BY <1>1, <1>2

\* The latest attempt, in this state ...
LEMMA LatestIs ==
    ASSUME NEW u \in Units, NEW k \in 0..(RetryBudget + 1),
           \A n \in Ordinals : attempt[<<u, n>>].state # "none" <=> n <= k
    PROVE  Latest(u) = k
BY FirstOrdinals DEF Latest

\* ... and in the next one.
LEMMA LatestIsNext ==
    ASSUME NEW u \in Units, NEW k \in 0..(RetryBudget + 1),
           \A n \in Ordinals : attempt'[<<u, n>>].state # "none" <=> n <= k
    PROVE  Latest(u)' = k
BY FirstOrdinals DEF Latest

\* No job is idle but the idle one, which is nobody's.
LEMMA IdleJob ==
    /\ Idle \in Job
    /\ Idle.for = "none" /\ Idle.at = "idle" /\ Idle.unit = {} /\ Idle.todo = {}
BY DEF Idle, Job, JobSteps

\* The fields of an attempt.
LEMMA AttemptFields ==
    ASSUME NEW r \in Attempt
    PROVE  /\ r.state \in AttemptStates /\ r.phase \in Phases \cup {"none"}
           /\ r.preInvoke \in BOOLEAN
BY DEF Attempt

\* The fields of a unit: its budget is a number within the retry budget.
LEMMA UnitFields ==
    ASSUME NEW x \in Unit
    PROVE  x.state \in UnitStates /\ x.budget \in Nat /\ x.budget <= RetryBudget
BY DispatchAssumption DEF Unit

\* An attempt that was never made is an attempt.
LEMMA NoAttemptType == NoAttempt \in Attempt /\ NoAttempt.state = "none"
                       /\ NoAttempt.phase = "none" /\ NoAttempt.preInvoke = FALSE
BY DEF NoAttempt, Attempt, AttemptStates, Phases

\* An attempt is its fields.
LEMMA AttemptIs ==
    ASSUME NEW r \in Attempt
    PROVE  r = [state |-> r.state, phase |-> r.phase, preInvoke |-> r.preInvoke]
BY DEF Attempt

\* An attempt with another state.
LEMMA WithState ==
    ASSUME NEW r \in Attempt, NEW s \in AttemptStates
    PROVE  LET q == [r EXCEPT !.state = s]
           IN  /\ q \in Attempt /\ q.state = s
               /\ q.phase = r.phase /\ q.preInvoke = r.preInvoke
BY DEF Attempt

\* An attempt with another state and phase.
LEMMA WithPhase ==
    ASSUME NEW r \in Attempt, NEW p \in Phases
    PROVE  LET q == [r EXCEPT !.phase = p]
           IN  /\ q \in Attempt /\ q.state = r.state
               /\ q.phase = p /\ q.preInvoke = r.preInvoke
BY DEF Attempt

\* A unit with another state.
LEMMA UnitWithState ==
    ASSUME NEW x \in Unit, NEW s \in UnitStates
    PROVE  LET y == [x EXCEPT !.state = s]
           IN  y \in Unit /\ y.state = s /\ y.budget = x.budget
BY DEF Unit

\* What a failed attempt makes of its unit.
LEMMA RetriedIs ==
    ASSUME TypeOK, NEW u \in Units, NEW s \in UnitStates
    PROVE  /\ Retried(u, s) \in Unit
           /\ unit[u].budget > 0 => Retried(u, s).state = s /\ Retried(u, s).budget + 1 = unit[u].budget
           /\ unit[u].budget = 0 => Retried(u, s).state = "FailedFinal"
<1>1. unit[u] \in Unit
  BY DEF TypeOK
<1>2. unit[u].budget \in 0..RetryBudget
  BY <1>1 DEF Unit
<1>. QED  BY <1>1, <1>2, DispatchAssumption DEF Retried, Unit, UnitStates

-----------------------------------------------------------------------------
(* What a step leaves alone. *)

\* Nothing of u changes, but that a lease of its may run out, or that nobody waits
\* for it any more.
Same(u) ==
    /\ unit'[u] = unit[u] /\ store'[u] = store[u] /\ call'[u] = call[u]
    /\ running'[u] = running[u]
    /\ \/ pending'[u] = pending[u]
       \/ pending'[u] = 0 /\ ~Dispatches(u) /\ ~Dispatches(u)'
    /\ \A n \in Ordinals :
         /\ attempt'[<<u, n>>] = attempt[<<u, n>>] /\ invoked'[<<u, n>>] = invoked[<<u, n>>]
         /\ lease'[<<u, n>>] \in {lease[<<u, n>>], "absent"}
    /\ crashes' >= crashes /\ failures' >= failures
    /\ \/ job' = job
       \/ /\ ~Dispatches(u) /\ ~Dispatches(u)'
          /\ ~IsSettled(u) /\ ~IsSettled(u)'

\* What is the same of a unit stays right.
LEMMA Frame ==
    ASSUME TypeOK, TypeOK', NEW u \in Units, UnitOK(u), Same(u)
    PROVE  UnitOK(u)'
<1>1. Latest(u)' = Latest(u)
  BY LatestSame DEF Same
<1>2. Latest(u) \in 0..(RetryBudget+1) /\ (Latest(u) # 0 => Latest(u) \in Ordinals)
  BY DispatchAssumption DEF UnitOK, LedgerOK, Ordinals
<1>3. LatestState(u)' = LatestState(u) \/ Latest(u) = 0
  BY <1>1, <1>2 DEF Same, LatestState
<1>4. crashes \in Nat /\ failures \in Nat /\ crashes' \in Nat /\ failures' \in Nat
  BY DispatchAssumption DEF TypeOK
<1>5. LedgerOK(u)'
  BY <1>1, <1>2, <1>3 DEF UnitOK, LedgerOK, Same, Agree
<1>6. CallOK(u)'
  BY <1>1, <1>2, <1>3 DEF UnitOK, CallOK, Same, Dispatches, IsSettled
<1>7. WaitOK(u)'
  <2>1. SelectOrdinal(u)' = SelectOrdinal(u)
    BY <1>1, <1>2 DEF SelectOrdinal, LatestAttempt, Same
  <2>2. Latest(u) # 0 => attempt'[<<u, Latest(u)>>] = attempt[<<u, Latest(u)>>]
    BY <1>2 DEF Same
  <2>. QED
    BY <1>1, <1>3, <2>1, <2>2 DEF UnitOK, WaitOK, Same, Dispatches, IsSettled
<1>8. DispatchOK(u)'
  <2>1. Latest(u) # 0 => attempt'[<<u, Latest(u)>>] = attempt[<<u, Latest(u)>>]
    BY <1>2 DEF Same
  <2>2. pending[u] # 0 => invoked'[<<u, pending[u]>>] = invoked[<<u, pending[u]>>]
    BY DEF Same, TypeOK
  <2>3. job.at # "intent" /\ Dispatches(u) => Latest(u) # 0
    BY DEF UnitOK, DispatchOK
  <2>4. Latest(u) # 0 => lease'[<<u, Latest(u)>>] \in {lease[<<u, Latest(u)>>], "absent"}
    BY <1>2 DEF Same
  <2>. QED
    BY <1>1, <1>3, <1>4, <2>1, <2>2, <2>3, <2>4 DEF UnitOK, DispatchOK, Same, Dispatches
<1>9. OwnOK(u)'
  BY <1>1, <1>2, <1>3, <1>4 DEF UnitOK, OwnOK, Same, Dispatches
<1>10. LeaseOK(u)'
  BY <1>1, <1>2, <1>4 DEF UnitOK, LeaseOK, Same, HoldsLease, Dispatches
<1>11. (\A n \in Ordinals : AttemptOK(<<u, n>>))'
  BY DEF UnitOK, AttemptOK, Same
<1>. QED  BY <1>5, <1>6, <1>7, <1>8, <1>9, <1>10, <1>11 DEF UnitOK

\* The job goes on as it was.
LEMMA JobFrame ==
    ASSUME JobOK, job' = job,
           \A u \in Units : call[u] = "open" => call'[u] = "open",
           \A u \in Units : running[u] \in Outcomes => running'[u] \in Outcomes,
           \A u \in Units : running[u] = "none" => running'[u] = "none",
           \A u \in Units : store[u] # NoClaim => store'[u] # NoClaim
    PROVE  JobOK'
BY DEF JobOK, Restarted

\* The ledger is written: r for the latest attempt of u, x for u itself.
Written(u, r, x) ==
    /\ attempt' \in [Attempts -> Attempt] /\ unit' \in [Units -> Unit]
    /\ Latest(u) \in Ordinals /\ <<u, Latest(u)>> \in Attempts
    /\ Latest(u)' = Latest(u)
    /\ attempt'[<<u, Latest(u)>>] = r /\ unit'[u] = x
    /\ \A n \in Ordinals : n # Latest(u) => attempt'[<<u, n>>] = attempt[<<u, n>>]
    /\ \A v \in Units, n \in Ordinals : v # u => attempt'[<<v, n>>] = attempt[<<v, n>>]
    /\ \A v \in Units : v # u => unit'[v] = unit[v]
    /\ LedgerOK(u)'

\* A write of the latest attempt and its unit that agree leaves the ledger in order.
LEMMA LedgerWrite ==
    ASSUME TypeOK, NEW u \in Units, LedgerOK(u), Latest(u) # 0,
           NEW r \in Attempt, r.state # "none",
           NEW x \in Unit, Agree(x, Latest(u), r.state),
           attempt' = [attempt EXCEPT ![<<u, Latest(u)>>] = r],
           unit' = [unit EXCEPT ![u] = x]
    PROVE  Written(u, r, x)
<1>. DEFINE a == <<u, Latest(u)>>
<1>1. Latest(u) \in Ordinals /\ a \in Attempts
  BY DispatchAssumption DEF LedgerOK, Ordinals, Attempts
<1>2. /\ attempt' \in [Attempts -> Attempt] /\ unit' \in [Units -> Unit]
      /\ attempt'[a] = r /\ unit'[u] = x
  BY <1>1 DEF TypeOK
<1>3. /\ \A v \in Units, n \in Ordinals : v # u \/ n # Latest(u) => attempt'[<<v, n>>] = attempt[<<v, n>>]
      /\ \A v \in Units : v # u => unit'[v] = unit[v]
  BY <1>1 DEF TypeOK, Attempts
<1>4. Latest(u)' = Latest(u)
  <2>1. attempt[a].state # "none"
    BY <1>1 DEF LedgerOK, Ordinals
  <2>. QED  BY <1>1, <1>2, <1>3, <2>1, LatestSame
<1>5. LedgerOK(u)'
  <2>1. \A n \in Ordinals : attempt'[<<u, n>>].state # "none" <=> n <= Latest(u)
    BY <1>1, <1>2, <1>3 DEF LedgerOK, Ordinals
  <2>2. \A n \in Ordinals : n < Latest(u) => attempt'[<<u, n>>].state \in Failed
    BY <1>1, <1>2, <1>3 DEF LedgerOK, Ordinals
  <2>3. Agree(unit[u], Latest(u), LatestState(u))'
    BY <1>2, <1>4 DEF Agree, LatestState
  <2>. QED  BY <1>4, <2>1, <2>2, <2>3 DEF LedgerOK
<1>. QED  BY <1>1, <1>2, <1>3, <1>4, <1>5 DEF Written

\* What the invariant says of one unit, and of the numbers in its state.
Known(u) ==
    /\ LedgerOK(u) /\ CallOK(u) /\ WaitOK(u) /\ DispatchOK(u) /\ OwnOK(u) /\ LeaseOK(u)
    /\ \A n \in Ordinals : AttemptOK(<<u, n>>) /\ <<u, n>> \in Attempts /\ n \in Nat /\ n > 0
    /\ Latest(u) \in Nat /\ Latest(u) <= RetryBudget + 1
    /\ Latest(u) # 0 => /\ Latest(u) \in Ordinals /\ <<u, Latest(u)>> \in Attempts
                        /\ attempt[<<u, Latest(u)>>] \in Attempt /\ AttemptOK(<<u, Latest(u)>>)
    /\ pending[u] # 0 => /\ pending[u] \in Ordinals /\ <<u, pending[u]>> \in Attempts
                         /\ AttemptOK(<<u, pending[u]>>)
    /\ unit[u] \in Unit /\ unit[u].budget \in Nat /\ unit[u].budget <= RetryBudget
    /\ RetryBudget \in Nat /\ crashes \in Nat /\ failures \in Nat

\* All of Known follows from the invariant.
LEMMA Facts ==
    ASSUME DispatchInv, NEW u \in Units
    PROVE  Known(u) /\ TypeOK /\ JobOK /\ RepairNeedsFault
<1>1. /\ LedgerOK(u) /\ CallOK(u) /\ WaitOK(u) /\ DispatchOK(u) /\ OwnOK(u) /\ LeaseOK(u)
      /\ TypeOK /\ JobOK /\ RepairNeedsFault
  BY DEF DispatchInv, UnitOK
<1>2. \A n \in Ordinals : AttemptOK(<<u, n>>) /\ <<u, n>> \in Attempts /\ n \in Nat /\ n > 0
  BY DispatchAssumption DEF DispatchInv, UnitOK, Ordinals, Attempts
<1>3. /\ Latest(u) \in Nat /\ Latest(u) <= RetryBudget + 1
      /\ Latest(u) # 0 => Latest(u) \in Ordinals
  BY <1>1, DispatchAssumption DEF LedgerOK, Ordinals
<1>4. unit[u] \in Unit /\ unit[u].budget \in Nat /\ unit[u].budget <= RetryBudget
  BY <1>1, UnitFields DEF TypeOK
<1>5. RetryBudget \in Nat /\ crashes \in Nat /\ failures \in Nat
  BY <1>1, DispatchAssumption DEF TypeOK
<1>6. pending[u] # 0 => pending[u] \in Ordinals
  BY <1>1 DEF TypeOK
<1>7. Latest(u) # 0 => attempt[<<u, Latest(u)>>] \in Attempt
  BY <1>1, <1>2, <1>3 DEF TypeOK
<1>. QED  BY <1>1, <1>2, <1>3, <1>4, <1>5, <1>6, <1>7 DEF Known

\* A unit nobody waits for is not being dispatched.
LEMMA NotDispatched ==
    ASSUME DispatchInv, NEW u \in Units, pending[u] = 0
    PROVE  ~Dispatches(u)
BY Facts DEF Known, DispatchOK

-----------------------------------------------------------------------------
(* The invariant holds in the beginning. *)

\* A fresh ledger, snapshot and process.
LEMMA InitInv == Init => DispatchInv
<1> SUFFICES ASSUME Init PROVE DispatchInv
  OBVIOUS
<1>1. TypeOK
  <2>1. [state |-> "none", budget |-> RetryBudget] \in Unit
    BY DispatchAssumption DEF Unit, UnitStates
  <2>2. crashes \in 0..MaxCrashes /\ failures \in 0..MaxFailures
    BY DispatchAssumption DEF Init
  <2>3. unit \in [Units -> Unit]
    BY <2>1 DEF Init
  <2>4. attempt \in [Attempts -> Attempt] /\ invoked \in [Attempts -> 0..2]
    BY NoAttemptType DEF Init
  <2>5. task \in {"Running", "RepairRequired"} /\ draining \in BOOLEAN /\ job \in Job
    BY IdleJob DEF Init
  <2>. QED  BY <2>2, <2>3, <2>4, <2>5 DEF Init, TypeOK
<1>2. JobOK /\ RepairNeedsFault
  BY IdleJob DEF Init, JobOK, RepairNeedsFault
<1>3. ASSUME NEW u \in Units PROVE UnitOK(u)
  <2>1. \A n \in Ordinals : <<u, n>> \in Attempts /\ n \in Nat \ {0}
    BY DispatchAssumption DEF Attempts, Ordinals
  <2>2. \A n \in Ordinals : attempt[<<u, n>>] = NoAttempt
    BY <2>1 DEF Init
  <2>3. Latest(u) = 0
    BY <2>1, <2>2, LatestIs, NoAttemptType, DispatchAssumption
  <2>4. LedgerOK(u)
    BY <2>1, <2>2, <2>3, NoAttemptType, DispatchAssumption DEF LedgerOK, Agree, Init
  <2>5. CallOK(u) /\ WaitOK(u) /\ DispatchOK(u) /\ OwnOK(u)
    BY <2>3, IdleJob DEF CallOK, WaitOK, DispatchOK, OwnOK, Dispatches, Init
  <2>6. LeaseOK(u) /\ \A n \in Ordinals : AttemptOK(<<u, n>>)
    BY <2>1, <2>2, NoAttemptType DEF LeaseOK, AttemptOK, Init
  <2>. QED  BY <2>4, <2>5, <2>6 DEF UnitOK
<1>. QED  BY <1>1, <1>2, <1>3 DEF DispatchInv

-----------------------------------------------------------------------------
(* Submitting. *)

\* advanceExpiredUnknownOutcome discards the latest attempt and uses a retry.
LEMMA AdvanceExpiredUnknownOutcomeStep ==
    ASSUME DispatchInv, NEW u \in Units, AdvanceExpiredUnknownOutcome(u)
    PROVE  DispatchInv'
<1>. DEFINE L == Latest(u)
            a == <<u, L>>
            r == [attempt[a] EXCEPT !.state = "Discarded"]
            x == Retried(u, "Queued")
<1>0. /\ attempt' = [attempt EXCEPT ![a] = r] /\ unit' = [unit EXCEPT ![u] = x]
      /\ unit[u].state = "UnknownOutcome"
      /\ UNCHANGED <<task, store, lease, call, pending, draining, running, job, invoked, crashes, failures>>
      /\ call[u] = "none" /\ pending[u] = 0 /\ ~Dispatches(u)
  BY NotDispatched DEF AdvanceExpiredUnknownOutcome, CanSubmit, LatestAttempt, process, faults, SetUnit
<1>f. Known(u) /\ TypeOK /\ JobOK /\ RepairNeedsFault
  BY Facts
<1>1. /\ L # 0 /\ LatestState(u) = "UnknownOutcome"
      /\ unit[u].budget + L = RetryBudget + 1
  BY <1>0, <1>f DEF Known, LedgerOK, Agree
<1>2. /\ attempt[a] \in Attempt /\ r \in Attempt /\ r.state = "Discarded" /\ r.phase = attempt[a].phase
      /\ r.preInvoke = attempt[a].preInvoke
  BY <1>1, <1>f, WithState DEF Known, AttemptStates
<1>3. x \in Unit /\ Agree(x, L, "Discarded")
  <2>1. /\ x \in Unit
        /\ unit[u].budget > 0 => x.state = "Queued" /\ x.budget + 1 = unit[u].budget
        /\ unit[u].budget = 0 => x.state = "FailedFinal"
    BY <1>f, RetriedIs DEF UnitStates
  <2>2. x.budget \in Nat
    BY <2>1, UnitFields
  <2>. HIDE DEF x
  <2>. QED  BY <1>1, <1>f, <2>1, <2>2 DEF Agree, Failed, Known
<1>. HIDE DEF r, x
<1>4. Written(u, r, x)
  <2>1. r.state # "none" /\ Agree(x, L, r.state)
    BY <1>2, <1>3
  <2>. QED  BY <1>0, <1>1, <1>2, <1>3, <1>f, <2>1, LedgerWrite DEF Known
<1>5. TypeOK'
  BY <1>0, <1>4, <1>f DEF Written, Known, TypeOK
<1>6. JobOK' /\ RepairNeedsFault'
  BY <1>0, <1>f, JobFrame DEF RepairNeedsFault
<1>7. ASSUME NEW v \in Units, v # u  PROVE UnitOK(v)'
  <2>1. Same(v)
    BY <1>0, <1>4, <1>7, <1>f DEF Written, Known, Same
  <2>. QED  BY <2>1, <1>5, Frame DEF DispatchInv
<1>8. UnitOK(u)'
  <2>1. AttemptOK(a) /\ attempt[a].state = "UnknownOutcome"
    BY <1>1, <1>4, <1>f DEF Written, Known, LatestState
  <2>2. CallOK(u)'
    BY <1>0, <1>1, <1>2, <1>4, <1>f DEF Written, Known, CallOK, LatestState, IsSettled, Dispatches
  <2>3. (WaitOK(u) /\ DispatchOK(u))'
    BY <1>0, <1>1, <1>2, <1>4, <1>f DEF Written, Known, WaitOK, DispatchOK, LatestState, Dispatches
  <2>4. OwnOK(u)'
    BY <1>0, <1>1, <1>2, <1>4, <1>f DEF Written, Known, OwnOK, LatestState, Dispatches
  <2>5. LeaseOK(u)'
    BY <1>0, <1>1, <1>2, <1>4, <2>1, <1>f DEF Written, Known, LeaseOK, HoldsLease, AttemptOK
  <2>6. (\A n \in Ordinals : AttemptOK(<<u, n>>))'
    BY <1>0, <1>2, <1>4, <2>1, <1>f DEF Written, Known, AttemptOK
  <2>. QED  BY <1>4, <2>2, <2>3, <2>4, <2>5, <2>6 DEF UnitOK, Written
<1>. QED  BY <1>5, <1>6, <1>7, <1>8 DEF DispatchInv

\* The ledger says what it said.
LEMMA LatestUnchanged ==
    ASSUME UNCHANGED attempt, NEW u \in Units
    PROVE  Latest(u)' = Latest(u) /\ LatestState(u)' = LatestState(u)
BY LatestSame DEF LatestState

\* activateWaitingRetry queues the unit again.
LEMMA ActivateWaitingRetryStep ==
    ASSUME DispatchInv, NEW u \in Units, ActivateWaitingRetry(u)
    PROVE  DispatchInv'
<1>. DEFINE x == [unit[u] EXCEPT !.state = "Queued"]
<1>0. /\ unit' = [unit EXCEPT ![u] = x] /\ unit[u].state = "WaitingRetry"
      /\ UNCHANGED <<task, attempt, store, lease, call, pending, draining, running, job, invoked, crashes, failures>>
      /\ call[u] = "none" /\ pending[u] = 0 /\ ~Dispatches(u)
  BY NotDispatched DEF ActivateWaitingRetry, CanSubmit, process, faults, SetState, SetUnit
<1>f. Known(u) /\ TypeOK /\ JobOK /\ RepairNeedsFault
  BY Facts
<1>1. /\ Latest(u) # 0 /\ LatestState(u) = "KnownFailure"
      /\ unit[u].budget + Latest(u) = RetryBudget
  BY <1>0, <1>f DEF Known, LedgerOK, Agree
<1>2. x \in Unit /\ x.state = "Queued" /\ x.budget = unit[u].budget
  BY <1>f, UnitWithState DEF Known, UnitStates
<1>. HIDE DEF x
<1>3. LedgerOK(u)'
  <2>1. unit'[u] = x
    BY <1>0, <1>f DEF TypeOK
  <2>. QED
    BY <1>0, <1>1, <1>2, <1>f, <2>1, LatestUnchanged DEF Known, LedgerOK, Agree, Failed
<1>4. TypeOK'
  BY <1>0, <1>2, <1>f DEF TypeOK
<1>5. JobOK' /\ RepairNeedsFault'
  BY <1>0, <1>f, JobFrame DEF RepairNeedsFault
<1>6. ASSUME NEW v \in Units, v # u  PROVE UnitOK(v)'
  <2>1. Same(v)
    BY <1>0, <1>6, <1>f DEF Same, Known, TypeOK
  <2>. QED  BY <2>1, <1>4, Frame DEF DispatchInv
<1>7. UnitOK(u)'
  <2>1. CallOK(u)' /\ WaitOK(u)' /\ DispatchOK(u)'
    BY <1>0, <1>1, <1>f, LatestUnchanged DEF Known, CallOK, WaitOK, DispatchOK, IsSettled, Dispatches
  <2>2. OwnOK(u)' /\ LeaseOK(u)'
    BY <1>0, <1>f, LatestUnchanged DEF Known, OwnOK, LeaseOK, HoldsLease, Dispatches
  <2>3. (\A n \in Ordinals : AttemptOK(<<u, n>>))'
    BY <1>0, <1>f DEF Known, AttemptOK
  <2>. QED  BY <1>3, <2>1, <2>2, <2>3 DEF UnitOK
<1>. QED  BY <1>4, <1>5, <1>6, <1>7 DEF DispatchInv

\* prepareModelAttempt makes the unit, if it is new, and asks for a session.
LEMMA PrepareModelAttemptStep ==
    ASSUME DispatchInv, NEW u \in Units, PrepareModelAttempt(u)
    PROVE  DispatchInv'
<1>. DEFINE x == IF unit[u].state = "none" THEN [unit[u] EXCEPT !.state = "Queued"] ELSE unit[u]
<1>f. Known(u) /\ TypeOK /\ JobOK /\ RepairNeedsFault
  BY Facts
<1>0. /\ unit' = [unit EXCEPT ![u] = x] /\ call' = [call EXCEPT ![u] = "open"]
      /\ UNCHANGED <<task, attempt, store, lease, pending, draining, running, job, invoked, crashes, failures>>
      /\ call[u] = "none" /\ pending[u] = 0 /\ ~Dispatches(u)
  BY NotDispatched, <1>f DEF PrepareModelAttempt, CanSubmit, faults, SetState, SetUnit, TypeOK
<1>2. x \in Unit /\ x.budget = unit[u].budget
      /\ (unit[u].state = "none" => x.state = "Queued") /\ (unit[u].state # "none" => x = unit[u])
  BY <1>f, UnitWithState DEF Known, UnitStates
<1>. HIDE DEF x
<1>3. LedgerOK(u)'
  <2>1. unit'[u] = x
    BY <1>0, <1>f DEF TypeOK
  <2>. QED
    BY <1>0, <1>2, <1>f, <2>1, LatestUnchanged DEF Known, LedgerOK, Agree, Failed
<1>4. TypeOK'
  BY <1>0, <1>2, <1>f DEF TypeOK
<1>5. JobOK' /\ RepairNeedsFault'
  <2>1. \A v \in Units : call[v] = "open" => call'[v] = "open"
    BY <1>0, <1>f DEF TypeOK
  <2>. QED  BY <1>0, <1>f, <2>1, JobFrame DEF RepairNeedsFault
<1>6. ASSUME NEW v \in Units, v # u  PROVE UnitOK(v)'
  <2>1. Same(v)
    BY <1>0, <1>6, <1>f DEF Same, Known, TypeOK
  <2>. QED  BY <2>1, <1>4, Frame DEF DispatchInv
<1>7. UnitOK(u)'
  <2>0. call'[u] = "open"
    BY <1>0, <1>f DEF TypeOK
  <2>1. CallOK(u)' /\ WaitOK(u)' /\ DispatchOK(u)'
    BY <1>0, <1>f, <2>0, LatestUnchanged DEF Known, CallOK, WaitOK, DispatchOK, IsSettled, Dispatches
  <2>2. OwnOK(u)' /\ LeaseOK(u)'
    BY <1>0, <1>f, LatestUnchanged DEF Known, OwnOK, LeaseOK, HoldsLease, Dispatches
  <2>3. (\A n \in Ordinals : AttemptOK(<<u, n>>))'
    BY <1>0, <1>f DEF Known, AttemptOK
  <2>. QED  BY <1>3, <2>1, <2>2, <2>3 DEF UnitOK
<1>. QED  BY <1>4, <1>5, <1>6, <1>7 DEF DispatchInv

\* selectModelAttemptOrdinal never asks for an attempt the budget does not allow; the
\* attempt it asks for has no outcome yet.
LEMMA SelectOrdinalIs ==
    ASSUME NEW u \in Units, Known(u), unit[u].state \in {"Queued", "Running"}
    PROVE  /\ SelectOrdinal(u) \in Ordinals
           /\ SelectOrdinal(u) \in {Latest(u), Latest(u) + 1}
           /\ unit[u].state = "Queued" =>
                attempt[<<u, SelectOrdinal(u)>>].state \in {"none", "DispatchIntentPersisted"}
<1>1. /\ SelectOrdinal(u) = Latest(u) + 1 =>
             Latest(u) = 0 \/ (unit[u].state = "Queued" /\ unit[u].budget + Latest(u) = RetryBudget)
      /\ SelectOrdinal(u) # Latest(u) + 1 =>
             /\ SelectOrdinal(u) = Latest(u) /\ Latest(u) # 0
             /\ unit[u].state = "Queued" => LatestState(u) = "DispatchIntentPersisted"
  BY DEF Known, SelectOrdinal, LatestAttempt, LedgerOK, Agree, LatestState, Failed
<1>2. SelectOrdinal(u) \in Ordinals /\ SelectOrdinal(u) \in {Latest(u), Latest(u) + 1}
  BY <1>1 DEF Known, Ordinals
<1>3. SelectOrdinal(u) = Latest(u) + 1 => attempt[<<u, SelectOrdinal(u)>>].state = "none"
  BY <1>2 DEF Known, LedgerOK
<1>. QED  BY <1>1, <1>2, <1>3 DEF LatestState

\* After the session: wait for the attempt to be dispatched, or for its call.
LEMMA EnqueuePendingStep ==
    ASSUME DispatchInv, NEW u \in Units, EnqueuePending(u)
    PROVE  DispatchInv'
<1>f. Known(u) /\ TypeOK /\ JobOK /\ RepairNeedsFault
  BY Facts
<1>0. /\ call[u] = "read" /\ call' = [call EXCEPT ![u] = "none"]
      /\ UNCHANGED <<task, unit, attempt, store, lease, running, job, invoked, crashes, failures>>
      /\ pending[u] = 0 /\ ~Dispatches(u)
  BY NotDispatched, <1>f DEF EnqueuePending, ledger, faults, Known, WaitOK
<1>1. /\ draining' \in BOOLEAN
      /\ \/ pending' = pending
         \/ pending' = [pending EXCEPT ![u] = SelectOrdinal(u)] /\ SelectOrdinal(u) \in Ordinals
  BY <1>f, SelectOrdinalIs DEF EnqueuePending, TypeOK
<1>2. /\ pending'[u] \in {0, SelectOrdinal(u)} /\ call'[u] = "none"
      /\ \A v \in Units \ {u} : pending'[v] = pending[v] /\ call'[v] = call[v]
  BY <1>0, <1>1, <1>f DEF TypeOK
<1>4. TypeOK'
  BY <1>0, <1>1, <1>f DEF TypeOK
<1>5. JobOK' /\ RepairNeedsFault'
  <2>1. \A v \in Units : call[v] = "open" => call'[v] = "open"
    BY <1>0, <1>2
  <2>. QED  BY <1>0, <1>f, <2>1, JobFrame DEF RepairNeedsFault
<1>6. ASSUME NEW v \in Units, v # u  PROVE UnitOK(v)'
  <2>1. Same(v)
    BY <1>0, <1>2, <1>6, <1>f DEF Same, Known
  <2>. QED  BY <2>1, <1>4, Frame DEF DispatchInv
<1>7. UnitOK(u)'
  <2>0. SelectOrdinal(u)' = SelectOrdinal(u)
    BY <1>0, LatestUnchanged DEF SelectOrdinal, LatestAttempt
  <2>1. LedgerOK(u)' /\ CallOK(u)' /\ DispatchOK(u)'
    BY <1>0, <1>f, LatestUnchanged DEF Known, LedgerOK, CallOK, DispatchOK, IsSettled, Dispatches, Agree
  <2>2. WaitOK(u)'
    BY <1>0, <1>2, <1>f, <2>0, LatestUnchanged DEF Known, WaitOK, Dispatches
  <2>3. OwnOK(u)' /\ LeaseOK(u)'
    BY <1>0, <1>f, LatestUnchanged DEF Known, OwnOK, LeaseOK, HoldsLease, Dispatches
  <2>4. (\A n \in Ordinals : AttemptOK(<<u, n>>))'
    BY <1>0, <1>f DEF Known, AttemptOK
  <2>. QED  BY <2>1, <2>2, <2>3, <2>4 DEF UnitOK
<1>. QED  BY <1>4, <1>5, <1>6, <1>7 DEF DispatchInv

-----------------------------------------------------------------------------
(* Opening a session. *)

\* The fields of a job, and of a job at another step or with other units to do.
LEMMA JobFields ==
    ASSUME NEW j \in Job
    PROVE  /\ j.for \in {"none", "submit", "dispatch", "settle"} /\ j.at \in JobSteps
           /\ j.unit \in {{}} \cup {{u} : u \in Units} /\ j.todo \in SUBSET Units
BY DEF Job

\* A job at another step.
LEMMA JobAt ==
    ASSUME NEW j \in Job, NEW at \in JobSteps
    PROVE  LET k == [j EXCEPT !.at = at]
           IN  k \in Job /\ k.for = j.for /\ k.at = at /\ k.unit = j.unit /\ k.todo = j.todo
BY DEF Job

\* A job with other units to look at.
LEMMA JobTodo ==
    ASSUME NEW j \in Job, NEW us \in SUBSET Units
    PROVE  LET k == [j EXCEPT !.todo = us]
           IN  k \in Job /\ k.for = j.for /\ k.at = j.at /\ k.unit = j.unit /\ k.todo = us
BY DEF Job

\* A job that opens a session.
LEMMA JobOpen ==
    ASSUME NEW f \in {"submit", "dispatch", "settle"}, NEW us \in {{}} \cup {{u} : u \in Units}
    PROVE  LET k == [for |-> f, at |-> "reconcile", unit |-> us, todo |-> Restarted]
           IN  k \in Job /\ k.for = f /\ k.at = "reconcile" /\ k.unit = us /\ k.todo = Restarted
BY DEF Job, JobSteps, Restarted

\* A job that opens a session finds everything as it was.
LEMMA OpenStep ==
    ASSUME DispatchInv, job = Idle,
           NEW f \in {"submit", "dispatch", "settle"}, NEW us \in {{}} \cup {{u} : u \in Units},
           Open(f, us), draining' \in BOOLEAN,
           UNCHANGED <<ledger, store, lease, call, pending, running, invoked, faults>>,
           f = "submit" => \E u \in Units : us = {u} /\ call[u] = "open",
           f = "dispatch" => us = {},
           f = "settle" => \E u \in Units : us = {u} /\ running[u] \in Outcomes
    PROVE  DispatchInv'
<1>1. job' \in Job /\ job'.for = f /\ job'.at = "reconcile" /\ job'.unit = us /\ job'.todo = Restarted
  BY JobOpen DEF Open
<1>2. TypeOK /\ JobOK /\ RepairNeedsFault
  BY DEF DispatchInv
<1>3. TypeOK'
  BY <1>1, <1>2 DEF TypeOK, ledger, faults
<1>4. JobOK' /\ RepairNeedsFault'
  BY <1>1, <1>2 DEF JobOK, RepairNeedsFault, Restarted, ledger, faults
<1>5. ASSUME NEW v \in Units PROVE UnitOK(v)'
  <2>1. crashes \in Nat /\ failures \in Nat
    BY <1>5, Facts DEF Known
  <2>2. Same(v)
    BY <1>1, <2>1, IdleJob DEF Same, ledger, faults, Dispatches, IsSettled
  <2>. QED  BY <1>3, <2>2, Frame DEF DispatchInv
<1>. QED  BY <1>3, <1>4, <1>5 DEF DispatchInv

\* A submission opens its session.
LEMMA SubmitOpensStep ==
    ASSUME DispatchInv, NEW u \in Units, SubmitOpens(u)
    PROVE  DispatchInv'
<1>1. draining' \in BOOLEAN /\ {u} \in {{}} \cup {{v} : v \in Units}
  BY DEF SubmitOpens, DispatchInv, TypeOK
<1>. QED  BY <1>1, OpenStep DEF SubmitOpens

\* A settlement opens its session.
LEMMA SettleOpensStep ==
    ASSUME DispatchInv, NEW u \in Units, SettleOpens(u)
    PROVE  DispatchInv'
<1>1. draining' \in BOOLEAN /\ {u} \in {{}} \cup {{v} : v \in Units}
  BY DEF SettleOpens, DispatchInv, TypeOK
<1>. QED  BY <1>1, OpenStep DEF SettleOpens

\* drain opens a session, or is over.
LEMMA DrainOpensStep ==
    ASSUME DispatchInv, DrainOpens
    PROVE  DispatchInv'
<1>1. draining' \in BOOLEAN /\ {} \in {{}} \cup {{v} : v \in Units}
  BY DEF DrainOpens, DispatchInv, TypeOK
<1>2. CASE \E u \in Units : pending[u] # 0
  BY <1>1, <1>2, OpenStep DEF DrainOpens
<1>3. CASE ~\E u \in Units : pending[u] # 0
  <2>1. UNCHANGED <<ledger, store, lease, call, pending, running, job, invoked, faults>>
    BY <1>3 DEF DrainOpens
  <2>2. TypeOK' /\ JobOK' /\ RepairNeedsFault'
    BY <1>1, <2>1, JobFrame DEF DispatchInv, TypeOK, RepairNeedsFault, ledger, faults
  <2>3. ASSUME NEW v \in Units PROVE UnitOK(v)'
    <3>1. crashes \in Nat /\ failures \in Nat
      BY <2>3, Facts DEF Known
    <3>2. Same(v)
      BY <2>1, <3>1 DEF Same, ledger, faults
    <3>. QED  BY <2>2, <3>2, Frame DEF DispatchInv
  <2>. QED  BY <2>2, <2>3 DEF DispatchInv
<1>. QED  BY <1>2, <1>3

\* A job that throws lets go of its submission, of everybody who waits for its drain,
\* or of its call; a unit with another call keeps its claim.
LEMMA AbortStep ==
    ASSUME DispatchInv, Abort, UNCHANGED <<unit, attempt, lease, invoked>>,
           job.for = "dispatch" => job.unit = {},
           task' \in {"Running", "RepairRequired"}, RepairNeedsFault',
           store' \in [Units -> Claim \cup {NoClaim}],
           crashes' \in 0..MaxCrashes, failures' \in 0..MaxFailures,
           crashes' >= crashes, failures' >= failures,
           \A v \in Units : running'[v] # "none" => store'[v] = store[v],
           \A v \in Units : OwnOK(v)'
    PROVE  DispatchInv'
<1>0. TypeOK /\ JobOK
  BY DEF DispatchInv
<1>1. \A v \in Units :
        /\ call'[v] \in {call[v], "none"} /\ pending'[v] \in {pending[v], 0}
        /\ IF job.for = "settle" /\ v \in job.unit THEN running'[v] = "none" /\ pending'[v] = 0
           ELSE running'[v] = running[v]
  BY DEF Abort
<1>2. job' = Idle /\ draining' \in BOOLEAN
  BY <1>0 DEF Abort, TypeOK
<1>3. TypeOK'
  <2>1. /\ call' \in [Units -> {"none", "open", "read"}] /\ pending' \in [Units -> Ordinals \cup {0}]
        /\ running' \in [Units -> {"none", "ready", "calling"} \cup Outcomes]
    BY <1>0 DEF Abort, TypeOK
  <2>. QED  BY <1>0, <1>2, <2>1, IdleJob DEF TypeOK
<1>4. JobOK'
  BY <1>2, IdleJob DEF JobOK
<1>5. ASSUME NEW v \in Units PROVE UnitOK(v)'
  <2>f. Known(v) /\ crashes' \in Nat /\ failures' \in Nat
    BY Facts, DispatchAssumption
  <2>1. ~Dispatches(v) /\ ~Dispatches(v)' /\ ~IsSettled(v)'
    BY <1>2, IdleJob DEF Dispatches, IsSettled
  <2>2. IsSettled(v) => running'[v] = "none" /\ pending'[v] = 0
    BY <1>1 DEF IsSettled
  <2>3. /\ LedgerOK(v)'
    BY <2>f, LatestUnchanged DEF Known, LedgerOK, Agree
  <2>4. CallOK(v)'
    BY <1>1, <2>f, <2>1, <2>2, LatestUnchanged DEF Known, CallOK
  <2>5. WaitOK(v)'
    <3>1. SelectOrdinal(v)' = SelectOrdinal(v)
      BY LatestUnchanged DEF SelectOrdinal, LatestAttempt
    <3>. QED  BY <1>1, <2>f, <2>1, <2>2, <3>1, LatestUnchanged DEF Known, WaitOK
  <2>6. DispatchOK(v)'
    BY <2>1 DEF DispatchOK
  <2>7. LeaseOK(v)'
    <3>1. running[v] \in {"ready", "calling"} => running'[v] = running[v]
      BY <1>0, <1>1 DEF JobOK, Outcomes
    <3>. QED  BY <2>f, <2>1, <3>1, LatestUnchanged DEF Known, LeaseOK, HoldsLease, Dispatches
  <2>8. (\A n \in Ordinals : AttemptOK(<<v, n>>))'
    BY <2>f DEF Known, AttemptOK
  <2>. QED  BY <2>3, <2>4, <2>5, <2>6, <2>7, <2>8 DEF UnitOK
<1>. QED  BY <1>3, <1>4, <1>5 DEF DispatchInv

\* markRestartRecoveryRepair, after a fault.
LEMMA RestartRepairStep ==
    ASSUME DispatchInv, job.at = "reconcile", RestartRepair, crashes > 0 \/ failures > 0
    PROVE  DispatchInv'
<1>1. TypeOK /\ JobOK
  BY DEF DispatchInv
<1>2. job.for = "dispatch" => job.unit = {}
  BY <1>1 DEF JobOK, UnitSteps
<1>3. crashes \in Nat /\ failures \in Nat
  BY <1>1, DispatchAssumption DEF TypeOK
<1>4. RepairNeedsFault' /\ \A v \in Units : OwnOK(v)'
  BY <1>3 DEF RestartRepair, RepairNeedsFault, OwnOK, faults
<1>5. /\ task' \in {"Running", "RepairRequired"} /\ store' \in [Units -> Claim \cup {NoClaim}]
      /\ crashes' \in 0..MaxCrashes /\ failures' \in 0..MaxFailures
      /\ crashes' >= crashes /\ failures' >= failures
      /\ UNCHANGED <<unit, attempt, lease, invoked, store>> /\ Abort
  BY <1>1, <1>3 DEF TypeOK, RestartRepair, faults
<1>. QED  BY <1>2, <1>4, <1>5, AbortStep

\* A unit that is reconciled has a claim, no call, and there was a fault.
LEMMA ReconciledIs ==
    ASSUME DispatchInv, job.at = "reconcile", NEW u \in job.todo
    PROVE  /\ u \in Units /\ store[u] # NoClaim /\ store[u] \in Claim /\ running[u] = "none"
           /\ crashes > 0 \/ failures > 0
           /\ \A v \in Units : ~Dispatches(v) /\ ~IsSettled(v)
<1>1. u \in Units /\ store[u] # NoClaim /\ running[u] = "none"
  BY DEF DispatchInv, JobOK, Restarted
<1>2. \A v \in Units : ~Dispatches(v) /\ ~IsSettled(v)
  BY DEF DispatchInv, JobOK, UnitSteps, Dispatches, IsSettled
<1>3. crashes > 0 \/ failures > 0
  <2>1. Known(u)
    BY <1>1, Facts
  <2>. QED  BY <1>1, <1>2, <2>1 DEF Known, OwnOK
<1>. QED  BY <1>1, <1>2, <1>3 DEF DispatchInv, TypeOK

\* The job's list of claims gets shorter.
LEMMA ReconcileJob ==
    ASSUME DispatchInv, job.at = "reconcile", NEW u \in job.todo,
           job' = [job EXCEPT !.todo = @ \ {u}], UNCHANGED <<store, call, running>>
    PROVE  /\ job' \in Job /\ JobOK'
           /\ \A v \in Units : ~Dispatches(v)' /\ ~IsSettled(v)'
<1>1. job \in Job /\ JobOK
  BY DEF DispatchInv, TypeOK
<1>2. job.todo \ {u} \in SUBSET Units
  BY <1>1, JobFields
<1>3. /\ job' \in Job /\ job'.for = job.for /\ job'.at = "reconcile" /\ job'.unit = job.unit
      /\ job'.todo = job.todo \ {u}
  BY <1>1, <1>2, JobTodo
<1>4. job.for # "none"
  BY <1>1, IdleJob DEF JobOK
<1>5. JobOK'
  BY <1>1, <1>3, <1>4 DEF JobOK, Restarted
<1>6. \A v \in Units : ~Dispatches(v)' /\ ~IsSettled(v)'
  BY <1>1, <1>3, ReconciledIs DEF Dispatches, IsSettled
<1>. QED  BY <1>3, <1>5, <1>6

\* reconcileBoundProviderLease: the attempt the claim is bound to is the latest, and
\* what is recorded of it is true.
LEMMA RecoverBoundStep ==
    ASSUME DispatchInv, NEW u \in Units, job.at = "reconcile", u \in job.todo,
           ClaimIsBound(u), RecoverBound(u), job' = [job EXCEPT !.todo = @ \ {u}],
           UNCHANGED <<task, store, call, pending, draining, running, invoked, faults>>
    PROVE  DispatchInv'
<1>. DEFINE a == <<u, Latest(u)>>
            n0 == store[u].ordinal
<1>f. Known(u) /\ TypeOK /\ JobOK /\ RepairNeedsFault
  BY Facts
<1>r. /\ store[u] \in Claim /\ running[u] = "none" /\ (crashes > 0 \/ failures > 0)
      /\ \A v \in Units : ~Dispatches(v) /\ ~IsSettled(v)
  BY ReconciledIs
<1>j. job' \in Job /\ JobOK' /\ \A v \in Units : ~Dispatches(v)' /\ ~IsSettled(v)'
  BY ReconcileJob
<1>1. n0 \in Ordinals
  BY <1>r DEF Claim
<1>2. n0 = Latest(u) /\ Latest(u) # 0
  BY <1>1, <1>f DEF ClaimIsBound, Known, LedgerOK, Failed
<1>3. /\ store[u].phase \in {"attempt-bound", "invoking"} /\ store[u].phase = attempt[a].phase
      /\ attempt[a].state = "Dispatched" /\ LatestState(u) = "Dispatched" /\ unit[u].state = "Running"
      /\ unit[u].budget + Latest(u) = RetryBudget + 1
  BY <1>2, <1>f DEF ClaimIsBound, Known, LedgerOK, Agree, LatestState
<1>4. PICK r, x :
        /\ r \in Attempt /\ x \in Unit /\ r.state # "none" /\ Agree(x, Latest(u), r.state)
        /\ attempt' = [attempt EXCEPT ![a] = r] /\ unit' = [unit EXCEPT ![u] = x]
        /\ \/ /\ attempt[a].phase = "attempt-bound" /\ lease' = [lease EXCEPT ![a] = "absent"]
              /\ r = [state |-> "KnownFailure", phase |-> "invoking", preInvoke |-> TRUE]
           \/ /\ lease' = lease /\ attempt[a].phase = "invoking"
              /\ r.state = "UnknownOutcome" /\ r.phase = attempt[a].phase
              /\ r.preInvoke = attempt[a].preInvoke
              /\ x.state = "UnknownOutcome"
  <2>1. CASE store[u].phase = "attempt-bound" /\ lease[a] # "uncertain"
    <3>. DEFINE r1 == [state |-> "KnownFailure", phase |-> "invoking", preInvoke |-> TRUE]
                x1 == Retried(u, "Queued")
    <3>1. r1 \in Attempt /\ r1.state = "KnownFailure"
      BY DEF Attempt, AttemptStates, Phases
    <3>2. /\ x1 \in Unit
          /\ unit[u].budget > 0 => x1.state = "Queued" /\ x1.budget + 1 = unit[u].budget
          /\ unit[u].budget = 0 => x1.state = "FailedFinal"
      BY <1>f, RetriedIs DEF UnitStates
    <3>3. x1.budget \in Nat
      BY <3>2, UnitFields
    <3>4. /\ attempt' = [attempt EXCEPT ![a] = r1] /\ unit' = [unit EXCEPT ![u] = x1]
          /\ lease' = [lease EXCEPT ![a] = "absent"]
      BY <1>2, <2>1 DEF RecoverBound, MarkKnownPreInvokeFailure, SetUnit
    <3>. HIDE DEF x1
    <3>5. Agree(x1, Latest(u), "KnownFailure")
      BY <1>2, <1>3, <1>f, <3>2, <3>3 DEF Agree, Failed, Known
    <3>. QED  BY <1>3, <2>1, <3>1, <3>2, <3>4, <3>5
  <2>2. CASE ~(store[u].phase = "attempt-bound" /\ lease[a] # "uncertain")
    <3>. DEFINE r1 == [attempt[a] EXCEPT !.state = "UnknownOutcome"]
                x1 == [unit[u] EXCEPT !.state = "UnknownOutcome"]
    <3>1. /\ r1 \in Attempt /\ r1.state = "UnknownOutcome" /\ r1.phase = attempt[a].phase
          /\ r1.preInvoke = attempt[a].preInvoke
      BY <1>2, <1>f, WithState DEF Known, AttemptStates
    <3>2. x1 \in Unit /\ x1.state = "UnknownOutcome" /\ x1.budget = unit[u].budget
      BY <1>f, UnitWithState DEF Known, UnitStates
    <3>3. /\ attempt' = [attempt EXCEPT ![a] = r1] /\ unit' = [unit EXCEPT ![u] = x1]
          /\ lease' = lease
      BY <1>2, <2>2 DEF RecoverBound, MarkUnknownOutcome, SetState, SetUnit
    <3>4. attempt[a].phase = "invoking"
      BY <1>2, <1>3, <2>2, <1>f DEF Known, AttemptOK
    <3>. HIDE DEF r1, x1
    <3>5. Agree(x1, Latest(u), r1.state)
      BY <1>2, <1>3, <3>1, <3>2 DEF Agree
    <3>. QED  BY <3>1, <3>2, <3>3, <3>4, <3>5
  <2>. QED  BY <2>1, <2>2
<1>5. Written(u, r, x)
  BY <1>2, <1>4, <1>f, LedgerWrite DEF Known
<1>6. lease' \in [Attempts -> {"absent", "active", "uncertain"}]
      /\ \A v \in Units, n \in Ordinals : <<v, n>> \in Attempts => lease'[<<v, n>>] \in {lease[<<v, n>>], "absent"}
  BY <1>4, <1>f DEF TypeOK
<1>7. TypeOK' /\ RepairNeedsFault'
  BY <1>5, <1>6, <1>f, <1>j DEF TypeOK, Written, faults, RepairNeedsFault
<1>8. ASSUME NEW v \in Units, v # u PROVE UnitOK(v)'
  <2>1. Known(v)
    BY Facts
  <2>2. Same(v)
    BY <1>5, <1>6, <1>8, <1>f, <1>r, <1>j, <2>1 DEF Same, Written, Known, faults
  <2>. QED  BY <1>7, <2>2, Frame DEF DispatchInv
<1>9. UnitOK(u)'
  <2>1. CallOK(u)' /\ DispatchOK(u)'
    BY <1>r, <1>j DEF CallOK, DispatchOK
  <2>2. LatestState(u)' = r.state /\ r.state # "Dispatched"
    BY <1>4, <1>5 DEF Written, LatestState
  <2>3. WaitOK(u)'
    <3>1. attempt[a].phase = "attempt-bound" => pending[u] = 0
      BY <1>2, <1>3, <1>r, <1>f DEF Known, WaitOK
    <3>. QED  BY <1>4, <1>5, <1>f, <2>2, <3>1 DEF Known, WaitOK, Written
  <2>4. OwnOK(u)'
    BY <1>r, <1>f DEF OwnOK, faults, Known
  <2>5. LeaseOK(u)'
    <3>1. \A n \in Ordinals : ~HoldsLease(u, n)
      BY <1>r DEF HoldsLease, Dispatches
    <3>2. \A n \in Ordinals : n # Latest(u) =>
            attempt'[<<u, n>>] = attempt[<<u, n>>] /\ lease'[<<u, n>>] \in {lease[<<u, n>>], "absent"}
      BY <1>5, <1>6, <1>f DEF Written, Known
    <3>3. lease'[a] = "active" => lease[a] = "active" /\ r.state = "UnknownOutcome"
      BY <1>4, <1>5, <1>f DEF Written, TypeOK
    <3>4. lease'[a] = "active" => crashes > 0
      BY <1>2, <1>3, <1>f, <3>1, <3>3 DEF Known, LeaseOK
    <3>. QED  BY <1>2, <1>5, <1>f, <3>1, <3>2, <3>3, <3>4 DEF Known, LeaseOK, Written, faults
  <2>6. (\A n \in Ordinals : AttemptOK(<<u, n>>))'
    <3>1. ASSUME NEW n \in Ordinals, n # Latest(u) PROVE AttemptOK(<<u, n>>)'
      BY <1>5, <1>6, <1>f, <3>1 DEF Known, AttemptOK, Written
    <3>2. AttemptOK(a)'
      BY <1>2, <1>3, <1>4, <1>5, <1>6, <1>f DEF Known, AttemptOK, Written
    <3>. QED  BY <1>5, <3>1, <3>2 DEF Written
  <2>. QED  BY <1>5, <2>1, <2>3, <2>4, <2>5, <2>6 DEF UnitOK, Written
<1>. QED  BY <1>7, <1>j, <1>8, <1>9 DEF DispatchInv

\* reconcileRestartedDispatches, for one claim.
LEMMA ReconcileRestartedDispatchStep ==
    ASSUME DispatchInv, NEW u \in Units, ReconcileRestartedDispatch(u)
    PROVE  DispatchInv'
<1>1. job.at = "reconcile" /\ u \in job.todo
  BY DEF ReconcileRestartedDispatch
<1>2. CASE ~(ClaimIsOver(u) \/ ClaimIsUnbound(u) \/ ClaimIsBound(u))
  <2>1. RestartRepair /\ (crashes > 0 \/ failures > 0)
    BY <1>1, <1>2, ReconciledIs DEF ReconcileRestartedDispatch
  <2>. QED  BY <1>1, <2>1, RestartRepairStep
<1>3. CASE ClaimIsBound(u)
  BY <1>1, <1>3, RecoverBoundStep DEF ReconcileRestartedDispatch
<1>4. CASE (ClaimIsOver(u) \/ ClaimIsUnbound(u)) /\ ~ClaimIsBound(u)
  <2>1. /\ job' = [job EXCEPT !.todo = @ \ {u}]
        /\ lease' = [lease EXCEPT ![<<u, store[u].ordinal>>] = "absent"]
        /\ UNCHANGED <<task, unit, attempt, store, call, pending, draining, running, invoked, crashes, failures>>
    BY <1>4 DEF ReconcileRestartedDispatch, faults
  <2>2. TypeOK /\ JobOK /\ RepairNeedsFault
    BY DEF DispatchInv
  <2>3. job' \in Job /\ JobOK' /\ \A v \in Units : ~Dispatches(v)' /\ ~IsSettled(v)'
    BY <1>1, <2>1, ReconcileJob
  <2>4. TypeOK' /\ RepairNeedsFault'
    BY <2>1, <2>2, <2>3 DEF TypeOK, RepairNeedsFault
  <2>5. ASSUME NEW v \in Units PROVE UnitOK(v)'
    <3>1. Known(v)
      BY Facts
    <3>2. \A n \in Ordinals : lease'[<<v, n>>] \in {lease[<<v, n>>], "absent"}
      BY <2>1, <2>2, <3>1 DEF Known, TypeOK
    <3>3. ~Dispatches(v) /\ ~IsSettled(v)
      BY <1>1, ReconciledIs
    <3>4. Same(v)
      BY <2>1, <2>3, <3>1, <3>2, <3>3 DEF Same, Known
    <3>. QED  BY <2>4, <3>4, Frame DEF DispatchInv
  <2>. QED  BY <2>3, <2>4, <2>5 DEF DispatchInv
<1>. QED  BY <1>2, <1>3, <1>4

\* A unit with a call keeps its claim when the coordinator is rebuilt.
LEMMA EvidencedIs ==
    ASSUME DispatchInv, job.at = "reconcile"
    PROVE  /\ Evidenced \in [Units -> Claim \cup {NoClaim}]
           /\ \A v \in Units : Evidenced[v] \in {store[v], NoClaim}
           /\ \A v \in Units : running[v] # "none" => Evidenced[v] = store[v]
<1>1. /\ Evidenced \in [Units -> Claim \cup {NoClaim}]
      /\ \A v \in Units : Evidenced[v] \in {store[v], NoClaim}
  BY DEF Evidenced, DispatchInv, TypeOK
<1>2. ASSUME NEW v \in Units, running[v] # "none" PROVE Evidenced[v] = store[v]
  <2>1. ~IsSettled(v)
    BY DEF IsSettled
  <2>k. Known(v)
    BY Facts
  <2>2. store[v].ordinal = Latest(v) /\ attempt[<<v, store[v].ordinal>>].state = "Dispatched"
    BY <1>2, <2>1, <2>k DEF Known, CallOK, LatestState
  <2>3. store[v] # NoClaim
    BY <1>2, <2>1, <2>k DEF Known, CallOK, NoClaim
  <2>. QED  BY <2>2, <2>3 DEF Evidenced
<1>. QED  BY <1>1, <1>2

\* The end of openCoordinatorSession: the submission has what it reads, the dispatch
\* looks for a unit, the settlement marks the ledger.
LEMMA SessionReadyStep ==
    ASSUME DispatchInv, job.at = "reconcile", job.todo = {}, SessionReady, store' = Evidenced,
           ~\E u \in Units : Orphaned(u), UNCHANGED <<ledger, lease, invoked, faults>>
    PROVE  DispatchInv'
<1>0. TypeOK /\ JobOK /\ RepairNeedsFault /\ job \in Job
  BY DEF DispatchInv, TypeOK
<1>1. /\ job' \in Job /\ job'.at \in {"idle", "step", "mark"}
      /\ job.for = "submit" => job' = Idle
      /\ job.for = "dispatch" => job'.for = "dispatch" /\ job'.at = "step" /\ job'.unit = {}
      /\ job.for = "settle" => job'.for = "settle" /\ job'.at = "mark" /\ job'.unit = job.unit
      /\ job.for \in {"submit", "dispatch", "settle"}
  <2>1. job.for \in {"submit", "dispatch", "settle"}
    BY <1>0, IdleJob, JobFields DEF JobOK
  <2>2. "step" \in JobSteps /\ "mark" \in JobSteps
    BY DEF JobSteps
  <2>3. CASE job.for = "submit"
    BY <2>1, <2>3, IdleJob DEF SessionReady
  <2>4. CASE job.for = "dispatch"
    <3>1. job' = [job EXCEPT !.at = "step"] /\ job.unit = {}
      BY <1>0, <2>4 DEF SessionReady, JobOK, UnitSteps
    <3>. QED  BY <1>0, <2>1, <2>2, <2>4, <3>1, JobAt
  <2>5. CASE job.for = "settle"
    <3>1. job' = [job EXCEPT !.at = "mark"]
      BY <1>0, <2>5 DEF SessionReady
    <3>. QED  BY <1>0, <2>1, <2>2, <2>5, <3>1, JobAt
  <2>. QED  BY <2>1, <2>3, <2>4, <2>5
<1>2. \A v \in Units : call'[v] = IF job.for = "submit" /\ v \in job.unit THEN "read" ELSE call[v]
  BY DEF SessionReady
<1>3. TypeOK'
  <2>1. call' \in [Units -> {"none", "open", "read"}]
    BY <1>0 DEF SessionReady, TypeOK
  <2>. QED  BY <1>0, <1>1, <2>1, EvidencedIs DEF TypeOK, SessionReady, ledger, faults
<1>4. JobOK' /\ RepairNeedsFault'
  BY <1>0, <1>1, IdleJob DEF JobOK, RepairNeedsFault, SessionReady, ledger, faults
<1>5. ASSUME NEW v \in Units PROVE UnitOK(v)'
  <2>f. Known(v)
    BY Facts
  <2>e. store'[v] \in {store[v], NoClaim} /\ (running[v] # "none" => store'[v] = store[v])
    BY EvidencedIs
  <2>u. UNCHANGED <<task, unit, attempt, lease, invoked, pending, running, crashes, failures>>
    BY DEF SessionReady, ledger, faults
  <2>1. ~Dispatches(v) /\ ~IsSettled(v) /\ ~Dispatches(v)' /\ ~IsSettled(v)'
    BY <1>0, <1>1, IdleJob DEF Dispatches, IsSettled, JobOK, UnitSteps
  <2>2. LedgerOK(v)' /\ CallOK(v)' /\ DispatchOK(v)'
    BY <2>f, <2>e, <2>u, <2>1, LatestUnchanged DEF Known, LedgerOK, CallOK, DispatchOK, Agree
  <2>3. WaitOK(v)'
    <3>1. SelectOrdinal(v)' = SelectOrdinal(v)
      BY <2>u, LatestUnchanged DEF SelectOrdinal, LatestAttempt
    <3>2. Latest(v) # 0 /\ LatestState(v) = "Dispatched" => running[v] # "none"
      BY DEF Orphaned, LatestState, LatestAttempt
    <3>3. call'[v] # "none" => call[v] # "none"
      BY <1>0, <1>2 DEF JobOK
    <3>. QED  BY <1>2, <2>f, <2>u, <2>1, <3>1, <3>2, <3>3, LatestUnchanged DEF Known, WaitOK, CallOK
  <2>4. OwnOK(v)' /\ LeaseOK(v)'
    BY <2>f, <2>e, <2>u, <2>1, LatestUnchanged DEF Known, OwnOK, LeaseOK, HoldsLease, Dispatches
  <2>5. (\A n \in Ordinals : AttemptOK(<<v, n>>))'
    BY <2>f, <2>u DEF Known, AttemptOK
  <2>. QED  BY <2>2, <2>3, <2>4, <2>5 DEF UnitOK
<1>. QED  BY <1>3, <1>4, <1>5 DEF DispatchInv

\* A failed write is a fault: whoever aborts after it needs no claim to be its own.
LEMMA FailedAbortStep ==
    ASSUME DispatchInv, NEW written \in [Units -> Claim \cup {NoClaim}], Fails(written), Abort,
           UNCHANGED <<ledger, lease, invoked>>, job.for = "dispatch" => job.unit = {},
           \A v \in Units : running'[v] # "none" => written[v] = store[v]
    PROVE  DispatchInv'
<1>1. TypeOK /\ crashes \in Nat /\ failures \in Nat /\ MaxFailures \in Nat
  BY DispatchAssumption DEF DispatchInv, TypeOK
<1>2. /\ store' \in [Units -> Claim \cup {NoClaim}] /\ crashes' = crashes /\ failures' = failures + 1
      /\ crashes' \in 0..MaxCrashes /\ failures' \in 0..MaxFailures
      /\ \A v \in Units : running'[v] # "none" => store'[v] = store[v]
  BY <1>1 DEF Fails, TypeOK
<1>3. RepairNeedsFault' /\ \A v \in Units : OwnOK(v)'
  BY <1>1, <1>2 DEF RepairNeedsFault, OwnOK
<1>4. /\ task' \in {"Running", "RepairRequired"} /\ UNCHANGED <<unit, attempt, lease, invoked>>
      /\ crashes' >= crashes /\ failures' >= failures
  BY <1>1, <1>2 DEF TypeOK, ledger
<1>. QED  BY <1>2, <1>3, <1>4, AbortStep

\* The session ends, or finds an orphan, or cannot be written.
LEMMA RebuildCoordinatorStep ==
    ASSUME DispatchInv, RebuildCoordinator
    PROVE  DispatchInv'
<1>0. TypeOK /\ JobOK /\ job.at = "reconcile" /\ job.todo = {}
  BY DEF DispatchInv, RebuildCoordinator
<1>1. ASSUME NEW u \in Units, Orphaned(u) PROVE DispatchInv'
  <2>1. ~Dispatches(u)
    BY <1>0 DEF Dispatches, JobOK, UnitSteps
  <2>2. Known(u)
    BY Facts
  <2>3. crashes > 0 \/ failures > 0
    BY <1>1, <2>1, <2>2 DEF Known, OwnOK, Orphaned, LatestState, LatestAttempt
  <2>. QED  BY <1>0, <1>1, <2>3, RestartRepairStep DEF RebuildCoordinator
<1>2. CASE ~\E u \in Units : Orphaned(u)
  <2>1. CASE store' = Evidenced /\ SessionReady /\ UNCHANGED faults
    BY <1>0, <1>2, <2>1, SessionReadyStep DEF RebuildCoordinator
  <2>2. CASE Fails(Evidenced) /\ Abort
    <3>1. job.for = "dispatch" => job.unit = {}
      BY <1>0 DEF JobOK, UnitSteps
    <3>2. \A v \in Units : running'[v] # "none" => Evidenced[v] = store[v]
      BY <1>0, <2>2, EvidencedIs DEF Abort
    <3>. QED  BY <1>0, <1>2, <2>2, <3>1, <3>2, EvidencedIs, FailedAbortStep DEF RebuildCoordinator
  <2>. QED  BY <1>2, <2>1, <2>2 DEF RebuildCoordinator
<1>. QED  BY <1>1, <1>2

-----------------------------------------------------------------------------
(* Dispatching. *)

\* Nothing changes but the leases that run out, who waits, and the job, which is for
\* no unit before and after.
LEMMA LookingStep ==
    ASSUME DispatchInv, TypeOK', JobOK',
           UNCHANGED <<task, unit, attempt, store, call, running, invoked, crashes, failures>>,
           \A v \in Units : pending'[v] \in {pending[v], 0},
           \A v \in Units, n \in Ordinals : lease'[<<v, n>>] \in {lease[<<v, n>>], "absent"},
           job.for # "settle", job'.for # "settle",
           job.for = "dispatch" => job.unit = {}, job'.for = "dispatch" => job'.unit = {}
    PROVE  DispatchInv'
<1>1. RepairNeedsFault'
  BY DEF DispatchInv, RepairNeedsFault
<1>2. ASSUME NEW v \in Units PROVE UnitOK(v)'
  <2>1. Known(v)
    BY Facts
  <2>2. ~Dispatches(v) /\ ~Dispatches(v)' /\ ~IsSettled(v) /\ ~IsSettled(v)'
    BY DEF Dispatches, IsSettled
  <2>3. Same(v)
    BY <2>1, <2>2 DEF Same, Known
  <2>. QED  BY <2>3, Frame DEF DispatchInv
<1>. QED  BY <1>1, <1>2 DEF DispatchInv

\* The unit whose lease is taken waits for an attempt that was never called.
LEMMA TryAcquireStep ==
    ASSUME DispatchInv, NEW u \in Units, TryAcquire(u)
    PROVE  DispatchInv'
<1>f. Known(u) /\ TypeOK /\ JobOK /\ RepairNeedsFault /\ job \in Job
  BY Facts DEF TypeOK
<1>0. /\ job.for = "dispatch" /\ job.at = "step" /\ job.unit = {} /\ u \notin job.todo
      /\ unit[u].state = "Queued" /\ pending[u] # 0
      /\ lease[<<u, pending[u]>>] # "uncertain"
      /\ UNCHANGED <<task, unit, attempt, store, call, pending, draining, running, invoked, crashes, failures>>
      /\ \A v \in Units : ~Dispatches(v) /\ ~IsSettled(v)
  BY DEF TryAcquire, At, Dispatchable, Of, ledger, faults, Dispatches, IsSettled
<1>1. CASE Cardinality(LeasesBut(Of(u))) < Capacity
  <2>1. /\ lease' = [lease EXCEPT ![<<u, pending[u]>>] = "active"]
        /\ job' = [job EXCEPT !.at = "intent", !.unit = {u}, !.todo = {}]
    BY <1>1 DEF TryAcquire, Of
  <2>2. /\ job' \in Job /\ job'.for = "dispatch" /\ job'.at = "intent" /\ job'.unit = {u}
    BY <1>0, <1>f, <2>1 DEF Job, JobSteps
  <2>3. /\ lease' \in [Attempts -> {"absent", "active", "uncertain"}]
        /\ \A v \in Units, n \in Ordinals : <<v, n>> # <<u, pending[u]>> => lease'[<<v, n>>] = lease[<<v, n>>]
        /\ lease'[<<u, pending[u]>>] = "active"
    BY <1>0, <1>f, <2>1 DEF TypeOK, Known, Attempts
  <2>4. TypeOK' /\ JobOK' /\ RepairNeedsFault'
    BY <1>0, <1>f, <2>2, <2>3 DEF TypeOK, JobOK, RepairNeedsFault, UnitSteps
  <2>5. ASSUME NEW v \in Units, v # u PROVE UnitOK(v)'
    <3>1. ~Dispatches(v)' /\ ~IsSettled(v)'
      BY <2>2, <2>5 DEF Dispatches, IsSettled
    <3>2. Same(v)
      BY <1>0, <1>f, <2>3, <2>5, <3>1 DEF Same, Known
    <3>. QED  BY <2>4, <3>2, Frame DEF DispatchInv
  <2>6. UnitOK(u)'
    <3>1. Dispatches(u)' /\ ~IsSettled(u)'
      BY <2>2 DEF Dispatches, IsSettled
    <3>2. running[u] = "none"
      BY <1>0, <1>f DEF Known, CallOK, LedgerOK, Agree, Failed
    <3>3. pending[u] = SelectOrdinal(u) /\ SelectOrdinal(u)' = SelectOrdinal(u)
      BY <1>0, <1>f, LatestUnchanged DEF Known, WaitOK, SelectOrdinal, LatestAttempt
    <3>4. invoked[<<u, pending[u]>>] = 0
      BY <1>0, <1>f, <3>3, SelectOrdinalIs DEF Known, AttemptOK
    <3>5. LedgerOK(u)' /\ CallOK(u)' /\ WaitOK(u)'
      BY <1>0, <1>f, <3>1, <3>2, <3>3, LatestUnchanged DEF Known, LedgerOK, CallOK, WaitOK, Agree
    <3>6. DispatchOK(u)'
      BY <1>0, <2>2, <3>4 DEF DispatchOK
    <3>7. OwnOK(u)'
      BY <3>1 DEF OwnOK
    <3>8. LeaseOK(u)'
      <4>1. \A n \in Ordinals : ~HoldsLease(u, n)
        BY <1>0, <3>2 DEF HoldsLease, Dispatches
      <4>2. HoldsLease(u, pending[u])'
        BY <1>0, <2>2 DEF HoldsLease
      <4>. QED  BY <1>0, <1>f, <2>3, <4>1, <4>2 DEF Known, LeaseOK
    <3>9. (\A n \in Ordinals : AttemptOK(<<u, n>>))'
      BY <1>0, <1>f, <2>3 DEF Known, AttemptOK
    <3>. QED  BY <3>5, <3>6, <3>7, <3>8, <3>9 DEF UnitOK
  <2>. QED  BY <2>4, <2>5, <2>6 DEF DispatchInv
<1>2. CASE ~(Cardinality(LeasesBut(Of(u))) < Capacity)
  <2>1. /\ lease' = [lease EXCEPT ![<<u, pending[u]>>] = "absent"]
        /\ job' = [job EXCEPT !.todo = @ \cup {u}]
    BY <1>2 DEF TryAcquire, Of
  <2>2. job.todo \cup {u} \in SUBSET Units
    BY <1>f, JobFields
  <2>3. job' \in Job /\ job'.for = "dispatch" /\ job'.at = "step" /\ job'.unit = {}
    BY <1>0, <1>f, <2>1, <2>2, JobTodo
  <2>4. /\ lease' \in [Attempts -> {"absent", "active", "uncertain"}]
        /\ \A v \in Units, n \in Ordinals : lease'[<<v, n>>] \in {lease[<<v, n>>], "absent"}
    BY <1>0, <1>f, <2>1 DEF TypeOK, Known, Attempts
  <2>5. TypeOK' /\ JobOK'
    BY <1>0, <1>f, <2>3, <2>4 DEF TypeOK, JobOK
  <2>. QED  BY <1>0, <2>3, <2>4, <2>5, LookingStep
<1>. QED  BY <1>1, <1>2

\* Nobody could be dispatched, and the snapshot is written, or is not.
LEMMA NothingDispatchedStep ==
    ASSUME DispatchInv, NothingDispatched
    PROVE  DispatchInv'
<1>f. TypeOK /\ JobOK /\ job \in Job
  BY DEF DispatchInv, TypeOK
<1>0. /\ job.for = "dispatch" /\ job.at = "step" /\ job.unit = {}
      /\ UNCHANGED <<task, unit, attempt, lease, invoked>>
  BY DEF NothingDispatched, At, ledger
<1>1. CASE UNCHANGED <<store, call, pending, draining, running, faults>>
           /\ job' = [job EXCEPT !.at = "suspend",
                                 !.todo = {u \in Units : pending[u] # 0 /\ running[u] = "none"}]
  <2>1. job' \in Job /\ job'.for = "dispatch" /\ job'.at = "suspend" /\ job'.unit = {}
    BY <1>0, <1>1, <1>f DEF Job, JobSteps
  <2>2. TypeOK' /\ JobOK'
    BY <1>0, <1>1, <1>f, <2>1 DEF TypeOK, JobOK, faults
  <2>. QED  BY <1>0, <1>1, <2>1, <2>2, LookingStep DEF faults
<1>2. CASE Fails(store) /\ Abort
  BY <1>0, <1>2, <1>f, FailedAbortStep DEF NothingDispatched, TypeOK
<1>. QED  BY <1>1, <1>2 DEF NothingDispatched

\* suspendDispatchablePending refuses those who wait for no call.
LEMMA SuspendDispatchablePendingStep ==
    ASSUME DispatchInv, SuspendDispatchablePending
    PROVE  DispatchInv'
<1>f. TypeOK /\ JobOK /\ job \in Job
  BY DEF DispatchInv, TypeOK
<1>0. /\ job.for = "dispatch" /\ job.at = "suspend" /\ job' = Idle /\ draining' = FALSE
      /\ UNCHANGED <<task, unit, attempt, store, lease, call, running, invoked, crashes, failures>>
      /\ pending' \in [Units -> Ordinals \cup {0}]
      /\ \A v \in Units : pending'[v] \in {pending[v], 0}
  BY <1>f DEF SuspendDispatchablePending, At, ledger, faults, TypeOK
<1>1. job.unit = {}
  BY <1>0, <1>f DEF JobOK, UnitSteps
<1>2. TypeOK'
  BY <1>0, <1>f, IdleJob DEF TypeOK
<1>3. JobOK'
  BY <1>0, IdleJob DEF JobOK
<1>. QED  BY <1>0, <1>1, <1>2, <1>3, IdleJob, LookingStep

\* What a step of the dispatch of u starts from.
LEMMA DispatchingIs ==
    ASSUME DispatchInv, NEW u \in Units, NEW at \in UnitSteps, Dispatching(u, at)
    PROVE  /\ Known(u) /\ TypeOK /\ JobOK /\ RepairNeedsFault
           /\ job \in Job /\ job.for = "dispatch" /\ job.at = at /\ job.unit = {u}
           /\ Dispatches(u) /\ ~IsSettled(u) /\ running[u] = "none" /\ call[u] = "none"
           /\ pending[u] # 0 /\ pending[u] \in Ordinals /\ invoked[<<u, pending[u]>>] = 0
           /\ at # "intent" => pending[u] = Latest(u)
           /\ \A v \in Units : v # u => ~Dispatches(v)
           /\ \A v \in Units : ~IsSettled(v)
<1>1. Known(u) /\ TypeOK /\ JobOK /\ RepairNeedsFault
  BY Facts
<1>2. /\ job \in Job /\ job.for = "dispatch" /\ job.at = at /\ job.unit = {u}
  BY <1>1 DEF Dispatching, At, TypeOK
<1>3. /\ Dispatches(u) /\ \A v \in Units : v # u => ~Dispatches(v)
      /\ \A v \in Units : ~IsSettled(v)
  BY <1>2 DEF Dispatches, IsSettled
<1>. QED  BY <1>1, <1>2, <1>3 DEF Known, CallOK, WaitOK, DispatchOK, TypeOK

\* The other units during a step of the dispatch of u.
LEMMA DispatchFrame ==
    ASSUME DispatchInv, TypeOK', NEW u \in Units, NEW at \in UnitSteps, Dispatching(u, at),
           job'.unit = {u} \/ job' = Idle, job'.for # "settle",
           crashes' >= crashes, failures' >= failures,
           \A v \in Units \ {u} :
              /\ unit'[v] = unit[v] /\ store'[v] = store[v] /\ call'[v] = call[v]
              /\ pending'[v] = pending[v] /\ running'[v] = running[v]
              /\ \A n \in Ordinals :
                   /\ attempt'[<<v, n>>] = attempt[<<v, n>>] /\ invoked'[<<v, n>>] = invoked[<<v, n>>]
                   /\ lease'[<<v, n>>] = lease[<<v, n>>]
    PROVE  \A v \in Units \ {u} : UnitOK(v)'
<1> SUFFICES ASSUME NEW v \in Units \ {u} PROVE UnitOK(v)'
  OBVIOUS
<1>1. ~Dispatches(v) /\ ~IsSettled(v)
  BY DispatchingIs
<1>2. ~Dispatches(v)' /\ ~IsSettled(v)'
  BY IdleJob DEF Dispatches, IsSettled
<1>3. Same(v)
  BY <1>1, <1>2 DEF Same
<1>. QED  BY <1>3, Frame DEF DispatchInv

\* ensureModelAttemptIntent: the attempt that is made is the one after the latest.
LEMMA EnsureModelAttemptIntentStep ==
    ASSUME DispatchInv, NEW u \in Units, EnsureModelAttemptIntent(u)
    PROVE  DispatchInv'
<1>. DEFINE a == <<u, pending[u]>>
            r == IF attempt[a].state = "none"
                 THEN [attempt[a] EXCEPT !.state = "DispatchIntentPersisted"] ELSE attempt[a]
<1>d. Dispatching(u, "intent") /\ "intent" \in UnitSteps
  BY DEF EnsureModelAttemptIntent, UnitSteps
<1>f. /\ Known(u) /\ TypeOK /\ JobOK /\ RepairNeedsFault
      /\ job \in Job /\ job.for = "dispatch" /\ job.at = "intent" /\ job.unit = {u}
      /\ Dispatches(u) /\ ~IsSettled(u) /\ running[u] = "none" /\ call[u] = "none"
      /\ pending[u] # 0 /\ pending[u] \in Ordinals /\ invoked[a] = 0
  BY <1>d, DispatchingIs
<1>0. /\ a \in Attempts /\ attempt[a] \in Attempt /\ unit[u].state = "Queued"
      /\ UNCHANGED <<task, unit, store, lease, call, pending, draining, running, invoked, crashes, failures>>
  BY <1>f DEF EnsureModelAttemptIntent, faults, Known, TypeOK, DispatchOK
<1>1. attempt' = [attempt EXCEPT ![a] = r]
  <2>1. [attempt[a] EXCEPT !.state = attempt[a].state] = attempt[a]
    BY <1>0 DEF Attempt
  <2>. QED  BY <1>0, <1>f, <2>1 DEF EnsureModelAttemptIntent, Of, TypeOK
<1>2. /\ pending[u] = SelectOrdinal(u) /\ attempt[a].state \in {"none", "DispatchIntentPersisted"}
  BY <1>0, <1>f, SelectOrdinalIs DEF Known, WaitOK
<1>3. r \in Attempt /\ r.state = "DispatchIntentPersisted" /\ r.phase = "none" /\ ~r.preInvoke
  <2>1. attempt[a].phase = "none" /\ ~attempt[a].preInvoke
    BY <1>2, <1>f DEF Known, AttemptOK
  <2>2. "DispatchIntentPersisted" \in AttemptStates
    BY DEF AttemptStates
  <2>. QED  BY <1>0, <1>2, <2>1, <2>2, WithState
<1>. HIDE DEF r
<1>4. /\ attempt' \in [Attempts -> Attempt] /\ attempt'[a] = r
      /\ \A v \in Units, n \in Ordinals : v # u \/ n # pending[u] => attempt'[<<v, n>>] = attempt[<<v, n>>]
  BY <1>0, <1>1, <1>3, <1>f DEF TypeOK, Attempts
<1>5. /\ pending[u] \in {Latest(u), Latest(u) + 1}
      /\ pending[u] = Latest(u) + 1 => unit[u].budget + Latest(u) = RetryBudget
      /\ pending[u] = Latest(u) => unit[u].budget + Latest(u) = RetryBudget + 1
  BY <1>0, <1>2, <1>f, SelectOrdinalIs DEF SelectOrdinal, LatestAttempt, Known, LedgerOK, Agree, Failed, LatestState
<1>6. Latest(u)' = pending[u]
  <2>1. \A n \in Ordinals : attempt'[<<u, n>>].state # "none" <=> n <= pending[u]
    BY <1>3, <1>4, <1>5, <1>f DEF Known, LedgerOK
  <2>2. pending[u] \in 0..(RetryBudget + 1)
    BY <1>f DEF Known, Ordinals
  <2>. QED  BY <2>1, <2>2, LatestIsNext
<1>7. LedgerOK(u)'
  <2>1. pending[u] \in 0..(RetryBudget + 1)
    BY <1>f DEF Known, Ordinals
  <2>2. \A n \in Ordinals : attempt'[<<u, n>>].state # "none" <=> n <= pending[u]
    BY <1>3, <1>4, <1>5, <1>f DEF Known, LedgerOK
  <2>3. \A n \in Ordinals : n < pending[u] => attempt'[<<u, n>>].state \in Failed
    <3>1. Latest(u) # 0 /\ pending[u] = Latest(u) + 1 => LatestState(u) \in Failed
      BY <1>0, <1>2, <1>f DEF SelectOrdinal, LatestAttempt, Known, LedgerOK, Agree, Failed, LatestState
    <3>. QED  BY <1>4, <1>5, <1>f, <3>1 DEF Known, LedgerOK, LatestState
  <2>4. Agree(unit[u], Latest(u), LatestState(u))'
    BY <1>0, <1>3, <1>4, <1>5, <1>6, <1>f DEF Agree, LatestState, Known
  <2>. QED  BY <1>6, <2>1, <2>2, <2>3, <2>4 DEF LedgerOK
<1>8. /\ job' \in Job /\ job'.for = "dispatch" /\ job'.at = "grant" /\ job'.unit = {u}
  <2>1. job' = [job EXCEPT !.at = "grant"] /\ "grant" \in JobSteps
    BY DEF EnsureModelAttemptIntent, Goto, JobSteps
  <2>. QED  BY <1>f, <2>1, JobAt
<1>9. TypeOK' /\ RepairNeedsFault'
  BY <1>0, <1>4, <1>8, <1>f DEF TypeOK, RepairNeedsFault
<1>10. JobOK'
  BY <1>8, <1>f DEF JobOK, UnitSteps
<1>11. \A v \in Units \ {u} : UnitOK(v)'
  BY <1>0, <1>4, <1>8, <1>9, <1>d, <1>f, DispatchFrame DEF Known
<1>12. UnitOK(u)'
  <2>1. Dispatches(u)'
    BY <1>8 DEF Dispatches
  <2>2. CallOK(u)' /\ WaitOK(u)' /\ OwnOK(u)'
    <3>1. SelectOrdinal(u)' = pending[u]
      BY <1>3, <1>4, <1>6, <1>f DEF SelectOrdinal, LatestAttempt
    <3>. QED  BY <1>0, <1>f, <2>1, <3>1 DEF CallOK, WaitOK, OwnOK
  <2>3. DispatchOK(u)'
    BY <1>0, <1>3, <1>4, <1>6, <1>8, <1>f DEF DispatchOK, LatestState
  <2>4. LeaseOK(u)'
    <3>1. HoldsLease(u, pending[u])'
      BY <1>0, <1>8 DEF HoldsLease
    <3>2. \A n \in Ordinals : n # pending[u] => ~HoldsLease(u, n)
      BY <1>f DEF HoldsLease
    <3>. QED  BY <1>0, <1>4, <1>f, <3>1, <3>2 DEF Known, LeaseOK
  <2>5. (\A n \in Ordinals : AttemptOK(<<u, n>>))'
    <3>1. ASSUME NEW n \in Ordinals, n # pending[u] PROVE AttemptOK(<<u, n>>)'
      BY <1>0, <1>4, <1>f, <3>1 DEF Known, AttemptOK
    <3>2. AttemptOK(a)'
      BY <1>0, <1>3, <1>4, <1>f DEF Known, AttemptOK
    <3>. QED  BY <1>0, <3>1, <3>2
  <2>. QED  BY <1>7, <2>2, <2>3, <2>4, <2>5 DEF UnitOK
<1>. QED  BY <1>9, <1>10, <1>11, <1>12 DEF DispatchInv

\* persistCoordinator in the middle of a dispatch: the claim is on disk, or may be.
LEMMA PersistClaimStep ==
    ASSUME DispatchInv, NEW u \in Units, NEW at, NEW phase, NEW next, NEW failed,
           PersistClaim(u, at, phase, next, failed),
           \/ at = "grant" /\ phase = "permit-granted" /\ next = "bind" /\ failed = "grant_failed"
           \/ at = "bound" /\ phase = "attempt-bound" /\ next = "bind_invoking" /\ failed = "not_invoked"
           \/ at = "invoking" /\ phase = "invoking" /\ next = "start" /\ failed = "not_invoked"
    PROVE  DispatchInv'
<1>. DEFINE a == <<u, pending[u]>>
            c == [ordinal |-> pending[u], phase |-> phase]
<1>d. Dispatching(u, at) /\ at \in UnitSteps
  BY DEF PersistClaim, UnitSteps
<1>f. /\ Known(u) /\ TypeOK /\ JobOK /\ RepairNeedsFault
      /\ job \in Job /\ job.for = "dispatch" /\ job.at = at /\ job.unit = {u}
      /\ Dispatches(u) /\ ~IsSettled(u) /\ running[u] = "none" /\ call[u] = "none"
      /\ pending[u] # 0 /\ pending[u] \in Ordinals /\ invoked[a] = 0 /\ pending[u] = Latest(u)
  BY <1>d, DispatchingIs
<1>0. UNCHANGED <<task, unit, attempt, lease, call, pending, draining, running, invoked, crashes>>
  BY DEF PersistClaim, ledger, faults, Fails
<1>1. c \in Claim
  BY <1>f DEF Claim, Phases
<1>2. /\ store' \in [Units -> Claim \cup {NoClaim}]
      /\ \A v \in Units : v # u => store'[v] = store[v]
      /\ failures' \in 0..MaxFailures /\ failures' >= failures
      /\ \/ store'[u] = c /\ job' = [job EXCEPT !.at = next] /\ failures' = failures
         \/ job' = [job EXCEPT !.at = failed] /\ failures' > 0
  <2>1. failures \in Nat /\ MaxFailures \in Nat /\ failures <= MaxFailures
    BY <1>f, DispatchAssumption DEF TypeOK
  <2>. DEFINE claimed == [store EXCEPT ![u] = c]
  <2>2. claimed \in [Units -> Claim \cup {NoClaim}] /\ claimed[u] = c
        /\ \A v \in Units : v # u => claimed[v] = store[v]
    BY <1>1, <1>f DEF TypeOK
  <2>3. Claimed(u, phase) = claimed
    BY DEF Claimed
  <2>. HIDE DEF claimed
  <2>. QED  BY <1>f, <2>1, <2>2, <2>3 DEF PersistClaim, Fails, Goto, faults, TypeOK
<1>3. /\ job' \in Job /\ job'.for = "dispatch" /\ job'.unit = {u} /\ job'.at \in {next, failed}
      /\ \/ store'[u] = c /\ job'.at = next /\ failures' = failures
         \/ job'.at = failed /\ failures' > 0
  <2>1. next \in JobSteps /\ failed \in JobSteps
    BY DEF JobSteps
  <2>2. /\ [job EXCEPT !.at = next] \in Job /\ [job EXCEPT !.at = next].for = "dispatch"
        /\ [job EXCEPT !.at = next].unit = {u} /\ [job EXCEPT !.at = next].at = next
    BY <1>f, <2>1, JobAt
  <2>3. /\ [job EXCEPT !.at = failed] \in Job /\ [job EXCEPT !.at = failed].for = "dispatch"
        /\ [job EXCEPT !.at = failed].unit = {u} /\ [job EXCEPT !.at = failed].at = failed
    BY <1>f, <2>1, JobAt
  <2>. QED  BY <1>2, <2>2, <2>3
<1>4. TypeOK' /\ RepairNeedsFault'
  BY <1>0, <1>2, <1>3, <1>f DEF TypeOK, RepairNeedsFault, Known
<1>5. JobOK'
  BY <1>3, <1>f DEF JobOK, UnitSteps
<1>6. \A v \in Units \ {u} : UnitOK(v)'
  BY <1>0, <1>2, <1>3, <1>4, <1>d, <1>f, DispatchFrame DEF Known
<1>7. UnitOK(u)'
  <2>1. Dispatches(u)'
    BY <1>3 DEF Dispatches
  <2>2. LedgerOK(u)' /\ CallOK(u)' /\ WaitOK(u)' /\ OwnOK(u)'
    <3>1. SelectOrdinal(u)' = SelectOrdinal(u)
      BY <1>0, LatestUnchanged DEF SelectOrdinal, LatestAttempt
    <3>2. unit[u].state = "Queued" => pending[u] = SelectOrdinal(u)
      BY <1>f DEF Known, WaitOK
    <3>. QED  BY <1>0, <1>f, <2>1, <3>1, <3>2, LatestUnchanged DEF Known, LedgerOK, CallOK, WaitOK, OwnOK, Agree
  <2>3. DispatchOK(u)'
    BY <1>0, <1>3, <1>f, LatestUnchanged DEF Known, DispatchOK
  <2>4. LeaseOK(u)'
    <3>1. HoldsLease(u, pending[u])'
      BY <1>0, <1>3 DEF HoldsLease
    <3>2. \A n \in Ordinals : n # pending[u] => ~HoldsLease(u, n)
      BY <1>f DEF HoldsLease
    <3>3. failures' >= failures /\ failures' \in Nat
      BY <1>2, DispatchAssumption
    <3>. QED  BY <1>0, <1>f, <3>1, <3>2, <3>3 DEF Known, LeaseOK
  <2>5. (\A n \in Ordinals : AttemptOK(<<u, n>>))'
    BY <1>0, <1>f DEF Known, AttemptOK
  <2>. QED  BY <2>2, <2>3, <2>4, <2>5 DEF UnitOK
<1>. QED  BY <1>4, <1>5, <1>6, <1>7 DEF DispatchInv

\* A step of the dispatch of u that writes the ledger, and nothing but the ledger.
LEMMA DispatchWrites ==
    ASSUME DispatchInv, NEW u \in Units, NEW at, NEW next, Dispatching(u, at),
           NEW r \in Attempt, NEW x \in Unit, Agree(x, Latest(u), r.state),
           attempt' = [attempt EXCEPT ![<<u, Latest(u)>>] = r],
           unit' = [unit EXCEPT ![u] = x],
           job' = [job EXCEPT !.at = next],
           UNCHANGED <<task, store, lease, call, pending, draining, running, invoked, crashes, failures>>,
           \/ /\ at = "bind" /\ next = "bound" /\ x.state = "Running"
              /\ r = [state |-> "Dispatched", phase |-> "attempt-bound", preInvoke |-> FALSE]
           \/ /\ at = "bind_invoking" /\ next = "invoking" /\ x.state = "Running"
              /\ r = [state |-> "Dispatched", phase |-> "invoking", preInvoke |-> FALSE]
           \/ /\ at = "not_invoked" /\ next = "release"
              /\ r = [state |-> "KnownFailure", phase |-> "invoking", preInvoke |-> TRUE]
    PROVE  DispatchInv'
<1>. DEFINE a == <<u, Latest(u)>>
<1>d. at \in UnitSteps /\ next \in UnitSteps /\ next \in JobSteps /\ at # "intent" /\ next # "intent"
  BY DEF UnitSteps, JobSteps
<1>f. /\ Known(u) /\ TypeOK /\ JobOK /\ RepairNeedsFault
      /\ job \in Job /\ job.for = "dispatch" /\ job.at = at /\ job.unit = {u}
      /\ Dispatches(u) /\ ~IsSettled(u) /\ running[u] = "none" /\ call[u] = "none"
      /\ pending[u] # 0 /\ pending[u] \in Ordinals /\ pending[u] = Latest(u) /\ invoked[a] = 0
  BY <1>d, DispatchingIs
<1>1. r.state # "none" /\ r.state \in {"Dispatched", "KnownFailure"}
  OBVIOUS
<1>2. Written(u, r, x)
  BY <1>1, <1>f, LedgerWrite DEF Known
<1>3. job' \in Job /\ job'.for = "dispatch" /\ job'.at = next /\ job'.unit = {u}
  BY <1>d, <1>f, JobAt
<1>4. TypeOK' /\ RepairNeedsFault'
  BY <1>2, <1>3, <1>f DEF TypeOK, RepairNeedsFault, Written
<1>5. JobOK'
  <2>1. next # "reconcile"
    BY <1>d DEF UnitSteps
  <2>. QED  BY <1>3, <1>d, <2>1 DEF JobOK
<1>6. \A v \in Units \ {u} : UnitOK(v)'
  BY <1>2, <1>3, <1>4, <1>d, <1>f, DispatchFrame DEF Known, Written
<1>7. UnitOK(u)'
  <2>1. Dispatches(u)' /\ LatestState(u)' = r.state
    BY <1>2, <1>3 DEF Dispatches, Written, LatestState
  <2>2. CallOK(u)' /\ OwnOK(u)'
    BY <1>f, <2>1 DEF CallOK, OwnOK
  <2>3. WaitOK(u)'
    <3>1. unit'[u].state = "Queued" => next = "release"
      BY <1>2 DEF Written
    <3>. QED  BY <1>3, <1>f, <2>1, <3>1 DEF WaitOK
  <2>4. DispatchOK(u)'
    <3>1. at = "not_invoked" => failures > 0
      BY <1>f DEF Known, DispatchOK
    <3>2. /\ unit'[u] = x /\ attempt'[a] = r /\ Latest(u)' = Latest(u)
      BY <1>2 DEF Written
    <3>. QED  BY <1>3, <1>f, <2>1, <3>1, <3>2 DEF DispatchOK
  <2>5. LeaseOK(u)'
    <3>1. HoldsLease(u, Latest(u))'
      BY <1>2, <1>3, <1>f DEF HoldsLease, Written
    <3>2. \A n \in Ordinals : n # Latest(u) => ~HoldsLease(u, n)
      BY <1>f DEF HoldsLease
    <3>. QED  BY <1>2, <1>f, <3>1, <3>2 DEF Known, LeaseOK, Written
  <2>6. (\A n \in Ordinals : AttemptOK(<<u, n>>))'
    <3>1. ASSUME NEW n \in Ordinals, n # Latest(u) PROVE AttemptOK(<<u, n>>)'
      BY <1>2, <1>f, <3>1 DEF Known, AttemptOK, Written
    <3>2. AttemptOK(a)'
      <4>1. AttemptOK(a) /\ attempt'[a] = r /\ Latest(u)' = Latest(u)
        BY <1>2, <1>f DEF Known, Written
      <4>2. \/ r.state = "Dispatched" /\ ~r.preInvoke /\ r.phase \in {"attempt-bound", "invoking"}
            \/ r.state = "KnownFailure" /\ r.preInvoke /\ r.phase = "invoking"
        OBVIOUS
      <4>. QED  BY <1>f, <4>1, <4>2 DEF AttemptOK
    <3>. QED  BY <1>2, <3>1, <3>2 DEF Written
  <2>. QED  BY <1>2, <2>2, <2>3, <2>4, <2>5, <2>6 DEF UnitOK, Written
<1>. QED  BY <1>4, <1>5, <1>6, <1>7 DEF DispatchInv

\* bindAttempt: the attempt is dispatched, its unit runs.
LEMMA BindAttemptStep ==
    ASSUME DispatchInv, NEW u \in Units, BindAttempt(u)
    PROVE  DispatchInv'
<1>. DEFINE a == <<u, Latest(u)>>
            r == [state |-> "Dispatched", phase |-> "attempt-bound", preInvoke |-> FALSE]
            x == [unit[u] EXCEPT !.state = "Running"]
<1>d. Dispatching(u, "bind") /\ "bind" \in UnitSteps /\ "bind" # "intent"
  BY DEF BindAttempt, UnitSteps
<1>f. Known(u) /\ TypeOK /\ pending[u] = Latest(u) /\ pending[u] # 0 /\ Dispatches(u) /\ job.at = "bind"
  BY <1>d, DispatchingIs
<1>1. LatestState(u) = "DispatchIntentPersisted" /\ unit[u].state = "Queued"
  BY <1>f DEF Known, DispatchOK
<1>2. /\ attempt[a] \in Attempt /\ attempt[a].preInvoke = FALSE
  <2>1. attempt[a] \in Attempt /\ ~attempt[a].preInvoke
    BY <1>1, <1>f DEF Known, AttemptOK, LatestState
  <2>. QED  BY <2>1, AttemptFields
<1>3. attempt' = [attempt EXCEPT ![a] = r]
  <2>1. a \in Attempts
    BY <1>f DEF Known
  <2>2. attempt' = [attempt EXCEPT ![a] = [[@ EXCEPT !.state = "Dispatched"] EXCEPT !.phase = "attempt-bound"]]
    BY <1>f, <2>1 DEF BindAttempt, Of, TypeOK
  <2>3. [[attempt[a] EXCEPT !.state = "Dispatched"] EXCEPT !.phase = "attempt-bound"] = r
    <3>. DEFINE p == [attempt[a] EXCEPT !.state = "Dispatched"]
                q == [p EXCEPT !.phase = "attempt-bound"]
    <3>1. p \in Attempt /\ p.state = "Dispatched" /\ p.preInvoke = FALSE
      BY <1>2, WithState DEF AttemptStates
    <3>. HIDE DEF p
    <3>2. q \in Attempt /\ q.state = "Dispatched" /\ q.phase = "attempt-bound" /\ q.preInvoke = FALSE
      BY <3>1, WithPhase DEF Phases
    <3>. HIDE DEF q
    <3>3. q = r
      BY <3>2, AttemptIs
    <3>. QED  BY <3>3 DEF p, q
  <2>. QED  BY <2>1, <2>2, <2>3
<1>4. x \in Unit /\ x.state = "Running" /\ x.budget = unit[u].budget
  BY <1>f, UnitWithState DEF Known, UnitStates
<1>5. unit' = [unit EXCEPT ![u] = x] /\ job' = [job EXCEPT !.at = "bound"]
      /\ UNCHANGED <<task, store, lease, call, pending, draining, running, invoked, crashes, failures>>
  BY DEF BindAttempt, SetState, SetUnit, Goto, faults
<1>6. r \in Attempt /\ r.state = "Dispatched"
  BY DEF Attempt, AttemptStates, Phases
<1>. HIDE DEF x
<1>7. Agree(x, Latest(u), r.state)
  BY <1>1, <1>4, <1>6, <1>f DEF Agree, Known, LedgerOK, Failed
<1>. QED  BY <1>3, <1>4, <1>5, <1>6, <1>7, <1>d, DispatchWrites

\* bindAttempt again, for the phase before the call.
LEMMA BindInvokingStep ==
    ASSUME DispatchInv, NEW u \in Units, BindInvoking(u)
    PROVE  DispatchInv'
<1>. DEFINE a == <<u, Latest(u)>>
            r == [state |-> "Dispatched", phase |-> "invoking", preInvoke |-> FALSE]
            x == unit[u]
<1>d. Dispatching(u, "bind_invoking") /\ "bind_invoking" \in UnitSteps /\ "bind_invoking" # "intent"
  BY DEF BindInvoking, UnitSteps
<1>f. Known(u) /\ TypeOK /\ pending[u] = Latest(u) /\ pending[u] # 0 /\ Dispatches(u) /\ job.at = "bind_invoking"
  BY <1>d, DispatchingIs
<1>1. LatestState(u) = "Dispatched" /\ unit[u].state = "Running" /\ x \in Unit
      /\ Agree(x, Latest(u), "Dispatched")
  BY <1>f DEF Known, DispatchOK, LedgerOK, Agree
<1>2. /\ attempt[a] \in Attempt /\ attempt[a].preInvoke = FALSE /\ attempt[a].state = "Dispatched"
  <2>1. attempt[a] \in Attempt /\ ~attempt[a].preInvoke /\ attempt[a].state = "Dispatched"
    BY <1>1, <1>f DEF Known, AttemptOK, LatestState
  <2>. QED  BY <2>1, AttemptFields
<1>3. attempt' = [attempt EXCEPT ![a] = r]
  <2>1. [attempt[a] EXCEPT !.phase = "invoking"] = r
    <3>. DEFINE q == [attempt[a] EXCEPT !.phase = "invoking"]
    <3>1. q \in Attempt /\ q.state = "Dispatched" /\ q.phase = "invoking" /\ q.preInvoke = FALSE
      BY <1>2, WithPhase DEF Phases
    <3>. HIDE DEF q
    <3>2. q = r
      BY <3>1, AttemptIs
    <3>. QED  BY <3>2 DEF q
  <2>. QED  BY <1>f, <2>1 DEF BindInvoking, Of, TypeOK
<1>4. unit' = [unit EXCEPT ![u] = x] /\ job' = [job EXCEPT !.at = "invoking"]
      /\ UNCHANGED <<task, store, lease, call, pending, draining, running, invoked, crashes, failures>>
  BY <1>f DEF BindInvoking, Goto, faults, TypeOK
<1>5. r \in Attempt /\ r.state = "Dispatched"
  BY DEF Attempt, AttemptStates, Phases
<1>. QED  BY <1>1, <1>3, <1>4, <1>5, <1>d, DispatchWrites

\* settlePreInvokeFailure: the attempt failed, and its lease is still to be released.
LEMMA SettlePreInvokeFailureStep ==
    ASSUME DispatchInv, NEW u \in Units, SettlePreInvokeFailure(u)
    PROVE  DispatchInv'
<1>. DEFINE a == <<u, Latest(u)>>
            r == [state |-> "KnownFailure", phase |-> "invoking", preInvoke |-> TRUE]
            x == Retried(u, "Queued")
<1>d. Dispatching(u, "not_invoked") /\ "not_invoked" \in UnitSteps /\ "not_invoked" # "intent"
  BY DEF SettlePreInvokeFailure, UnitSteps
<1>f. Known(u) /\ TypeOK /\ pending[u] = Latest(u) /\ pending[u] # 0 /\ Dispatches(u) /\ job.at = "not_invoked"
  BY <1>d, DispatchingIs
<1>1. unit[u].budget + Latest(u) = RetryBudget + 1
  BY <1>f DEF Known, DispatchOK, LedgerOK, Agree
<1>2. /\ x \in Unit
      /\ unit[u].budget > 0 => x.state = "Queued" /\ x.budget + 1 = unit[u].budget
      /\ unit[u].budget = 0 => x.state = "FailedFinal"
  BY <1>f, RetriedIs DEF UnitStates
<1>3. x.budget \in Nat
  BY <1>2, UnitFields
<1>4. /\ attempt' = [attempt EXCEPT ![a] = r] /\ unit' = [unit EXCEPT ![u] = x]
      /\ job' = [job EXCEPT !.at = "release"]
      /\ UNCHANGED <<task, store, lease, call, pending, draining, running, invoked, crashes, failures>>
  BY <1>f DEF SettlePreInvokeFailure, MarkKnownPreInvokeFailure, SetUnit, Goto, faults, Of
<1>5. r \in Attempt /\ r.state = "KnownFailure"
  BY DEF Attempt, AttemptStates, Phases
<1>. HIDE DEF x
<1>6. Agree(x, Latest(u), r.state)
  BY <1>1, <1>2, <1>3, <1>5, <1>f DEF Agree, Failed, Known
<1>. QED  BY <1>2, <1>4, <1>5, <1>6, <1>d, DispatchWrites

\* The dispatch of u is given up after a failed write: its lease is released, and who
\* waits for it is answered.
LEMMA DispatchGivenUp ==
    ASSUME DispatchInv, NEW u \in Units, NEW at \in UnitSteps, Dispatching(u, at), at # "intent",
           failures > 0, job' = Idle, pending' = [pending EXCEPT ![u] = 0],
           UNCHANGED <<unit, attempt, call, running, invoked, crashes, failures>>,
           task' \in {"Running", "RepairRequired"}, draining' \in BOOLEAN,
           lease' \in {lease, [lease EXCEPT ![<<u, Latest(u)>>] = "absent"]},
           lease'[<<u, Latest(u)>>] # "active",
           store' \in {store, [store EXCEPT ![u] = NoClaim]}
    PROVE  DispatchInv'
<1>f. /\ Known(u) /\ TypeOK /\ JobOK /\ RepairNeedsFault
      /\ job \in Job /\ job.for = "dispatch" /\ job.at = at /\ job.unit = {u}
      /\ Dispatches(u) /\ ~IsSettled(u) /\ running[u] = "none" /\ call[u] = "none"
      /\ pending[u] # 0 /\ pending[u] \in Ordinals /\ pending[u] = Latest(u)
  BY DispatchingIs
<1>1. /\ pending' \in [Units -> Ordinals \cup {0}] /\ pending'[u] = 0
      /\ \A v \in Units : v # u => pending'[v] = pending[v]
      /\ store' \in [Units -> Claim \cup {NoClaim}]
      /\ \A v \in Units : v # u => store'[v] = store[v]
  BY <1>f DEF TypeOK
<1>2. /\ lease' \in [Attempts -> {"absent", "active", "uncertain"}]
      /\ \A v \in Units, n \in Ordinals : v # u \/ n # Latest(u) => lease'[<<v, n>>] = lease[<<v, n>>]
      /\ \A n \in Ordinals : lease'[<<u, n>>] \in {lease[<<u, n>>], "absent"}
  <2>1. PICK a \in Attempts : a = <<u, Latest(u)>>
    BY <1>f DEF Known
  <2>2. lease \in [Attempts -> {"absent", "active", "uncertain"}]
    BY <1>f DEF TypeOK
  <2>3. lease' = lease \/ lease' = [lease EXCEPT ![a] = "absent"]
    BY <2>1
  <2>4. /\ lease' \in [Attempts -> {"absent", "active", "uncertain"}]
        /\ \A b \in Attempts : /\ b # a => lease'[b] = lease[b]
                              /\ lease'[b] \in {lease[b], "absent"}
    BY <2>2, <2>3
  <2>5. \A v \in Units, n \in Ordinals : <<v, n>> \in Attempts
    BY DEF Attempts
  <2>6. \A v \in Units, n \in Ordinals : v # u \/ n # Latest(u) => <<v, n>> # a
    BY <2>1
  <2>. QED  BY <2>4, <2>5, <2>6
<1>3. TypeOK' /\ RepairNeedsFault'
  BY <1>1, <1>2, <1>f, IdleJob DEF TypeOK, RepairNeedsFault, Known
<1>4. JobOK'
  BY IdleJob DEF JobOK
<1>5. \A v \in Units \ {u} : UnitOK(v)'
  BY <1>1, <1>2, <1>3, <1>f, IdleJob, DispatchFrame DEF Known
<1>6. UnitOK(u)'
  <2>1. ~Dispatches(u)'
    BY IdleJob DEF Dispatches
  <2>2. LedgerOK(u)' /\ CallOK(u)' /\ WaitOK(u)' /\ DispatchOK(u)' /\ OwnOK(u)'
    BY <1>1, <1>f, <2>1, LatestUnchanged DEF Known, LedgerOK, CallOK, WaitOK, DispatchOK, OwnOK, Agree
  <2>3. LeaseOK(u)'
    <3>1. \A n \in Ordinals : n # Latest(u) => ~HoldsLease(u, n)
      BY <1>f DEF HoldsLease
    <3>. QED  BY <1>2, <1>f, <3>1 DEF Known, LeaseOK
  <2>4. (\A n \in Ordinals : AttemptOK(<<u, n>>))'
    BY <1>2, <1>f DEF Known, AttemptOK
  <2>. QED  BY <2>2, <2>3, <2>4 DEF UnitOK
<1>. QED  BY <1>3, <1>4, <1>5, <1>6 DEF DispatchInv

\* failClosedAfterGrantPersistFailure
LEMMA FailClosedAfterGrantPersistFailureStep ==
    ASSUME DispatchInv, NEW u \in Units, FailClosedAfterGrantPersistFailure(u)
    PROVE  DispatchInv'
<1>d. Dispatching(u, "grant_failed") /\ "grant_failed" \in UnitSteps /\ "grant_failed" # "intent"
  BY DEF FailClosedAfterGrantPersistFailure, UnitSteps
<1>f. Known(u) /\ TypeOK /\ pending[u] = Latest(u) /\ pending[u] # 0 /\ Dispatches(u) /\ job.at = "grant_failed"
  BY <1>d, DispatchingIs
<1>1. failures > 0
  BY <1>f DEF Known, DispatchOK
<1>2. /\ job' = Idle /\ pending' = [pending EXCEPT ![u] = 0] /\ draining' = FALSE
      /\ UNCHANGED <<unit, attempt, store, call, running, invoked, crashes, failures>>
      /\ lease' = [lease EXCEPT ![<<u, Latest(u)>>] = "absent"]
      /\ task' \in {"Running", "RepairRequired"}
  BY <1>f DEF FailClosedAfterGrantPersistFailure, Of, faults, TypeOK
<1>3. lease'[<<u, Latest(u)>>] # "active" /\ draining' \in BOOLEAN
  BY <1>2, <1>f DEF Known, TypeOK
<1>. QED  BY <1>1, <1>2, <1>3, <1>d, DispatchGivenUp

\* failClosedPreInvokeRepair
LEMMA FailClosedPreInvokeRepairStep ==
    ASSUME DispatchInv, NEW u \in Units, FailClosedPreInvokeRepair(u)
    PROVE  DispatchInv'
<1>d. Dispatching(u, "repair") /\ "repair" \in UnitSteps /\ "repair" # "intent"
  BY DEF FailClosedPreInvokeRepair, UnitSteps
<1>f. Known(u) /\ TypeOK /\ pending[u] = Latest(u) /\ Dispatches(u) /\ job.at = "repair"
  BY <1>d, DispatchingIs
<1>1. failures > 0 /\ lease[<<u, Latest(u)>>] # "active"
  BY <1>f DEF Known, DispatchOK
<1>2. /\ job' = Idle /\ pending' = [pending EXCEPT ![u] = 0] /\ draining' \in BOOLEAN
      /\ UNCHANGED <<unit, attempt, lease, call, running, invoked, crashes, failures>>
      /\ store' = [store EXCEPT ![u] = NoClaim]
      /\ task' \in {"Running", "RepairRequired"}
  BY <1>f DEF FailClosedPreInvokeRepair, Unclaimed, faults, TypeOK
<1>. QED  BY <1>1, <1>2, <1>d, DispatchGivenUp

\* Releasing the claim and the lease after settlePreInvokeFailure.
LEMMA ReleasePreInvokeClaimStep ==
    ASSUME DispatchInv, NEW u \in Units, ReleasePreInvokeClaim(u)
    PROVE  DispatchInv'
<1>d. Dispatching(u, "release") /\ "release" \in UnitSteps /\ "release" # "intent"
  BY DEF ReleasePreInvokeClaim, UnitSteps
<1>f. /\ Known(u) /\ TypeOK /\ JobOK /\ RepairNeedsFault
      /\ job \in Job /\ job.for = "dispatch" /\ job.at = "release" /\ job.unit = {u}
      /\ Dispatches(u) /\ ~IsSettled(u) /\ running[u] = "none" /\ call[u] = "none"
      /\ pending[u] # 0 /\ pending[u] \in Ordinals /\ pending[u] = Latest(u)
      /\ invoked[<<u, Latest(u)>>] = 0
  BY <1>d, DispatchingIs
<1>1. failures > 0 /\ attempt[<<u, Latest(u)>>].preInvoke
  BY <1>f DEF Known, DispatchOK
<1>2. /\ UNCHANGED <<task, unit, attempt, call, draining, running, invoked>>
      /\ lease' = [lease EXCEPT ![<<u, Latest(u)>>] = "absent"]
  BY <1>f DEF ReleasePreInvokeClaim, Of, ledger
<1>3. /\ lease' \in [Attempts -> {"absent", "active", "uncertain"}]
      /\ lease'[<<u, Latest(u)>>] = "absent"
      /\ \A v \in Units, n \in Ordinals : v # u \/ n # Latest(u) => lease'[<<v, n>>] = lease[<<v, n>>]
      /\ \A n \in Ordinals : lease'[<<u, n>>] \in {lease[<<u, n>>], "absent"}
  BY <1>2, <1>f DEF TypeOK, Known, Attempts
<1>4. CASE store' = Unclaimed(u) /\ pending' = [pending EXCEPT ![u] = 0] /\ job' = Idle /\ UNCHANGED faults
  <2>1. /\ UNCHANGED <<crashes, failures>> /\ store' = [store EXCEPT ![u] = NoClaim]
        /\ task' \in {"Running", "RepairRequired"} /\ draining' \in BOOLEAN
    BY <1>2, <1>4, <1>f DEF faults, Unclaimed, TypeOK
  <2>. QED  BY <1>1, <1>2, <1>3, <1>4, <1>d, <2>1, DispatchGivenUp
<1>5. CASE Fails(Unclaimed(u)) /\ Goto("repair") /\ UNCHANGED pending
  <2>1. /\ store' \in [Units -> Claim \cup {NoClaim}]
        /\ \A v \in Units : v # u => store'[v] = store[v]
        /\ failures' \in 0..MaxFailures /\ failures' >= failures /\ failures' > 0 /\ crashes' = crashes
    <3>1. failures \in Nat /\ MaxFailures \in Nat
      BY <1>f, DispatchAssumption DEF Known
    <3>. QED  BY <1>5, <1>f, <3>1 DEF Fails, Unclaimed, TypeOK
  <2>2. job' \in Job /\ job'.for = "dispatch" /\ job'.at = "repair" /\ job'.unit = {u}
    <3>1. job' = [job EXCEPT !.at = "repair"] /\ "repair" \in JobSteps
      BY <1>5 DEF Goto, JobSteps
    <3>. QED  BY <1>f, <3>1, JobAt
  <2>3. TypeOK' /\ RepairNeedsFault'
    BY <1>2, <1>3, <1>5, <1>f, <2>1, <2>2 DEF TypeOK, RepairNeedsFault, Known
  <2>4. JobOK'
    BY <2>2, <1>f DEF JobOK, UnitSteps
  <2>5. \A v \in Units \ {u} : UnitOK(v)'
    BY <1>2, <1>3, <1>5, <1>d, <1>f, <2>1, <2>2, <2>3, DispatchFrame DEF Known
  <2>6. UnitOK(u)'
    <3>1. Dispatches(u)'
      BY <2>2 DEF Dispatches
    <3>2. LedgerOK(u)' /\ CallOK(u)' /\ OwnOK(u)'
      BY <1>2, <1>f, <3>1, LatestUnchanged DEF Known, LedgerOK, CallOK, OwnOK, Agree
    <3>3. WaitOK(u)'
      BY <1>2, <1>f, <2>2, <3>1 DEF WaitOK
    <3>4. DispatchOK(u)'
      BY <1>1, <1>2, <1>3, <1>5, <1>f, <2>1, <2>2, LatestUnchanged DEF DispatchOK
    <3>5. LeaseOK(u)'
      <4>1. \A n \in Ordinals : n # Latest(u) => ~HoldsLease(u, n)
        BY <1>f DEF HoldsLease
      <4>2. failures' > 0 /\ crashes' = crashes
        BY <2>1
      <4>. QED  BY <1>2, <1>3, <1>f, <4>1, <4>2 DEF Known, LeaseOK
    <3>6. (\A n \in Ordinals : AttemptOK(<<u, n>>))'
      BY <1>2, <1>3, <1>f DEF Known, AttemptOK
    <3>. QED  BY <3>2, <3>3, <3>4, <3>5, <3>6 DEF UnitOK
  <2>. QED  BY <2>3, <2>4, <2>5, <2>6 DEF DispatchInv
<1>. QED  BY <1>4, <1>5 DEF ReleasePreInvokeClaim

\* startRunningInvocation: the claim and the attempt are on disk before the call.
LEMMA StartRunningInvocationStep ==
    ASSUME DispatchInv, NEW u \in Units, StartRunningInvocation(u)
    PROVE  DispatchInv'
<1>d. Dispatching(u, "start") /\ "start" \in UnitSteps /\ "start" # "intent"
  BY DEF StartRunningInvocation, UnitSteps
<1>f. /\ Known(u) /\ TypeOK /\ JobOK /\ RepairNeedsFault
      /\ job \in Job /\ job.for = "dispatch" /\ job.at = "start" /\ job.unit = {u}
      /\ Dispatches(u) /\ ~IsSettled(u) /\ running[u] = "none" /\ call[u] = "none"
      /\ pending[u] # 0 /\ pending[u] \in Ordinals /\ pending[u] = Latest(u)
      /\ invoked[<<u, Latest(u)>>] = 0
  BY <1>d, DispatchingIs
<1>1. /\ unit[u].state = "Running" /\ attempt[<<u, Latest(u)>>].phase = "invoking"
      /\ store[u] = [ordinal |-> Latest(u), phase |-> "invoking"]
  BY <1>f DEF Known, DispatchOK
<1>2. LatestState(u) = "Dispatched"
  BY <1>1, <1>f DEF Known, LedgerOK, Agree
<1>3. /\ job' = Idle /\ running' = [running EXCEPT ![u] = "ready"]
      /\ UNCHANGED <<task, unit, attempt, store, lease, call, pending, draining, invoked, crashes, failures>>
  BY DEF StartRunningInvocation, ledger, faults
<1>4. /\ running' \in [Units -> {"none", "ready", "calling"} \cup Outcomes] /\ running'[u] = "ready"
      /\ \A v \in Units : v # u => running'[v] = running[v]
  BY <1>3, <1>f DEF TypeOK
<1>5. TypeOK' /\ RepairNeedsFault'
  BY <1>3, <1>4, <1>f, IdleJob DEF TypeOK, RepairNeedsFault
<1>6. JobOK'
  BY <1>3, IdleJob DEF JobOK
<1>7. \A v \in Units \ {u} : UnitOK(v)'
  BY <1>3, <1>4, <1>5, <1>d, <1>f, IdleJob, DispatchFrame DEF Known
<1>8. UnitOK(u)'
  <2>1. ~Dispatches(u)' /\ ~IsSettled(u)'
    BY <1>3, IdleJob DEF Dispatches, IsSettled
  <2>2. LedgerOK(u)' /\ DispatchOK(u)' /\ OwnOK(u)'
    BY <1>3, <1>4, <1>f, <2>1, LatestUnchanged DEF Known, LedgerOK, Agree, DispatchOK, OwnOK
  <2>3. CallOK(u)'
    BY <1>1, <1>2, <1>3, <1>4, <1>f, <2>1, LatestUnchanged DEF CallOK, Outcomes
  <2>4. WaitOK(u)'
    BY <1>1, <1>3, <1>f, <2>1, LatestUnchanged DEF WaitOK
  <2>5. LeaseOK(u)'
    <3>1. HoldsLease(u, Latest(u))'
      BY <1>3, <1>4, LatestUnchanged DEF HoldsLease
    <3>2. \A n \in Ordinals : n # Latest(u) => ~HoldsLease(u, n)
      BY <1>f DEF HoldsLease
    <3>. QED  BY <1>3, <1>f, <3>1, <3>2, LatestUnchanged DEF Known, LeaseOK
  <2>6. (\A n \in Ordinals : AttemptOK(<<u, n>>))'
    BY <1>3, <1>f DEF Known, AttemptOK
  <2>. QED  BY <2>2, <2>3, <2>4, <2>5, <2>6 DEF UnitOK
<1>. QED  BY <1>5, <1>6, <1>7, <1>8 DEF DispatchInv

-----------------------------------------------------------------------------
(* The provider call. *)

\* A step of the call of u: it goes on to w, with the lease l and i calls made.
LEMMA CallStep ==
    ASSUME DispatchInv, NEW u \in Units, running[u] \in {"ready", "calling"},
           NEW w \in {"calling"} \cup Outcomes, NEW l \in {"absent", "active", "uncertain"},
           NEW i \in {0, 1},
           running' = [running EXCEPT ![u] = w],
           lease' = [lease EXCEPT ![<<u, Latest(u)>>] = l],
           invoked' = [invoked EXCEPT ![<<u, Latest(u)>>] = i],
           UNCHANGED <<task, unit, attempt, store, call, pending, draining, job, crashes>>,
           failures' \in 0..MaxFailures, failures' >= failures,
           w = "unsent" => i = 0, w \in {"calling", "success"} => i = 1,
           w \in Outcomes => l # "active", l = "uncertain" => i = 1
    PROVE  DispatchInv'
<1>. DEFINE a == <<u, Latest(u)>>
<1>f. Known(u) /\ TypeOK /\ JobOK /\ RepairNeedsFault
  BY Facts
<1>0. ~IsSettled(u) /\ ~Dispatches(u) /\ running[u] \notin Outcomes /\ running[u] # "none"
  BY <1>f DEF Known, CallOK, JobOK, IsSettled, Outcomes
<1>1. /\ Latest(u) # 0 /\ a \in Attempts /\ Latest(u) \in Ordinals /\ AttemptOK(a)
      /\ LatestState(u) = "Dispatched" /\ attempt[a].phase = "invoking"
      /\ store[u] = [ordinal |-> Latest(u), phase |-> "invoking"]
  BY <1>0, <1>f DEF Known, CallOK
<1>2. /\ running' \in [Units -> {"none", "ready", "calling"} \cup Outcomes] /\ running'[u] = w
      /\ \A v \in Units : v # u => running'[v] = running[v]
  BY <1>f DEF TypeOK
<1>3. /\ lease' \in [Attempts -> {"absent", "active", "uncertain"}] /\ lease'[a] = l
      /\ \A v \in Units, n \in Ordinals : v # u \/ n # Latest(u) => lease'[<<v, n>>] = lease[<<v, n>>]
  BY <1>1, <1>f DEF TypeOK, Attempts
<1>4. /\ invoked' \in [Attempts -> 0..2] /\ invoked'[a] = i
      /\ \A v \in Units, n \in Ordinals : v # u \/ n # Latest(u) => invoked'[<<v, n>>] = invoked[<<v, n>>]
  BY <1>1, <1>f DEF TypeOK, Attempts
<1>5. failures' \in Nat /\ failures \in Nat /\ crashes \in Nat
  BY <1>f, DispatchAssumption DEF Known
<1>6. TypeOK' /\ RepairNeedsFault'
  BY <1>2, <1>3, <1>4, <1>5, <1>f DEF TypeOK, RepairNeedsFault
<1>7. JobOK'
  BY <1>0, <1>2, <1>f, JobFrame
<1>8. ASSUME NEW v \in Units, v # u PROVE UnitOK(v)'
  <2>1. Same(v)
    BY <1>2, <1>3, <1>4, <1>5, <1>8 DEF Same
  <2>. QED  BY <1>6, <1>f, <2>1, Frame DEF DispatchInv
<1>9. UnitOK(u)'
  <2>1. ~Dispatches(u)' /\ ~IsSettled(u)' /\ Latest(u)' = Latest(u) /\ LatestState(u)' = LatestState(u)
    BY <1>0, LatestUnchanged DEF Dispatches, IsSettled
  <2>2. LedgerOK(u)' /\ DispatchOK(u)' /\ OwnOK(u)'
    BY <1>2, <1>f, <2>1 DEF Known, LedgerOK, Agree, DispatchOK, OwnOK, Outcomes
  <2>3. CallOK(u)'
    BY <1>1, <1>2, <1>3, <1>4, <2>1 DEF CallOK, Outcomes
  <2>4. WaitOK(u)'
    <3>1. SelectOrdinal(u)' = SelectOrdinal(u)
      BY <2>1 DEF SelectOrdinal, LatestAttempt
    <3>. QED  BY <1>0, <1>f, <2>1, <3>1 DEF Known, WaitOK
  <2>5. LeaseOK(u)'
    <3>1. w = "calling" => HoldsLease(u, Latest(u))'
      BY <1>2, <2>1 DEF HoldsLease
    <3>2. \A n \in Ordinals : n # Latest(u) => ~HoldsLease(u, n)
      BY <1>0 DEF HoldsLease, Dispatches
    <3>3. ASSUME NEW n \in Ordinals, n # Latest(u), lease'[<<u, n>>] = "active"
          PROVE  \/ crashes > 0 /\ attempt[<<u, n>>].state \notin {"KnownSuccess", "KnownFailure"}
                 \/ crashes > 0 /\ failures > 0 /\ attempt[<<u, n>>].preInvoke
      BY <1>3, <1>f, <3>2, <3>3 DEF Known, LeaseOK
    <3>4. l = "active" => w = "calling"
      OBVIOUS
    <3>. QED  BY <1>3, <1>5, <2>1, <3>1, <3>3, <3>4 DEF LeaseOK
  <2>6. (\A n \in Ordinals : AttemptOK(<<u, n>>))'
    <3>1. ASSUME NEW n \in Ordinals, n # Latest(u) PROVE AttemptOK(<<u, n>>)'
      BY <1>3, <1>4, <1>f, <3>1 DEF Known, AttemptOK
    <3>2. AttemptOK(<<u, Latest(u)>>)'
      BY <1>1, <1>3, <1>4, <2>1 DEF AttemptOK, LatestState
    <3>. QED  BY <2>1, <3>1, <3>2
  <2>. QED  BY <2>2, <2>3, <2>4, <2>5, <2>6 DEF UnitOK
<1>. QED  BY <1>6, <1>7, <1>8, <1>9 DEF DispatchInv

\* What is known of a call that has not ended.
LEMMA CallIs ==
    ASSUME DispatchInv, NEW u \in Units, running[u] \in {"ready", "calling"}
    PROVE  /\ <<u, Latest(u)>> \in Attempts /\ AttemptOK(<<u, Latest(u)>>)
           /\ running[u] = "ready" => invoked[<<u, Latest(u)>>] = 0
           /\ running[u] = "calling" => invoked[<<u, Latest(u)>>] = 1
           /\ lease[<<u, Latest(u)>>] \in {"absent", "active", "uncertain"}
           /\ lease = [lease EXCEPT ![<<u, Latest(u)>>] = lease[<<u, Latest(u)>>]]
           /\ invoked = [invoked EXCEPT ![<<u, Latest(u)>>] = invoked[<<u, Latest(u)>>]]
           /\ failures \in Nat /\ MaxFailures \in Nat /\ failures <= MaxFailures
<1>f. Known(u) /\ TypeOK
  BY Facts
<1>1. Latest(u) # 0 /\ <<u, Latest(u)>> \in Attempts /\ AttemptOK(<<u, Latest(u)>>)
  BY <1>f DEF Known, CallOK
<1>2. failures \in Nat /\ MaxFailures \in Nat /\ failures <= MaxFailures
  BY <1>f, DispatchAssumption DEF TypeOK
<1>. QED  BY <1>1, <1>2, <1>f DEF TypeOK, Known, CallOK

\* runProviderInvocation
LEMMA InvokeStep ==
    ASSUME DispatchInv, NEW u \in Units, Invoke(u)
    PROVE  DispatchInv'
<1>. DEFINE a == <<u, Latest(u)>>
<1>0. /\ running[u] = "ready" /\ a \in Attempts /\ AttemptOK(a) /\ invoked[a] = 0
      /\ lease[a] \in {"absent", "active", "uncertain"}
      /\ lease = [lease EXCEPT ![a] = lease[a]] /\ invoked = [invoked EXCEPT ![a] = invoked[a]]
      /\ failures \in 0..MaxFailures /\ failures >= failures
  BY CallIs DEF Invoke
<1>1. UNCHANGED <<task, unit, attempt, store, lease, call, pending, draining, job, crashes, failures>>
  BY DEF Invoke, ledger, faults
<1>2. CASE lease[a] = "active"
  <2>1. running' = [running EXCEPT ![u] = "calling"] /\ invoked' = [invoked EXCEPT ![a] = 1]
    BY <1>0, <1>2 DEF Invoke, Called, LatestAttempt
  <2>2. lease' = [lease EXCEPT ![a] = "active"] /\ "calling" \notin Outcomes
    BY <1>0, <1>1, <1>2 DEF Outcomes
  <2>. QED  BY <1>0, <1>1, <2>1, <2>2, CallStep
<1>3. CASE lease[a] # "active"
  <2>1. running' = [running EXCEPT ![u] = "threw"] /\ invoked' = invoked
    BY <1>3 DEF Invoke, Called, LatestAttempt
  <2>2. lease' = [lease EXCEPT ![a] = lease[a]] /\ "threw" \in Outcomes
        /\ invoked' = [invoked EXCEPT ![a] = 0] /\ lease[a] # "uncertain"
    BY <1>0, <1>1, <2>1 DEF Outcomes, AttemptOK
  <2>. QED  BY <1>0, <1>1, <1>3, <2>1, <2>2, CallStep
<1>. QED  BY <1>2, <1>3

\* The read before the call fails.
LEMMA InvokeFailsStep ==
    ASSUME DispatchInv, NEW u \in Units, InvokeFails(u)
    PROVE  DispatchInv'
<1>. DEFINE a == <<u, Latest(u)>>
<1>0. /\ running[u] = "ready" /\ invoked[a] = 0
      /\ invoked = [invoked EXCEPT ![a] = invoked[a]]
      /\ failures \in Nat /\ MaxFailures \in Nat
  BY CallIs DEF InvokeFails
<1>1. /\ UNCHANGED <<task, unit, attempt, store, call, pending, draining, job, invoked, crashes>>
      /\ failures < MaxFailures /\ failures' = failures + 1
      /\ running' = [running EXCEPT ![u] = "unsent"] /\ lease' = [lease EXCEPT ![a] = "absent"]
  BY DEF InvokeFails, ledger, Called, LatestAttempt
<1>2. failures' \in 0..MaxFailures /\ failures' >= failures /\ "unsent" \in Outcomes
      /\ invoked' = [invoked EXCEPT ![a] = 0]
  BY <1>0, <1>1 DEF Outcomes
<1>. QED  BY <1>0, <1>1, <1>2, CallStep

\* The provider answers, or the call is lost.
LEMMA ProviderAnswersStep ==
    ASSUME DispatchInv, NEW u \in Units, ProviderAnswers(u)
    PROVE  DispatchInv'
<1>. DEFINE a == <<u, Latest(u)>>
<1>0. /\ running[u] = "calling" /\ a \in Attempts /\ invoked[a] = 1
      /\ invoked = [invoked EXCEPT ![a] = invoked[a]]
      /\ failures \in 0..MaxFailures /\ failures >= failures
  BY CallIs DEF ProviderAnswers
<1>1. PICK w \in Outcomes \ {"unsent"}, l \in {"absent", "uncertain"} :
        running' = [running EXCEPT ![u] = w] /\ lease' = [lease EXCEPT ![a] = l]
  <2>1. PICK w \in Outcomes \ {"unsent"} :
          /\ running' = [running EXCEPT ![u] = w]
          /\ lease' = [lease EXCEPT ![a] =
                          IF @ = "active" /\ w = "threw" THEN "uncertain" ELSE "absent"]
    BY DEF ProviderAnswers, Called, LatestAttempt
  <2>2. CASE lease[a] = "active" /\ w = "threw"
    BY <1>0, <2>1, <2>2
  <2>3. CASE ~(lease[a] = "active" /\ w = "threw")
    BY <1>0, <2>1, <2>3
  <2>. QED  BY <2>2, <2>3
<1>2. UNCHANGED <<task, unit, attempt, store, call, pending, draining, job, invoked, crashes, failures>>
  BY DEF ProviderAnswers, ledger, faults
<1>3. invoked' = [invoked EXCEPT ![a] = 1]
  BY <1>0, <1>2
<1>. QED  BY <1>0, <1>1, <1>2, <1>3, CallStep

-----------------------------------------------------------------------------
(* Settling a call. *)

\* settleInvocationResult, settleInvocationFailure: what is recorded is what happened.
LEMMA SettleInvocationStep ==
    ASSUME DispatchInv, NEW u \in Units, SettleInvocation(u)
    PROVE  DispatchInv'
<1>. DEFINE a == <<u, Latest(u)>>
<1>f. Known(u) /\ TypeOK /\ JobOK /\ RepairNeedsFault /\ job \in Job
  BY Facts DEF TypeOK
<1>0. /\ job.for = "settle" /\ job.at = "mark" /\ job.unit = {u}
      /\ job' = [job EXCEPT !.at = "settle"]
      /\ UNCHANGED <<task, store, lease, call, pending, draining, running, invoked, crashes, failures>>
  BY DEF SettleInvocation, Settling, At, Goto, faults
<1>1. /\ running[u] \in Outcomes /\ running[u] # "none" /\ ~IsSettled(u) /\ ~Dispatches(u)
  BY <1>0, <1>f DEF JobOK, Outcomes, IsSettled, Dispatches
<1>2. /\ Latest(u) # 0 /\ a \in Attempts /\ Latest(u) \in Ordinals /\ AttemptOK(a)
      /\ LatestState(u) = "Dispatched" /\ attempt[a].state = "Dispatched"
      /\ attempt[a].phase = "invoking" /\ ~attempt[a].preInvoke /\ attempt[a] \in Attempt
      /\ store[u] = [ordinal |-> Latest(u), phase |-> "invoking"]
      /\ lease[a] # "active"
      /\ running[u] = "unsent" => invoked[a] = 0
      /\ running[u] = "success" => invoked[a] = 1
  BY <1>1, <1>f DEF Known, CallOK, AttemptOK, LatestState
<1>3. unit[u].state = "Running" /\ unit[u].budget + Latest(u) = RetryBudget + 1
  BY <1>2, <1>f DEF Known, LedgerOK, Agree, Failed
<1>4. PICK r, x :
        /\ r \in Attempt /\ x \in Unit /\ Agree(x, Latest(u), r.state)
        /\ r.state \in {"KnownSuccess", "KnownFailure", "UnknownOutcome"} /\ r.phase = "invoking"
        /\ r.preInvoke => invoked[a] = 0
        /\ r.state = "KnownSuccess" => invoked[a] = 1
        /\ attempt' = [attempt EXCEPT ![a] = r] /\ unit' = [unit EXCEPT ![u] = x]
  <2>r. \A s \in UnitStates :
          /\ Retried(u, s) \in Unit /\ Retried(u, s).budget \in Nat
          /\ unit[u].budget > 0 => Retried(u, s).state = s /\ Retried(u, s).budget + 1 = unit[u].budget
          /\ unit[u].budget = 0 => Retried(u, s).state = "FailedFinal"
    BY <1>f, RetriedIs, UnitFields
  <2>a. \A s \in {"KnownSuccess", "KnownFailure", "UnknownOutcome"} :
          LET q == [attempt[a] EXCEPT !.state = s]
          IN  q \in Attempt /\ q.state = s /\ q.phase = "invoking" /\ ~q.preInvoke
    <3>1. ASSUME NEW s \in {"KnownSuccess", "KnownFailure", "UnknownOutcome"}
          PROVE  LET q == [attempt[a] EXCEPT !.state = s]
                 IN  /\ q \in Attempt /\ q.state = s
                     /\ q.phase = attempt[a].phase /\ q.preInvoke = attempt[a].preInvoke
      <4>1. s \in AttemptStates /\ attempt[a] \in Attempt
        BY <1>2 DEF AttemptStates
      <4>. QED  BY <4>1, WithState
    <3>. QED  BY <1>2, <3>1
  <2>u. \A s \in UnitStates :
          LET y == [unit[u] EXCEPT !.state = s]
          IN  y \in Unit /\ y.state = s /\ y.budget = unit[u].budget
    BY <1>f, UnitWithState DEF Known
  <2>s. {"ResultReady", "FailedFinal", "UnknownOutcome", "Queued", "WaitingRetry"} \subseteq UnitStates
    BY DEF UnitStates
  <2>1. CASE running[u] = "success"
    <3>. DEFINE r1 == [attempt[a] EXCEPT !.state = "KnownSuccess"]
                x1 == [unit[u] EXCEPT !.state = "ResultReady"]
    <3>1. attempt' = [attempt EXCEPT ![a] = r1] /\ unit' = [unit EXCEPT ![u] = x1]
      BY <2>1 DEF SettleInvocation, MarkKnownSuccess, SetState, SetUnit, Called, LatestAttempt
    <3>2. r1 \in Attempt /\ r1.state = "KnownSuccess" /\ r1.phase = "invoking" /\ ~r1.preInvoke
      BY <2>a
    <3>3. x1 \in Unit /\ x1.state = "ResultReady"
      BY <2>u, <2>s
    <3>. HIDE DEF r1, x1
    <3>. QED  BY <1>2, <2>1, <3>1, <3>2, <3>3 DEF Agree
  <2>2. CASE running[u] = "congested"
    <3>. DEFINE r1 == [attempt[a] EXCEPT !.state = "KnownFailure"]
                x1 == Retried(u, "WaitingRetry")
    <3>1. attempt' = [attempt EXCEPT ![a] = r1] /\ unit' = [unit EXCEPT ![u] = x1]
      BY <2>2 DEF SettleInvocation, MarkKnownFailure, SetUnit, Called, LatestAttempt
    <3>2. r1 \in Attempt /\ r1.state = "KnownFailure" /\ r1.phase = "invoking" /\ ~r1.preInvoke
      BY <2>a
    <3>3. /\ x1 \in Unit /\ x1.budget \in Nat
          /\ unit[u].budget > 0 => x1.state = "WaitingRetry" /\ x1.budget + 1 = unit[u].budget
          /\ unit[u].budget = 0 => x1.state = "FailedFinal"
      BY <2>r, <2>s
    <3>. HIDE DEF r1, x1
    <3>4. Agree(x1, Latest(u), r1.state)
      BY <1>2, <1>3, <1>f, <3>2, <3>3 DEF Agree, Failed, Known
    <3>. QED  BY <3>1, <3>2, <3>3, <3>4
  <2>3. CASE running[u] = "rejected"
    <3>. DEFINE r1 == [attempt[a] EXCEPT !.state = "KnownFailure"]
                x1 == [unit[u] EXCEPT !.state = "FailedFinal"]
    <3>1. attempt' = [attempt EXCEPT ![a] = r1] /\ unit' = [unit EXCEPT ![u] = x1]
      BY <2>3 DEF SettleInvocation, MarkKnownFailure, SetState, SetUnit, Called, LatestAttempt
    <3>2. r1 \in Attempt /\ r1.state = "KnownFailure" /\ r1.phase = "invoking" /\ ~r1.preInvoke
      BY <2>a
    <3>3. x1 \in Unit /\ x1.state = "FailedFinal"
      BY <2>u, <2>s
    <3>. HIDE DEF r1, x1
    <3>. QED  BY <1>2, <3>1, <3>2, <3>3 DEF Agree, Failed
  <2>4. CASE running[u] = "threw"
    <3>. DEFINE r1 == [attempt[a] EXCEPT !.state = "UnknownOutcome"]
                x1 == [unit[u] EXCEPT !.state = "UnknownOutcome"]
    <3>1. attempt' = [attempt EXCEPT ![a] = r1] /\ unit' = [unit EXCEPT ![u] = x1]
      BY <2>4 DEF SettleInvocation, MarkUnknownOutcome, SetState, SetUnit, Called, LatestAttempt
    <3>2. r1 \in Attempt /\ r1.state = "UnknownOutcome" /\ r1.phase = "invoking" /\ ~r1.preInvoke
      BY <2>a
    <3>3. x1 \in Unit /\ x1.state = "UnknownOutcome" /\ x1.budget = unit[u].budget
      BY <2>u, <2>s
    <3>. HIDE DEF r1, x1
    <3>. QED  BY <1>2, <1>3, <3>1, <3>2, <3>3 DEF Agree
  <2>5. CASE running[u] = "unsent"
    <3>. DEFINE r1 == [state |-> "KnownFailure", phase |-> "invoking", preInvoke |-> TRUE]
                x1 == Retried(u, "Queued")
    <3>1. attempt' = [attempt EXCEPT ![a] = r1] /\ unit' = [unit EXCEPT ![u] = x1]
      BY <2>5 DEF SettleInvocation, MarkKnownPreInvokeFailure, SetUnit, Called, LatestAttempt
    <3>2. r1 \in Attempt /\ r1.state = "KnownFailure" /\ r1.phase = "invoking"
      BY DEF Attempt, AttemptStates, Phases
    <3>3. /\ x1 \in Unit /\ x1.budget \in Nat
          /\ unit[u].budget > 0 => x1.state = "Queued" /\ x1.budget + 1 = unit[u].budget
          /\ unit[u].budget = 0 => x1.state = "FailedFinal"
      BY <2>r, <2>s
    <3>. HIDE DEF r1, x1
    <3>4. Agree(x1, Latest(u), r1.state)
      BY <1>2, <1>3, <1>f, <3>2, <3>3 DEF Agree, Failed, Known
    <3>. QED  BY <1>2, <2>5, <3>1, <3>2, <3>3, <3>4
  <2>. QED  BY <1>1, <2>1, <2>2, <2>3, <2>4, <2>5 DEF Outcomes
<1>5. Written(u, r, x)
  BY <1>2, <1>4, <1>f, LedgerWrite DEF Known
<1>6. job' \in Job /\ job'.for = "settle" /\ job'.at = "settle" /\ job'.unit = {u}
  <2>1. "settle" \in JobSteps
    BY DEF JobSteps
  <2>. QED  BY <1>0, <1>f, <2>1, JobAt
<1>7. TypeOK' /\ RepairNeedsFault'
  BY <1>0, <1>5, <1>6, <1>f DEF TypeOK, Written, RepairNeedsFault
<1>8. JobOK'
  BY <1>0, <1>1, <1>6 DEF JobOK
<1>9. ASSUME NEW v \in Units, v # u PROVE UnitOK(v)'
  <2>1. ~Dispatches(v) /\ ~Dispatches(v)' /\ ~IsSettled(v) /\ ~IsSettled(v)'
    BY <1>0, <1>6, <1>9 DEF Dispatches, IsSettled
  <2>2. Same(v)
    BY <1>0, <1>5, <1>9, <1>f, <2>1 DEF Same, Written, Known
  <2>. QED  BY <1>7, <1>f, <2>2, Frame DEF DispatchInv
<1>10. UnitOK(u)'
  <2>1. IsSettled(u)' /\ ~Dispatches(u)' /\ Latest(u)' = Latest(u) /\ attempt'[a] = r
        /\ LatestState(u)' = r.state /\ r.state # "Dispatched"
    BY <1>4, <1>5, <1>6 DEF IsSettled, Dispatches, Written, LatestState
  <2>2. CallOK(u)'
    BY <1>0, <1>1, <1>2, <1>4, <1>f, <2>1 DEF Known, CallOK
  <2>3. WaitOK(u)' /\ DispatchOK(u)' /\ OwnOK(u)'
    BY <1>0, <1>1, <1>f, <2>1 DEF Known, WaitOK, DispatchOK, OwnOK
  <2>4. LeaseOK(u)'
    <3>1. \A n \in Ordinals : n # Latest(u) => ~HoldsLease(u, n)
      BY <1>1 DEF HoldsLease, Dispatches
    <3>. QED  BY <1>0, <1>2, <1>5, <1>f, <3>1 DEF Known, LeaseOK, Written
  <2>5. (\A n \in Ordinals : AttemptOK(<<u, n>>))'
    <3>1. ASSUME NEW n \in Ordinals, n # Latest(u) PROVE AttemptOK(<<u, n>>)'
      BY <1>0, <1>5, <1>f, <3>1 DEF Known, AttemptOK, Written
    <3>2. AttemptOK(a)'
      BY <1>0, <1>2, <1>4, <2>1 DEF AttemptOK
    <3>. QED  BY <2>1, <3>1, <3>2
  <2>. QED  BY <1>5, <2>2, <2>3, <2>4, <2>5 DEF UnitOK, Written
<1>. QED  BY <1>7, <1>8, <1>9, <1>10 DEF DispatchInv

\* The claim of a settled call is taken out of the snapshot, or may be.
LEMMA SettleClaimStep ==
    ASSUME DispatchInv, NEW u \in Units, SettleClaim(u)
    PROVE  DispatchInv'
<1>f. Known(u) /\ TypeOK /\ JobOK /\ RepairNeedsFault
  BY Facts
<1>0. /\ job.for = "settle" /\ job.at = "settle" /\ job.unit = {u} /\ IsSettled(u) /\ Abort
      /\ UNCHANGED <<task, unit, attempt, lease, invoked>>
  BY DEF SettleClaim, Settling, At, IsSettled, ledger
<1>1. running[u] # "none" /\ Latest(u) # 0 /\ LatestState(u) # "Dispatched"
  BY <1>0, <1>f DEF JobOK, Outcomes, Known, CallOK
<1>2. /\ Unclaimed(u) \in [Units -> Claim \cup {NoClaim}] /\ Unclaimed(u)[u] = NoClaim
      /\ \A v \in Units : v # u => Unclaimed(u)[v] = store[v]
  BY <1>f DEF Unclaimed, TypeOK
<1>3. /\ running'[u] = "none" /\ job' = Idle
      /\ \A v \in Units : v # u => running'[v] = running[v]
  BY <1>0 DEF Abort
<1>4. CASE store' = Unclaimed(u) /\ UNCHANGED faults
  <2>1. UNCHANGED <<crashes, failures>> /\ crashes' >= crashes /\ failures' >= failures
        /\ crashes' \in 0..MaxCrashes /\ failures' \in 0..MaxFailures
    BY <1>4, <1>f DEF faults, TypeOK, Known
  <2>2. ASSUME NEW v \in Units PROVE OwnOK(v)'
    <3>1. CASE v = u
      BY <1>0, <1>1, <1>2, <1>4, <3>1, LatestUnchanged DEF OwnOK
    <3>2. CASE v # u
      <4>1. Known(v)
        BY Facts
      <4>2. ~Dispatches(v)
        BY <1>0 DEF Dispatches
      <4>. QED  BY <1>0, <1>2, <1>3, <1>4, <2>1, <3>2, <4>1, <4>2, LatestUnchanged DEF Known, OwnOK
    <3>. QED  BY <3>1, <3>2
  <2>3. RepairNeedsFault' /\ task' \in {"Running", "RepairRequired"}
    BY <1>0, <1>f, <2>1 DEF RepairNeedsFault, TypeOK
  <2>. QED  BY <1>0, <1>2, <1>3, <1>4, <2>1, <2>2, <2>3, AbortStep
<1>5. CASE Fails(Unclaimed(u))
  BY <1>0, <1>2, <1>3, <1>5, FailedAbortStep DEF ledger
<1>. QED  BY <1>4, <1>5 DEF SettleClaim

-----------------------------------------------------------------------------
(* The environment. *)

\* A lease runs out.
LEMMA ExpireLeaseStep ==
    ASSUME DispatchInv, NEW a \in Attempts, ExpireLease(a)
    PROVE  DispatchInv'
<1>f. TypeOK /\ JobOK /\ RepairNeedsFault /\ crashes \in Nat /\ failures \in Nat
  BY DispatchAssumption DEF DispatchInv, TypeOK
<1>0. /\ UNCHANGED <<task, unit, attempt, store, call, pending, draining, running, job, invoked, crashes, failures>>
      /\ lease' = [lease EXCEPT ![a] = "absent"]
  BY DEF ExpireLease, ledger, process, faults
<1>1. /\ lease' \in [Attempts -> {"absent", "active", "uncertain"}]
      /\ \A v \in Units, n \in Ordinals : lease'[<<v, n>>] \in {lease[<<v, n>>], "absent"}
  BY <1>0, <1>f DEF TypeOK, Attempts
<1>2. TypeOK' /\ RepairNeedsFault'
  BY <1>0, <1>1, <1>f DEF TypeOK, RepairNeedsFault
<1>3. JobOK'
  BY <1>0, <1>f, JobFrame
<1>4. ASSUME NEW v \in Units PROVE UnitOK(v)'
  <2>1. Same(v)
    BY <1>0, <1>1, <1>f DEF Same
  <2>. QED  BY <1>2, <1>f, <2>1, Frame DEF DispatchInv
<1>. QED  BY <1>2, <1>3, <1>4 DEF DispatchInv

\* The process dies: what it held is on disk as the next one can account for it.
LEMMA CrashStep ==
    ASSUME DispatchInv, Crash
    PROVE  DispatchInv'
<1>f. /\ TypeOK /\ JobOK /\ RepairNeedsFault
      /\ crashes \in Nat /\ failures \in Nat /\ MaxCrashes \in Nat
  BY DispatchAssumption DEF DispatchInv, TypeOK
<1>0. /\ UNCHANGED <<task, unit, attempt, store, lease, invoked, failures>>
      /\ crashes < MaxCrashes /\ crashes' = crashes + 1 /\ draining' = FALSE /\ job' = Idle
      /\ \A v \in Units : call'[v] = "none" /\ pending'[v] = 0 /\ running'[v] = "none"
  BY DEF Crash, ledger
<1>1. TypeOK' /\ RepairNeedsFault'
  <2>1. /\ call' \in [Units -> {"none", "open", "read"}] /\ pending' \in [Units -> Ordinals \cup {0}]
        /\ running' \in [Units -> {"none", "ready", "calling"} \cup Outcomes]
    BY DEF Crash
  <2>2. crashes' \in 0..MaxCrashes /\ crashes' + failures' > 0
    BY <1>0, <1>f
  <2>3. job' \in Job /\ draining' \in BOOLEAN
    BY <1>0, IdleJob
  <2>. QED  BY <1>0, <1>f, <2>1, <2>2, <2>3 DEF TypeOK, RepairNeedsFault
<1>2. JobOK'
  BY <1>0, IdleJob DEF JobOK
<1>3. ASSUME NEW u \in Units PROVE UnitOK(u)'
  <2>f. Known(u)
    BY Facts
  <2>1. ~Dispatches(u)' /\ crashes' > 0
    BY <1>0, <1>f, IdleJob DEF Dispatches
  <2>2. LedgerOK(u)' /\ CallOK(u)' /\ WaitOK(u)' /\ DispatchOK(u)' /\ OwnOK(u)'
    BY <1>0, <2>f, <2>1, LatestUnchanged DEF Known, LedgerOK, Agree, CallOK, WaitOK, DispatchOK, OwnOK
  <2>3. LeaseOK(u)'
    <3>1. ASSUME NEW n \in Ordinals, HoldsLease(u, n), lease[<<u, n>>] = "active"
          PROVE  \/ attempt[<<u, n>>].state \notin {"KnownSuccess", "KnownFailure"}
                 \/ failures > 0 /\ attempt[<<u, n>>].preInvoke
      <4>1. CASE running[u] \in {"ready", "calling"} /\ Latest(u) = n
        <5>1. ~IsSettled(u)
          BY <1>f, <4>1 DEF JobOK, IsSettled, Outcomes
        <5>. QED  BY <2>f, <4>1, <5>1 DEF Known, CallOK, LatestState
      <4>2. CASE Dispatches(u) /\ pending[u] = n
        <5>1. job.at \in UnitSteps
          BY <1>f, <4>2 DEF JobOK, Dispatches
        <5>2. CASE job.at = "intent"
          <6>1. unit[u].state = "Queued" /\ pending[u] # 0
            BY <2>f, <4>2, <5>2 DEF Known, DispatchOK
          <6>2. pending[u] = SelectOrdinal(u)
            BY <2>f, <4>2, <5>2, <6>1 DEF Known, WaitOK, IsSettled, Dispatches
          <6>. QED  BY <2>f, <4>2, <6>1, <6>2, SelectOrdinalIs
        <5>3. CASE job.at \in {"grant", "grant_failed", "bind"}
          BY <2>f, <4>2, <5>3 DEF Known, DispatchOK, LatestState
        <5>4. CASE job.at \in {"bound", "bind_invoking", "invoking", "start", "not_invoked"}
          BY <2>f, <4>2, <5>4 DEF Known, DispatchOK, LatestState, LedgerOK, Agree
        <5>5. CASE job.at \in {"release", "repair"}
          BY <2>f, <4>2, <5>5 DEF Known, DispatchOK
        <5>. QED  BY <5>1, <5>2, <5>3, <5>4, <5>5 DEF UnitSteps
      <4>. QED  BY <3>1, <4>1, <4>2 DEF HoldsLease, Dispatches
    <3>. QED  BY <1>0, <2>f, <2>1, <3>1 DEF Known, LeaseOK
  <2>4. (\A n \in Ordinals : AttemptOK(<<u, n>>))'
    BY <1>0, <2>f DEF Known, AttemptOK
  <2>. QED  BY <2>2, <2>3, <2>4 DEF UnitOK
<1>. QED  BY <1>1, <1>2, <1>3 DEF DispatchInv

-----------------------------------------------------------------------------
(* The theorems. *)

\* Every step keeps the invariant.
LEMMA NextInv == DispatchInv /\ [Next]_vars => DispatchInv'
<1> SUFFICES ASSUME DispatchInv, [Next]_vars PROVE DispatchInv'
  OBVIOUS
<1>1. CASE DrainOpens
  BY <1>1, DrainOpensStep
<1>2. CASE RebuildCoordinator
  BY <1>2, RebuildCoordinatorStep
<1>3. CASE NothingDispatched
  BY <1>3, NothingDispatchedStep
<1>4. CASE SuspendDispatchablePending
  BY <1>4, SuspendDispatchablePendingStep
<1>5. ASSUME NEW u \in Units, Submits(u) PROVE DispatchInv'
  BY <1>5, AdvanceExpiredUnknownOutcomeStep, ActivateWaitingRetryStep, PrepareModelAttemptStep,
     EnqueuePendingStep DEF Submits
<1>6. ASSUME NEW u \in Units, Calls(u) PROVE DispatchInv'
  BY <1>6, InvokeStep, InvokeFailsStep, ProviderAnswersStep DEF Calls
<1>7. ASSUME NEW u \in Units,
             SubmitOpens(u) \/ SettleOpens(u) \/ ReconcileRestartedDispatch(u) \/ TryAcquire(u)
      PROVE  DispatchInv'
  BY <1>7, SubmitOpensStep, SettleOpensStep, ReconcileRestartedDispatchStep, TryAcquireStep
<1>8. ASSUME NEW u \in Units, PersistGrant(u) \/ PersistBound(u) \/ PersistInvoking(u)
      PROVE  DispatchInv'
  BY <1>8, PersistClaimStep DEF PersistGrant, PersistBound, PersistInvoking
<1>9. ASSUME NEW u \in Units,
             \/ EnsureModelAttemptIntent(u) \/ FailClosedAfterGrantPersistFailure(u)
             \/ BindAttempt(u) \/ BindInvoking(u) \/ StartRunningInvocation(u)
      PROVE  DispatchInv'
  BY <1>9, EnsureModelAttemptIntentStep, FailClosedAfterGrantPersistFailureStep, BindAttemptStep,
     BindInvokingStep, StartRunningInvocationStep
<1>10. ASSUME NEW u \in Units,
              \/ SettlePreInvokeFailure(u) \/ ReleasePreInvokeClaim(u) \/ FailClosedPreInvokeRepair(u)
              \/ SettleInvocation(u) \/ SettleClaim(u)
       PROVE  DispatchInv'
  BY <1>10, SettlePreInvokeFailureStep, ReleasePreInvokeClaimStep, FailClosedPreInvokeRepairStep,
     SettleInvocationStep, SettleClaimStep
<1>11. ASSUME NEW a \in Attempts, ExpireLease(a) PROVE DispatchInv'
  BY <1>11, ExpireLeaseStep
<1>12. CASE Crash
  BY <1>12, CrashStep
<1>13. CASE UNCHANGED vars
  <2>1. UNCHANGED <<task, unit, attempt, store, lease, call, pending, draining, running, job,
                    invoked, crashes, failures>>
    BY <1>13 DEF vars
  <2>2. TypeOK' /\ RepairNeedsFault' /\ crashes \in Nat /\ failures \in Nat
    BY <2>1, DispatchAssumption DEF DispatchInv, TypeOK, RepairNeedsFault
  <2>3. JobOK'
    BY <2>1, JobFrame DEF DispatchInv
  <2>4. ASSUME NEW u \in Units PROVE UnitOK(u)'
    <3>1. Same(u)
      BY <2>1, <2>2 DEF Same
    <3>. QED  BY <2>2, <3>1, Frame DEF DispatchInv
  <2>. QED  BY <2>2, <2>3, <2>4 DEF DispatchInv
<1>. QED
  BY <1>1, <1>2, <1>3, <1>4, <1>5, <1>6, <1>7, <1>8, <1>9, <1>10, <1>11, <1>12, <1>13
     DEF Next, ChainSteps

\* The invariant is one of the specification.
LEMMA AlwaysInv == Spec => []DispatchInv
BY InitInv, NextInv, PTL DEF Spec

\* The three stores and the process have their types through every crash and failed
\* write; that a unit's retryBudget never falls below zero is the part that is not obvious.
THEOREM TypeCorrect == Spec => []TypeOK
<1>1. DispatchInv => TypeOK
  BY DEF DispatchInv
<1>. QED  BY <1>1, AlwaysInv, PTL

\* runProviderInvocation calls the provider at most once for an attempt.
THEOREM CalledAtMostOnce == Spec => []CalledOnce
<1>1. DispatchInv => CalledOnce
  BY DEF DispatchInv, UnitOK, AttemptOK, CalledOnce, Attempts
<1>. QED  BY <1>1, AlwaysInv, PTL

\* What the ledger records of an attempt is what happened to it.
THEOREM OutcomesAreHonest == Spec => []OutcomeIsHonest
<1>1. DispatchInv => OutcomeIsHonest
  <2>1. ASSUME DispatchInv, NEW a \in Attempts PROVE AttemptOK(a)
    BY <2>1 DEF DispatchInv, UnitOK, Attempts
  <2>. QED  BY <2>1 DEF OutcomeIsHonest, AttemptOK
<1>. QED  BY <1>1, AlwaysInv, PTL

\* Sessions of other units leave an attempt in flight and its claim alone.
THEOREM InFlightUndisturbed == Spec => []InFlightIsUndisturbed
<1>1. DispatchInv => InFlightIsUndisturbed
  <2>1. ASSUME DispatchInv, NEW u \in Units, running[u] \in {"ready", "calling"}
        PROVE  /\ LatestState(u) = "Dispatched"
               /\ store[u] = [ordinal |-> Latest(u), phase |-> "invoking"]
    <3>1. Known(u) /\ JobOK
      BY <2>1, Facts
    <3>2. ~IsSettled(u)
      BY <2>1, <3>1 DEF JobOK, IsSettled, Outcomes
    <3>. QED  BY <2>1, <3>1, <3>2 DEF Known, CallOK
  <2>. QED  BY <2>1 DEF InFlightIsUndisturbed, LatestState, Called, LatestAttempt
<1>. QED  BY <1>1, AlwaysInv, PTL

\* No active lease is left behind by a dispatch or a call that is over.
THEOREM LeasesAccountedFor == Spec => []LeaseIsAccountedFor
<1>1. DispatchInv => LeaseIsAccountedFor
  BY DEF DispatchInv, UnitOK, LeaseOK, LeaseIsAccountedFor
<1>. QED  BY <1>1, AlwaysInv, PTL

\* markRestartRecoveryRepair is reached only after a crash or a failed write.
THEOREM RepairOnlyAfterFault == Spec => []RepairNeedsFault
<1>1. DispatchInv => RepairNeedsFault
  BY DEF DispatchInv
<1>. QED  BY <1>1, AlwaysInv, PTL

==============================================================================
