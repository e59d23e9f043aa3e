---------------------- MODULE ProviderControlStoreProofs ----------------------
(***************************************************************************)
(* Proofs about ProviderControlStore, for every number of admissions,      *)
(* attempts, clocks set back and crashes, and every limit and duration.    *)
(*                                                                         *)
(* That a permit holds its slot rests on two facts the code never writes   *)
(* down: an attempt is in the hands of one admission at a time (Unique),   *)
(* and the permit runs out no later than its lease does, whatever happens  *)
(* to the clock (LeasesOK).                                                *)
(***************************************************************************)
EXTENDS ProviderControlStore, TLAPS

-----------------------------------------------------------------------------
(* The inductive invariant. *)

Lease == [status : {"none", "active", "uncertain"}, left : Int, fresh : BOOLEAN]
Pool == [limit : 1..PhysicalMax, credits : 0..PhysicalMax, lease : [Attempts -> Lease],
         open : BOOLEAN, openLeft : Int, failures : Nat, backoff : 0..(Len(FailureBudgets) - 1),
         probe : Attempts \cup {None}, frozen : {"no", "capacity", "clock"}]

\* The pool, when the clock was set back by at most b in all.
PoolOK(p, b) ==
    /\ p \in Pool
    /\ -MaxBack <= p.openLeft /\ p.openLeft <= MaxOpenMs + b
    /\ \A a \in Attempts : p.lease[a].status = "none" => p.lease[a].left = 0

Back == MaxBack * backs

Kinds == {"none", "grant", "complete", "settle", "thaw"}
Steps == {"idle", "own", "own_again", "claimed", "claimed_again", "reclaim", "grant", "verify",
          "complete", "settle", "thaw"}
Operation == [kind : Kinds, pc : Steps, attempt : Attempts \cup {None}]
Permit == [attempt : Attempts, left : Int]

Shape ==
    /\ PoolOK(pool, Back)
    /\ owner \in [by : Owners \cup {None}, left : Int]
    /\ drift \in Int /\ -Back <= drift
    /\ local \in [Owners -> [fence : BOOLEAN, left : Int]]
    /\ op \in [Owners -> Operation]
    /\ permits \in [Owners -> SUBSET Permit]
    /\ backs \in 0..MaxBacks /\ crashes \in 0..MaxCrashes

\* An operation has an attempt, and is where its kind takes it.
OperationOK(q) ==
    /\ q.pc = "idle" => q.attempt = None
    /\ q.pc /= "idle" /\ q.kind /= "thaw" => q.attempt \in Attempts
    /\ q.pc = "idle" <=> q.kind = "none"
    /\ q.pc \in {"own_again", "claimed_again", "reclaim", "grant", "verify"} => q.kind = "grant"
    /\ q.pc \in {"complete", "settle", "thaw"} => q.kind = q.pc
OperationsOK == \A o \in Owners : OperationOK(op[o])

\* An attempt is in the hands of one admission: it has a permit for it, or works on it.
Unique ==
    /\ \A o, o2 \in Owners : \A p \in permits[o] : op[o2].attempt /= p.attempt
    /\ \A o, o2 \in Owners : \A p \in permits[o], q \in permits[o2] :
          p.attempt = q.attempt => o = o2 /\ p = q
    /\ \A o, o2 \in Owners : op[o].attempt = op[o2].attempt => o = o2 \/ op[o].attempt = None

\* The lease of a permit lasts as long as the permit; one just granted is active or gone.
LeasesOK ==
    /\ \A o \in Owners : \A p \in permits[o] : p.left > 0 =>
          pool.lease[p.attempt].status = "active" /\ pool.lease[p.attempt].left >= p.left
    /\ \A o \in Owners : op[o].pc = "verify" => pool.lease[op[o].attempt].status /= "uncertain"

ProviderInv == Shape /\ OperationsOK /\ Unique /\ LeasesOK

-----------------------------------------------------------------------------
(* Lemmas about the operators on the pool. *)

\* What the assumptions say of the numbers.
LEMMA Numbers ==
    /\ PhysicalMax \in Nat /\ PhysicalMax >= 1 /\ MaxOpenMs \in Nat /\ MaxOpenMs >= 1
    /\ MaxBack \in Nat /\ MaxBacks \in Nat /\ MaxCrashes \in Nat
    /\ CallLeaseMs \in Nat /\ CallLeaseMs >= 1 /\ OwnerLeaseMs \in Nat /\ GraceMs \in Nat /\ GraceMs >= 1
    /\ RenewalMs \in Int
    /\ Len(FailureBudgets) \in Nat /\ Len(FailureBudgets) >= 1
    /\ None \notin Attempts /\ None \notin Owners
BY ProviderAssumption

\* A pool after a pool: no lease but those in gone has changed, and the clock's freeze stays.
Follows(p, q, gone, b) ==
    /\ PoolOK(q, b)
    /\ p.frozen = "clock" => q.frozen = "clock"
    /\ \A a \in Attempts \ gone :
          q.lease[a].status = p.lease[a].status /\ q.lease[a].left = p.lease[a].left

\* The fields of a pool.
LEMMA PoolFields ==
    ASSUME NEW p \in Pool
    PROVE  /\ p.limit \in 1..PhysicalMax /\ p.credits \in 0..PhysicalMax
           /\ p.lease \in [Attempts -> Lease]
           /\ p.open \in BOOLEAN /\ p.openLeft \in Int /\ p.failures \in Nat
           /\ p.backoff \in 0..(Len(FailureBudgets) - 1)
           /\ p.probe \in Attempts \cup {None} /\ p.frozen \in {"no", "capacity", "clock"}
BY DEF Pool

\* A pool follows itself.
LEMMA FollowsItself ==
    ASSUME NEW p, NEW b, PoolOK(p, b), NEW gone
    PROVE  Follows(p, p, gone, b)
BY DEF Follows

\* One change after another.
LEMMA FollowsTwice ==
    ASSUME NEW p, NEW q, NEW r, NEW gone, NEW b,
           Follows(p, q, gone, b), Follows(q, r, gone, b)
    PROVE  Follows(p, r, gone, b)
BY DEF Follows

\* A pool whose leases are gone.
LEMMA WithoutIs ==
    ASSUME NEW p, NEW b, PoolOK(p, b), NEW gone
    PROVE  /\ Follows(p, Without(p, gone), gone, b)
           /\ \A a \in Attempts : a \in gone => Without(p, gone).lease[a] = NoLease
           /\ Without(p, gone).probe = p.probe /\ Without(p, gone).frozen = p.frozen
           /\ Without(p, gone).limit = p.limit /\ Without(p, gone).open = p.open
<1>. DEFINE f == [a \in Attempts |-> IF a \in gone THEN NoLease ELSE p.lease[a]]
            q == [p EXCEPT !.lease = f]
<1>0. p \in Pool
  BY DEF PoolOK
<1>1. Without(p, gone) = q
  BY DEF Without
<1>2. NoLease \in Lease /\ NoLease.status = "none" /\ NoLease.left = 0
  BY DEF NoLease, Lease
<1>3. f \in [Attempts -> Lease]
  BY <1>0, <1>2, PoolFields
<1>4. /\ q \in Pool /\ q.lease = f /\ q.probe = p.probe /\ q.frozen = p.frozen
      /\ q.openLeft = p.openLeft /\ q.limit = p.limit /\ q.open = p.open
  <2>. HIDE DEF f
  <2>. QED  BY <1>0, <1>3 DEF Pool
<1>5. PoolOK(q, b)
  BY <1>2, <1>4 DEF PoolOK
<1>. HIDE DEF q
<1>. QED  BY <1>1, <1>2, <1>4, <1>5 DEF Follows

\* Another probe, or another freeze that is no thaw.
LEMMA ProbeIs ==
    ASSUME NEW p, NEW b, PoolOK(p, b), NEW a \in Attempts \cup {None}, NEW gone
    PROVE  /\ Follows(p, [p EXCEPT !.probe = a], gone, b)
           /\ [p EXCEPT !.probe = a].lease = p.lease
BY DEF Follows, PoolOK, Pool

\* freezeForClockRollback
LEMMA FreezeIs ==
    ASSUME NEW p, NEW b, PoolOK(p, b), NEW gone
    PROVE  Follows(p, [p EXCEPT !.frozen = "clock"], gone, b)
BY DEF Follows, PoolOK, Pool

\* pruneExpiredProviderLeases takes only leases that have run out.
LEMMA PrunedIs ==
    ASSUME NEW p, NEW b, PoolOK(p, b)
    PROVE  LET gone == {a \in Leased(p) : p.lease[a].left <= 0}
           IN  /\ Follows(p, Pruned(p), gone, b)
               /\ \A a \in Attempts : a \in gone => Pruned(p).lease[a] = NoLease
<1>. DEFINE gone == {a \in Leased(p) : p.lease[a].left <= 0}
            w == Without(p, gone)
            a0 == IF w.probe \in gone THEN None ELSE w.probe
<1>1. /\ Follows(p, w, gone, b) /\ \A a \in Attempts : a \in gone => w.lease[a] = NoLease
      /\ w.probe = p.probe
  BY WithoutIs
<1>2. PoolOK(w, b)
  BY <1>1 DEF Follows
<1>3. a0 \in Attempts \cup {None}
  BY <1>2, PoolFields DEF PoolOK
<1>4. Pruned(p) = [w EXCEPT !.probe = a0]
  BY DEF Pruned
<1>. HIDE DEF w, a0, gone
<1>5. /\ Follows(w, [w EXCEPT !.probe = a0], gone, b) /\ [w EXCEPT !.probe = a0].lease = w.lease
  BY <1>2, <1>3, ProbeIs
<1>6. Follows(p, Pruned(p), gone, b) /\ \A a \in Attempts : a \in gone => Pruned(p).lease[a] = NoLease
  BY <1>1, <1>4, <1>5, FollowsTwice
<1>. QED  BY <1>6 DEF gone

\* A new capacityGeneration leaves the leases in place.
LEMMA NewGenerationIs ==
    ASSUME NEW p, NEW b, PoolOK(p, b), NEW limit \in 1..PhysicalMax, NEW gone
    PROVE  Follows(p, NewGeneration(p, limit), gone, b)
<1>. DEFINE f == [a \in Attempts |-> [p.lease[a] EXCEPT !.fresh = FALSE]]
            q == [p EXCEPT !.limit = limit, !.credits = 0, !.lease = f]
<1>0. p \in Pool /\ p.lease \in [Attempts -> Lease]
  BY PoolFields DEF PoolOK
<1>1. NewGeneration(p, limit) = q
  BY DEF NewGeneration
<1>2. \A x \in Lease : LET y == [x EXCEPT !.fresh = FALSE]
                       IN  y \in Lease /\ y.status = x.status /\ y.left = x.left
  BY DEF Lease
<1>3. /\ f \in [Attempts -> Lease]
      /\ \A a \in Attempts : f[a].status = p.lease[a].status /\ f[a].left = p.lease[a].left
  BY <1>0, <1>2
<1>4. q \in Pool /\ q.lease = f /\ q.frozen = p.frozen /\ q.openLeft = p.openLeft
  <2>1. 0 \in 0..PhysicalMax
    BY Numbers
  <2>. HIDE DEF f
  <2>. QED  BY <1>0, <1>3, <2>1 DEF Pool
<1>. HIDE DEF q, f
<1>. QED  BY <1>1, <1>3, <1>4 DEF Follows, PoolOK

\* A credit may raise the limit, up to PhysicalMax.
LEMMA CreditedIs ==
    ASSUME NEW p, NEW b, PoolOK(p, b), NEW gone
    PROVE  Follows(p, Credited(p), gone, b)
<1>0. p \in Pool /\ p.limit \in 1..PhysicalMax /\ p.credits \in 0..PhysicalMax
  BY PoolFields DEF PoolOK
<1>1. CASE p.credits + 1 >= p.limit /\ p.limit < PhysicalMax
  <2>1. p.limit + 1 \in 1..PhysicalMax
    BY <1>0, <1>1, Numbers
  <2>. QED  BY <1>1, <2>1, NewGenerationIs DEF Credited
<1>2. CASE ~(p.credits + 1 >= p.limit /\ p.limit < PhysicalMax)
  <2>. DEFINE c == Least(p.credits + 1, PhysicalMax)
  <2>1. c \in 0..PhysicalMax
    BY <1>0, Numbers DEF Least
  <2>2. Credited(p) = [p EXCEPT !.credits = c]
    BY <1>2 DEF Credited
  <2>. HIDE DEF c
  <2>. QED  BY <2>1, <2>2 DEF Follows, PoolOK, Pool
<1>. QED  BY <1>1, <1>2

\* applyCongestion halves the limit, to no less than one.
LEMMA CongestedIs ==
    ASSUME NEW p, NEW b, PoolOK(p, b), NEW x \in Lease, NEW gone
    PROVE  Follows(p, Congested(p, x), gone, b)
<1>0. p.limit \in 1..PhysicalMax
  BY PoolFields DEF PoolOK
<1>1. Most(1, p.limit \div 2) \in 1..PhysicalMax
  <2>1. p.limit \div 2 \in Nat /\ p.limit \div 2 <= p.limit
    BY <1>0
  <2>. QED  BY <1>0, <2>1, Numbers DEF Most
<1>2. CASE x.fresh
  BY <1>1, <1>2, NewGenerationIs DEF Congested
<1>3. CASE ~x.fresh
  BY <1>3 DEF Congested, Follows
<1>. QED  BY <1>2, <1>3

\* The breaker is open for some time, and no longer than it may.
LEMMA OpenForIs ==
    ASSUME NEW p, NEW b \in Nat, PoolOK(p, b), NEW delay \in 0..MaxOpenMs, NEW gone
    PROVE  Follows(p, OpenFor(p, delay), gone, b)
<1>. DEFINE left == IF p.open THEN Most(p.openLeft, delay) ELSE delay
<1>0. p \in Pool /\ p.openLeft \in Int
  BY PoolFields DEF PoolOK
<1>1. left \in Int /\ -MaxBack <= left /\ left <= MaxOpenMs + b
  BY <1>0, Numbers DEF PoolOK, Most
<1>2. OpenFor(p, delay) = [p EXCEPT !.open = TRUE, !.openLeft = left]
  BY DEF OpenFor
<1>. HIDE DEF left
<1>3. LET q == [p EXCEPT !.open = TRUE, !.openLeft = left]
      IN  q \in Pool /\ q.lease = p.lease /\ q.frozen = p.frozen /\ q.openLeft = left
  BY <1>0, <1>1 DEF Pool
<1>. QED  BY <1>1, <1>2, <1>3 DEF Follows, PoolOK

\* openBreaker, which counts the failure or opens the breaker.
LEMMA OpenBreakerIs ==
    ASSUME NEW p, NEW b \in Nat, PoolOK(p, b), NEW x \in Lease,
           NEW delay \in RetryAfters \cup {NoDelay}, NEW gone
    PROVE  Follows(p, OpenBreaker(p, x, delay), gone, b)
<1>. DEFINE failures == p.failures + 1
            budget == FailureBudgets[p.backoff + 1]
            elapsed == Most(1, CallLeaseMs - x.left)
            exponential == Least(MaxOpenMs, 5 * elapsed * 2^p.backoff)
            d == IF delay = NoDelay THEN exponential ELSE delay
            q == OpenFor(p, d)
            k == Least(q.backoff + 1, Len(FailureBudgets) - 1)
<1>0. p \in Pool /\ p.failures \in Nat /\ p.backoff \in 0..(Len(FailureBudgets) - 1)
  BY PoolFields DEF PoolOK
<1>1. OpenBreaker(p, x, delay) =
        IF delay = NoDelay /\ failures < budget THEN [p EXCEPT !.failures = failures]
        ELSE [q EXCEPT !.backoff = k, !.failures = 0]
  BY DEF OpenBreaker
<1>2. d \in 0..MaxOpenMs
  <2>1. elapsed \in Nat
    BY Numbers DEF Most, Lease
  <2>2. 2^p.backoff \in Nat
    BY <1>0, PowersAssumption
  <2>. DEFINE e == 2^p.backoff
  <2>3. e \in Nat
    BY <2>2
  <2>. HIDE DEF elapsed, e
  <2>4. 5 * elapsed * e \in Nat
    BY <2>1, <2>3
  <2>5. exponential \in 0..MaxOpenMs
    BY <2>4, Numbers DEF Least, e
  <2>6. RetryAfters \subseteq 0..MaxOpenMs
    BY ProviderAssumption
  <2>. QED  BY <2>5, <2>6
<1>. HIDE DEF d
<1>3. Follows(p, q, gone, b)
  BY <1>2, OpenForIs
<1>4. PoolOK(q, b)
  BY <1>3 DEF Follows
<1>. HIDE DEF q, budget
<1>5. k \in 0..(Len(FailureBudgets) - 1)
  BY <1>4, PoolFields, Numbers DEF PoolOK, Least
<1>. HIDE DEF k
<1>6. Follows(q, [q EXCEPT !.backoff = k, !.failures = 0], gone, b)
  BY <1>4, <1>5 DEF Follows, PoolOK, Pool
<1>7. Follows(p, [p EXCEPT !.failures = failures], gone, b)
  BY <1>0 DEF Follows, PoolOK, Pool
<1>. QED  BY <1>1, <1>3, <1>6, <1>7, FollowsTwice

\* A probe that succeeded closes the breaker.
LEMMA ClosedBreakerIs ==
    ASSUME NEW p, NEW b \in Nat, PoolOK(p, b), NEW gone
    PROVE  Follows(p, ClosedBreaker(p), gone, b)
<1>1. 0 \in 0..(Len(FailureBudgets) - 1) /\ -MaxBack <= 0 /\ 0 <= MaxOpenMs + b
  BY Numbers
<1>2. LET q == ClosedBreaker(p)
      IN  q \in Pool /\ q.lease = p.lease /\ q.frozen = p.frozen /\ q.openLeft = 0
  <2>1. p \in Pool
    BY DEF PoolOK
  <2>2. [p EXCEPT !.open = FALSE, !.openLeft = 0, !.failures = 0, !.backoff = 0] \in Pool
    <3>. DEFINE q == [p EXCEPT !.open = FALSE, !.openLeft = 0]
                r == [q EXCEPT !.failures = 0, !.backoff = 0]
    <3>1. q \in Pool
      <4>1. \A c \in BOOLEAN, i \in Int : [p EXCEPT !.open = c, !.openLeft = i] \in Pool
        BY <2>1 DEF Pool
      <4>2. FALSE \in BOOLEAN /\ 0 \in Int
        OBVIOUS
      <4>. QED  BY <4>1, <4>2, Zenon
    <3>2. r = [p EXCEPT !.open = FALSE, !.openLeft = 0, !.failures = 0, !.backoff = 0]
      BY <2>1 DEF Pool
    <3>. HIDE DEF q
    <3>3. r \in Pool
      BY <1>1, <3>1 DEF Pool
    <3>. QED  BY <3>2, <3>3
  <2>. QED  BY <2>1, <2>2 DEF ClosedBreaker, Pool
<1>. QED  BY <1>1, <1>2 DEF Follows, PoolOK

\* refreshCapacityFrozen leaves the clock's freeze alone.
LEMMA RefreshedIs ==
    ASSUME NEW p, NEW b, PoolOK(p, b), NEW gone
    PROVE  Follows(p, Refreshed(p), gone, b)
<1>. DEFINE z == IF p.frozen = "clock" THEN p.frozen
                 ELSE IF Occupied(p) > p.limit THEN "capacity" ELSE "no"
<1>1. z \in {"no", "capacity", "clock"} /\ (p.frozen = "clock" => z = "clock")
  OBVIOUS
<1>2. Refreshed(p) = [p EXCEPT !.frozen = z]
  BY DEF Refreshed
<1>. HIDE DEF z
<1>. QED  BY <1>1, <1>2 DEF Follows, PoolOK, Pool

\* completeLeaseExclusive changes no lease but that of its attempt.
LEMMA CompletedIs ==
    ASSUME NEW p, NEW b \in Nat, PoolOK(p, b), NEW a \in Attempts, NEW outcome \in Outcomes,
           NEW delay \in RetryAfters \cup {NoDelay}
    PROVE  Follows(p, Completed(p, a, outcome, delay), {a}, b)
<1>. DEFINE x == p.lease[a]
            rest == Without(p, {a})
            uncertain == [p EXCEPT !.lease[a].status = "uncertain", !.lease[a].left = GraceMs]
            credited == IF p.frozen = "no" /\ x.fresh THEN Credited(rest) ELSE rest
            succeeded == IF p.probe = a THEN ClosedBreaker(credited) ELSE credited
            congested == RetryAfter(Congested(rest, x), delay)
            slowed == IF p.probe = a THEN OpenBreaker(congested, x, delay) ELSE congested
            failed == OpenBreaker(rest, x, delay)
<1>0. x \in Lease
  BY PoolFields DEF PoolOK
<1>1. Follows(p, rest, {a}, b)
  BY WithoutIs
<1>2. PoolOK(rest, b)
  BY <1>1 DEF Follows
<1>3. Follows(p, uncertain, {a}, b)
  <2>. DEFINE y == [[x EXCEPT !.status = "uncertain"] EXCEPT !.left = GraceMs]
              f == [p.lease EXCEPT ![a] = y]
  <2>1. p \in Pool /\ p.lease \in [Attempts -> Lease]
    BY PoolFields DEF PoolOK
  <2>2. y \in Lease /\ y.status = "uncertain"
    <3>. DEFINE z == [x EXCEPT !.status = "uncertain"]
    <3>1. z \in Lease /\ z.status = "uncertain"
      BY <1>0 DEF Lease
    <3>. HIDE DEF z
    <3>2. [z EXCEPT !.left = GraceMs] \in Lease /\ [z EXCEPT !.left = GraceMs].status = "uncertain"
      BY <3>1, Numbers DEF Lease
    <3>. QED  BY <3>2 DEF z
  <2>3. uncertain = [p EXCEPT !.lease = f]
    BY <2>1 DEF Pool
  <2>. HIDE DEF y
  <2>5. /\ f \in [Attempts -> Lease] /\ f[a].status = "uncertain"
        /\ \A c \in Attempts \ {a} : f[c] = p.lease[c]
    BY <2>1, <2>2
  <2>6. uncertain = [p EXCEPT !.lease = f]
    BY <2>3
  <2>. HIDE DEF f, uncertain
  <2>7. uncertain \in Pool /\ uncertain.lease = f /\ uncertain.frozen = p.frozen /\ uncertain.openLeft = p.openLeft
    BY <2>1, <2>5, <2>6 DEF Pool
  <2>. QED  BY <2>5, <2>7 DEF Follows, PoolOK
<1>4. Follows(p, succeeded, {a}, b)
  <2>1. Follows(rest, credited, {a}, b)
    BY <1>2, CreditedIs DEF Follows
  <2>2. PoolOK(credited, b)
    BY <2>1 DEF Follows
  <2>. HIDE DEF credited, rest
  <2>3. Follows(credited, succeeded, {a}, b)
    BY <2>2, ClosedBreakerIs DEF Follows
  <2>. QED  BY <1>1, <2>1, <2>3, FollowsTwice
<1>5. Follows(p, slowed, {a}, b)
  <2>. DEFINE c == Congested(rest, x)
  <2>1. Follows(rest, c, {a}, b)
    BY <1>0, <1>2, CongestedIs
  <2>2. PoolOK(c, b)
    BY <2>1 DEF Follows
  <2>. HIDE DEF c, rest
  <2>3. Follows(c, congested, {a}, b)
    <3>1. delay /= NoDelay => delay \in 0..MaxOpenMs
      BY ProviderAssumption
    <3>2. CASE delay = NoDelay
      BY <2>2, <3>2 DEF c, RetryAfter, Follows
    <3>3. CASE delay /= NoDelay
      BY <2>2, <3>1, <3>3, OpenForIs DEF c, RetryAfter
    <3>. QED  BY <3>2, <3>3
  <2>4. PoolOK(congested, b)
    BY <2>3 DEF Follows
  <2>. HIDE DEF congested
  <2>5. Follows(congested, slowed, {a}, b)
    <3>1. CASE p.probe = a
      BY <1>0, <2>4, <3>1, OpenBreakerIs
    <3>2. CASE p.probe /= a
      BY <2>4, <3>2, FollowsItself
    <3>. QED  BY <3>1, <3>2
  <2>. QED  BY <1>1, <2>1, <2>3, <2>5, FollowsTwice
<1>6. Follows(p, failed, {a}, b)
  <2>. HIDE DEF rest
  <2>1. Follows(rest, failed, {a}, b)
    BY <1>0, <1>2, OpenBreakerIs
  <2>. QED  BY <1>1, <2>1, FollowsTwice
<1>7. \A q : Follows(p, q, {a}, b) => Follows(p, [q EXCEPT !.probe = None], {a}, b)
  BY ProbeIs, FollowsTwice DEF Follows
<1>8. \A q : Follows(p, q, {a}, b) => Follows(p, Refreshed(q), {a}, b)
  <2>1. ASSUME NEW q, Follows(p, q, {a}, b) PROVE Follows(p, Refreshed(q), {a}, b)
    <3>1. PoolOK(q, b)
      BY <2>1 DEF Follows
    <3>. QED  BY <2>1, <3>1, RefreshedIs, FollowsTwice
  <2>. QED  BY <2>1
<1>9. \/ Completed(p, a, outcome, delay) = Refreshed(uncertain)
      \/ Completed(p, a, outcome, delay) = Refreshed([succeeded EXCEPT !.probe = None])
      \/ Completed(p, a, outcome, delay) = Refreshed([slowed EXCEPT !.probe = None])
      \/ Completed(p, a, outcome, delay) = Refreshed([failed EXCEPT !.probe = None])
      \/ Completed(p, a, outcome, delay) = Refreshed(rest)
  BY DEF Completed
<1>. HIDE DEF uncertain, succeeded, slowed, failed, rest
<1>. QED  BY <1>1, <1>3, <1>4, <1>5, <1>6, <1>7, <1>8, <1>9

\* publishProviderControlState writes the pool, and moves openUntilMs at most.
LEMMA PublishIs ==
    ASSUME NEW p, NEW b \in Nat, PoolOK(p, b), NEW observed \in Int, -b <= observed,
           Publish(p, observed)
    PROVE  /\ drift' = observed /\ PoolOK(pool', b)
           /\ pool'.lease = p.lease /\ pool'.frozen = p.frozen
<1>. DEFINE left == IF p.open THEN Most(p.openLeft, -observed) ELSE p.openLeft
<1>0. p \in Pool /\ p.openLeft \in Int
  BY PoolFields DEF PoolOK
<1>1. left \in Int /\ -MaxBack <= left /\ left <= MaxOpenMs + b
  BY <1>0, Numbers DEF PoolOK, Most
<1>2. drift' = observed /\ pool' = [p EXCEPT !.openLeft = left]
  BY DEF Publish
<1>. HIDE DEF left
<1>3. LET q == [p EXCEPT !.openLeft = left]
      IN  q \in Pool /\ q.lease = p.lease /\ q.frozen = p.frozen /\ q.openLeft = left
  BY <1>0, <1>1 DEF Pool
<1>. QED  BY <1>1, <1>2, <1>3 DEF PoolOK

-----------------------------------------------------------------------------
(* What a step leaves alone. *)

\* What the clock was set back by is a number.
LEMMA BackIs ==
    ASSUME Shape
    PROVE  Back \in Nat /\ drift \in Int /\ -Back <= drift /\ -Back <= 0 /\ PoolOK(pool, Back)
           /\ Observed \in Int /\ -Back <= Observed /\ backs \in Nat
<1>1. backs \in Nat
  BY Numbers DEF Shape
<1>2. MaxBack * backs \in Nat
  BY <1>1, Numbers
<1>3. Back \in Nat
  BY <1>2 DEF Back
<1>. QED  BY <1>1, <1>3 DEF Shape, Observed, Least

\* A step that hands out no permit and begins no operation.
LEMMA StepInv ==
    ASSUME ProviderInv, NEW gone,
           PoolOK(pool', Back), drift' \in Int, -Back <= drift',
           owner' \in [by : Owners \cup {None}, left : Int],
           local' \in [Owners -> [fence : BOOLEAN, left : Int]],
           op' \in [Owners -> Operation], OperationsOK',
           UNCHANGED <<permits, backs, crashes>>,
           \A a \in Attempts \ gone : /\ pool'.lease[a].status = pool.lease[a].status
                                      /\ pool'.lease[a].left = pool.lease[a].left,
           \A o \in Owners : \A p \in permits[o] : p.attempt \in gone => p.left <= 0,
           \A o \in Owners : op'[o].attempt \in {op[o].attempt, None},
           \A o \in Owners : op'[o].pc = "verify" =>
              \/ op[o].pc = "verify" /\ op'[o].attempt = op[o].attempt /\ op[o].attempt \notin gone
              \/ pool'.lease[op'[o].attempt].status /= "uncertain"
    PROVE  ProviderInv'
<1>1. Back' = Back
  BY DEF Back
<1>2. Shape'
  BY <1>1 DEF ProviderInv, Shape
<1>3. Unique'
  <2>1. \A o, o2 \in Owners : \A p \in permits[o] : op'[o2].attempt /= p.attempt
    <3>1. \A o \in Owners : \A p \in permits[o] : p.attempt \in Attempts
      BY DEF ProviderInv, Shape, Permit
    <3>. QED  BY <3>1, Numbers DEF ProviderInv, Unique
  <2>. QED  BY <2>1 DEF ProviderInv, Unique
<1>4. LeasesOK'
  <2>1. ASSUME NEW o \in Owners, NEW p \in permits[o], p.left > 0
        PROVE  pool'.lease[p.attempt].status = "active" /\ pool'.lease[p.attempt].left >= p.left
    <3>1. p.attempt \in Attempts /\ p.left \in Int
      BY DEF ProviderInv, Shape, Permit
    <3>2. p.attempt \notin gone
      BY <2>1, <3>1
    <3>. QED  BY <2>1, <3>1, <3>2 DEF ProviderInv, LeasesOK
  <2>2. ASSUME NEW o \in Owners, op'[o].pc = "verify"
        PROVE  pool'.lease[op'[o].attempt].status /= "uncertain"
    <3>1. op[o].pc = "verify" => op[o].attempt \in Attempts
      BY DEF ProviderInv, OperationsOK, OperationOK
    <3>. QED  BY <2>2, <3>1 DEF ProviderInv, LeasesOK
  <2>. QED  BY <2>1, <2>2 DEF LeasesOK
<1>. QED  BY <1>2, <1>3, <1>4 DEF ProviderInv

\* The operation of o goes on or ends, and the others are where they were.
OpsStep(o) ==
    /\ op' \in [Owners -> Operation] /\ OperationsOK'
    /\ \A x \in Owners : op'[x].attempt \in {op[x].attempt, None}
    /\ \A x \in Owners : op'[x].pc = "verify" => op'[x] = op[x] /\ x /= o

\* An operation that ends.
LEMMA EndOpIs ==
    ASSUME ProviderInv, NEW o \in Owners, EndOp(o)
    PROVE  OpsStep(o)
<1>0. op \in [Owners -> Operation] /\ OperationsOK
  BY DEF ProviderInv, Shape
<1>1. NoOp \in Operation /\ NoOp.pc = "idle" /\ NoOp.kind = "none" /\ NoOp.attempt = None
  BY DEF NoOp, Operation, Kinds, Steps
<1>2. op' \in [Owners -> Operation] /\ op'[o] = NoOp /\ \A x \in Owners : x /= o => op'[x] = op[x]
  BY <1>0, <1>1 DEF EndOp
<1>3. OperationOK(NoOp)
  BY <1>1 DEF OperationOK
<1>. QED  BY <1>0, <1>1, <1>2, <1>3 DEF OpsStep, OperationsOK

\* An operation that goes on with another step.
LEMMA GotoIs ==
    ASSUME ProviderInv, NEW o \in Owners, NEW pc \in Steps, op' = [op EXCEPT ![o].pc = pc],
           pc /= "verify", pc /= "idle", op[o].pc /= "idle",
           pc \in {"own_again", "claimed_again", "reclaim", "grant"} => op[o].kind = "grant",
           pc \in {"complete", "settle", "thaw"} => op[o].kind = pc
    PROVE  OpsStep(o)
<1>0. op \in [Owners -> Operation] /\ OperationsOK
  BY DEF ProviderInv, Shape
<1>. DEFINE q == [op[o] EXCEPT !.pc = pc]
<1>1. q \in Operation /\ q.pc = pc /\ q.kind = op[o].kind /\ q.attempt = op[o].attempt
  BY <1>0 DEF Operation
<1>2. op' = [op EXCEPT ![o] = q]
  BY <1>0
<1>. HIDE DEF q
<1>3. op' \in [Owners -> Operation] /\ op'[o] = q /\ \A x \in Owners : x /= o => op'[x] = op[x]
  BY <1>0, <1>1, <1>2
<1>4. OperationOK(q)
  <2>1. OperationOK(op[o])
    BY <1>0 DEF OperationsOK
  <2>. QED  BY <1>1, <2>1 DEF OperationOK
<1>. QED  BY <1>0, <1>1, <1>3, <1>4 DEF OpsStep, OperationsOK

\* A step of o that takes leases nobody has a permit for, or that ran out.
LEMMA PoolStep ==
    ASSUME ProviderInv, NEW o \in Owners, OpsStep(o), NEW gone,
           PoolOK(pool', Back), drift' \in Int, -Back <= drift',
           owner' \in [by : Owners \cup {None}, left : Int],
           local' \in [Owners -> [fence : BOOLEAN, left : Int]],
           UNCHANGED <<permits, backs, crashes>>,
           \A a \in Attempts \ gone : /\ pool'.lease[a].status = pool.lease[a].status
                                      /\ pool'.lease[a].left = pool.lease[a].left,
           \A a \in Attempts \cap gone :
              \/ op[o].attempt = a
              \/ pool.lease[a].left <= 0 /\ pool'.lease[a] = NoLease
    PROVE  ProviderInv'
<1>0. NoLease.status = "none"
  BY DEF NoLease
<1>1. ASSUME NEW x \in Owners, NEW p \in permits[x], p.attempt \in gone PROVE p.left <= 0
  <2>1. p.attempt \in Attempts /\ p.left \in Int /\ op[o].attempt /= p.attempt
    BY DEF ProviderInv, Shape, Permit, Unique
  <2>2. pool.lease[p.attempt].left <= 0 /\ pool.lease[p.attempt].left \in Int
    BY <1>1, <2>1 DEF ProviderInv, Shape, PoolOK, Pool, Lease
  <2>. QED  BY <2>1, <2>2 DEF ProviderInv, LeasesOK
<1>2. ASSUME NEW x \in Owners, op'[x].pc = "verify"
      PROVE  \/ op[x].pc = "verify" /\ op'[x].attempt = op[x].attempt /\ op[x].attempt \notin gone
             \/ pool'.lease[op'[x].attempt].status /= "uncertain"
  <2>1. op'[x] = op[x] /\ x /= o
    BY <1>2 DEF OpsStep
  <2>2. op[x].attempt \in Attempts /\ op[x].attempt /= None
    BY <1>2, <2>1, Numbers DEF ProviderInv, OperationsOK, OperationOK
  <2>3. op[x].attempt /= op[o].attempt
    BY <2>1, <2>2 DEF ProviderInv, Unique
  <2>. QED  BY <1>0, <1>2, <2>1, <2>2, <2>3
<1>. QED  BY <1>1, <1>2, StepInv DEF OpsStep

\* A step of o that takes no lease.
LEMMA QuietStep ==
    ASSUME ProviderInv, NEW o \in Owners, OpsStep(o),
           PoolOK(pool', Back), drift' \in Int, -Back <= drift',
           owner' \in [by : Owners \cup {None}, left : Int],
           local' \in [Owners -> [fence : BOOLEAN, left : Int]],
           UNCHANGED <<permits, backs, crashes>>,
           \A a \in Attempts : /\ pool'.lease[a].status = pool.lease[a].status
                               /\ pool'.lease[a].left = pool.lease[a].left
    PROVE  ProviderInv'
<1>. DEFINE gone == {}
<1>1. /\ \A a \in Attempts \ gone : /\ pool'.lease[a].status = pool.lease[a].status
                                    /\ pool'.lease[a].left = pool.lease[a].left
      /\ \A a \in Attempts \cap gone : \/ op[o].attempt = a
                                       \/ pool.lease[a].left <= 0 /\ pool'.lease[a] = NoLease
  OBVIOUS
<1>. HIDE DEF gone
<1>. QED  BY <1>1, PoolStep

-----------------------------------------------------------------------------
(* The operations of an admission. *)

\* The step does not lift the freeze of a clock that was set back.
FreezeStays == pool.frozen = "clock" => pool'.frozen = "clock"

\* An operation begins with an attempt that is in nobody's hands, or with none.
LEMMA BeginIs ==
    ASSUME ProviderInv, NEW o \in Owners, NEW kind \in {"grant", "settle", "thaw"},
           NEW a \in Attempts \cup {None}, Begin(o, kind, a),
           kind /= "thaw" => a \in Attempts \ InHand, kind = "thaw" => a = None,
           UNCHANGED <<control, local, permits, faults>>
    PROVE  ProviderInv'
<1>. DEFINE q == [kind |-> kind, pc |-> "own", attempt |-> a]
<1>0. op \in [Owners -> Operation] /\ OperationsOK
  BY DEF ProviderInv, Shape
<1>1. q \in Operation /\ q.pc = "own" /\ q.attempt = a /\ OperationOK(q)
  BY DEF Operation, Kinds, Steps, OperationOK
<1>2. op' = [op EXCEPT ![o] = q] /\ UNCHANGED <<pool, owner, drift, local, permits, backs, crashes>>
  BY DEF Begin, control, faults
<1>. HIDE DEF q
<1>3. op' \in [Owners -> Operation] /\ op'[o] = q /\ \A x \in Owners : x /= o => op'[x] = op[x]
  BY <1>0, <1>1, <1>2
<1>4. Shape' /\ OperationsOK'
  BY <1>0, <1>1, <1>2, <1>3 DEF ProviderInv, Shape, Back, OperationsOK
<1>5. /\ \A x \in Owners : op[x].attempt = a => a = None
      /\ \A x \in Owners : \A p \in permits[x] : p.attempt /= a
  <2>1. \A x \in Owners : \A p \in permits[x] : p.attempt \in Attempts
    BY DEF ProviderInv, Shape, Permit
  <2>2. CASE a = None
    BY <2>1, <2>2, Numbers
  <2>3. CASE a \notin InHand
    BY <2>3 DEF InHand
  <2>. QED  BY <2>2, <2>3
<1>6. Unique'
  BY <1>1, <1>2, <1>3, <1>5 DEF ProviderInv, Unique
<1>7. LeasesOK'
  BY <1>1, <1>2, <1>3 DEF ProviderInv, LeasesOK
<1>. QED  BY <1>4, <1>6, <1>7 DEF ProviderInv

\* acquire, tryAcquire
LEMMA AcquireStep ==
    ASSUME ProviderInv, NEW o \in Owners, Acquire(o)
    PROVE  ProviderInv'
<1>1. PICK a \in Attempts \ InHand : Begin(o, "grant", a)
  BY DEF Acquire
<1>. QED  BY <1>1, BeginIs DEF Acquire

\* settleRecoveredLease, cancelRecoveredLease
LEMMA RecoverStep ==
    ASSUME ProviderInv, NEW o \in Owners, Recover(o)
    PROVE  ProviderInv'
<1>1. PICK a \in Leased(pool) \ InHand : Begin(o, "settle", a)
  BY DEF Recover
<1>2. a \in Attempts \ InHand
  BY <1>1 DEF Leased
<1>. QED  BY <1>1, <1>2, BeginIs DEF Recover

\* clearTimeFrozen
LEMMA ThawStep ==
    ASSUME ProviderInv, NEW o \in Owners, Thaw(o)
    PROVE  ProviderInv'
BY BeginIs DEF Thaw

\* ProviderAdmissionPermit.complete: the permit is gone when its operation begins.
LEMMA CompleteStep ==
    ASSUME ProviderInv, NEW o \in Owners, Complete(o)
    PROVE  ProviderInv'
<1>0. op \in [Owners -> Operation] /\ OperationsOK /\ permits \in [Owners -> SUBSET Permit]
  BY DEF ProviderInv, Shape
<1>1. PICK p \in permits[o] : /\ Begin(o, "complete", p.attempt)
                              /\ permits' = [permits EXCEPT ![o] = @ \ {p}]
  BY DEF Complete
<1>. DEFINE q == [kind |-> "complete", pc |-> "own", attempt |-> p.attempt]
<1>2. p \in Permit /\ p.attempt \in Attempts
  BY <1>0 DEF Permit
<1>3. q \in Operation /\ q.pc = "own" /\ q.attempt = p.attempt /\ OperationOK(q)
  BY <1>2 DEF Operation, Kinds, Steps, OperationOK
<1>4. op' = [op EXCEPT ![o] = q] /\ UNCHANGED <<pool, owner, drift, local, backs, crashes>>
  BY <1>1 DEF Begin, Complete, control, faults
<1>. HIDE DEF q
<1>5. op' \in [Owners -> Operation] /\ op'[o] = q /\ \A x \in Owners : x /= o => op'[x] = op[x]
  BY <1>0, <1>3, <1>4
<1>6. /\ permits' \in [Owners -> SUBSET Permit] /\ permits'[o] = permits[o] \ {p}
      /\ \A x \in Owners : x /= o => permits'[x] = permits[x]
      /\ \A x \in Owners : permits'[x] \subseteq permits[x]
  BY <1>0, <1>1
<1>7. Shape' /\ OperationsOK'
  BY <1>0, <1>3, <1>4, <1>5, <1>6 DEF ProviderInv, Shape, Back, OperationsOK
<1>8. Unique'
  <2>1. ASSUME NEW x \in Owners, NEW y \in Owners, NEW r \in permits'[x]
        PROVE  op'[y].attempt /= r.attempt
    <3>1. r \in permits[x] /\ (x = o => r /= p)
      BY <1>6
    <3>2. r.attempt /= p.attempt
      BY <3>1 DEF ProviderInv, Unique
    <3>. QED  BY <1>3, <1>5, <3>1, <3>2 DEF ProviderInv, Unique
  <2>2. \A x \in Owners : op[x].attempt /= p.attempt
    BY DEF ProviderInv, Unique
  <2>3. \A x, y \in Owners : op'[x].attempt = op'[y].attempt => x = y \/ op'[x].attempt = None
    BY <1>3, <1>5, <2>2 DEF ProviderInv, Unique
  <2>4. \A x, y \in Owners : \A r \in permits'[x], s \in permits'[y] :
          r.attempt = s.attempt => x = y /\ r = s
    BY <1>6 DEF ProviderInv, Unique
  <2>. QED  BY <2>1, <2>3, <2>4 DEF Unique
<1>9. LeasesOK'
  BY <1>3, <1>4, <1>5, <1>6 DEF ProviderInv, LeasesOK
<1>. QED  BY <1>7, <1>8, <1>9 DEF ProviderInv

\* A step of an operation that leaves the control file's pool alone.
LEMMA LocalStep ==
    ASSUME ProviderInv, NEW o \in Owners, OpsStep(o), UNCHANGED <<pool, owner, drift, permits, backs, crashes>>,
           local' \in [Owners -> [fence : BOOLEAN, left : Int]]
    PROVE  ProviderInv'
<1>1. Shape
  BY DEF ProviderInv
<1>2. owner' \in [by : Owners \cup {None}, left : Int]
  BY <1>1 DEF Shape
<1>. QED  BY <1>1, <1>2, BackIs, QuietStep

\* Where an operation goes on once the file is owned.
LEMMA OwnedIs ==
    ASSUME ProviderInv, NEW o \in Owners, op[o].pc \in {"own", "own_again"}
    PROVE  /\ Owned(o) \in Steps /\ Owned(o) \notin {"verify", "idle"}
           /\ Owned(o) \in {"own_again", "claimed_again", "reclaim", "grant"} => op[o].kind = "grant"
           /\ Owned(o) \in {"complete", "settle", "thaw"} => op[o].kind = Owned(o)
<1>1. op[o] \in Operation /\ OperationOK(op[o])
  BY DEF ProviderInv, Shape, OperationsOK
<1>2. op[o].kind \in Kinds
  BY <1>1 DEF Operation
<1>. QED  BY <1>1, <1>2 DEF Owned, At, OperationOK, Kinds, Steps

\* ensureOwner, with the file still owned.
LEMMA KeepOwnerStep ==
    ASSUME ProviderInv, NEW o \in Owners, KeepOwner(o)
    PROVE  ProviderInv'
<1>1. OpsStep(o)
  BY OwnedIs, GotoIs DEF KeepOwner, Goto
<1>. QED  BY <1>1, LocalStep DEF KeepOwner, control, faults, ProviderInv, Shape

\* renewProviderControlOwner
LEMMA RenewOwnerStep ==
    ASSUME ProviderInv, NEW o \in Owners, RenewOwner(o)
    PROVE  ProviderInv' /\ FreezeStays
<1>s. /\ Shape /\ owner \in [by : Owners \cup {None}, left : Int]
      /\ local \in [Owners -> [fence : BOOLEAN, left : Int]] /\ OwnerLeaseMs \in Int
  BY Numbers DEF ProviderInv, Shape
<1>0. op[o].pc \in {"own", "own_again"} /\ UNCHANGED <<permits, backs, crashes>>
  BY DEF RenewOwner, faults
<1>1. CASE HasFence(o) /\ drift >= 0
  <2>1. /\ owner' = [owner EXCEPT !.left = OwnerLeaseMs] /\ local' = [local EXCEPT ![o].left = OwnerLeaseMs]
        /\ Publish(pool, drift) /\ Goto(o, Owned(o))
    BY <1>1 DEF RenewOwner
  <2>2. OpsStep(o)
    BY <1>0, <2>1, OwnedIs, GotoIs DEF Goto
  <2>3. /\ drift' = drift /\ PoolOK(pool', Back) /\ pool'.lease = pool.lease /\ pool'.frozen = pool.frozen
    BY <1>s, <2>1, BackIs, PublishIs
  <2>4. owner' \in [by : Owners \cup {None}, left : Int]
    BY <1>s, <2>1
  <2>5. local' \in [Owners -> [fence : BOOLEAN, left : Int]]
    BY <1>s, <2>1
  <2>. QED  BY <1>0, <1>s, <2>2, <2>3, <2>4, <2>5, BackIs, QuietStep DEF FreezeStays
<1>2. CASE ~(HasFence(o) /\ drift >= 0)
  <2>1. EndOp(o) /\ UNCHANGED <<pool, owner, drift, local>>
    BY <1>2 DEF RenewOwner, control
  <2>. QED  BY <1>0, <1>s, <2>1, EndOpIs, LocalStep DEF FreezeStays
<1>. QED  BY <1>1, <1>2

\* claimProviderControlOwner
LEMMA ClaimOwnerStep ==
    ASSUME ProviderInv, NEW o \in Owners, ClaimOwner(o)
    PROVE  ProviderInv' /\ FreezeStays
<1>s. /\ Shape /\ owner \in [by : Owners \cup {None}, left : Int]
      /\ local \in [Owners -> [fence : BOOLEAN, left : Int]] /\ OwnerLeaseMs \in Int
  BY Numbers DEF ProviderInv, Shape
<1>0. op[o].pc \in {"own", "own_again"} /\ UNCHANGED <<permits, backs, crashes>>
  BY DEF ClaimOwner, faults
<1>1. CASE drift >= 0
  <2>. DEFINE next == IF op[o].pc = "own" THEN "claimed" ELSE "claimed_again"
  <2>1. /\ owner' = [by |-> o, left |-> OwnerLeaseMs]
        /\ local' = [local EXCEPT ![o] = [fence |-> TRUE, left |-> OwnerLeaseMs]]
        /\ Publish([pool EXCEPT !.probe = None], 0)
        /\ op' = [op EXCEPT ![o].pc = next]
    <3>1. op \in [Owners -> Operation]
      BY <1>s DEF Shape
    <3>. QED  BY <1>1, <3>1 DEF ClaimOwner
  <2>2. OpsStep(o)
    <3>1. next \in Steps /\ next \in {"claimed", "claimed_again"} /\ (next = "claimed_again" => op[o].kind = "grant")
      BY <1>0 DEF Steps, ProviderInv, OperationsOK, OperationOK
    <3>. HIDE DEF next
    <3>. QED  BY <1>0, <2>1, <3>1, GotoIs
  <2>3. /\ drift' = 0 /\ PoolOK(pool', Back) /\ pool'.frozen = pool.frozen
        /\ \A a \in Attempts : /\ pool'.lease[a].status = pool.lease[a].status
                               /\ pool'.lease[a].left = pool.lease[a].left
    <3>. DEFINE p == [pool EXCEPT !.probe = None]
    <3>1. PoolOK(p, Back) /\ p.lease = pool.lease /\ p.frozen = pool.frozen
      BY <1>s, BackIs, ProbeIs DEF Follows, PoolOK, Pool
    <3>. HIDE DEF p
    <3>2. drift' = 0 /\ PoolOK(pool', Back) /\ pool'.lease = p.lease /\ pool'.frozen = p.frozen
      <4>1. Publish(p, 0)
        BY <2>1 DEF p
      <4>. QED  BY <1>s, <3>1, <4>1, BackIs, PublishIs
    <3>. QED  BY <3>1, <3>2
  <2>4. owner' \in [by : Owners \cup {None}, left : Int]
    BY <1>s, <2>1
  <2>5. local' \in [Owners -> [fence : BOOLEAN, left : Int]]
    BY <1>s, <2>1
  <2>. QED  BY <1>0, <1>s, <2>2, <2>3, <2>4, <2>5, BackIs, QuietStep DEF FreezeStays
<1>2. CASE ~(drift >= 0)
  <2>1. EndOp(o) /\ UNCHANGED <<pool, owner, drift>>
        /\ local' = [local EXCEPT ![o] = [fence |-> FALSE, left |-> 0]]
    BY <1>2 DEF ClaimOwner, control
  <2>2. local' \in [Owners -> [fence : BOOLEAN, left : Int]]
    BY <1>s, <2>1
  <2>. QED  BY <1>0, <2>1, <2>2, EndOpIs, LocalStep DEF FreezeStays
<1>. QED  BY <1>1, <1>2

\* Expired leases are reclaimed, in a step of o that changes nothing else of the pool.
LEMMA PruneStep ==
    ASSUME ProviderInv, NEW o \in Owners, OpsStep(o),
           IF Pruned(pool) = pool THEN UNCHANGED <<pool, drift>> ELSE Publish(Pruned(pool), Observed),
           UNCHANGED <<owner, permits, backs, crashes>>,
           local' \in [Owners -> [fence : BOOLEAN, left : Int]]
    PROVE  ProviderInv' /\ FreezeStays
<1>s. Shape /\ owner' \in [by : Owners \cup {None}, left : Int]
  BY DEF ProviderInv, Shape
<1>. DEFINE gone == {a \in Leased(pool) : pool.lease[a].left <= 0}
<1>1. /\ Follows(pool, Pruned(pool), gone, Back)
      /\ \A a \in Attempts : a \in gone => Pruned(pool).lease[a] = NoLease
  BY <1>s, BackIs, PrunedIs
<1>2. /\ PoolOK(pool', Back) /\ drift' \in Int /\ -Back <= drift'
      /\ pool'.lease = Pruned(pool).lease /\ pool'.frozen = Pruned(pool).frozen
  <2>1. CASE Pruned(pool) = pool
    BY <1>s, <2>1, BackIs
  <2>2. CASE Pruned(pool) /= pool
    <3>1. PoolOK(Pruned(pool), Back)
      BY <1>1 DEF Follows
    <3>. QED  BY <1>s, <2>2, <3>1, BackIs, PublishIs
  <2>. QED  BY <2>1, <2>2
<1>3. \A a \in Attempts \cap gone : pool.lease[a].left <= 0 /\ pool'.lease[a] = NoLease
  BY <1>1, <1>2
<1>. HIDE DEF gone
<1>4. \A a \in Attempts \ gone : /\ pool'.lease[a].status = pool.lease[a].status
                                 /\ pool'.lease[a].left = pool.lease[a].left
  BY <1>1, <1>2 DEF Follows
<1>5. pool.frozen = "clock" => pool'.frozen = "clock"
  BY <1>1, <1>2 DEF Follows
<1>. QED  BY <1>s, <1>2, <1>3, <1>4, <1>5, PoolStep DEF FreezeStays

\* The claim's receipt is verified, and expired leases are reclaimed.
LEMMA ReconcileLeasesStep ==
    ASSUME ProviderInv, NEW o \in Owners, ReconcileLeases(o)
    PROVE  ProviderInv' /\ FreezeStays
<1>s. local \in [Owners -> [fence : BOOLEAN, left : Int]]
  BY DEF ProviderInv, Shape
<1>0. op[o].pc \in {"claimed", "claimed_again"} /\ UNCHANGED <<owner, permits, backs, crashes>>
  BY DEF ReconcileLeases, faults
<1>1. CASE HasFence(o) /\ (Pruned(pool) = pool \/ MayMutate(o))
  <2>. DEFINE next == IF At(o, "claimed_again") THEN "grant" ELSE Owned(o)
  <2>1. /\ IF Pruned(pool) = pool THEN UNCHANGED <<pool, drift>> ELSE Publish(Pruned(pool), Observed)
        /\ op' = [op EXCEPT ![o].pc = next] /\ UNCHANGED local
    BY <1>1 DEF ReconcileLeases, Goto
  <2>2. /\ next \in Steps /\ next \notin {"verify", "idle"}
        /\ next \in {"own_again", "claimed_again", "reclaim", "grant"} => op[o].kind = "grant"
        /\ next \in {"complete", "settle", "thaw"} => op[o].kind = next
    <3>1. op[o] \in Operation /\ OperationOK(op[o])
      BY DEF ProviderInv, Shape, OperationsOK
    <3>2. op[o].kind \in Kinds
      BY <3>1 DEF Operation
    <3>. QED  BY <1>0, <3>1, <3>2 DEF Owned, At, OperationOK, Kinds, Steps
  <2>. HIDE DEF next
  <2>3. OpsStep(o)
    BY <1>0, <2>1, <2>2, GotoIs
  <2>. QED  BY <1>0, <1>s, <2>1, <2>3, PruneStep
<1>2. CASE ~(HasFence(o) /\ (Pruned(pool) = pool \/ MayMutate(o)))
  <2>1. PICK fence \in {local[o], [fence |-> FALSE, left |-> 0]} : local' = [local EXCEPT ![o] = fence]
    BY <1>2 DEF ReconcileLeases
  <2>2. EndOp(o) /\ UNCHANGED <<pool, drift>>
    BY <1>2 DEF ReconcileLeases
  <2>3. fence \in [fence : BOOLEAN, left : Int]
    <3>1. [fence |-> FALSE, left |-> 0] \in [fence : BOOLEAN, left : Int]
      OBVIOUS
    <3>. QED  BY <1>s, <3>1, Zenon
  <2>4. local' \in [Owners -> [fence : BOOLEAN, left : Int]]
    BY <1>s, <2>1, <2>3
  <2>. QED  BY <1>0, <2>2, <2>4, EndOpIs, LocalStep DEF FreezeStays
<1>. QED  BY <1>1, <1>2

\* freezeForClockRollback, or reclaimExpiredProviderLeases and a first look.
LEMMA ReclaimExpiredStep ==
    ASSUME ProviderInv, NEW o \in Owners, ReclaimExpired(o)
    PROVE  ProviderInv' /\ FreezeStays
<1>s. /\ Shape /\ local \in [Owners -> [fence : BOOLEAN, left : Int]]
      /\ owner \in [by : Owners \cup {None}, left : Int]
  BY DEF ProviderInv, Shape
<1>0. /\ op[o].pc = "reclaim" /\ UNCHANGED <<owner, local, permits, backs, crashes>>
      /\ local' \in [Owners -> [fence : BOOLEAN, left : Int]]
      /\ owner' \in [by : Owners \cup {None}, left : Int]
  BY <1>s DEF ReclaimExpired, At, faults
<1>1. CASE ~MayMutate(o)
  <2>1. EndOp(o) /\ UNCHANGED <<pool, drift>>
    BY <1>1 DEF ReclaimExpired
  <2>. QED  BY <1>0, <2>1, EndOpIs, LocalStep DEF FreezeStays
<1>2. CASE MayMutate(o) /\ drift < 0
  <2>. DEFINE p == [pool EXCEPT !.frozen = "clock"]
  <2>1. Publish(p, drift) /\ EndOp(o)
    BY <1>2 DEF ReclaimExpired
  <2>2. Follows(pool, p, {}, Back) /\ p.frozen = "clock"
    <3>1. pool \in Pool
      BY <1>s DEF Shape, PoolOK
    <3>. QED  BY <1>s, <3>1, BackIs, FreezeIs DEF Pool
  <2>. HIDE DEF p
  <2>3. PoolOK(p, Back) /\ Shape
    BY <1>s, <2>2 DEF Follows
  <2>4. drift' = drift /\ PoolOK(pool', Back) /\ pool'.lease = p.lease /\ pool'.frozen = p.frozen
    BY <2>1, <2>3, BackIs, PublishIs
  <2>5. \A a \in Attempts : pool'.lease[a].status = pool.lease[a].status /\ pool'.lease[a].left = pool.lease[a].left
    BY <2>2, <2>4 DEF Follows
  <2>. QED  BY <1>0, <1>s, <2>1, <2>2, <2>4, <2>5, BackIs, EndOpIs, QuietStep DEF FreezeStays
<1>3. CASE MayMutate(o) /\ ~(drift < 0)
  <2>1. /\ IF Pruned(pool) = pool THEN UNCHANGED <<pool, drift>> ELSE Publish(Pruned(pool), Observed)
        /\ EndOp(o) \/ Goto(o, "own_again")
    BY <1>3 DEF ReclaimExpired
  <2>2. OpsStep(o)
    <3>1. op[o].kind = "grant"
      BY <1>0 DEF ProviderInv, OperationsOK, OperationOK
    <3>2. CASE EndOp(o)
      BY <3>2, EndOpIs
    <3>3. CASE Goto(o, "own_again")
      BY <1>0, <3>1, <3>3, GotoIs DEF Goto, Steps
    <3>. QED  BY <2>1, <3>2, <3>3
  <2>. QED  BY <1>0, <2>1, <2>2, PruneStep
<1>. QED  BY <1>1, <1>2, <1>3

\* tryGrantExclusive writes a lease for the attempt it carries.
LEMMA GrantStep ==
    ASSUME ProviderInv, NEW o \in Owners, Grant(o)
    PROVE  ProviderInv' /\ FreezeStays
<1>s. /\ Shape /\ local \in [Owners -> [fence : BOOLEAN, left : Int]]
      /\ owner \in [by : Owners \cup {None}, left : Int] /\ op \in [Owners -> Operation]
  BY DEF ProviderInv, Shape
<1>0. /\ op[o].pc = "grant" /\ UNCHANGED <<owner, local, permits, backs, crashes>>
      /\ local' \in [Owners -> [fence : BOOLEAN, left : Int]]
      /\ owner' \in [by : Owners \cup {None}, left : Int]
  BY <1>s DEF Grant, At, faults
<1>. DEFINE a0 == op[o].attempt
            f == [pool.lease EXCEPT ![a0] = NewLease]
            pr == IF pool.open THEN a0 ELSE pool.probe
            p == [pool EXCEPT !.lease[a0] = NewLease, !.probe = IF pool.open THEN a0 ELSE @]
<1>a. a0 \in Attempts /\ a0 /= None /\ op[o].kind = "grant"
  BY <1>0, Numbers DEF ProviderInv, OperationsOK, OperationOK
<1>1. CASE EndOp(o) /\ UNCHANGED <<pool, drift>>
  BY <1>0, <1>1, EndOpIs, LocalStep DEF FreezeStays
<1>2. CASE Publish(p, 0) /\ Goto(o, "verify")
  <2>1. NewLease \in Lease /\ NewLease.status = "active"
    BY Numbers DEF NewLease, Lease
  <2>2. pool \in Pool /\ pool.lease \in [Attempts -> Lease] /\ pool.probe \in Attempts \cup {None}
    BY <1>s, PoolFields DEF Shape, PoolOK
  <2>3. /\ f \in [Attempts -> Lease] /\ f[a0] = NewLease /\ \A a \in Attempts \ {a0} : f[a] = pool.lease[a]
        /\ pr \in Attempts \cup {None}
    BY <1>a, <2>1, <2>2
  <2>4. p = [pool EXCEPT !.lease = f, !.probe = pr]
    BY <2>2 DEF Pool
  <2>. HIDE DEF f, pr
  <2>5. p \in Pool /\ p.lease = f /\ p.frozen = pool.frozen /\ p.openLeft = pool.openLeft
    <3>1. LET q == [pool EXCEPT !.lease = f, !.probe = pr]
          IN  q \in Pool /\ q.lease = f /\ q.frozen = pool.frozen /\ q.openLeft = pool.openLeft
      BY <2>2, <2>3 DEF Pool
    <3>. QED  BY <2>4, <3>1
  <2>. HIDE DEF p
  <2>6. PoolOK(p, Back)
    BY <1>s, <2>1, <2>3, <2>5 DEF Shape, PoolOK
  <2>7. drift' = 0 /\ PoolOK(pool', Back) /\ pool'.lease = f /\ pool'.frozen = pool.frozen
    BY <1>s, <1>2, <2>5, <2>6, BackIs, PublishIs
  <2>8. /\ op' \in [Owners -> Operation] /\ OperationsOK'
        /\ op'[o].attempt = a0 /\ \A x \in Owners : x /= o => op'[x] = op[x]
    <3>. DEFINE q == [op[o] EXCEPT !.pc = "verify"]
    <3>1. q \in Operation /\ q.pc = "verify" /\ q.kind = "grant" /\ q.attempt = a0
      BY <1>a, <1>s DEF Operation, Steps
    <3>2. op' = [op EXCEPT ![o] = q]
      BY <1>2, <1>s DEF Goto
    <3>3. OperationOK(q)
      BY <1>a, <3>1 DEF OperationOK
    <3>. HIDE DEF q
    <3>. QED  BY <1>s, <3>1, <3>2, <3>3 DEF ProviderInv, OperationsOK
  <2>. DEFINE gone == {a0}
  <2>9. \A a \in Attempts \ gone : pool'.lease[a].status = pool.lease[a].status /\ pool'.lease[a].left = pool.lease[a].left
    BY <2>3, <2>7
  <2>10. \A x \in Owners : \A q \in permits[x] : q.attempt \in gone => q.left <= 0
    BY DEF ProviderInv, Unique
  <2>11. ASSUME NEW x \in Owners, op'[x].pc = "verify"
         PROVE  \/ op[x].pc = "verify" /\ op'[x].attempt = op[x].attempt /\ op[x].attempt \notin gone
                \/ pool'.lease[op'[x].attempt].status /= "uncertain"
    <3>1. CASE x = o
      BY <1>a, <2>1, <2>3, <2>7, <2>8, <3>1
    <3>2. CASE x /= o
      BY <1>a, <2>8, <2>11, <3>2 DEF ProviderInv, Unique
    <3>. QED  BY <3>1, <3>2
  <2>12. \A x \in Owners : op'[x].attempt \in {op[x].attempt, None}
    BY <2>8
  <2>13. drift' \in Int /\ -Back <= drift'
    BY <1>s, <2>7, BackIs
  <2>. HIDE DEF gone
  <2>14. ProviderInv'
    BY <1>0, <2>7, <2>8, <2>9, <2>10, <2>11, <2>12, <2>13, StepInv
  <2>. QED  BY <2>7, <2>14 DEF FreezeStays
<1>. QED  BY <1>1, <1>2 DEF Grant

\* The permit is handed out, for as long as its lease has left; or nothing is.
LEMMA VerifyGrantStep ==
    ASSUME ProviderInv, NEW o \in Owners, VerifyGrant(o)
    PROVE  ProviderInv' /\ UNCHANGED pool
<1>s. /\ Shape /\ local \in [Owners -> [fence : BOOLEAN, left : Int]] /\ op \in [Owners -> Operation]
      /\ permits \in [Owners -> SUBSET Permit] /\ pool.lease \in [Attempts -> Lease]
  BY PoolFields DEF ProviderInv, Shape, PoolOK
<1>0. op[o].pc = "verify" /\ UNCHANGED <<pool, owner, drift, local, backs, crashes>>
  BY DEF VerifyGrant, At, control, faults
<1>. DEFINE a0 == op[o].attempt
<1>a. a0 \in Attempts /\ a0 /= None /\ op[o].kind = "grant" /\ pool.lease[a0].status /= "uncertain"
  BY <1>0, Numbers DEF ProviderInv, OperationsOK, OperationOK, LeasesOK
<1>1. CASE owner.by = o
  <2>. DEFINE p == [attempt |-> a0, left |-> pool.lease[a0].left]
  <2>1. permits' = [permits EXCEPT ![o] = @ \cup {p}] /\ EndOp(o)
    BY <1>1 DEF VerifyGrant
  <2>2. p \in Permit /\ p.attempt = a0 /\ p.left = pool.lease[a0].left
    BY <1>a, <1>s DEF Permit, Lease
  <2>. HIDE DEF p
  <2>3. /\ permits' \in [Owners -> SUBSET Permit]
        /\ \A x \in Owners : \A q \in permits'[x] : q \in permits[x] \/ (x = o /\ q = p)
    BY <1>s, <2>1, <2>2
  <2>4. OpsStep(o) /\ op'[o].attempt = None /\ op'[o].pc = "idle" /\ \A x \in Owners : x /= o => op'[x] = op[x]
    BY <1>s, <2>1, EndOpIs DEF EndOp, NoOp
  <2>5. Shape' /\ OperationsOK'
    BY <1>0, <2>3, <2>4 DEF ProviderInv, Shape, Back, OpsStep
  <2>6. Unique'
    <3>1. \A x \in Owners : \A q \in permits[x] : q.attempt /= a0 /\ q.attempt /= None
      BY <1>s, Numbers DEF ProviderInv, Unique, Permit
    <3>2. \A x \in Owners : op'[x].attempt /= a0
      BY <1>a, <2>4 DEF ProviderInv, Unique
    <3>3. \A x, y \in Owners : \A q \in permits'[x] : op'[y].attempt /= q.attempt
      BY <2>2, <2>3, <2>4, <3>1, <3>2 DEF ProviderInv, Unique
    <3>4. \A x, y \in Owners : \A q \in permits'[x], r \in permits'[y] :
            q.attempt = r.attempt => x = y /\ q = r
      BY <2>2, <2>3, <3>1 DEF ProviderInv, Unique
    <3>5. \A x, y \in Owners : op'[x].attempt = op'[y].attempt => x = y \/ op'[x].attempt = None
      BY <2>4 DEF ProviderInv, Unique
    <3>. QED  BY <3>3, <3>4, <3>5 DEF Unique
  <2>7. LeasesOK'
    <3>1. p.left > 0 => pool.lease[a0].status = "active"
      <4>1. pool.lease[a0].status = "none" => pool.lease[a0].left = 0
        BY <1>a, <1>s DEF Shape, PoolOK
      <4>2. pool.lease[a0].status \in {"none", "active", "uncertain"} /\ pool.lease[a0].left \in Int
        BY <1>a, <1>s DEF Lease
      <4>. QED  BY <1>a, <2>2, <4>1, <4>2
    <3>2. pool.lease[a0].left \in Int
      BY <1>a, <1>s DEF Lease
    <3>3. ASSUME NEW x \in Owners, NEW q \in permits'[x], q.left > 0
          PROVE  pool.lease[q.attempt].status = "active" /\ pool.lease[q.attempt].left >= q.left
      <4>1. CASE q \in permits[x]
        BY <3>3, <4>1 DEF ProviderInv, LeasesOK
      <4>2. CASE q = p
        BY <2>2, <3>1, <3>2, <3>3, <4>2
      <4>. QED  BY <2>3, <4>1, <4>2
    <3>4. ASSUME NEW x \in Owners, op'[x].pc = "verify"
          PROVE  pool.lease[op'[x].attempt].status /= "uncertain"
      BY <2>4, <3>4 DEF ProviderInv, LeasesOK
    <3>. QED  BY <1>0, <3>3, <3>4 DEF LeasesOK
  <2>. QED  BY <1>0, <2>5, <2>6, <2>7 DEF ProviderInv
<1>2. CASE owner.by /= o /\ a0 \in Leased(pool)
  <2>1. op' = [op EXCEPT ![o].kind = "settle", ![o].pc = "own"] /\ UNCHANGED permits
    BY <1>2 DEF VerifyGrant
  <2>. DEFINE q == [[op[o] EXCEPT !.kind = "settle"] EXCEPT !.pc = "own"]
  <2>2. op' = [op EXCEPT ![o] = q]
    BY <1>s, <2>1
  <2>3. q \in Operation /\ q.pc = "own" /\ q.kind = "settle" /\ q.attempt = a0
    <3>. DEFINE r == [op[o] EXCEPT !.kind = "settle"]
    <3>1. r \in Operation /\ r.kind = "settle" /\ r.attempt = a0
      BY <1>s DEF Operation, Kinds
    <3>. HIDE DEF r
    <3>2. LET t == [r EXCEPT !.pc = "own"]
          IN  t \in Operation /\ t.pc = "own" /\ t.kind = "settle" /\ t.attempt = a0
      BY <3>1 DEF Operation, Steps
    <3>. QED  BY <3>2 DEF r
  <2>. HIDE DEF q
  <2>4. OperationOK(q)
    BY <1>a, <2>3 DEF OperationOK
  <2>5. OpsStep(o)
    BY <1>s, <2>2, <2>3, <2>4 DEF ProviderInv, OpsStep, OperationsOK
  <2>. QED  BY <1>0, <1>s, <2>1, <2>5, LocalStep
<1>3. CASE owner.by /= o /\ a0 \notin Leased(pool)
  <2>1. EndOp(o) /\ UNCHANGED permits
    BY <1>3 DEF VerifyGrant
  <2>. QED  BY <1>0, <1>s, <2>1, EndOpIs, LocalStep
<1>. QED  BY <1>1, <1>2, <1>3

\* A step of o that publishes a pool in which only its own attempt's lease differs.
LEMMA OwnLeaseStep ==
    ASSUME ProviderInv, NEW o \in Owners, OpsStep(o), NEW p, NEW observed \in Int, -Back <= observed,
           Follows(pool, p, {op[o].attempt}, Back), Publish(p, observed),
           UNCHANGED <<owner, local, permits, backs, crashes>>
    PROVE  ProviderInv' /\ FreezeStays
<1>s. /\ Shape /\ local' \in [Owners -> [fence : BOOLEAN, left : Int]]
      /\ owner' \in [by : Owners \cup {None}, left : Int]
  BY DEF ProviderInv, Shape
<1>1. PoolOK(p, Back)
  BY DEF Follows
<1>2. drift' = observed /\ PoolOK(pool', Back) /\ pool'.lease = p.lease /\ pool'.frozen = p.frozen
  BY <1>s, <1>1, BackIs, PublishIs
<1>. DEFINE gone == {op[o].attempt}
<1>3. /\ \A a \in Attempts \ gone : pool'.lease[a].status = pool.lease[a].status /\ pool'.lease[a].left = pool.lease[a].left
      /\ \A a \in Attempts \cap gone : op[o].attempt = a
  BY <1>2 DEF Follows
<1>. HIDE DEF gone
<1>4. ProviderInv'
  BY <1>s, <1>2, <1>3, PoolStep
<1>5. FreezeStays
  BY <1>2 DEF Follows, FreezeStays
<1>. QED  BY <1>4, <1>5

\* completeLeaseExclusive
LEMMA CompleteLeaseStep ==
    ASSUME ProviderInv, NEW o \in Owners, CompleteLease(o)
    PROVE  ProviderInv' /\ FreezeStays
<1>s. Shape /\ local \in [Owners -> [fence : BOOLEAN, left : Int]]
  BY DEF ProviderInv, Shape
<1>0. op[o].pc = "complete" /\ OpsStep(o) /\ UNCHANGED <<owner, local, permits, backs, crashes>>
  BY EndOpIs DEF CompleteLease, At, faults
<1>a. op[o].attempt \in Attempts
  BY <1>0 DEF ProviderInv, OperationsOK, OperationOK
<1>1. CASE UNCHANGED <<pool, drift>>
  BY <1>0, <1>1, <1>s, LocalStep DEF FreezeStays
<1>2. CASE Publish(pool, drift)
  BY <1>0, <1>2, <1>s, BackIs, FollowsItself, OwnLeaseStep
<1>3. ASSUME NEW outcome \in Outcomes, NEW delay \in RetryAfters \cup {NoDelay},
             Publish(Completed(pool, op[o].attempt, outcome, delay), Observed)
      PROVE  ProviderInv' /\ FreezeStays
  BY <1>0, <1>3, <1>a, <1>s, BackIs, CompletedIs, OwnLeaseStep
<1>. QED  BY <1>1, <1>2, <1>3 DEF CompleteLease

\* settleRecoveredProviderLease
LEMMA SettleRecoveredStep ==
    ASSUME ProviderInv, NEW o \in Owners, SettleRecovered(o)
    PROVE  ProviderInv' /\ FreezeStays
<1>s. Shape /\ local \in [Owners -> [fence : BOOLEAN, left : Int]]
  BY DEF ProviderInv, Shape
<1>0. op[o].pc = "settle" /\ OpsStep(o) /\ UNCHANGED <<owner, local, permits, backs, crashes>>
  BY EndOpIs DEF SettleRecovered, At, faults
<1>1. CASE UNCHANGED <<pool, drift>>
  BY <1>0, <1>1, <1>s, LocalStep DEF FreezeStays
<1>. DEFINE a0 == op[o].attempt
            w == Without(pool, {a0})
            pr == IF w.probe = a0 THEN None ELSE w.probe
<1>2. CASE Publish([w EXCEPT !.probe = IF @ = a0 THEN None ELSE @], Observed)
  <2>1. Follows(pool, w, {a0}, Back)
    BY <1>s, BackIs, WithoutIs
  <2>2. PoolOK(w, Back)
    BY <2>1 DEF Follows
  <2>3. pr \in Attempts \cup {None} /\ Publish([w EXCEPT !.probe = pr], Observed)
    BY <1>2, <2>2, PoolFields DEF PoolOK
  <2>. HIDE DEF w, pr
  <2>4. Follows(w, [w EXCEPT !.probe = pr], {a0}, Back)
    BY <2>2, <2>3, ProbeIs
  <2>5. Follows(pool, [w EXCEPT !.probe = pr], {a0}, Back)
    BY <2>1, <2>4, FollowsTwice
  <2>. QED  BY <1>0, <1>s, <2>3, <2>5, BackIs, OwnLeaseStep
<1>. QED  BY <1>1, <1>2 DEF SettleRecovered

\* clearProviderTimeFrozen
LEMMA ClearTimeFrozenStep ==
    ASSUME ProviderInv, NEW o \in Owners, ClearTimeFrozen(o)
    PROVE  ProviderInv' /\ op[o].kind = "thaw"
<1>s. /\ Shape /\ local \in [Owners -> [fence : BOOLEAN, left : Int]]
      /\ owner \in [by : Owners \cup {None}, left : Int]
  BY DEF ProviderInv, Shape
<1>0. op[o].pc = "thaw" /\ OpsStep(o) /\ UNCHANGED <<owner, local, permits, backs, crashes>>
  BY EndOpIs DEF ClearTimeFrozen, At, faults
<1>k. op[o].kind = "thaw"
  BY <1>0 DEF ProviderInv, OperationsOK, OperationOK
<1>1. CASE UNCHANGED <<pool, drift>>
  BY <1>0, <1>1, <1>s, <1>k, LocalStep
<1>. DEFINE p == [pool EXCEPT !.frozen = "no"]
<1>2. CASE Publish(p, 0)
  <2>1. PoolOK(p, Back) /\ p.lease = pool.lease
    BY <1>s DEF Shape, PoolOK, Pool
  <2>. HIDE DEF p
  <2>2. drift' = 0 /\ PoolOK(pool', Back) /\ pool'.lease = pool.lease
    BY <1>2, <1>s, <2>1, BackIs, PublishIs
  <2>. QED  BY <1>0, <1>s, <1>k, <2>2, BackIs, QuietStep
<1>. QED  BY <1>1, <1>2 DEF ClearTimeFrozen

-----------------------------------------------------------------------------
(* The initial state, the operator's maintenance, time and crashes. *)

\* The file starts with an empty pool, and nobody has anything in hand.
LEMMA InitInv == Init => ProviderInv
<1>. SUFFICES ASSUME Init PROVE ProviderInv
  OBVIOUS
<1>. DEFINE f == [a \in Attempts |-> NoLease]
<1>1. NoLease \in Lease /\ NoLease.status = "none" /\ NoLease.left = 0
  BY DEF NoLease, Lease
<1>2. f \in [Attempts -> Lease]
  BY <1>1
<1>3. /\ InitialLimit \in 1..PhysicalMax /\ 0 \in 0..PhysicalMax
      /\ 0 \in 0..(Len(FailureBudgets) - 1) /\ -MaxBack <= 0
  BY ProviderAssumption, Numbers
<1>4. Back = 0 /\ backs \in 0..MaxBacks /\ crashes \in 0..MaxCrashes
  BY Numbers DEF Init, Back
<1>5. PoolOK(pool, Back)
  <2>. HIDE DEF f
  <2>1. pool = [limit |-> InitialLimit, credits |-> 0, lease |-> f, open |-> FALSE, openLeft |-> 0,
                failures |-> 0, backoff |-> 0, probe |-> None, frozen |-> "no"]
    BY DEF Init, InitialPool, f
  <2>2. pool \in Pool /\ pool.openLeft = 0 /\ pool.lease = f
    BY <1>2, <1>3, <2>1 DEF Pool
  <2>3. \A a \in Attempts : pool.lease[a].left = 0
    BY <1>1, <2>2 DEF f
  <2>. QED  BY <1>3, <1>4, <2>2, <2>3, Numbers DEF PoolOK
<1>6. NoOp \in Operation /\ NoOp.attempt = None /\ NoOp.pc = "idle" /\ OperationOK(NoOp)
  BY DEF NoOp, Operation, Kinds, Steps, OperationOK
<1>7. /\ \A o \in Owners : op[o] = NoOp /\ permits[o] = {}
      /\ op \in [Owners -> Operation] /\ permits \in [Owners -> SUBSET Permit]
      /\ local \in [Owners -> [fence : BOOLEAN, left : Int]]
      /\ owner \in [by : Owners \cup {None}, left : Int]
      /\ drift = 0
  BY <1>6 DEF Init
<1>8. Shape
  BY <1>4, <1>5, <1>7 DEF Shape
<1>9. OperationsOK /\ Unique /\ LeasesOK
  BY <1>6, <1>7 DEF OperationsOK, Unique, LeasesOK
<1>. QED  BY <1>8, <1>9 DEF ProviderInv

\* maintainExpiredUncertainProviderLease takes a lease nobody can have a permit for.
LEMMA MaintainStep ==
    ASSUME ProviderInv, Maintain
    PROVE  ProviderInv' /\ FreezeStays
<1>s. Shape /\ Back \in Nat /\ drift \in Int /\ -Back <= drift /\ PoolOK(pool, Back)
  BY BackIs DEF ProviderInv
<1>1. PICK a \in Leased(pool) :
          /\ pool.lease[a].status = "uncertain" /\ pool.lease[a].left <= 0
          /\ pool' = [Without(pool, {a}) EXCEPT !.probe = IF @ = a THEN None ELSE @]
  BY DEF Maintain
<1>a. a \in Attempts
  BY <1>1 DEF Leased
<1>. DEFINE gone == {a}
            w == Without(pool, gone)
            pr == IF w.probe = a THEN None ELSE w.probe
<1>2. Follows(pool, w, gone, Back) /\ w.lease[a] = NoLease
  BY <1>a, <1>s, WithoutIs
<1>3. PoolOK(w, Back)
  BY <1>2 DEF Follows
<1>4. pr \in Attempts \cup {None} /\ pool' = [w EXCEPT !.probe = pr]
  BY <1>1, <1>3, PoolFields DEF PoolOK
<1>. HIDE DEF w, pr
<1>5. Follows(w, pool', gone, Back) /\ pool'.lease = w.lease
  BY <1>3, <1>4, ProbeIs
<1>6. Follows(pool, pool', gone, Back) /\ pool'.lease[a].status = "none"
  BY <1>2, <1>5, FollowsTwice DEF NoLease
<1>7. UNCHANGED <<drift, local, op, permits, backs, crashes>> /\ owner' \in [by : Owners \cup {None}, left : Int]
  BY DEF Maintain, faults
<1>8. \A o \in Owners : \A p \in permits[o] : p.attempt \in gone => p.left <= 0
  <2>1. \A o \in Owners : \A p \in permits[o] : p.left \in Int
    BY DEF ProviderInv, Shape, Permit
  <2>. QED  BY <1>1, <2>1 DEF ProviderInv, LeasesOK
<1>9. \A o \in Owners : op'[o].pc = "verify" =>
          \/ op[o].pc = "verify" /\ op'[o].attempt = op[o].attempt /\ op[o].attempt \notin gone
          \/ pool'.lease[op'[o].attempt].status /= "uncertain"
  BY <1>6, <1>7
<1>10. /\ PoolOK(pool', Back)
       /\ \A c \in Attempts \ gone : /\ pool'.lease[c].status = pool.lease[c].status
                                     /\ pool'.lease[c].left = pool.lease[c].left
       /\ FreezeStays
  BY <1>6 DEF Follows, FreezeStays
<1>11. /\ local' \in [Owners -> [fence : BOOLEAN, left : Int]] /\ op' \in [Owners -> Operation]
       /\ OperationsOK' /\ \A o \in Owners : op'[o].attempt \in {op[o].attempt, None}
  BY <1>7 DEF ProviderInv, Shape, OperationsOK
<1>. HIDE DEF gone
<1>. QED  BY <1>s, <1>7, <1>8, <1>9, <1>10, <1>11, StepInv

\* A process ends: what it had in hand is in nobody's, its leases stay in the file.
LEMMA CrashStep ==
    ASSUME ProviderInv, NEW o \in Owners, Crash(o)
    PROVE  ProviderInv' /\ UNCHANGED pool
<1>1. /\ UNCHANGED <<pool, owner, drift, backs>> /\ crashes' \in 0..MaxCrashes /\ Back' = Back
  BY Numbers DEF Crash, control, ProviderInv, Shape, Back
<1>2. /\ op' \in [Owners -> Operation] /\ OperationsOK'
      /\ \A x \in Owners : op'[x].attempt \in {op[x].attempt, None}
      /\ \A x \in Owners : op'[x].pc = "verify" => op'[x] = op[x]
  BY EndOpIs DEF Crash, OpsStep
<1>3. /\ permits' \in [Owners -> SUBSET Permit]
      /\ \A x \in Owners : permits'[x] \subseteq permits[x]
  BY DEF Crash, ProviderInv, Shape
<1>4. local' \in [Owners -> [fence : BOOLEAN, left : Int]]
  BY DEF Crash, ProviderInv, Shape
<1>5. Shape'
  BY <1>1, <1>2, <1>3, <1>4 DEF ProviderInv, Shape
<1>6. Unique'
  <2>1. \A x \in Owners : \A p \in permits[x] : p.attempt \in Attempts
    BY DEF ProviderInv, Shape, Permit
  <2>. QED  BY <1>2, <1>3, <2>1, Numbers DEF ProviderInv, Unique
<1>7. LeasesOK'
  BY <1>1, <1>2, <1>3 DEF ProviderInv, LeasesOK
<1>. QED  BY <1>1, <1>2, <1>5, <1>6, <1>7 DEF ProviderInv

\* The lease of an attempt, when times move by f.
Moved(a, f) ==
    IF a \in Leased(pool) THEN [pool.lease[a] EXCEPT !.left = f[pool.lease[a].left]] ELSE pool.lease[a]

\* Shift, of a function of the times.
ShiftedBy(f) ==
    /\ owner' = [owner EXCEPT !.left = f[owner.left]]
    /\ local' = [o \in Owners |->
                   [local[o] EXCEPT !.left = IF local[o].fence THEN f[local[o].left] ELSE 0]]
    /\ pool' = [pool EXCEPT !.openLeft = IF pool.open THEN f[pool.openLeft] ELSE 0,
                            !.lease = [a \in Attempts |-> Moved(a, f)]]

\* Every time of the file and of the admissions moves by f.
LEMMA ShiftIs ==
    ASSUME Shape, NEW f \in [Int -> Int], NEW b \in Nat, ShiftedBy(f),
           -MaxBack <= f[pool.openLeft], f[pool.openLeft] <= MaxOpenMs + b
    PROVE  /\ owner' \in [by : Owners \cup {None}, left : Int]
           /\ local' \in [Owners -> [fence : BOOLEAN, left : Int]]
           /\ PoolOK(pool', b)
           /\ \A a \in Attempts :
                 /\ pool'.lease[a].status = pool.lease[a].status
                 /\ pool.lease[a].status /= "none" => pool'.lease[a].left = f[pool.lease[a].left]
           /\ FreezeStays
<1>1. owner' \in [by : Owners \cup {None}, left : Int]
  BY DEF Shape, ShiftedBy
<1>2. local' \in [Owners -> [fence : BOOLEAN, left : Int]]
  <2>1. \A o \in Owners : local[o] \in [fence : BOOLEAN, left : Int]
    BY DEF Shape
  <2>2. \A x \in [fence : BOOLEAN, left : Int], i \in Int :
           [x EXCEPT !.left = i] \in [fence : BOOLEAN, left : Int]
    OBVIOUS
  <2>. DEFINE l(o) == IF local[o].fence THEN f[local[o].left] ELSE 0
  <2>3. \A o \in Owners : l(o) \in Int
    BY <2>1
  <2>4. local' = [o \in Owners |-> [local[o] EXCEPT !.left = l(o)]]
    BY DEF ShiftedBy
  <2>. HIDE DEF l
  <2>. QED  BY <2>1, <2>2, <2>3, <2>4
<1>. DEFINE g == [a \in Attempts |-> Moved(a, f)]
            left == IF pool.open THEN f[pool.openLeft] ELSE 0
<1>3. pool \in Pool /\ pool.lease \in [Attempts -> Lease] /\ pool.openLeft \in Int
  BY PoolFields DEF Shape, PoolOK
<1>4. \A x \in Lease, i \in Int : LET y == [x EXCEPT !.left = i]
                                  IN  y \in Lease /\ y.status = x.status /\ y.left = i
  BY DEF Lease
<1>5. pool' = [pool EXCEPT !.openLeft = left, !.lease = g]
  BY DEF ShiftedBy
<1>6. \A a \in Attempts :
         /\ Moved(a, f) \in Lease /\ Moved(a, f).status = pool.lease[a].status
         /\ pool.lease[a].status /= "none" => Moved(a, f).left = f[pool.lease[a].left]
         /\ pool.lease[a].status = "none" => Moved(a, f).left = pool.lease[a].left
  <2>1. SUFFICES ASSUME NEW a \in Attempts
                 PROVE  /\ Moved(a, f) \in Lease /\ Moved(a, f).status = pool.lease[a].status
                        /\ pool.lease[a].status /= "none" => Moved(a, f).left = f[pool.lease[a].left]
                        /\ pool.lease[a].status = "none" => Moved(a, f).left = pool.lease[a].left
    OBVIOUS
  <2>2. pool.lease[a] \in Lease /\ f[pool.lease[a].left] \in Int
    BY <1>3 DEF Lease
  <2>. QED  BY <1>4, <2>2 DEF Moved, Leased
<1>7. left \in Int /\ -MaxBack <= left /\ left <= MaxOpenMs + b
  <2>1. f[pool.openLeft] \in Int
    BY <1>3
  <2>2. CASE pool.open
    BY <2>1, <2>2
  <2>3. CASE ~pool.open
    BY <2>3, Numbers
  <2>. QED  BY <2>2, <2>3
<1>8. /\ g \in [Attempts -> Lease]
      /\ \A a \in Attempts : g[a] = Moved(a, f)
  BY <1>6
<1>. HIDE DEF g, left
<1>9. pool' \in Pool /\ pool'.lease = g /\ pool'.openLeft = left /\ pool'.frozen = pool.frozen
  BY <1>3, <1>5, <1>7, <1>8 DEF Pool
<1>10. PoolOK(pool', b)
  BY <1>6, <1>7, <1>8, <1>9 DEF PoolOK, Shape
<1>. QED  BY <1>1, <1>2, <1>6, <1>8, <1>9, <1>10 DEF FreezeStays

\* Time passes: a permit loses no less of its time than its lease does.
LEMMA TickStep ==
    ASSUME ProviderInv, Tick
    PROVE  ProviderInv' /\ FreezeStays
<1>s. /\ Shape /\ Back \in Nat /\ drift \in Int /\ -Back <= drift /\ -Back <= 0 /\ PoolOK(pool, Back)
      /\ pool \in Pool /\ pool.openLeft \in Int /\ owner.left \in Int
      /\ local \in [Owners -> [fence : BOOLEAN, left : Int]] /\ pool.lease \in [Attempts -> Lease]
  BY BackIs, PoolFields DEF ProviderInv, Shape, PoolOK
<1>. DEFINE f == [i \in Int |-> Later(i)]
<1>1. \A i \in Int : /\ Later(i) \in Int /\ -MaxBack <= Later(i) /\ i - 1 <= Later(i)
                     /\ Later(i) <= i \/ Later(i) <= 0
  BY Numbers DEF Later, Most
<1>2. f \in [Int -> Int] /\ \A i \in Int : f[i] = Later(i)
  BY <1>1
<1>3. ShiftedBy(f)
  <2>1. \A a \in Attempts : pool.lease[a].left \in Int
    BY <1>s DEF Lease
  <2>2. owner' = [owner EXCEPT !.left = f[owner.left]]
    BY <1>2, <1>s DEF Tick, Shift
  <2>3. local' = [o \in Owners |->
                   [local[o] EXCEPT !.left = IF local[o].fence THEN f[local[o].left] ELSE 0]]
    BY <1>2, <1>s DEF Tick, Shift
  <2>4. \A a \in Attempts :
           (IF a \in Leased(pool) THEN [pool.lease[a] EXCEPT !.left = Later(pool.lease[a].left)]
            ELSE pool.lease[a]) = Moved(a, f)
    BY <1>2, <2>1 DEF Moved
  <2>5. [a \in Attempts |->
           IF a \in Leased(pool) THEN [pool.lease[a] EXCEPT !.left = Later(pool.lease[a].left)]
           ELSE pool.lease[a]] = [a \in Attempts |-> Moved(a, f)]
    BY <2>4
  <2>6. f[pool.openLeft] = Later(pool.openLeft)
    BY <1>2, <1>s
  <2>7. pool' = [pool EXCEPT
                   !.openLeft = IF pool.open THEN Later(pool.openLeft) ELSE 0,
                   !.lease = [a \in Attempts |->
                      IF a \in Leased(pool) THEN [pool.lease[a] EXCEPT !.left = Later(pool.lease[a].left)]
                      ELSE pool.lease[a]]]
    BY DEF Tick, Shift
  <2>8. pool' = [pool EXCEPT !.openLeft = IF pool.open THEN f[pool.openLeft] ELSE 0,
                             !.lease = [a \in Attempts |-> Moved(a, f)]]
    BY <2>5, <2>6, <2>7
  <2>. QED  BY <2>2, <2>3, <2>8 DEF ShiftedBy
<1>. HIDE DEF f
<1>6. -MaxBack <= f[pool.openLeft] /\ f[pool.openLeft] <= MaxOpenMs + Back
  <2>1. pool.openLeft <= MaxOpenMs + Back
    BY <1>s DEF PoolOK
  <2>2. f[pool.openLeft] = Later(pool.openLeft) /\ pool.openLeft \in Int /\ Back \in Nat
    BY <1>2, <1>s
  <2>3. /\ Later(pool.openLeft) \in Int /\ -MaxBack <= Later(pool.openLeft)
        /\ Later(pool.openLeft) <= pool.openLeft \/ Later(pool.openLeft) <= 0
    BY <1>1, <2>2
  <2>. DEFINE l == pool.openLeft
              m == Later(pool.openLeft)
  <2>4. /\ l \in Int /\ m \in Int /\ Back \in Nat /\ -MaxBack <= m
        /\ m <= l \/ m <= 0
        /\ l <= MaxOpenMs + Back
    BY <2>1, <2>2, <2>3
  <2>. HIDE DEF l, m
  <2>5. m <= MaxOpenMs + Back
    BY <2>4, Numbers
  <2>. QED  BY <2>2, <2>4, <2>5 DEF m
<1>7. /\ owner' \in [by : Owners \cup {None}, left : Int]
      /\ local' \in [Owners -> [fence : BOOLEAN, left : Int]]
      /\ PoolOK(pool', Back)
      /\ \A a \in Attempts :
            /\ pool'.lease[a].status = pool.lease[a].status
            /\ pool.lease[a].status /= "none" => pool'.lease[a].left = f[pool.lease[a].left]
      /\ FreezeStays
  BY <1>s, <1>2, <1>3, <1>6, ShiftIs
<1>8. drift' \in Int /\ -Back <= drift'
  BY <1>s, Numbers DEF Tick, Least
<1>9. UNCHANGED <<op, backs, crashes>> /\ Back' = Back
  BY DEF Tick, faults, Back
<1>. DEFINE aged(p) == [p EXCEPT !.left = Most(@ - 1, 0)]
<1>10. \A p \in Permit : /\ aged(p) \in Permit /\ aged(p).attempt = p.attempt
                         /\ aged(p).left > 0 => p.left > 0 /\ aged(p).left = p.left - 1
  BY DEF Permit, Most
<1>11. permits' = [o \in Owners |-> {aged(p) : p \in permits[o]}] /\ permits \in [Owners -> SUBSET Permit]
  BY DEF Tick, ProviderInv, Shape
<1>. HIDE DEF aged
<1>12. /\ permits' \in [Owners -> SUBSET Permit]
       /\ \A o \in Owners : \A q \in permits'[o] : \E p \in permits[o] : q = aged(p)
  BY <1>10, <1>11
<1>13. Shape'
  BY <1>7, <1>8, <1>9, <1>12 DEF ProviderInv, Shape
<1>14. Unique'
  <2>0. \A o \in Owners : permits[o] \subseteq Permit
    BY <1>11
  <2>1. ASSUME NEW o \in Owners, NEW o2 \in Owners, NEW q \in permits'[o]
        PROVE  op'[o2].attempt /= q.attempt
    <3>1. PICK p \in permits[o] : q = aged(p)
      BY <1>12
    <3>. QED  BY <1>9, <1>10, <2>0, <3>1 DEF ProviderInv, Unique
  <2>2. ASSUME NEW o \in Owners, NEW o2 \in Owners, NEW q \in permits'[o], NEW q2 \in permits'[o2],
               q.attempt = q2.attempt
        PROVE  o = o2 /\ q = q2
    <3>1. PICK p \in permits[o] : q = aged(p)
      BY <1>12
    <3>2. PICK p2 \in permits[o2] : q2 = aged(p2)
      BY <1>12
    <3>3. p.attempt = p2.attempt
      BY <1>10, <2>0, <2>2, <3>1, <3>2
    <3>. QED  BY <3>1, <3>2, <3>3 DEF ProviderInv, Unique
  <2>. QED  BY <1>9, <2>1, <2>2 DEF ProviderInv, Unique
<1>15. LeasesOK'
  <2>1. ASSUME NEW o \in Owners, NEW q \in permits'[o], q.left > 0
        PROVE  pool'.lease[q.attempt].status = "active" /\ pool'.lease[q.attempt].left >= q.left
    <3>1. PICK p \in permits[o] : q = aged(p)
      BY <1>12
    <3>2. p \in Permit /\ p.attempt \in Attempts /\ p.left \in Int
      BY <1>11 DEF Permit
    <3>3. q.attempt = p.attempt /\ p.left > 0 /\ q.left = p.left - 1
      BY <1>10, <2>1, <3>1, <3>2
    <3>4. pool.lease[p.attempt].status = "active" /\ pool.lease[p.attempt].left >= p.left
      BY <3>3 DEF ProviderInv, LeasesOK
    <3>5. pool.lease[p.attempt].left \in Int
      BY <1>s, <3>2 DEF Lease
    <3>6. pool'.lease[p.attempt].left = Later(pool.lease[p.attempt].left)
      BY <1>2, <1>7, <3>2, <3>4, <3>5
    <3>. QED  BY <1>1, <1>7, <3>2, <3>3, <3>4, <3>5, <3>6
  <2>2. ASSUME NEW o \in Owners, op[o].pc = "verify"
        PROVE  pool'.lease[op[o].attempt].status /= "uncertain"
    <3>1. op[o].attempt \in Attempts
      BY <2>2 DEF ProviderInv, OperationsOK, OperationOK
    <3>. QED  BY <1>7, <2>2, <3>1 DEF ProviderInv, LeasesOK
  <2>. QED  BY <1>9, <2>1, <2>2 DEF LeasesOK
<1>. QED  BY <1>7, <1>9, <1>13, <1>14, <1>15 DEF ProviderInv, OperationsOK

\* The wall clock is set back: every lease lasts longer, and no permit does.
LEMMA ClockBackStep ==
    ASSUME ProviderInv, ClockBack
    PROVE  ProviderInv' /\ FreezeStays
<1>s. /\ Shape /\ Back \in Nat /\ drift \in Int /\ -Back <= drift /\ -Back <= 0 /\ PoolOK(pool, Back)
      /\ pool \in Pool /\ pool.openLeft \in Int /\ owner.left \in Int /\ backs \in Nat
      /\ local \in [Owners -> [fence : BOOLEAN, left : Int]] /\ pool.lease \in [Attempts -> Lease]
  BY BackIs, PoolFields DEF ProviderInv, Shape, PoolOK
<1>. DEFINE f == [i \in Int |-> i + MaxBack]
<1>2. f \in [Int -> Int] /\ \A i \in Int : f[i] = i + MaxBack
  BY Numbers
<1>3. ShiftedBy(f)
  <2>1. \A a \in Attempts : pool.lease[a].left \in Int
    BY <1>s DEF Lease
  <2>2. owner' = [owner EXCEPT !.left = f[owner.left]]
    BY <1>2, <1>s DEF ClockBack, Shift
  <2>3. local' = [o \in Owners |->
                   [local[o] EXCEPT !.left = IF local[o].fence THEN f[local[o].left] ELSE 0]]
    BY <1>2, <1>s DEF ClockBack, Shift
  <2>4. \A a \in Attempts :
           (IF a \in Leased(pool) THEN [pool.lease[a] EXCEPT !.left = pool.lease[a].left + MaxBack]
            ELSE pool.lease[a]) = Moved(a, f)
    BY <1>2, <2>1 DEF Moved
  <2>5. [a \in Attempts |->
           IF a \in Leased(pool) THEN [pool.lease[a] EXCEPT !.left = pool.lease[a].left + MaxBack]
           ELSE pool.lease[a]] = [a \in Attempts |-> Moved(a, f)]
    BY <2>4
  <2>6. f[pool.openLeft] = pool.openLeft + MaxBack
    BY <1>2, <1>s
  <2>7. pool' = [pool EXCEPT
                   !.openLeft = IF pool.open THEN pool.openLeft + MaxBack ELSE 0,
                   !.lease = [a \in Attempts |->
                      IF a \in Leased(pool) THEN [pool.lease[a] EXCEPT !.left = pool.lease[a].left + MaxBack]
                      ELSE pool.lease[a]]]
    BY DEF ClockBack, Shift
  <2>8. pool' = [pool EXCEPT !.openLeft = IF pool.open THEN f[pool.openLeft] ELSE 0,
                             !.lease = [a \in Attempts |-> Moved(a, f)]]
    BY <2>5, <2>6, <2>7
  <2>. QED  BY <2>2, <2>3, <2>8 DEF ShiftedBy
<1>. HIDE DEF f
<1>. DEFINE b == Back + MaxBack
<1>6. b \in Nat /\ -MaxBack <= f[pool.openLeft] /\ f[pool.openLeft] <= MaxOpenMs + b
  <2>1. pool.openLeft <= MaxOpenMs + Back /\ -MaxBack <= pool.openLeft
    BY <1>s DEF PoolOK
  <2>2. f[pool.openLeft] = pool.openLeft + MaxBack
    BY <1>2, <1>s
  <2>. DEFINE l == pool.openLeft
  <2>3. l \in Int /\ Back \in Nat /\ -MaxBack <= l /\ l <= MaxOpenMs + Back
    BY <1>s, <2>1
  <2>. HIDE DEF l
  <2>4. b \in Nat /\ -MaxBack <= l + MaxBack /\ l + MaxBack <= MaxOpenMs + b
    BY <2>3, Numbers
  <2>. QED  BY <2>2, <2>4 DEF l
<1>9. UNCHANGED <<op, permits, crashes>> /\ backs' = backs + 1 /\ backs' \in 0..MaxBacks /\ drift' = drift - MaxBack
  <2>1. /\ UNCHANGED <<op, permits, crashes>> /\ backs' = backs + 1 /\ drift' = drift - MaxBack
        /\ backs < MaxBacks
    BY DEF ClockBack
  <2>. QED  BY <1>s, <2>1, Numbers
<1>10. Back' = b
  <2>1. MaxBack * (backs + 1) = MaxBack * backs + MaxBack
    BY <1>s, Numbers
  <2>. QED  BY <1>9, <2>1 DEF Back
<1>. HIDE DEF b
<1>7. /\ owner' \in [by : Owners \cup {None}, left : Int]
      /\ local' \in [Owners -> [fence : BOOLEAN, left : Int]]
      /\ PoolOK(pool', b)
      /\ \A a \in Attempts :
            /\ pool'.lease[a].status = pool.lease[a].status
            /\ pool.lease[a].status /= "none" => pool'.lease[a].left = f[pool.lease[a].left]
      /\ FreezeStays
  BY <1>s, <1>2, <1>3, <1>6, ShiftIs
<1>8. drift' \in Int /\ -b <= drift'
  BY <1>9, <1>s, Numbers DEF b
<1>13. Shape'
  BY <1>7, <1>8, <1>9, <1>10 DEF ProviderInv, Shape
<1>15. LeasesOK'
  <2>1. ASSUME NEW o \in Owners, NEW p \in permits[o], p.left > 0
        PROVE  pool'.lease[p.attempt].status = "active" /\ pool'.lease[p.attempt].left >= p.left
    <3>2. p.attempt \in Attempts /\ p.left \in Int
      BY DEF ProviderInv, Shape, Permit
    <3>4. pool.lease[p.attempt].status = "active" /\ pool.lease[p.attempt].left >= p.left
      BY <2>1 DEF ProviderInv, LeasesOK
    <3>5. pool.lease[p.attempt].left \in Int
      BY <1>s, <3>2 DEF Lease
    <3>6. pool'.lease[p.attempt].left = pool.lease[p.attempt].left + MaxBack
      BY <1>2, <1>7, <3>2, <3>4, <3>5
    <3>. QED  BY <1>7, <3>2, <3>4, <3>5, <3>6, Numbers
  <2>2. ASSUME NEW o \in Owners, op[o].pc = "verify"
        PROVE  pool'.lease[op[o].attempt].status /= "uncertain"
    <3>1. op[o].attempt \in Attempts
      BY <2>2 DEF ProviderInv, OperationsOK, OperationOK
    <3>. QED  BY <1>7, <2>2, <3>1 DEF ProviderInv, LeasesOK
  <2>. QED  BY <1>9, <2>1, <2>2 DEF LeasesOK
<1>. QED  BY <1>7, <1>9, <1>13, <1>15 DEF ProviderInv, OperationsOK, Unique

-----------------------------------------------------------------------------
(* The theorems. *)

\* Only an operator's operation lifts the freeze of a clock that was set back.
ThawedByOperator ==
    pool.frozen = "clock" /\ pool'.frozen /= "clock" => \E o \in Owners : op[o].kind = "thaw"

\* Every step keeps the invariant.
LEMMA NextInv ==
    ASSUME ProviderInv, [Next]_vars
    PROVE  ProviderInv' /\ ThawedByOperator
<1>1. ASSUME NEW o \in Owners, Acquire(o) \/ Complete(o) \/ Recover(o) \/ Thaw(o)
      PROVE  ProviderInv' /\ UNCHANGED pool
  <2>1. UNCHANGED pool
    BY <1>1 DEF Acquire, Complete, Recover, Thaw, control
  <2>. QED  BY <1>1, <2>1, AcquireStep, CompleteStep, RecoverStep, ThawStep
<1>2. ASSUME NEW o \in Owners, Works(o)
      PROVE  ProviderInv' /\ (FreezeStays \/ op[o].kind = "thaw")
  <2>1. CASE KeepOwner(o)
    <3>1. UNCHANGED pool
      BY <2>1 DEF KeepOwner, control
    <3>. QED  BY <2>1, <3>1, KeepOwnerStep DEF FreezeStays
  <2>2. CASE RenewOwner(o)
    BY <2>2, RenewOwnerStep
  <2>3. CASE ClaimOwner(o)
    BY <2>3, ClaimOwnerStep
  <2>4. CASE ReconcileLeases(o)
    BY <2>4, ReconcileLeasesStep
  <2>5. CASE ReclaimExpired(o)
    BY <2>5, ReclaimExpiredStep
  <2>6. CASE Grant(o)
    BY <2>6, GrantStep
  <2>7. CASE VerifyGrant(o)
    BY <2>7, VerifyGrantStep DEF FreezeStays
  <2>8. CASE CompleteLease(o)
    BY <2>8, CompleteLeaseStep
  <2>9. CASE SettleRecovered(o)
    BY <2>9, SettleRecoveredStep
  <2>10. CASE ClearTimeFrozen(o)
    BY <2>10, ClearTimeFrozenStep
  <2>. QED  BY <1>2, <2>1, <2>2, <2>3, <2>4, <2>5, <2>6, <2>7, <2>8, <2>9, <2>10 DEF Works
<1>3. CASE UNCHANGED vars
  BY <1>3 DEF vars, ProviderInv, Shape, Back, OperationsOK, Unique, LeasesOK, ThawedByOperator
<1>. QED
  BY <1>1, <1>2, <1>3, CrashStep, MaintainStep, TickStep, ClockBackStep
     DEF Next, FreezeStays, ThawedByOperator

\* What the invariant says of a state.
LEMMA InvImplies ==
    ASSUME ProviderInv
    PROVE  TypeOK /\ PermitHoldsSlot
<1>1. TypeOK
  <2>1. /\ pool \in Pool /\ -MaxBack <= pool.openLeft /\ pool.openLeft <= MaxOpenMs + Back
        /\ backs \in 0..MaxBacks
    BY DEF ProviderInv, Shape, PoolOK
  <2>2. MaxBack * backs <= MaxBack * MaxBacks /\ MaxBack * backs \in Nat /\ MaxBack * MaxBacks \in Nat
    BY <2>1, Numbers
  <2>. DEFINE all == MaxBack * MaxBacks
  <2>3. Back <= all /\ Back \in Nat /\ all \in Nat
    BY <2>2 DEF Back
  <2>. HIDE DEF all
  <2>4. pool.openLeft \in -MaxBack..(MaxOpenMs + all)
    BY <2>1, <2>3, PoolFields, Numbers
  <2>5. owner.by \in Owners \cup {None} /\ \A o \in Owners : op[o].attempt \in Attempts \cup {None}
    BY DEF ProviderInv, Shape, Operation
  <2>. QED  BY <2>1, <2>4, <2>5, PoolFields DEF TypeOK, all, Lease
<1>2. PermitHoldsSlot
  BY DEF ProviderInv, LeasesOK, PermitHoldsSlot
<1>. QED  BY <1>1, <1>2

\* The invariant holds in every state the control file and the admissions reach.
THEOREM ProviderInvariant == Spec => []ProviderInv
<1>1. ProviderInv /\ [Next]_vars => ProviderInv'
  BY NextInv
<1>. QED  BY <1>1, InitInv, PTL DEF Spec

\* The control file and the admissions keep the shape the source gives them; the breaker
\* is never open for longer than MAX_BREAKER_OPEN_MS and what the clock was set back by.
THEOREM TypeCorrect == Spec => []TypeOK
<1>1. ProviderInv => TypeOK
  BY InvImplies
<1>. QED  BY <1>1, ProviderInvariant, PTL

\* A permit in hand is a slot taken, for as long as its lease runs: whatever takeovers of the
\* file, reclaims, failed grants, crashes and clocks set back there are.
THEOREM PermitsHoldSlots == Spec => []PermitHoldsSlot
<1>1. ProviderInv => PermitHoldsSlot
  BY InvImplies
<1>. QED  BY <1>1, ProviderInvariant, PTL

\* Only an operator (clearProviderTimeFrozen) lifts the freeze of a clock that was set back;
\* no completion, reclaim, grant or takeover does.
THEOREM OnlyOperatorThaws == Spec => ClockFreezeStays
<1>1. ProviderInv /\ [Next]_vars => [ThawedByOperator]_vars
  BY NextInv
<1>2. Spec => [][ThawedByOperator]_vars
  BY <1>1, ProviderInvariant, PTL DEF Spec
<1>. QED  BY <1>2 DEF ClockFreezeStays, ThawedByOperator

==============================================================================
