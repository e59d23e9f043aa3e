-------------------------- MODULE ProviderAdmission --------------------------
(***************************************************************************)
(* The queue of a ProviderAdmission (provider-admission.ts): how the        *)
(* requests of one process wait for a provider's slots.  One provider is    *)
(* modelled, in an admission whose control is live.                         *)
(*                                                                         *)
(* Everything runs on one thread and is interleaved at awaits.  Whoever     *)
(* touches the control file waits for its turn in controlTail: tail holds   *)
(* these operations, the first one runs.  A pump grants slots to queued     *)
(* requests one after the other and has at most one operation in tail;      *)
(* calls of pump() made meanwhile wait for it and then pump again.          *)
(*                                                                         *)
(* The control file, which ProviderControlStore is about, is reduced to the *)
(* leases of this process's requests, the strays (leases nobody here holds  *)
(* a permit for: of a process that died, or that could not be given back)   *)
(* and a breaker that is open or not.                                       *)
(***************************************************************************)
EXTENDS Integers, FiniteSets, Sequences

CONSTANTS
    Foreground,  \* the callers of traffic class foreground
    Record,      \* those of class record
    Candidates,  \* the callers that use tryAcquire, which does not queue
    Slots,       \* the limit of the provider
    InitStrays,  \* strays in the beginning
    MaxCancels,  \* bound on callers changing their minds
    MaxFailures, \* bound on operations the store refuses
    MaxOpens,    \* bound on the breaker opening
    MaxWaiters,  \* bound on the calls of pump() that wait
    MayRecover,  \* whether callers settle strays
    MayClose     \* whether the admission may be closed

Requests == Foreground \cup Record
None == "none"

ASSUME AdmissionAssumption ==
    /\ Foreground \cap Record = {} /\ Candidates \subseteq Requests /\ IsFiniteSet(Requests)
    /\ Slots \in Nat \ {0} /\ InitStrays \in 0..Slots
    /\ MaxCancels \in Nat /\ MaxFailures \in Nat /\ MaxOpens \in Nat
    /\ MaxWaiters \in Nat \ {0} /\ MayRecover \in BOOLEAN /\ MayClose \in BOOLEAN
    /\ None \notin Requests

VARIABLES
    queue,     \* runtime.foreground and runtime.record
    req,       \* where a caller's request is
    cancelled, \* the requests in flight that were cancelled
    streak,    \* foregroundStreak
    pumping,   \* whether runtime.pumping is set
    waiters,   \* the calls of pump() that wait for it
    tail,      \* controlTail
    stage,     \* how far its first operation is
    selection, \* the request it grants a slot to
    leased,    \* the requests with a lease in the control file
    strays,    \* the other leases in it
    open,      \* whether the breaker is open
    wakeTimer,
    phase,     \* "open", "closing" or "closed"
    passed,    \* history: permits foreground got while the first record request waited
    before,    \* history: who waited in its lane when a request came, and still does
    cancels, failures, opens

request == <<queue, req, cancelled, before>>
pump == <<pumping, waiters>>
store == <<leased, strays, open>>
counts == <<cancels, failures, opens>>
vars == <<request, streak, pump, tail, stage, selection, store, wakeTimer, phase, passed, counts>>

Lane(r) == IF r \in Foreground THEN "foreground" ELSE "record"
Queued(q) == {r \in Requests : \E i \in DOMAIN q[Lane(r)] : q[Lane(r)][i] = r}
NoneQueued(q) == q.foreground = <<>> /\ q.record = <<>>

\* queue.splice(index, 1)
Spliced(s, index) == [i \in 1..(Len(s) - 1) |-> IF i < index THEN s[i] ELSE s[i + 1]]

\* removeQueuedRequest, of a request that is queued or not.
Removed(q, r) ==
    LET s == q[Lane(r)]
        indexOf == {i \in DOMAIN s : s[i] = r /\ \A j \in 1..(i - 1) : s[j] /= r}
    IN  IF indexOf = {} THEN q
        ELSE [q EXCEPT ![Lane(r)] = Spliced(s, CHOOSE i \in indexOf : TRUE)]

Op(kind, r) == [kind |-> kind, of |-> r]
PumpOp == Op("pump", None)
Running(kinds) == tail /= <<>> /\ Head(tail).kind \in kinds

Full == Cardinality(leased) + strays >= Slots

Init ==
    /\ queue = [foreground |-> <<>>, record |-> <<>>]
    /\ req = [r \in Requests |-> "idle"]
    /\ cancelled = {} /\ before = [r \in Requests |-> {}]
    /\ streak = 0 /\ pumping = FALSE /\ waiters = 0
    /\ tail = <<>> /\ stage = "begin" /\ selection = None
    /\ leased = {} /\ strays = InitStrays /\ open = FALSE
    /\ wakeTimer = FALSE /\ phase = "open"
    /\ passed = 0 /\ cancels = 0 /\ failures = 0 /\ opens = 0

-----------------------------------------------------------------------------
(* pump and pumpExclusive: q is the queue and t the tail of the moment. *)

\* Every waiter pumps once more; those past the bound are left out.
Capped(n) == IF n > MaxWaiters THEN MaxWaiters ELSE n

\* pump(), called: it waits for the running pump, or is the pump itself.
CallPump(q, t) ==
    IF pumping THEN waiters' = Capped(waiters + 1) /\ tail' = t /\ UNCHANGED pumping
    ELSE IF NoneQueued(q) THEN tail' = t /\ UNCHANGED pump
    ELSE pumping' = TRUE /\ tail' = Append(t, PumpOp) /\ UNCHANGED waiters

\* The pump returns, and with work left the first that waited for it pumps again.
PumpReturns(q, t) ==
    IF NoneQueued(q) THEN pumping' = FALSE /\ waiters' = 0 /\ tail' = t
    ELSE IF waiters = 0 THEN pumping' = FALSE /\ tail' = t /\ UNCHANGED waiters
    ELSE waiters' = waiters - 1 /\ tail' = Append(t, PumpOp) /\ UNCHANGED pumping

\* The next round of the pump's loop.
PumpLoops(q, t) ==
    IF NoneQueued(q) THEN PumpReturns(q, t)
    ELSE tail' = Append(t, PumpOp) /\ UNCHANGED pump

NextStage == stage' = "begin" /\ selection' = None

\* A request is over for its caller: nobody waits behind it any more.
Over(gone) ==
    /\ req' = [r \in Requests |-> IF r \in gone THEN "idle" ELSE req[r]]
    /\ cancelled' = cancelled \ gone
    /\ before' = [r \in Requests |-> IF r \in gone THEN {} ELSE before[r] \ gone]

\* The count belongs to the first record request, as long as it waits.
CountPassed(q, permit) ==
    passed' = IF queue.record = <<>> \/ q.record = <<>> \/ Head(q.record) /= Head(queue.record)
              THEN 0
              ELSE IF permit \in Foreground THEN passed + 1 ELSE passed

\* rejectAll, and rejectRequest of one that is not queued.
RejectAll(also) ==
    /\ Over(Queued(queue) \cup also)
    /\ queue' = [foreground |-> <<>>, record |-> <<>>]
    /\ passed' = 0

-----------------------------------------------------------------------------
(* Callers. *)

Arrive(r, state) ==
    /\ phase = "open" /\ req[r] = "idle"
    /\ req' = [req EXCEPT ![r] = state]
    /\ before' = [before EXCEPT ![r] = {s \in Queued(queue) : Lane(s) = Lane(r)}]

Acquire(r) ==
    /\ r \notin Candidates
    /\ Arrive(r, "queued")
    /\ queue' = [queue EXCEPT ![Lane(r)] = Append(@, r)]
    /\ CallPump(queue', tail)
    /\ UNCHANGED <<cancelled, streak, stage, selection, store, wakeTimer, phase, passed, counts>>

TryAcquire(r) ==
    /\ r \in Candidates
    /\ Arrive(r, "trying")
    /\ tail' = Append(tail, Op("try", r))
    /\ UNCHANGED <<queue, cancelled, streak, pump, stage, selection, store, wakeTimer, phase, passed, counts>>

\* cancelQueuedRequest, from the caller's signal.
Cancel(r) ==
    /\ cancels < MaxCancels /\ cancels' = cancels + 1
    /\ req[r] \in {"queued", "granting"} /\ r \notin cancelled /\ r \notin Candidates
    /\ queue' = Removed(queue, r)
    /\ IF req[r] = "granting"
       THEN cancelled' = cancelled \cup {r} /\ UNCHANGED <<req, before>>
       ELSE Over({r})
    /\ CallPump(queue', tail) /\ CountPassed(queue', None)
    /\ UNCHANGED <<streak, stage, selection, store, wakeTimer, phase, failures, opens>>

\* The signal of a candidate is only looked at once it has its slot.
AbortCandidate(r) ==
    /\ cancels < MaxCancels /\ cancels' = cancels + 1
    /\ r \in Candidates /\ req[r] \in {"trying", "granting"} /\ r \notin cancelled
    /\ cancelled' = cancelled \cup {r}
    /\ UNCHANGED <<queue, req, before, streak, pump, tail, stage, selection, store, wakeTimer,
                   phase, passed, failures, opens>>

\* LivePermit.complete: on a closed admission the lease is left to expire.
Complete(r) ==
    /\ req[r] = "permit"
    /\ IF phase = "closed"
       THEN /\ Over({r})
            /\ leased' = leased \ {r} /\ strays' = strays + 1
            /\ CallPump(queue, tail)
       ELSE /\ req' = [req EXCEPT ![r] = "completing"]
            /\ tail' = Append(tail, Op("complete", r))
            /\ UNCHANGED <<cancelled, before, leased, strays, pump>>
    /\ UNCHANGED <<queue, streak, stage, selection, open, wakeTimer, phase, passed, counts>>

-----------------------------------------------------------------------------
(* tryGrantExclusive *)

\* Mutant: a candidate is taken before the queue is looked at.
SelectCandidate(candidate) ==
    IF candidate /= None THEN candidate
    ELSE IF queue.foreground /= <<>> THEN Head(queue.foreground)
    ELSE IF queue.record /= <<>> THEN Head(queue.record) ELSE None

\* selectRequest: a candidate stands behind the requests that are queued.
SelectRequest(candidate) ==
    LET joins(lane) == IF candidate /= None /\ Lane(candidate) = lane THEN <<candidate>> ELSE <<>>
        foreground == queue.foreground \o joins("foreground")
        record == queue.record \o joins("record")
    IN  IF foreground = <<>> /\ record = <<>> THEN None
        ELSE IF foreground = <<>> \/ (record /= <<>> /\ streak >= 2)
        THEN Head(record)
        ELSE Head(foreground)

Selected == LET candidate == Head(tail).of
                chosen == SelectRequest(candidate)
            IN  IF candidate \in {None, chosen} THEN chosen ELSE None

Select ==
    /\ Running({"pump", "try"}) /\ stage = "begin"
    /\ Selected /= None /\ ~open /\ ~Full
    /\ stage' = "granting" /\ selection' = Selected
    /\ req' = [req EXCEPT ![Selected] = "granting"]
    /\ UNCHANGED <<queue, cancelled, before, streak, pump, tail, store, wakeTimer, phase, passed, counts>>

\* No slot: only an open breaker sets a timer.  A candidate goes away with null.
Decline ==
    /\ Running({"pump", "try"}) /\ stage = "begin"
    /\ Selected = None \/ open \/ Full
    /\ wakeTimer' = (wakeTimer \/ (Selected /= None /\ open /\ phase = "open"))
    /\ IF Head(tail).kind = "pump"
       THEN PumpReturns(queue, Tail(tail)) /\ UNCHANGED <<req, cancelled, before>>
       ELSE CallPump(queue, Tail(tail)) /\ Over({Head(tail).of})
    /\ UNCHANGED <<queue, streak, stage, selection, store, phase, passed, counts>>

\* Mutant: the streak is counted after the request has left its queue.
NotedLate(r, candidate) ==
    LET waiting == {Lane(s) : s \in Queued(Removed(queue, r))}
    IN  IF Lane(r) = "record" \/ waiting /= {"foreground", "record"} THEN 0
        ELSE IF streak < 2 THEN streak + 1 ELSE 2

\* noteGrant; a streak above 2 makes no difference.
Noted(r, candidate) ==
    LET waiting == {Lane(s) : s \in Queued(queue) \cup ({candidate} \ {None})}
    IN  IF Lane(r) = "record" \/ waiting /= {"foreground", "record"} THEN 0
        ELSE IF streak < 2 THEN streak + 1 ELSE 2

\* Mutant: a cancelled request is dropped, with the lease that was granted to it.
PumpGrantedAnyway ==
    /\ Running({"pump"}) /\ stage = "granting"
    /\ leased' = leased \cup {selection}
    /\ streak' = Noted(selection, None)
    /\ queue' = Removed(queue, selection)
    /\ CountPassed(queue', None)
    /\ IF selection \in cancelled THEN Over({selection})
       ELSE req' = [req EXCEPT ![selection] = "permit"] /\ UNCHANGED <<cancelled, before>>
    /\ PumpLoops(queue', Tail(tail))
    /\ NextStage
    /\ UNCHANGED <<strays, open, wakeTimer, phase, counts>>

\* The lease is in the control file; a request cancelled meanwhile gives it back.
PumpGranted ==
    /\ Running({"pump"}) /\ stage = "granting"
    /\ LET r == selection IN
         /\ leased' = leased \cup {r}
         /\ streak' = Noted(r, None)
         /\ queue' = Removed(queue, r)
         /\ CountPassed(queue', IF r \in cancelled THEN None ELSE r)
         /\ IF r \in cancelled
            THEN /\ req' = [req EXCEPT ![r] = "undoing"]
                 /\ tail' = Append(Tail(tail), Op("undo", r))
                 /\ UNCHANGED <<before, pump>>
            ELSE /\ req' = [req EXCEPT ![r] = "permit"]
                 /\ before' = [s \in Requests |-> before[s] \ {r}]
                 /\ PumpLoops(queue', Tail(tail))
    /\ NextStage
    /\ UNCHANGED <<cancelled, strays, open, wakeTimer, phase, counts>>

\* Mutant: the signal of a candidate is not looked at again.
CandidateGrantedAnyway ==
    /\ Running({"try"}) /\ stage = "granting"
    /\ leased' = leased \cup {selection}
    /\ streak' = Noted(selection, selection)
    /\ CountPassed(queue, selection)
    /\ req' = [req EXCEPT ![selection] = "permit"]
    /\ tail' = Tail(tail)
    /\ NextStage
    /\ UNCHANGED <<queue, cancelled, before, pump, strays, open, wakeTimer, phase, counts>>

CandidateGranted ==
    /\ Running({"try"}) /\ stage = "granting"
    /\ LET r == selection IN
         /\ leased' = leased \cup {r}
         /\ streak' = Noted(r, r)
         /\ CountPassed(queue, IF r \in cancelled THEN None ELSE r)
         /\ req' = [req EXCEPT ![r] = IF r \in cancelled THEN "undoing" ELSE "permit"]
         /\ tail' = IF r \in cancelled THEN Append(Tail(tail), Op("complete", r)) ELSE Tail(tail)
    /\ NextStage
    /\ UNCHANGED <<queue, cancelled, before, pump, strays, open, wakeTimer, phase, counts>>

\* The file is lost to another owner, or the grant is refused: the pump rejects
\* every request.  A lease that was written and could not be settled stays.
GrantFails ==
    /\ Running({"pump", "try"})
    /\ failures < MaxFailures /\ failures' = failures + 1
    /\ strays' \in IF stage = "granting" /\ ~Full THEN {strays, strays + 1} ELSE {strays}
    /\ IF Head(tail).kind = "pump"
       THEN RejectAll({selection} \ {None}) /\ PumpReturns(queue', Tail(tail))
       ELSE /\ Over({Head(tail).of})
            /\ \/ CallPump(queue, Tail(tail))
               \/ tail' = Tail(tail) /\ UNCHANGED pump
            /\ UNCHANGED <<queue, passed>>
    /\ NextStage
    /\ UNCHANGED <<streak, leased, open, wakeTimer, phase, cancels, opens>>

-----------------------------------------------------------------------------
(* Completing and recovering leases *)

\* completeLeaseExclusive, which leaves the lease when it does not have the file.
LeaseCompleted(r) ==
    /\ leased' = leased \ {r}
    /\ \/ UNCHANGED <<strays, failures>>
       \/ /\ failures < MaxFailures /\ failures' = failures + 1
          /\ strays' = strays + 1

\* Mutant: a permit is given back without looking after the queue.
SettlePermitOnly ==
    /\ Running({"complete"})
    /\ LeaseCompleted(Head(tail).of)
    /\ Over({Head(tail).of})
    /\ tail' = Tail(tail)
    /\ UNCHANGED <<queue, pump, streak, stage, selection, open, opens, wakeTimer, phase, passed, cancels>>

\* settlePermit: whatever became of it, the queue is pumped.
SettlePermit ==
    /\ Running({"complete"})
    /\ LeaseCompleted(Head(tail).of)
    /\ \/ UNCHANGED <<open, opens>>
       \/ opens < MaxOpens /\ opens' = opens + 1 /\ open' = TRUE
    /\ Over({Head(tail).of})
    /\ CallPump(queue, Tail(tail))
    /\ UNCHANGED <<queue, streak, stage, selection, wakeTimer, phase, passed, cancels>>

\* Mutant: the pump ends with the lease it gives back, and is never reset.
UndoGrantAndStop ==
    /\ Running({"undo"})
    /\ LeaseCompleted(Head(tail).of)
    /\ Over({Head(tail).of})
    /\ tail' = Tail(tail)
    /\ UNCHANGED <<queue, passed, pump, streak, stage, selection, open, wakeTimer, phase, cancels, opens>>

\* The pump gives back what it granted to a cancelled request.
UndoGrant ==
    /\ Running({"undo"})
    /\ LeaseCompleted(Head(tail).of)
    /\ IF strays' = strays
       THEN Over({Head(tail).of}) /\ PumpLoops(queue, Tail(tail)) /\ UNCHANGED <<queue, passed>>
       ELSE RejectAll({Head(tail).of}) /\ PumpReturns(queue', Tail(tail))
    /\ UNCHANGED <<streak, stage, selection, open, wakeTimer, phase, cancels, opens>>

\* settleRecoveredLease, cancelRecoveredLease
Recover ==
    /\ MayRecover /\ strays > 0 /\ phase /= "closed"
    /\ \A i \in DOMAIN tail : tail[i].kind /= "recover"
    /\ tail' = Append(tail, Op("recover", None))
    /\ UNCHANGED <<request, streak, pump, stage, selection, store, wakeTimer, phase, passed, counts>>

\* Mutant: a lease that has run out meanwhile is settled all the same.
RecoverSettlesTwice ==
    /\ Running({"recover"}) /\ stage = "begin"
    /\ strays' = strays - 1 /\ stage' = "pumps" /\ CallPump(queue, tail)
    /\ UNCHANGED <<request, streak, selection, leased, open, wakeTimer, phase, passed, counts>>

\* Once settled, the queue is pumped before the operation ends.
RecoverSettles ==
    /\ Running({"recover"}) /\ stage = "begin"
    /\ IF strays > 0
       THEN strays' = strays - 1 /\ stage' = "pumps" /\ CallPump(queue, tail)
       ELSE tail' = Tail(tail) /\ UNCHANGED <<strays, stage, pump>>
    /\ UNCHANGED <<request, streak, selection, leased, open, wakeTimer, phase, passed, counts>>

RecoverReturns ==
    /\ Running({"recover"}) /\ stage = "pumps" /\ ~pumping
    /\ NextStage /\ tail' = Tail(tail)
    /\ UNCHANGED <<request, streak, pump, store, wakeTimer, phase, passed, counts>>

-----------------------------------------------------------------------------
(* Time, and the end. *)

WakeFires ==
    /\ wakeTimer /\ wakeTimer' = FALSE
    /\ CallPump(queue, tail)
    /\ UNCHANGED <<request, streak, stage, selection, store, phase, passed, counts>>

BreakerExpires ==
    /\ open /\ open' = FALSE
    /\ UNCHANGED <<request, streak, pump, tail, stage, selection, leased, strays, wakeTimer, phase, passed, counts>>

\* A lease runs out; the next grant reclaims it.
StrayExpires ==
    /\ strays > 0 /\ strays' = strays - 1
    /\ UNCHANGED <<request, streak, pump, tail, stage, selection, leased, open, wakeTimer, phase, passed, counts>>

\* closeExclusive: every request is cancelled, one after the other, and each
\* cancellation calls pump().
Close ==
    /\ MayClose /\ phase = "open" /\ phase' = "closing"
    /\ wakeTimer' = FALSE
    /\ LET waiting == {r \in Requests : req[r] = "queued"}
           inFlight == {r \in Requests : req[r] = "granting"} \ cancelled
           calls == Cardinality(waiting \cup inFlight)
       IN  /\ req' = [r \in Requests |-> IF r \in waiting THEN "idle" ELSE req[r]]
           /\ cancelled' = cancelled \cup inFlight
           /\ before' = [r \in Requests |-> {}]
           /\ IF pumping THEN waiters' = Capped(waiters + calls) /\ UNCHANGED <<pumping, tail>>
              ELSE IF Cardinality(Queued(queue)) > 1
              THEN pumping' = TRUE /\ waiters' = Capped(calls - 1) /\ tail' = Append(tail, PumpOp)
              ELSE UNCHANGED <<pump, tail>>
    /\ queue' = [foreground |-> <<>>, record |-> <<>>] /\ passed' = 0
    /\ UNCHANGED <<streak, stage, selection, store, counts>>

\* Mutant: closing waits for the pump alone.
CloseEndsEarly ==
    /\ phase = "closing" /\ ~pumping
    /\ phase' = "closed"
    /\ UNCHANGED <<request, streak, pump, tail, stage, selection, store, wakeTimer, passed, counts>>

\* quiesce has returned.
CloseEnds ==
    /\ phase = "closing" /\ tail = <<>> /\ ~pumping
    /\ phase' = "closed"
    /\ UNCHANGED <<request, streak, pump, tail, stage, selection, store, wakeTimer, passed, counts>>

Works ==
    \/ Select \/ Decline \/ PumpGranted \/ CandidateGranted
    \/ SettlePermit \/ UndoGrant \/ RecoverSettles \/ RecoverReturns \/ CloseEnds

Next ==
    \/ \E r \in Requests :
          Acquire(r) \/ TryAcquire(r) \/ Cancel(r) \/ AbortCandidate(r) \/ Complete(r)
    \/ Works \/ GrantFails \/ Recover
    \/ WakeFires \/ BreakerExpires \/ StrayExpires \/ Close

\* Operations on the file end, timers fire, leases run out and calls end.
Spec == Init /\ [][Next]_vars
             /\ WF_vars(Works) /\ WF_vars(WakeFires) /\ WF_vars(BreakerExpires)
             /\ WF_vars(StrayExpires) /\ \A r \in Requests : WF_vars(Complete(r))

-----------------------------------------------------------------------------
(* Properties. *)

\* The queue, its requests and its operations have the shape the source gives them.
TypeOK ==
    /\ \A lane \in {"foreground", "record"} : queue[lane] \in Seq(Requests)
    /\ req \in [Requests -> {"idle", "queued", "trying", "granting", "permit", "completing", "undoing"}]
    /\ cancelled \subseteq Requests /\ before \in [Requests -> SUBSET Requests]
    /\ streak \in 0..2 /\ pumping \in BOOLEAN /\ waiters \in 0..MaxWaiters
    /\ stage \in {"begin", "granting", "pumps"} /\ selection \in Requests \cup {None}
    /\ leased \subseteq Requests /\ strays \in Nat /\ open \in BOOLEAN
    /\ wakeTimer \in BOOLEAN /\ phase \in {"open", "closing", "closed"}
    /\ \A i \in DOMAIN tail : tail[i].of \in Requests \cup {None}

\* A request's lease in the control file is a permit in somebody's hands, or on its way
\* back: cancelling or closing in the middle of a grant leaves none behind and takes none
\* away.  A lease that the store fails to complete, or that is completed after close, is
\* given up: it counts with the strays from then on, until it expires.
LeaseIsHeld ==
    \A r \in Requests : r \in leased <=> req[r] \in {"permit", "completing", "undoing"}

\* Nobody who has cancelled is handed a permit.
CancelledGetsNoPermit == \A r \in cancelled : req[r] /= "permit"

\* While a record request waits, foreground gets at most two permits before it, and
\* one more for every grant cancelled on its way.
RecordTurnComes == passed <= 2 + cancels

\* Within a lane nobody overtakes: who has a permit left nobody waiting that was
\* queued when it came, be it a candidate or a queued request.
LaneInOrder ==
    \A r \in Requests : req[r] = "permit" => before[r] \cap Queued(queue) = {}

\* A closed admission has settled every request.
ClosedIsQuiet ==
    phase = "closed" =>
        /\ NoneQueued(queue)
        /\ \A r \in Requests : req[r] \in {"idle", "permit"}

\* A queued request gets its permit, or an error: no completion, cancellation, failure or
\* breaker timer forgets to call the pump.  There are two exceptions.  The formula names
\* one: settleRecoveredLease holds controlTail while it waits for the pump, whose next
\* operation waits for controlTail (stage = "pumps").  The other is excluded by the
\* constants: strays that fill the slots and expire wake nobody, so InitStrays = 0, and
\* MaxFailures < Slots leaves a slot that comes back by being completed.
QueuedIsServed ==
    \A r \in Requests \ Candidates : req[r] = "queued" ~> req[r] /= "queued" \/ stage = "pumps"

\* Closing ends, unless a recovery waits for the pump (stage = "pumps").
CloseTerminates == phase = "closing" ~> phase = "closed" \/ stage = "pumps"

=============================================================================
