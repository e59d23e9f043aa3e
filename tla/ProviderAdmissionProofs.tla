----------------------- MODULE ProviderAdmissionProofs -----------------------
(***************************************************************************)
(* Proofs about ProviderAdmission, for every number of callers, slots,     *)
(* cancellations and failures.                                             *)
(*                                                                         *)
(* The source keeps the queue, the state of a request and the operations   *)
(* that wait for the control file apart; that they agree, whatever happens *)
(* at an await, is the inductive invariant.  Every operation in controlTail*)
(* is the only one of its request and knows the state the request is in    *)
(* (TailOK), the request being granted stays the first of its lane unless  *)
(* it is cancelled (StageOK), and who came before whom is what the lane    *)
(* says (BeforeOK).                                                        *)
(***************************************************************************)
EXTENDS ProviderAdmission, FiniteSetTheorems, TLAPS

-----------------------------------------------------------------------------
(* The inductive invariant. *)

Lanes == {"foreground", "record"}
States == {"idle", "queued", "trying", "granting", "permit", "completing", "undoing"}
Operation == [kind : {"pump", "try", "complete", "undo", "recover"}, of : Requests \cup {None}]

Shape ==
    /\ queue \in [Lanes -> Seq(Requests)]
    /\ req \in [Requests -> States]
    /\ cancelled \subseteq Requests /\ before \in [Requests -> SUBSET Requests]
    /\ streak \in 0..2 /\ pumping \in BOOLEAN /\ waiters \in 0..MaxWaiters
    /\ stage \in {"begin", "granting", "pumps"} /\ selection \in Requests \cup {None}
    /\ leased \subseteq Requests /\ strays \in Nat /\ open \in BOOLEAN
    /\ wakeTimer \in BOOLEAN /\ phase \in {"open", "closing", "closed"}
    /\ passed \in Nat /\ cancels \in Nat

\* A lane holds each of its requests once.
LanesOK(q) ==
    /\ \A lane \in Lanes : \A i \in DOMAIN q[lane] : Lane(q[lane][i]) = lane
    /\ \A lane \in Lanes : \A i, j \in DOMAIN q[lane] : q[lane][i] = q[lane][j] => i = j

\* What is queued has no permit yet, and was not cancelled.
QueueOK ==
    /\ LanesOK(queue)
    /\ \A r \in Requests : r \in Queued(queue) <=>
          \/ req[r] = "queued"
          \/ req[r] = "granting" /\ r \notin Candidates /\ r \notin cancelled
    /\ \A r \in Requests : req[r] = "queued" => r \notin Candidates
    /\ \A r \in cancelled : req[r] \in {"trying", "granting", "undoing"}

\* The request of an operation is in the state the operation leaves it in.
OperationOK(o, rq) ==
    /\ o.kind \in {"pump", "recover"} <=> o.of = None
    /\ o.kind = "try" => o.of \in Candidates /\ rq[o.of] \in {"trying", "granting"}
    /\ o.kind = "complete" => rq[o.of] \in {"completing", "undoing"}
    /\ o.kind = "undo" => rq[o.of] = "undoing"

OfPump == {"pump", "undo"}

\* One operation per request, one of the pump's, and none without a request that waits for it.
TailFor(t, rq, pumps) ==
    /\ t \in Seq(Operation)
    /\ \A i \in DOMAIN t : OperationOK(t[i], rq)
    /\ \A i, j \in DOMAIN t : t[i].of = t[j].of => i = j \/ t[i].of = None
    /\ \A i, j \in DOMAIN t : t[i].kind \in OfPump /\ t[j].kind \in OfPump => i = j
    /\ \A i \in DOMAIN t : t[i].kind \in OfPump => pumps
    /\ \A r \in Requests : rq[r] \in {"trying", "completing", "undoing"} =>
          \E i \in DOMAIN t : t[i].of = r

TailOK == TailFor(tail, req, pumping)

\* The one request that is being granted a slot; of a lane's queue it is the first.
StageOK ==
    /\ stage = "granting" =>
          /\ Running({"pump", "try"}) /\ selection \in Requests /\ req[selection] = "granting"
          /\ Head(tail).kind = "try" => selection = Head(tail).of
          /\ Head(tail).kind = "pump" => selection \notin Candidates
          /\ Head(tail).kind = "pump" /\ selection \notin cancelled =>
                queue[Lane(selection)] /= <<>> /\ Head(queue[Lane(selection)]) = selection
    /\ stage /= "granting" => selection = None
    /\ stage = "pumps" => Running({"recover"})
    /\ \A r \in Requests : req[r] = "granting" => stage = "granting" /\ selection = r

\* Who came before a request is in front of it, as long as both wait.
BeforeOK ==
    /\ \A r \in Requests : \A s \in before[r] : Lane(s) = Lane(r) /\ req[s] /= "idle"
    /\ \A lane \in Lanes : \A i, j \in DOMAIN queue[lane] :
          queue[lane][j] \in before[queue[lane][i]] => j < i
    /\ \A r \in Requests : req[r] = "permit" \/ (req[r] = "granting" /\ r \in Candidates) =>
          before[r] \cap Queued(queue) = {}

ClosedOK ==
    /\ phase /= "open" => NoneQueued(queue)
    /\ phase = "closed" => tail = <<>> /\ ~pumping

\* The streak lags behind the permits that foreground got by no more than the grants
\* that were cancelled.
PassedOK ==
    /\ passed <= streak + cancels
    /\ queue["record"] = <<>> => passed = 0
    /\ stage = "granting" =>
          /\ selection \in Foreground /\ streak = 2 => passed = 0
          /\ selection \in Foreground /\ selection \in cancelled /\ Head(tail).kind = "pump" =>
                passed = 0 \/ passed < streak + cancels
          /\ selection \in Record /\ (selection \in cancelled \/ Head(tail).kind = "try") => passed = 0

AdmissionInv ==
    Shape /\ QueueOK /\ TailOK /\ StageOK /\ BeforeOK /\ ClosedOK /\ LeaseIsHeld /\ PassedOK

-----------------------------------------------------------------------------
(* Lemmas about lanes. *)

\* A request has one lane.
LEMMA LaneIs ==
    ASSUME NEW r \in Requests
    PROVE  /\ Lane(r) \in Lanes /\ r /= None
           /\ Lane(r) = "foreground" <=> r \in Foreground
           /\ Lane(r) = "record" <=> r \in Record
BY AdmissionAssumption DEF Lane, Lanes, Requests

\* A sequence, one longer.
LEMMA AppendIs ==
    ASSUME NEW S, NEW s \in Seq(S), NEW e \in S
    PROVE  /\ Append(s, e) \in Seq(S) /\ Append(s, e) /= <<>>
           /\ DOMAIN s = 1..Len(s) /\ Len(s) \in Nat /\ DOMAIN Append(s, e) = 1..(Len(s) + 1)
           /\ \A i \in 1..Len(s) : Append(s, e)[i] = s[i]
           /\ Append(s, e)[Len(s) + 1] = e
           /\ s /= <<>> => Head(Append(s, e)) = Head(s)
<1>1. Append(s, e) \in Seq(S) /\ Len(Append(s, e)) = Len(s) + 1 /\ Len(s) \in Nat
  OBVIOUS
<1>2. Append(s, e) /= <<>>
  BY <1>1
<1>3. DOMAIN s = 1..Len(s) /\ DOMAIN Append(s, e) = 1..(Len(s) + 1)
  BY <1>1
<1>4. (\A i \in 1..Len(s) : Append(s, e)[i] = s[i]) /\ Append(s, e)[Len(s) + 1] = e
  OBVIOUS
<1>5. s /= <<>> => Head(Append(s, e)) = Head(s)
  <2>1. ASSUME s /= <<>> PROVE Head(Append(s, e)) = Head(s)
    <3>1. 1 \in 1..Len(s) /\ Head(s) = s[1]
      BY <2>1
    <3>2. Head(Append(s, e)) = Append(s, e)[1]
      BY <1>1, <1>2
    <3>. QED  BY <1>4, <3>1, <3>2
  <2>. QED  BY <2>1
<1>. QED  BY <1>1, <1>2, <1>3, <1>4, <1>5

\* A sequence, without its first element.
LEMMA TailIs ==
    ASSUME NEW S, NEW s \in Seq(S), s /= <<>>
    PROVE  /\ Tail(s) \in Seq(S) /\ Head(s) = s[1] /\ 1 \in DOMAIN s /\ Head(s) \in S
           /\ \A i \in DOMAIN Tail(s) : i + 1 \in DOMAIN s /\ Tail(s)[i] = s[i + 1] /\ i \in Nat /\ i + 1 /= 1
           /\ \A i \in DOMAIN s : i = 1 \/ (i - 1 \in DOMAIN Tail(s) /\ Tail(s)[i - 1] = s[i])
OBVIOUS

\* An empty sequence has no elements.
LEMMA EmptyIs ==
    ASSUME NEW S, NEW s \in Seq(S)
    PROVE  /\ s = <<>> <=> DOMAIN s = {}
           /\ s /= <<>> => 1 \in DOMAIN s /\ Head(s) = s[1] /\ \A i \in DOMAIN s : i \in Nat /\ i >= 1
OBVIOUS

\* queue.splice(index, 1) keeps what else there is, in its order.
LEMMA SplicedIs ==
    ASSUME NEW S, NEW s \in Seq(S), NEW k \in DOMAIN s
    PROVE  /\ Spliced(s, k) \in Seq(S)
           /\ \A i \in DOMAIN Spliced(s, k) :
                 LET j == IF i < k THEN i ELSE i + 1
                 IN  j \in DOMAIN s /\ j /= k /\ Spliced(s, k)[i] = s[j] /\ i \in Nat
           /\ \A j \in DOMAIN s : j /= k =>
                 LET i == IF j < k THEN j ELSE j - 1
                 IN  i \in DOMAIN Spliced(s, k) /\ Spliced(s, k)[i] = s[j]
BY DEF Spliced

\* What is left of a queue is in the order it was in.
Thinned(q, q2) ==
    \A lane \in Lanes : \A i, j \in DOMAIN q2[lane] : \E k, l \in DOMAIN q[lane] :
        q2[lane][i] = q[lane][k] /\ q2[lane][j] = q[lane][l] /\ (l < k => j < i)

\* What is queued, by lane.
LEMMA QueuedIs ==
    ASSUME NEW q \in [Lanes -> Seq(Requests)], LanesOK(q)
    PROVE  /\ \A lane \in Lanes : \A i \in DOMAIN q[lane] : q[lane][i] \in Queued(q)
           /\ \A r \in Queued(q) : r \in Requests /\ \E i \in DOMAIN q[Lane(r)] : q[Lane(r)][i] = r
           /\ NoneQueued(q) <=> Queued(q) = {}
           /\ q.record = q["record"] /\ q.foreground = q["foreground"]
           /\ Thinned(q, q)
<1>1. \A lane \in Lanes : \A i \in DOMAIN q[lane] : q[lane][i] \in Requests /\ Lane(q[lane][i]) = lane
  BY DEF LanesOK
<1>2. \A lane \in Lanes : \A i \in DOMAIN q[lane] : q[lane][i] \in Queued(q)
  BY <1>1 DEF Queued
<1>3. \A r \in Queued(q) : r \in Requests /\ \E i \in DOMAIN q[Lane(r)] : q[Lane(r)][i] = r
  BY DEF Queued
<1>4. \A lane \in Lanes : q[lane] \in Seq(Requests)
  OBVIOUS
<1>5. q.record = q["record"] /\ q.foreground = q["foreground"]
  OBVIOUS
<1>6. NoneQueued(q) <=> \A lane \in Lanes : q[lane] = <<>>
  BY <1>5 DEF NoneQueued, Lanes
<1>7. \A lane \in Lanes : q[lane] = <<>> <=> DOMAIN q[lane] = {}
  BY <1>4, EmptyIs
<1>8. NoneQueued(q) <=> Queued(q) = {}
  <2>1. ASSUME NoneQueued(q) PROVE Queued(q) = {}
    BY <1>3, <1>6, <1>7, <2>1, LaneIs
  <2>2. ASSUME Queued(q) = {} PROVE NoneQueued(q)
    BY <1>2, <1>6, <1>7, <2>2
  <2>. QED  BY <2>1, <2>2
<1>9. Thinned(q, q)
  BY DEF Thinned
<1>. QED  BY <1>2, <1>3, <1>5, <1>8, <1>9

\* The empty queue.
LEMMA EmptyQueueIs ==
    ASSUME NEW q
    PROVE  LET q2 == [foreground |-> <<>>, record |-> <<>>]
           IN  /\ q2 \in [Lanes -> Seq(Requests)] /\ LanesOK(q2) /\ Queued(q2) = {}
               /\ \A lane \in Lanes : q2[lane] = <<>>
               /\ NoneQueued(q2) /\ Thinned(q, q2)
<1>. DEFINE q2 == [foreground |-> <<>>, record |-> <<>>]
<1>1. q2 = [l \in Lanes |-> <<>>]
  BY DEF Lanes
<1>2. q2 \in [Lanes -> Seq(Requests)] /\ \A l \in Lanes : q2[l] = <<>>
  <2>1. <<>> \in Seq(Requests)
    OBVIOUS
  <2>. HIDE DEF q2
  <2>. QED  BY <1>1, <2>1
<1>3. \A l \in Lanes : DOMAIN q2[l] = {}
  BY <1>2
<1>4. q2.record = <<>> /\ q2.foreground = <<>>
  OBVIOUS
<1>5. LanesOK(q2) /\ Thinned(q, q2)
  <2>. HIDE DEF q2
  <2>. QED  BY <1>3 DEF LanesOK, Thinned
<1>6. NoneQueued(q2)
  BY <1>4 DEF NoneQueued
<1>. HIDE DEF q2
<1>7. Queued(q2) = {}
  BY <1>2, <1>5, <1>6, QueuedIs
<1>. QED  BY <1>2, <1>4, <1>5, <1>6, <1>7 DEF q2

\* The queue q2 is q, and r behind the others of its lane.
Lengthened(q, q2, r) ==
    /\ q2 \in [Lanes -> Seq(Requests)] /\ LanesOK(q2) /\ Queued(q2) = Queued(q) \cup {r}
    /\ \A lane \in Lanes : \A i \in DOMAIN q2[lane] :
          \/ i \in DOMAIN q[lane] /\ q2[lane][i] = q[lane][i]
          \/ lane = Lane(r) /\ q2[lane][i] = r /\ \A j \in DOMAIN q[lane] : j < i
    /\ \A lane \in Lanes : q[lane] /= <<>> => q2[lane] /= <<>> /\ Head(q2[lane]) = Head(q[lane])
    /\ q2["record"] = <<>> => q["record"] = <<>>

\* A request is queued: it is the last of its lane.
LEMMA AppendedIs ==
    ASSUME NEW q \in [Lanes -> Seq(Requests)], LanesOK(q), NEW r \in Requests, r \notin Queued(q),
           NEW q2, q2 = [q EXCEPT ![Lane(r)] = Append(q[Lane(r)], r)]
    PROVE  Lengthened(q, q2, r)
<1>. DEFINE l == Lane(r)
            s == q[l]
            t == Append(s, r)
<1>0. l \in Lanes /\ s \in Seq(Requests) /\ \A lane \in Lanes : q[lane] \in Seq(Requests)
  BY LaneIs
<1>1. /\ t \in Seq(Requests) /\ t /= <<>>
      /\ DOMAIN s = 1..Len(s) /\ Len(s) \in Nat /\ DOMAIN t = 1..(Len(s) + 1)
      /\ \A i \in 1..Len(s) : t[i] = s[i]
      /\ t[Len(s) + 1] = r
      /\ s /= <<>> => Head(t) = Head(s)
  BY <1>0, AppendIs
<1>2. q2 \in [Lanes -> Seq(Requests)] /\ q2[l] = t /\ \A lane \in Lanes : lane /= l => q2[lane] = q[lane]
  BY <1>0, <1>1
<1>. HIDE DEF l, s, t
<1>l. l = Lane(r) /\ s = q[l]
  BY DEF l, s
<1>3. \A i \in DOMAIN t : \/ i \in DOMAIN s /\ t[i] = s[i]
                          \/ t[i] = r /\ \A j \in DOMAIN s : j < i
  <2>1. SUFFICES ASSUME NEW i \in DOMAIN t
                 PROVE  \/ i \in DOMAIN s /\ t[i] = s[i]
                        \/ t[i] = r /\ \A j \in DOMAIN s : j < i
    OBVIOUS
  <2>2. i \in 1..Len(s) \/ i = Len(s) + 1
    BY <1>1
  <2>. QED  BY <1>1, <2>2
<1>4. \A lane \in Lanes : \A i \in DOMAIN q2[lane] :
          \/ i \in DOMAIN q[lane] /\ q2[lane][i] = q[lane][i]
          \/ lane = Lane(r) /\ q2[lane][i] = r /\ \A j \in DOMAIN q[lane] : j < i
  BY <1>2, <1>3, <1>l
<1>5. \A lane \in Lanes : \A i \in DOMAIN q[lane] : i \in DOMAIN q2[lane] /\ q2[lane][i] = q[lane][i]
  <2>1. \A i \in DOMAIN s : i \in DOMAIN t /\ t[i] = s[i]
    BY <1>1
  <2>. QED  BY <1>2, <1>l, <2>1
<1>6. \A lane \in Lanes : \A i \in DOMAIN q[lane] : q[lane][i] /= r
  BY QueuedIs
<1>7. LanesOK(q2)
  <2>1. ASSUME NEW lane \in Lanes, NEW i \in DOMAIN q2[lane] PROVE Lane(q2[lane][i]) = lane
    BY <1>4 DEF LanesOK
  <2>2. ASSUME NEW lane \in Lanes, NEW i \in DOMAIN q2[lane], NEW j \in DOMAIN q2[lane],
               q2[lane][i] = q2[lane][j]
        PROVE  i = j
    <3>1. CASE i \in DOMAIN q[lane] /\ q2[lane][i] = q[lane][i] /\ j \in DOMAIN q[lane] /\ q2[lane][j] = q[lane][j]
      BY <2>2, <3>1 DEF LanesOK
    <3>2. CASE lane = l /\ i \notin DOMAIN s /\ j \notin DOMAIN s
      <4>1. i = Len(s) + 1 /\ j = Len(s) + 1
        BY <1>1, <1>2, <3>2
      <4>. QED  BY <4>1
    <3>. QED  BY <1>2, <1>4, <1>6, <1>l, <2>2, <3>1, <3>2
  <2>. QED  BY <2>1, <2>2 DEF LanesOK
<1>8. Queued(q2) = Queued(q) \cup {r}
  <2>1. ASSUME NEW x \in Queued(q2) PROVE x \in Queued(q) \cup {r}
    <3>1. PICK i \in DOMAIN q2[Lane(x)] : q2[Lane(x)][i] = x
      BY <2>1 DEF Queued
    <3>2. Lane(x) \in Lanes
      BY <2>1, LaneIs DEF Queued
    <3>3. x = r \/ (i \in DOMAIN q[Lane(x)] /\ q[Lane(x)][i] = x)
      BY <1>4, <3>1, <3>2
    <3>. QED  BY <3>2, <3>3, QueuedIs
  <2>2. ASSUME NEW x \in Queued(q) PROVE x \in Queued(q2)
    <3>1. PICK i \in DOMAIN q[Lane(x)] : q[Lane(x)][i] = x
      BY QueuedIs
    <3>2. Lane(x) \in Lanes
      BY QueuedIs, LaneIs
    <3>3. i \in DOMAIN q2[Lane(x)] /\ q2[Lane(x)][i] = x
      BY <1>5, <3>1, <3>2
    <3>4. \A lane \in Lanes : \A j \in DOMAIN q2[lane] : q2[lane][j] \in Queued(q2)
      BY <1>2, <1>7, QueuedIs
    <3>. QED  BY <3>2, <3>3, <3>4
  <2>3. r \in Queued(q2)
    <3>1. Len(s) + 1 \in DOMAIN q2[l] /\ q2[l][Len(s) + 1] = r
      BY <1>1, <1>2
    <3>2. \A lane \in Lanes : \A j \in DOMAIN q2[lane] : q2[lane][j] \in Queued(q2)
      BY <1>2, <1>7, QueuedIs
    <3>. QED  BY <1>0, <3>1, <3>2
  <2>. QED  BY <2>1, <2>2, <2>3
<1>9. \A lane \in Lanes : q[lane] /= <<>> => q2[lane] /= <<>> /\ Head(q2[lane]) = Head(q[lane])
  BY <1>1, <1>2, <1>l
<1>10. q2["record"] = <<>> => q["record"] = <<>>
  <2>1. "record" \in Lanes
    BY DEF Lanes
  <2>. QED  BY <1>9, <2>1
<1>. QED  BY <1>2, <1>4, <1>7, <1>8, <1>9, <1>10 DEF Lengthened

\* The queue q2 is q without r.
Shortened(q, q2, r) ==
    /\ q2 \in [Lanes -> Seq(Requests)] /\ LanesOK(q2) /\ Queued(q2) = Queued(q) \ {r}
    /\ Thinned(q, q2)
    /\ \A lane \in Lanes : q[lane] /= <<>> /\ Head(q[lane]) /= r =>
          q2[lane] /= <<>> /\ Head(q2[lane]) = Head(q[lane])
    /\ q["record"] = <<>> => q2["record"] = <<>>
    /\ \A lane \in Lanes : lane /= Lane(r) => q2[lane] = q[lane]

\* removeQueuedRequest: the others stay, in their order.
LEMMA RemovedIs ==
    ASSUME NEW q \in [Lanes -> Seq(Requests)], LanesOK(q), NEW r \in Requests,
           NEW q2, q2 = Removed(q, r)
    PROVE  Shortened(q, q2, r)
<1>. DEFINE l == Lane(r)
            s == q[l]
            indexOf == {i \in DOMAIN s : s[i] = r /\ \A j \in 1..(i - 1) : s[j] /= r}
            k == CHOOSE i \in indexOf : TRUE
            t == Spliced(s, k)
<1>0. l \in Lanes /\ s \in Seq(Requests) /\ \A lane \in Lanes : q[lane] \in Seq(Requests)
  BY LaneIs
<1>1. CASE indexOf = {}
  <2>1. q2 = q
    BY <1>1 DEF Removed
  <2>2. r \notin Queued(q)
    <3>1. SUFFICES ASSUME r \in Queued(q) PROVE FALSE
      OBVIOUS
    <3>2. PICK i \in DOMAIN s : s[i] = r
      BY <3>1, QueuedIs
    <3>3. \A j \in 1..(i - 1) : j \in DOMAIN s /\ j /= i
      BY <1>0
    <3>4. \A j \in 1..(i - 1) : s[j] /= r
      BY <1>0, <3>2, <3>3 DEF LanesOK
    <3>. QED  BY <1>1, <3>2, <3>4
  <2>. QED  BY <2>1, <2>2, QueuedIs DEF Shortened
<1>2. CASE indexOf /= {}
  <2>1. k \in indexOf
    BY <1>2
  <2>2. k \in DOMAIN s /\ s[k] = r
    BY <2>1
  <2>3. q2 = [q EXCEPT ![l] = t]
    BY <1>2 DEF Removed
  <2>. HIDE DEF k, t, indexOf
  <2>4. /\ t \in Seq(Requests)
        /\ \A i \in DOMAIN t : LET j == IF i < k THEN i ELSE i + 1
                               IN  j \in DOMAIN s /\ j /= k /\ t[i] = s[j] /\ i \in Nat
        /\ \A j \in DOMAIN s : j /= k => LET i == IF j < k THEN j ELSE j - 1
                                         IN  i \in DOMAIN t /\ t[i] = s[j]
    BY <1>0, <2>2, SplicedIs DEF t
  <2>5. q2 \in [Lanes -> Seq(Requests)] /\ q2[l] = t /\ \A lane \in Lanes : lane /= l => q2[lane] = q[lane]
    BY <1>0, <2>3, <2>4
  <2>n. DOMAIN s = 1..Len(s) /\ Len(s) \in Nat /\ k \in Nat /\ k >= 1
    BY <1>0, <2>2
  <2>. HIDE DEF l, s
  <2>l. l = Lane(r) /\ s = q[l]
    BY DEF l, s
  <2>6. Thinned(q, q2)
    <3>1. SUFFICES ASSUME NEW lane \in Lanes, NEW i \in DOMAIN q2[lane], NEW j \in DOMAIN q2[lane]
                   PROVE  \E k1, l1 \in DOMAIN q[lane] :
                             q2[lane][i] = q[lane][k1] /\ q2[lane][j] = q[lane][l1] /\ (l1 < k1 => j < i)
      BY DEF Thinned
    <3>2. CASE lane /= l
      BY <2>5, <3>2
    <3>3. CASE lane = l
      <4>. DEFINE i1 == IF i < k THEN i ELSE i + 1
                  j1 == IF j < k THEN j ELSE j + 1
      <4>1. i1 \in DOMAIN s /\ j1 \in DOMAIN s /\ t[i] = s[i1] /\ t[j] = s[j1] /\ i \in Nat /\ j \in Nat
        BY <2>4, <2>5, <3>3
      <4>2. j1 < i1 => j < i
        BY <2>n, <4>1
      <4>. HIDE DEF i1, j1
      <4>. QED  BY <2>5, <2>l, <3>3, <4>1, <4>2
    <3>. QED  BY <3>2, <3>3
  <2>7. \A lane \in Lanes : \A i \in DOMAIN q2[lane] :
           \E j \in DOMAIN q[lane] : q2[lane][i] = q[lane][j] /\ (lane = l => j /= k)
    <3>1. SUFFICES ASSUME NEW lane \in Lanes, NEW i \in DOMAIN q2[lane]
                   PROVE  \E j \in DOMAIN q[lane] : q2[lane][i] = q[lane][j] /\ (lane = l => j /= k)
      OBVIOUS
    <3>2. CASE lane /= l
      BY <2>5, <3>2
    <3>3. CASE lane = l
      <4>. DEFINE j == IF i < k THEN i ELSE i + 1
      <4>1. j \in DOMAIN s /\ j /= k /\ t[i] = s[j]
        BY <2>4, <2>5, <3>3
      <4>. HIDE DEF j
      <4>. QED  BY <2>5, <2>l, <3>3, <4>1
    <3>. QED  BY <3>2, <3>3
  <2>8. LanesOK(q2)
    <3>1. ASSUME NEW lane \in Lanes, NEW i \in DOMAIN q2[lane] PROVE Lane(q2[lane][i]) = lane
      BY <2>7 DEF LanesOK
    <3>2. ASSUME NEW lane \in Lanes, NEW i \in DOMAIN q2[lane], NEW j \in DOMAIN q2[lane],
                 q2[lane][i] = q2[lane][j]
          PROVE  i = j
      <4>1. CASE lane /= l
        BY <2>5, <3>2, <4>1 DEF LanesOK
      <4>2. CASE lane = l
        <5>. DEFINE i1 == IF i < k THEN i ELSE i + 1
                    j1 == IF j < k THEN j ELSE j + 1
        <5>1. i1 \in DOMAIN s /\ j1 \in DOMAIN s /\ t[i] = s[i1] /\ t[j] = s[j1] /\ i \in Nat /\ j \in Nat
          BY <2>4, <2>5, <4>2
        <5>2. i1 = j1
          <6>. HIDE DEF i1, j1
          <6>1. \A a, b \in DOMAIN s : s[a] = s[b] => a = b
            BY <1>0, <2>l DEF LanesOK
          <6>2. s[i1] = s[j1]
            BY <2>5, <3>2, <4>2, <5>1
          <6>. QED  BY <5>1, <6>1, <6>2
        <5>. QED  BY <2>n, <5>1, <5>2
      <4>. QED  BY <4>1, <4>2
    <3>. QED  BY <3>1, <3>2 DEF LanesOK
  <2>9. Queued(q2) = Queued(q) \ {r}
    <3>t. q2 \in [Lanes -> Seq(Requests)]
      BY <2>5
    <3>q. /\ \A lane \in Lanes : \A i \in DOMAIN q2[lane] : q2[lane][i] \in Queued(q2)
          /\ \A x \in Queued(q2) : x \in Requests /\ \E i \in DOMAIN q2[Lane(x)] : q2[Lane(x)][i] = x
      BY <2>8, <3>t, QueuedIs
    <3>1. ASSUME NEW x \in Queued(q2) PROVE x \in Queued(q) /\ x /= r
      <4>1. PICK i \in DOMAIN q2[Lane(x)] : q2[Lane(x)][i] = x
        BY <3>q
      <4>2. x \in Requests /\ Lane(x) \in Lanes
        BY <3>q, LaneIs
      <4>3. PICK j \in DOMAIN q[Lane(x)] : x = q[Lane(x)][j] /\ (Lane(x) = l => j /= k)
        BY <2>7, <4>1, <4>2
      <4>4. x \in Queued(q)
        BY <4>2, <4>3, QueuedIs
      <4>5. x /= r
        BY <2>2, <2>l, <4>2, <4>3 DEF LanesOK
      <4>. QED  BY <4>4, <4>5
    <3>2. ASSUME NEW x \in Queued(q), x /= r PROVE x \in Queued(q2)
      <4>1. PICK i \in DOMAIN q[Lane(x)] : q[Lane(x)][i] = x
        BY QueuedIs
      <4>2. x \in Requests /\ Lane(x) \in Lanes
        BY QueuedIs, LaneIs
      <4>3. \E j \in DOMAIN q2[Lane(x)] : q2[Lane(x)][j] = x
        <5>1. CASE Lane(x) /= l
          BY <2>5, <4>1, <4>2, <5>1
        <5>2. CASE Lane(x) = l
          <6>1. i /= k /\ i \in DOMAIN s /\ s[i] = x
            BY <2>2, <2>l, <3>2, <4>1, <5>2
          <6>. QED  BY <2>4, <2>5, <5>2, <6>1
        <5>. QED  BY <5>1, <5>2
      <4>. QED  BY <3>q, <4>2, <4>3
    <3>. QED  BY <3>1, <3>2
  <2>10. ASSUME NEW lane \in Lanes, q[lane] /= <<>>, Head(q[lane]) /= r
         PROVE  q2[lane] /= <<>> /\ Head(q2[lane]) = Head(q[lane])
    <3>1. CASE lane /= l
      BY <2>5, <2>10, <3>1
    <3>2. CASE lane = l
      <4>1. 1 \in DOMAIN s /\ Head(s) = s[1]
        BY <1>0, <2>10, <2>l, <3>2, EmptyIs
      <4>2. k /= 1
        BY <2>10, <2>2, <2>l, <3>2, <4>1
      <4>3. 1 \in DOMAIN t /\ t[1] = s[1]
        BY <2>4, <2>n, <4>1, <4>2
      <4>4. t /= <<>> /\ Head(t) = t[1]
        BY <2>4, <4>3, EmptyIs
      <4>. QED  BY <2>5, <2>l, <3>2, <4>1, <4>3, <4>4
    <3>. QED  BY <3>1, <3>2
  <2>11. ASSUME q["record"] = <<>> PROVE q2["record"] = <<>>
    <3>1. "record" \in Lanes
      BY DEF Lanes
    <3>2. DOMAIN q["record"] = {}
      BY <1>0, <2>11, <3>1, EmptyIs
    <3>3. l /= "record"
      BY <2>2, <2>l, <3>2
    <3>. QED  BY <2>11, <2>5, <3>1, <3>3
  <2>. QED  BY <2>5, <2>6, <2>8, <2>9, <2>10, <2>11, <2>l DEF Shortened
<1>. QED  BY <1>1, <1>2

-----------------------------------------------------------------------------
(* Lemmas about controlTail. *)

NoPumpIn(t) == \A i \in DOMAIN t : t[i].kind \notin OfPump
NoOpOf(t, r) == \A i \in DOMAIN t : t[i].of /= r
Waits == {"trying", "completing", "undoing"}

\* A request in these states waits for no operation.
LEMMA NoOpIs ==
    ASSUME NEW t, NEW rq, NEW pumps, TailFor(t, rq, pumps), NEW r \in Requests,
           rq[r] \in {"idle", "queued", "permit"} \/ (rq[r] = "granting" /\ r \notin Candidates)
    PROVE  NoOpOf(t, r)
<1>1. SUFFICES ASSUME NEW i \in DOMAIN t, t[i].of = r PROVE FALSE
  BY DEF NoOpOf
<1>2. OperationOK(t[i], rq) /\ t[i] \in Operation
  BY DEF TailFor
<1>3. t[i].kind \in {"try", "complete", "undo"}
  BY <1>1, <1>2, LaneIs DEF OperationOK, Operation
<1>. QED  BY <1>1, <1>2, <1>3 DEF OperationOK

\* The first operation ends, and its request no longer waits; others may change that wait for none.
LEMMA DropIs ==
    ASSUME NEW t, NEW rq, NEW pumps, TailFor(t, rq, pumps), t /= <<>>, NEW rq2,
           \A r \in Requests : r /= Head(t).of => rq2[r] = rq[r] \/ (NoOpOf(t, r) /\ rq2[r] \notin Waits),
           Head(t).of \in Requests => rq2[Head(t).of] \notin Waits
    PROVE  /\ TailFor(Tail(t), rq2, pumps)
           /\ Head(t).kind \in OfPump => NoPumpIn(Tail(t))
           /\ Head(t).of /= None => NoOpOf(Tail(t), Head(t).of)
<1>0. t \in Seq(Operation)
  BY DEF TailFor
<1>1. /\ Tail(t) \in Seq(Operation) /\ Head(t) = t[1] /\ 1 \in DOMAIN t
      /\ \A i \in DOMAIN Tail(t) : i + 1 \in DOMAIN t /\ Tail(t)[i] = t[i + 1] /\ i \in Nat /\ i + 1 /= 1
      /\ \A i \in DOMAIN t : i = 1 \/ (i - 1 \in DOMAIN Tail(t) /\ Tail(t)[i - 1] = t[i])
  BY <1>0, TailIs
<1>. DEFINE u == Tail(t)
<1>. HIDE DEF u
<1>2. /\ u \in Seq(Operation) /\ Head(t) = t[1] /\ 1 \in DOMAIN t
      /\ \A i \in DOMAIN u : i + 1 \in DOMAIN t /\ u[i] = t[i + 1] /\ i \in Nat /\ i + 1 /= 1
      /\ \A i \in DOMAIN t : i = 1 \/ (i - 1 \in DOMAIN u /\ u[i - 1] = t[i])
  BY <1>1 DEF u
<1>3. \A i \in DOMAIN u : u[i].of /= Head(t).of \/ u[i].of = None
  BY <1>2 DEF TailFor
<1>4. \A i \in DOMAIN u : OperationOK(u[i], rq2)
  <2>1. SUFFICES ASSUME NEW i \in DOMAIN u PROVE OperationOK(u[i], rq2)
    OBVIOUS
  <2>2. OperationOK(u[i], rq) /\ u[i] \in Operation
    BY <1>2 DEF TailFor
  <2>3. u[i].of /= None => u[i].of \in Requests /\ rq2[u[i].of] = rq[u[i].of]
    <3>1. SUFFICES ASSUME u[i].of /= None PROVE u[i].of \in Requests /\ rq2[u[i].of] = rq[u[i].of]
      OBVIOUS
    <3>2. u[i].of \in Requests /\ u[i].of /= Head(t).of
      BY <1>3, <2>2, <3>1 DEF Operation
    <3>3. ~NoOpOf(t, u[i].of)
      BY <1>2 DEF NoOpOf
    <3>. QED  BY <3>2, <3>3
  <2>. QED  BY <2>2, <2>3 DEF OperationOK, Operation
<1>5. \A i, j \in DOMAIN u : u[i].of = u[j].of => i = j \/ u[i].of = None
  <2>1. SUFFICES ASSUME NEW i \in DOMAIN u, NEW j \in DOMAIN u, u[i].of = u[j].of, u[i].of /= None
                 PROVE  i = j
    OBVIOUS
  <2>a. /\ i + 1 \in DOMAIN t /\ j + 1 \in DOMAIN t /\ u[i] = t[i + 1] /\ u[j] = t[j + 1]
        /\ i \in Nat /\ j \in Nat
    BY <1>2
  <2>b. t[i + 1].of = t[j + 1].of /\ t[i + 1].of /= None
    BY <2>1, <2>a
  <2>c. \A x, y \in DOMAIN t : t[x].of = t[y].of => x = y \/ t[x].of = None
    BY DEF TailFor
  <2>2. i + 1 = j + 1
    BY <2>a, <2>b, <2>c
  <2>. QED  BY <2>2, <2>a
<1>6. \A i, j \in DOMAIN u : u[i].kind \in OfPump /\ u[j].kind \in OfPump => i = j
  <2>1. SUFFICES ASSUME NEW i \in DOMAIN u, NEW j \in DOMAIN u, u[i].kind \in OfPump, u[j].kind \in OfPump
                 PROVE  i = j
    OBVIOUS
  <2>a. /\ i + 1 \in DOMAIN t /\ j + 1 \in DOMAIN t /\ u[i] = t[i + 1] /\ u[j] = t[j + 1]
        /\ i \in Nat /\ j \in Nat
    BY <1>2
  <2>b. t[i + 1].kind \in OfPump /\ t[j + 1].kind \in OfPump
    BY <2>1, <2>a
  <2>c. \A x, y \in DOMAIN t : t[x].kind \in OfPump /\ t[y].kind \in OfPump => x = y
    BY DEF TailFor
  <2>2. i + 1 = j + 1
    BY <2>a, <2>b, <2>c
  <2>. QED  BY <2>2, <2>a
<1>7. \A i \in DOMAIN u : u[i].kind \in OfPump => pumps
  BY <1>2 DEF TailFor
<1>8. \A r \in Requests : rq2[r] \in Waits => \E i \in DOMAIN u : u[i].of = r
  <2>1. SUFFICES ASSUME NEW r \in Requests, rq2[r] \in Waits PROVE \E i \in DOMAIN u : u[i].of = r
    OBVIOUS
  <2>2. r /= Head(t).of
    BY <2>1
  <2>3. PICK i \in DOMAIN t : t[i].of = r
    BY <2>1, <2>2 DEF TailFor, Waits
  <2>. QED  BY <1>2, <2>2, <2>3
<1>9. TailFor(u, rq2, pumps)
  BY <1>2, <1>4, <1>5, <1>6, <1>7, <1>8 DEF TailFor, Waits
<1>10. Head(t).kind \in OfPump => NoPumpIn(u)
  BY <1>2 DEF TailFor, NoPumpIn
<1>11. Head(t).of /= None => NoOpOf(u, Head(t).of)
  BY <1>3 DEF NoOpOf
<1>. QED  BY <1>9, <1>10, <1>11 DEF u

\* Requests change that wait for no operation, or that are now being granted.
LEMMA RelabelIs ==
    ASSUME NEW t, NEW rq, NEW pumps, TailFor(t, rq, pumps), NEW rq2,
           \A r \in Requests : \/ rq2[r] = rq[r]
                               \/ NoOpOf(t, r) /\ rq2[r] \notin Waits
                               \/ rq[r] = "trying" /\ rq2[r] = "granting"
    PROVE  TailFor(t, rq2, pumps)
<1>1. \A i \in DOMAIN t : OperationOK(t[i], rq2)
  <2>1. SUFFICES ASSUME NEW i \in DOMAIN t PROVE OperationOK(t[i], rq2)
    OBVIOUS
  <2>2. OperationOK(t[i], rq) /\ t[i] \in Operation
    BY DEF TailFor
  <2>3. t[i].of \in Requests => \/ rq2[t[i].of] = rq[t[i].of]
                                \/ rq[t[i].of] = "trying" /\ rq2[t[i].of] = "granting"
    BY DEF NoOpOf
  <2>. QED  BY <2>2, <2>3 DEF OperationOK, Operation
<1>2. \A r \in Requests : rq2[r] \in Waits => \E i \in DOMAIN t : t[i].of = r
  <2>1. SUFFICES ASSUME NEW r \in Requests, rq2[r] \in Waits PROVE \E i \in DOMAIN t : t[i].of = r
    OBVIOUS
  <2>2. rq2[r] = rq[r]
    BY <2>1 DEF Waits
  <2>. QED  BY <2>1, <2>2 DEF TailFor, Waits
<1>. QED  BY <1>1, <1>2 DEF TailFor, Waits

\* An operation is queued, and its request waits for it.
LEMMA AddIs ==
    ASSUME NEW t, NEW rq, NEW pumps, TailFor(t, rq, pumps), NEW o \in Operation, NEW rq2, NEW pumps2,
           o.kind \in OfPump => NoPumpIn(t) /\ pumps2, pumps => pumps2,
           o.of \in Requests => NoOpOf(t, o.of),
           \A r \in Requests : r /= o.of => rq2[r] = rq[r],
           OperationOK(o, rq2)
    PROVE  TailFor(Append(t, o), rq2, pumps2)
<1>0. t \in Seq(Operation)
  BY DEF TailFor
<1>. DEFINE u == Append(t, o)
            n == Len(t)
<1>1. /\ u \in Seq(Operation) /\ DOMAIN t = 1..n /\ n \in Nat /\ DOMAIN u = 1..(n + 1)
      /\ \A i \in 1..n : u[i] = t[i]
      /\ u[n + 1] = o
  BY <1>0, AppendIs
<1>. HIDE DEF u, n
<1>2. \A i \in DOMAIN u : (i \in DOMAIN t /\ u[i] = t[i]) \/ (i = n + 1 /\ u[i] = o)
  <2>1. SUFFICES ASSUME NEW i \in 1..(n + 1) PROVE i \in 1..n \/ i = n + 1
    BY <1>1
  <2>. QED  BY <1>1
<1>3. \A i \in DOMAIN t : i \in DOMAIN u /\ u[i] = t[i]
  BY <1>1
<1>4. \A i \in DOMAIN t : OperationOK(t[i], rq2)
  <2>1. SUFFICES ASSUME NEW i \in DOMAIN t PROVE OperationOK(t[i], rq2)
    OBVIOUS
  <2>2. OperationOK(t[i], rq) /\ t[i] \in Operation
    BY DEF TailFor
  <2>3. t[i].of \in Requests => rq2[t[i].of] = rq[t[i].of]
    BY DEF NoOpOf
  <2>. QED  BY <2>2, <2>3 DEF OperationOK, Operation
<1>5. \A i \in DOMAIN u : OperationOK(u[i], rq2)
  BY <1>2, <1>4
<1>6. \A i \in DOMAIN t : t[i].of = o.of => o.of = None
  BY DEF NoOpOf, Operation
<1>7. \A i, j \in DOMAIN u : u[i].of = u[j].of => i = j \/ u[i].of = None
  BY <1>2, <1>6 DEF TailFor
<1>8. \A i, j \in DOMAIN u : u[i].kind \in OfPump /\ u[j].kind \in OfPump => i = j
  BY <1>2 DEF TailFor, NoPumpIn
<1>9. \A i \in DOMAIN u : u[i].kind \in OfPump => pumps2
  BY <1>2 DEF TailFor
<1>10. \A r \in Requests : rq2[r] \in Waits => \E i \in DOMAIN u : u[i].of = r
  <2>1. SUFFICES ASSUME NEW r \in Requests, rq2[r] \in Waits PROVE \E i \in DOMAIN u : u[i].of = r
    OBVIOUS
  <2>2. CASE r = o.of
    <3>1. n + 1 \in DOMAIN u
      BY <1>1
    <3>. QED  BY <1>1, <2>2, <3>1
  <2>3. CASE r /= o.of
    <3>1. rq[r] \in Waits
      BY <2>1, <2>3
    <3>2. PICK i \in DOMAIN t : t[i].of = r
      BY <3>1 DEF TailFor, Waits
    <3>. QED  BY <1>3, <3>2
  <2>. QED  BY <2>2, <2>3
<1>. QED  BY <1>1, <1>5, <1>7, <1>8, <1>9, <1>10 DEF TailFor, Waits, u

\* The pump's operation.
LEMMA PumpOpIs == PumpOp \in Operation /\ PumpOp.kind = "pump" /\ PumpOp.of = None
BY DEF PumpOp, Op, Operation

\* The tail, after t and perhaps another operation of the pump.
Pumped(t, rq) ==
    /\ TailFor(tail', rq, pumping') /\ waiters' \in 0..MaxWaiters /\ pumping' \in BOOLEAN
    /\ t /= <<>> => tail' /= <<>> /\ Head(tail') = Head(t)

\* pump(), called.
LEMMA CallPumpIs ==
    ASSUME Shape, NEW q, NEW t, NEW rq, TailFor(t, rq, pumping), CallPump(q, t)
    PROVE  /\ Pumped(t, rq)
           /\ NoneQueued(q) /\ ~pumping => tail' = t /\ ~pumping'
<1>0. waiters \in 0..MaxWaiters /\ MaxWaiters \in Nat /\ pumping \in BOOLEAN /\ t \in Seq(Operation)
  BY AdmissionAssumption DEF Shape, TailFor
<1>1. CASE pumping
  <2>1. waiters' = Capped(waiters + 1) /\ tail' = t /\ UNCHANGED pumping
    BY <1>1 DEF CallPump
  <2>2. waiters' \in 0..MaxWaiters
    BY <1>0, <2>1 DEF Capped
  <2>. QED  BY <1>0, <1>1, <2>1, <2>2 DEF Pumped
<1>2. CASE ~pumping /\ NoneQueued(q)
  BY <1>0, <1>2 DEF CallPump, Pumped, pump
<1>3. CASE ~pumping /\ ~NoneQueued(q)
  <2>1. pumping' = TRUE /\ tail' = Append(t, PumpOp) /\ UNCHANGED waiters
    BY <1>3 DEF CallPump
  <2>2. NoPumpIn(t)
    BY <1>3 DEF TailFor, NoPumpIn
  <2>3. TailFor(Append(t, PumpOp), rq, TRUE)
    BY <2>2, PumpOpIs, AddIs, LaneIs DEF OperationOK
  <2>4. t /= <<>> => Head(tail') = Head(t)
    BY <1>0, <2>1, PumpOpIs, AppendIs
  <2>5. tail' /= <<>>
    BY <1>0, <2>1, PumpOpIs, AppendIs
  <2>. QED  BY <1>0, <1>3, <2>1, <2>3, <2>4, <2>5 DEF Pumped
<1>. QED  BY <1>0, <1>1, <1>2, <1>3

\* The pump loops or returns, once its operation has left the tail.
LEMMA PumpGoesOn ==
    ASSUME Shape, NEW q, NEW t, NEW rq, TailFor(t, rq, pumping), pumping, NoPumpIn(t),
           PumpReturns(q, t) \/ PumpLoops(q, t)
    PROVE  Pumped(t, rq)
<1>0. waiters \in 0..MaxWaiters /\ MaxWaiters \in Nat /\ pumping = TRUE /\ t \in Seq(Operation)
  BY AdmissionAssumption DEF Shape, TailFor
<1>1. CASE tail' = t /\ pumping' = FALSE /\ waiters' \in 0..MaxWaiters
  <2>1. TailFor(t, rq, FALSE)
    BY DEF TailFor, NoPumpIn
  <2>. QED  BY <1>1, <2>1 DEF Pumped
<1>2. CASE tail' = Append(t, PumpOp) /\ pumping' = TRUE /\ waiters' \in 0..MaxWaiters
  <2>3. TailFor(Append(t, PumpOp), rq, TRUE)
    BY PumpOpIs, AddIs, LaneIs DEF OperationOK
  <2>4. t /= <<>> => Head(tail') = Head(t)
    BY <1>0, <1>2, PumpOpIs, AppendIs
  <2>5. tail' /= <<>>
    BY <1>0, <1>2, PumpOpIs, AppendIs
  <2>. QED  BY <1>2, <2>3, <2>4, <2>5 DEF Pumped
<1>3. PumpReturns(q, t) =>
        \/ tail' = t /\ pumping' = FALSE /\ waiters' \in 0..MaxWaiters
        \/ tail' = Append(t, PumpOp) /\ pumping' = TRUE /\ waiters' \in 0..MaxWaiters
  <2>1. 0 \in 0..MaxWaiters /\ (waiters /= 0 => waiters - 1 \in 0..MaxWaiters)
    BY <1>0
  <2>. QED  BY <1>0, <2>1 DEF PumpReturns
<1>4. PumpLoops(q, t) => PumpReturns(q, t) \/ (tail' = Append(t, PumpOp) /\ pumping' = TRUE /\ waiters' \in 0..MaxWaiters)
  BY <1>0 DEF PumpLoops, pump
<1>. QED  BY <1>1, <1>2, <1>3, <1>4

-----------------------------------------------------------------------------
(* What a step leaves alone. *)

\* Requests are over for their callers, and out of the queue.
LEMMA OverIs ==
    ASSUME AdmissionInv, NEW gone, gone \subseteq Requests, Over(gone),
           queue' \in [Lanes -> Seq(Requests)], LanesOK(queue'),
           Queued(queue') = Queued(queue) \ gone, Thinned(queue, queue'),
           \/ leased' = leased \ gone
           \/ leased' = leased /\ \A r \in gone : req[r] \notin {"permit", "completing", "undoing"}
    PROVE  /\ req' \in [Requests -> States] /\ cancelled' \subseteq Requests
           /\ before' \in [Requests -> SUBSET Requests] /\ leased' \subseteq Requests
           /\ QueueOK' /\ BeforeOK' /\ LeaseIsHeld'
           /\ \A r \in Requests : req'[r] = IF r \in gone THEN "idle" ELSE req[r]
           /\ cancelled' = cancelled \ gone
<1>0. /\ req \in [Requests -> States] /\ cancelled \subseteq Requests /\ leased \subseteq Requests
      /\ before \in [Requests -> SUBSET Requests]
      /\ queue \in [Lanes -> Seq(Requests)] /\ LanesOK(queue)
  BY DEF AdmissionInv, Shape, QueueOK
<1>1. /\ req' \in [Requests -> States]
      /\ \A r \in Requests : req'[r] = IF r \in gone THEN "idle" ELSE req[r]
  BY <1>0 DEF Over, States
<1>2. cancelled' = cancelled \ gone /\ cancelled' \subseteq Requests
  BY <1>0 DEF Over
<1>3. /\ before' \in [Requests -> SUBSET Requests]
      /\ \A r \in Requests : before'[r] = IF r \in gone THEN {} ELSE before[r] \ gone
  BY <1>0 DEF Over
<1>4. leased' \subseteq Requests
  BY <1>0
<1>5. QueueOK'
  BY <1>0, <1>1, <1>2 DEF AdmissionInv, QueueOK
<1>6. LeaseIsHeld'
  BY <1>0, <1>1 DEF AdmissionInv, LeaseIsHeld
<1>7. BeforeOK'
  <2>1. \A r \in Requests : \A s \in before'[r] : Lane(s) = Lane(r) /\ req'[s] /= "idle"
    BY <1>0, <1>1, <1>3 DEF AdmissionInv, BeforeOK
  <2>2. ASSUME NEW lane \in Lanes, NEW i \in DOMAIN queue'[lane], NEW j \in DOMAIN queue'[lane],
               queue'[lane][j] \in before'[queue'[lane][i]]
        PROVE  j < i
    <3>1. PICK k, l \in DOMAIN queue[lane] :
             queue'[lane][i] = queue[lane][k] /\ queue'[lane][j] = queue[lane][l] /\ (l < k => j < i)
      BY DEF Thinned
    <3>2. queue[lane][k] \in Requests
      BY <1>0
    <3>3. queue[lane][l] \in before[queue[lane][k]]
      BY <1>3, <2>2, <3>1, <3>2
    <3>. QED  BY <3>1, <3>3 DEF AdmissionInv, BeforeOK
  <2>3. \A r \in Requests : req'[r] = "permit" \/ (req'[r] = "granting" /\ r \in Candidates) =>
           before'[r] \cap Queued(queue') = {}
    BY <1>1, <1>3 DEF AdmissionInv, BeforeOK
  <2>. QED  BY <2>1, <2>2, <2>3 DEF BeforeOK
<1>. QED  BY <1>1, <1>2, <1>3, <1>4, <1>5, <1>6, <1>7

\* The running operation goes on.
TailKept == tail /= <<>> => tail' /= <<>> /\ Head(tail') = Head(tail)

\* The request that is being granted stays, and stays the first of its lane.
LEMMA StageKept ==
    ASSUME AdmissionInv, UNCHANGED <<stage, selection>>, TailKept,
           \A r \in Requests : req'[r] = "granting" <=> req[r] = "granting",
           stage = "granting" /\ selection \notin cancelled' /\ Head(tail).kind = "pump" =>
              /\ selection \notin cancelled
              /\ queue[Lane(selection)] /= <<>> /\ Head(queue[Lane(selection)]) = selection =>
                    queue'[Lane(selection)] /= <<>> /\ Head(queue'[Lane(selection)]) = selection
    PROVE  StageOK'
<1>1. ASSUME stage = "granting"
      PROVE  /\ tail' /= <<>> /\ Head(tail') = Head(tail) /\ Head(tail).kind \in {"pump", "try"}
             /\ selection \in Requests /\ req'[selection] = "granting"
  BY <1>1 DEF AdmissionInv, StageOK, Running, TailKept
<1>2. stage = "pumps" => tail' /= <<>> /\ Head(tail') = Head(tail) /\ Head(tail).kind = "recover"
  BY DEF AdmissionInv, StageOK, Running, TailKept
<1>. QED  BY <1>1, <1>2 DEF AdmissionInv, StageOK, Running

\* A step that leaves the requests alone.
LEMMA QuietStep ==
    ASSUME AdmissionInv, UNCHANGED <<request, streak, stage, selection, leased, phase, passed, cancels>>,
           Pumped(tail, req), strays' \in Nat, open' \in BOOLEAN, wakeTimer' \in BOOLEAN,
           phase = "closed" => tail' = <<>> /\ ~pumping'
    PROVE  AdmissionInv'
<1>1. /\ UNCHANGED <<queue, req, cancelled, before, streak, stage, selection, leased, phase, passed, cancels>>
      /\ TailFor(tail', req', pumping') /\ waiters' \in 0..MaxWaiters /\ pumping' \in BOOLEAN /\ TailKept
  BY DEF request, Pumped, TailKept
<1>2. StageOK'
  BY <1>1, StageKept
<1>3. Shape' /\ QueueOK' /\ TailOK' /\ BeforeOK' /\ LeaseIsHeld'
  BY <1>1 DEF AdmissionInv, Shape, QueueOK, TailOK, BeforeOK, LeaseIsHeld
<1>4. ClosedOK'
  BY <1>1 DEF AdmissionInv, ClosedOK
<1>5. PassedOK'
  <2>1. stage = "granting" => Head(tail') = Head(tail)
    BY <1>1 DEF AdmissionInv, StageOK, Running, TailKept
  <2>. QED  BY <1>1, <2>1 DEF AdmissionInv, PassedOK
<1>. QED  BY <1>2, <1>3, <1>4, <1>5 DEF AdmissionInv

\* The timer fires, and the queue is pumped.
LEMMA WakeFiresStep ==
    ASSUME AdmissionInv, WakeFires
    PROVE  AdmissionInv'
<1>1. /\ UNCHANGED <<request, streak, stage, selection, leased, strays, open, phase, passed, cancels>>
      /\ wakeTimer' \in BOOLEAN /\ CallPump(queue, tail)
  BY DEF WakeFires, store, counts
<1>2. Shape /\ TailFor(tail, req, pumping) /\ strays \in Nat /\ open \in BOOLEAN
  BY DEF AdmissionInv, TailOK, Shape
<1>3. Pumped(tail, req) /\ (NoneQueued(queue) /\ ~pumping => tail' = tail /\ ~pumping')
  BY <1>1, <1>2, CallPumpIs
<1>4. phase = "closed" => NoneQueued(queue) /\ ~pumping /\ tail = <<>>
  BY DEF AdmissionInv, ClosedOK
<1>5. strays' \in Nat /\ open' \in BOOLEAN
  BY <1>1, <1>2
<1>6. UNCHANGED <<request, streak, stage, selection, leased, phase, passed, cancels>>
  BY <1>1
<1>. QED  BY <1>1, <1>3, <1>4, <1>5, <1>6, QuietStep

\* The tail stays as it is.
LEMMA PumpedUnchanged ==
    ASSUME AdmissionInv, UNCHANGED <<tail, pumping, waiters>>
    PROVE  Pumped(tail, req)
BY DEF AdmissionInv, TailOK, Shape, Pumped

\* The breaker's time is over.
LEMMA BreakerExpiresStep ==
    ASSUME AdmissionInv, BreakerExpires
    PROVE  AdmissionInv'
<1>1. /\ UNCHANGED <<request, streak, stage, selection, leased, phase, passed, cancels>>
      /\ UNCHANGED <<strays, wakeTimer, tail, pumping, waiters>> /\ open' = FALSE
  BY DEF BreakerExpires, counts, pump
<1>2. strays' \in Nat /\ wakeTimer' \in BOOLEAN /\ open' \in BOOLEAN /\ (phase = "closed" => tail' = <<>> /\ ~pumping')
  BY <1>1 DEF AdmissionInv, Shape, ClosedOK
<1>. QED  BY <1>1, <1>2, PumpedUnchanged, QuietStep

\* A lease nobody holds a permit for runs out.
LEMMA StrayExpiresStep ==
    ASSUME AdmissionInv, StrayExpires
    PROVE  AdmissionInv'
<1>1. /\ UNCHANGED <<request, streak, stage, selection, leased, phase, passed, cancels>>
      /\ UNCHANGED <<open, wakeTimer, tail, pumping, waiters>> /\ strays > 0 /\ strays' = strays - 1
  BY DEF StrayExpires, counts, pump
<1>2. strays' \in Nat /\ wakeTimer' \in BOOLEAN /\ open' \in BOOLEAN /\ (phase = "closed" => tail' = <<>> /\ ~pumping')
  BY <1>1 DEF AdmissionInv, Shape, ClosedOK
<1>. QED  BY <1>1, <1>2, PumpedUnchanged, QuietStep

\* settleRecoveredLease waits for its turn.
LEMMA RecoverStep ==
    ASSUME AdmissionInv, Recover
    PROVE  AdmissionInv'
<1>. DEFINE o == Op("recover", None)
<1>1. /\ UNCHANGED <<request, streak, stage, selection, leased, phase, passed, cancels>>
      /\ UNCHANGED <<open, strays, wakeTimer, pumping, waiters>> /\ tail' = Append(tail, o)
      /\ phase /= "closed"
  BY DEF Recover, counts, pump, store
<1>2. strays' \in Nat /\ wakeTimer' \in BOOLEAN /\ open' \in BOOLEAN
  BY <1>1 DEF AdmissionInv, Shape
<1>3. TailFor(tail, req, pumping) /\ tail \in Seq(Operation) /\ waiters \in 0..MaxWaiters /\ pumping \in BOOLEAN
  BY DEF AdmissionInv, TailOK, TailFor, Shape
<1>4. o \in Operation /\ o.kind = "recover" /\ o.of = None
  BY DEF Op, Operation
<1>. HIDE DEF o
<1>5. TailFor(Append(tail, o), req, pumping)
  BY <1>3, <1>4, AddIs, LaneIs DEF OperationOK, OfPump
<1>6. tail' /= <<>> /\ (tail /= <<>> => Head(tail') = Head(tail))
  BY <1>1, <1>3, <1>4, AppendIs
<1>7. Pumped(tail, req)
  BY <1>1, <1>3, <1>5, <1>6 DEF Pumped
<1>. QED  BY <1>1, <1>2, <1>7, QuietStep

-----------------------------------------------------------------------------
(* Callers. *)

\* What is known of a request that has not come yet.
LEMMA IdleIs ==
    ASSUME AdmissionInv, NEW r \in Requests, req[r] = "idle"
    PROVE  /\ r \notin Queued(queue) /\ r \notin cancelled /\ r \notin leased
           /\ \A s \in Requests : r \notin before[s]
           /\ NoOpOf(tail, r)
<1>1. r \notin Queued(queue) /\ r \notin cancelled
  BY DEF AdmissionInv, QueueOK
<1>2. r \notin leased
  BY DEF AdmissionInv, LeaseIsHeld
<1>3. \A s \in Requests : r \notin before[s]
  BY DEF AdmissionInv, BeforeOK
<1>4. NoOpOf(tail, r)
  BY NoOpIs DEF AdmissionInv, TailOK
<1>. QED  BY <1>1, <1>2, <1>3, <1>4

\* A bound that grows.
LEMMA LessThanMore ==
    ASSUME NEW a \in Nat, NEW b \in Nat, NEW c \in Nat, NEW d \in Nat, d >= c, NEW e \in Nat, e <= a
    PROVE  /\ a <= b + c => e <= b + d
           /\ a < b + c => e < b + d
OBVIOUS

\* PassedOK, when the running operation, the streak and the count stay.
LEMMA PassedKept ==
    ASSUME AdmissionInv, UNCHANGED <<stage, selection, streak, passed>>, TailKept,
           cancels' \in Nat, cancels' >= cancels,
           queue'["record"] = <<>> => queue["record"] = <<>>,
           stage = "granting" /\ selection \in cancelled' =>
              selection \in cancelled \/ (cancels' > cancels /\ Head(tail).kind = "try")
    PROVE  PassedOK'
<1>0. streak \in 0..2 /\ passed \in Nat /\ cancels \in Nat
  BY DEF AdmissionInv, Shape
<1>1. stage = "granting" => Head(tail') = Head(tail)
  BY DEF AdmissionInv, StageOK, Running, TailKept
<1>2. passed' <= streak' + cancels' /\ (queue'["record"] = <<>> => passed' = 0)
  <2>1. passed <= streak + cancels /\ (queue["record"] = <<>> => passed = 0)
    BY DEF AdmissionInv, PassedOK
  <2>2. passed' <= streak' + cancels'
    <3>1. streak \in Nat /\ passed <= passed
      BY <1>0
    <3>. QED  BY <1>0, <2>1, <3>1, LessThanMore
  <2>. QED  BY <2>1, <2>2
<1>3. ASSUME stage = "granting"
      PROVE  /\ selection \in Foreground /\ streak = 2 => passed = 0
             /\ selection \in Foreground /\ selection \in cancelled' /\ Head(tail).kind = "pump" =>
                   passed = 0 \/ passed < streak + cancels'
             /\ selection \in Record /\ (selection \in cancelled' \/ Head(tail).kind = "try") => passed = 0
  <2>1. /\ selection \in Foreground /\ streak = 2 => passed = 0
        /\ selection \in Foreground /\ selection \in cancelled /\ Head(tail).kind = "pump" =>
              passed = 0 \/ passed < streak + cancels
        /\ selection \in Record /\ (selection \in cancelled \/ Head(tail).kind = "try") => passed = 0
    BY <1>3 DEF AdmissionInv, PassedOK
  <2>2. passed < streak + cancels => passed < streak + cancels'
    <3>1. streak \in Nat /\ passed <= passed
      BY <1>0
    <3>. QED  BY <1>0, <3>1, LessThanMore
  <2>3. selection \in cancelled' => selection \in cancelled \/ Head(tail).kind = "try"
    BY <1>3
  <2>. QED  BY <2>1, <2>2, <2>3, Zenon
<1>. QED  BY <1>1, <1>2, <1>3 DEF PassedOK

\* acquire
LEMMA AcquireStep ==
    ASSUME AdmissionInv, NEW r \in Requests, Acquire(r)
    PROVE  AdmissionInv'
<1>0. /\ Shape /\ queue \in [Lanes -> Seq(Requests)] /\ LanesOK(queue) /\ req \in [Requests -> States]
      /\ before \in [Requests -> SUBSET Requests] /\ TailFor(tail, req, pumping)
  BY DEF AdmissionInv, Shape, QueueOK, TailOK
<1>1. /\ r \notin Candidates /\ phase = "open" /\ req[r] = "idle"
      /\ req' = [req EXCEPT ![r] = "queued"]
      /\ before' = [before EXCEPT ![r] = {s \in Queued(queue) : Lane(s) = Lane(r)}]
      /\ queue' = [queue EXCEPT ![Lane(r)] = Append(queue[Lane(r)], r)]
      /\ CallPump(queue', tail)
      /\ UNCHANGED <<cancelled, streak, stage, selection, leased, strays, open, wakeTimer, phase, passed, cancels>>
  BY DEF Acquire, Arrive, store, counts
<1>2. /\ r \notin Queued(queue) /\ r \notin cancelled /\ r \notin leased
      /\ \A s \in Requests : r \notin before[s]
      /\ NoOpOf(tail, r)
  BY <1>1, IdleIs
<1>3. /\ queue' \in [Lanes -> Seq(Requests)] /\ LanesOK(queue') /\ Queued(queue') = Queued(queue) \cup {r}
      /\ \A lane \in Lanes : \A i \in DOMAIN queue'[lane] :
            \/ i \in DOMAIN queue[lane] /\ queue'[lane][i] = queue[lane][i]
            \/ lane = Lane(r) /\ queue'[lane][i] = r /\ \A j \in DOMAIN queue[lane] : j < i
      /\ \A lane \in Lanes : queue[lane] /= <<>> => queue'[lane] /= <<>> /\ Head(queue'[lane]) = Head(queue[lane])
      /\ queue'["record"] = <<>> => queue["record"] = <<>>
  <2>1. queue' = [queue EXCEPT ![Lane(r)] = Append(queue[Lane(r)], r)] /\ r \notin Queued(queue)
    BY <1>1, <1>2
  <2>2. Lengthened(queue, queue', r)
    BY <1>0, <2>1, AppendedIs
  <2>. QED  BY <2>2 DEF Lengthened
<1>4. /\ req' \in [Requests -> States] /\ req'[r] = "queued"
      /\ \A s \in Requests : s /= r => req'[s] = req[s]
  BY <1>0, <1>1 DEF States
<1>5. TailFor(tail, req', pumping)
  BY <1>0, <1>2, <1>4, RelabelIs DEF Waits
<1>6. Pumped(tail, req')
  BY <1>0, <1>1, <1>5, CallPumpIs
<1>7. TailKept /\ TailOK' /\ waiters' \in 0..MaxWaiters /\ pumping' \in BOOLEAN
  BY <1>6 DEF Pumped, TailKept, TailOK
<1>8. /\ before' \in [Requests -> SUBSET Requests]
      /\ before'[r] = {s \in Queued(queue) : Lane(s) = Lane(r)}
      /\ \A s \in Requests : s /= r => before'[s] = before[s]
  <2>1. {s \in Queued(queue) : Lane(s) = Lane(r)} \in SUBSET Requests
    BY DEF Queued
  <2>. QED  BY <1>0, <1>1, <2>1
<1>9. Shape'
  BY <1>0, <1>1, <1>3, <1>4, <1>7, <1>8 DEF Shape
<1>10. QueueOK'
  <2>1. \A s \in Requests : s \in Queued(queue') <=>
           \/ req'[s] = "queued"
           \/ req'[s] = "granting" /\ s \notin Candidates /\ s \notin cancelled'
    BY <1>1, <1>2, <1>3, <1>4 DEF AdmissionInv, QueueOK
  <2>2. \A s \in Requests : req'[s] = "queued" => s \notin Candidates
    BY <1>1, <1>4 DEF AdmissionInv, QueueOK
  <2>3. \A s \in cancelled' : req'[s] \in {"trying", "granting", "undoing"}
    <3>1. cancelled \subseteq Requests
      BY <1>0 DEF Shape
    <3>. QED  BY <1>1, <1>2, <1>4, <3>1 DEF AdmissionInv, QueueOK
  <2>. QED  BY <1>3, <2>1, <2>2, <2>3 DEF QueueOK
<1>11. StageOK'
  <2>1. stage = "granting" => selection \in Requests /\ Lane(selection) \in Lanes
    BY LaneIs DEF AdmissionInv, StageOK
  <2>. QED  BY <1>1, <1>3, <1>4, <1>7, <2>1, StageKept
<1>12. BeforeOK'
  <2>1. ASSUME NEW s \in Requests, NEW x \in before'[s] PROVE Lane(x) = Lane(s) /\ req'[x] /= "idle"
    <3>1. CASE s = r
      <4>1. x \in Queued(queue) /\ Lane(x) = Lane(r) /\ x \in Requests
        BY <1>8, <2>1, <3>1 DEF Queued
      <4>2. req[x] /= "idle" /\ x /= r
        BY <1>2, <4>1, IdleIs
      <4>. QED  BY <1>4, <3>1, <4>1, <4>2
    <3>2. CASE s /= r
      <4>1. x \in before[s] /\ x \in Requests
        BY <1>8, <2>1, <3>2
      <4>. QED  BY <1>2, <1>4, <3>2, <4>1 DEF AdmissionInv, BeforeOK
    <3>. QED  BY <3>1, <3>2
  <2>2. ASSUME NEW lane \in Lanes, NEW i \in DOMAIN queue'[lane], NEW j \in DOMAIN queue'[lane],
               queue'[lane][j] \in before'[queue'[lane][i]]
        PROVE  j < i
    <3>1. /\ queue'[lane][i] = r => queue'[lane][j] \in Queued(queue)
          /\ queue'[lane][i] /= r => queue'[lane][j] \in before[queue'[lane][i]]
          /\ queue'[lane][i] \in Requests
      BY <1>3, <1>8, <2>2
    <3>2. queue'[lane][j] /= r
      BY <1>2, <3>1
    <3>3. j \in DOMAIN queue[lane] /\ queue'[lane][j] = queue[lane][j]
      BY <1>3, <3>2
    <3>4. CASE queue'[lane][i] = r
      <4>1. i \notin DOMAIN queue[lane] \/ queue'[lane][i] /= queue[lane][i]
        BY <1>0, <1>2, <3>4, QueuedIs
      <4>. QED  BY <1>3, <3>3, <4>1
    <3>5. CASE queue'[lane][i] /= r
      <4>1. i \in DOMAIN queue[lane] /\ queue'[lane][i] = queue[lane][i]
        BY <1>3, <3>5
      <4>. QED  BY <3>1, <3>3, <3>5, <4>1 DEF AdmissionInv, BeforeOK
    <3>. QED  BY <3>4, <3>5
  <2>3. ASSUME NEW s \in Requests, req'[s] = "permit" \/ (req'[s] = "granting" /\ s \in Candidates)
        PROVE  before'[s] \cap Queued(queue') = {}
    <3>1. s /= r /\ req'[s] = req[s] /\ before'[s] = before[s]
      BY <1>4, <1>8, <2>3
    <3>2. before[s] \cap Queued(queue) = {}
      BY <2>3, <3>1 DEF AdmissionInv, BeforeOK
    <3>. QED  BY <1>2, <1>3, <3>1, <3>2
  <2>. QED  BY <2>1, <2>2, <2>3 DEF BeforeOK
<1>13. ClosedOK'
  BY <1>1 DEF ClosedOK
<1>14. LeaseIsHeld'
  BY <1>1, <1>2, <1>4 DEF AdmissionInv, LeaseIsHeld
<1>15. PassedOK'
  <2>1. cancels' \in Nat /\ cancels' >= cancels
    BY <1>0, <1>1 DEF Shape
  <2>. QED  BY <1>1, <1>3, <1>7, <2>1, PassedKept
<1>. QED  BY <1>7, <1>9, <1>10, <1>11, <1>12, <1>13, <1>14, <1>15 DEF AdmissionInv

\* tryAcquire
LEMMA TryAcquireStep ==
    ASSUME AdmissionInv, NEW r \in Requests, TryAcquire(r)
    PROVE  AdmissionInv'
<1>0. /\ Shape /\ queue \in [Lanes -> Seq(Requests)] /\ LanesOK(queue) /\ req \in [Requests -> States]
      /\ before \in [Requests -> SUBSET Requests] /\ TailFor(tail, req, pumping) /\ tail \in Seq(Operation)
  BY DEF AdmissionInv, Shape, QueueOK, TailOK, TailFor
<1>. DEFINE o == Op("try", r)
<1>1. /\ r \in Candidates /\ phase = "open" /\ req[r] = "idle"
      /\ req' = [req EXCEPT ![r] = "trying"]
      /\ before' = [before EXCEPT ![r] = {s \in Queued(queue) : Lane(s) = Lane(r)}]
      /\ tail' = Append(tail, o)
      /\ UNCHANGED <<queue, cancelled, streak, pumping, waiters, stage, selection, leased, strays, open,
                     wakeTimer, phase, passed, cancels>>
  BY DEF TryAcquire, Arrive, store, counts, pump
<1>2. /\ r \notin Queued(queue) /\ r \notin cancelled /\ r \notin leased
      /\ \A s \in Requests : r \notin before[s]
      /\ NoOpOf(tail, r)
  BY <1>1, IdleIs
<1>3. o \in Operation /\ o.kind = "try" /\ o.of = r
  BY DEF Op, Operation
<1>. HIDE DEF o
<1>4. /\ req' \in [Requests -> States] /\ req'[r] = "trying"
      /\ \A s \in Requests : s /= r => req'[s] = req[s]
  BY <1>0, <1>1 DEF States
<1>5. TailOK'
  <2>1. OperationOK(o, req')
    BY <1>1, <1>3, <1>4, LaneIs DEF OperationOK
  <2>2. TailFor(Append(tail, o), req', pumping)
    BY <1>0, <1>2, <1>3, <1>4, <2>1, AddIs DEF OfPump
  <2>. QED  BY <1>1, <2>2 DEF TailOK
<1>7. TailKept
  BY <1>0, <1>1, <1>3, AppendIs DEF TailKept
<1>8. /\ before' \in [Requests -> SUBSET Requests]
      /\ before'[r] = {s \in Queued(queue) : Lane(s) = Lane(r)}
      /\ \A s \in Requests : s /= r => before'[s] = before[s]
  <2>1. {s \in Queued(queue) : Lane(s) = Lane(r)} \in SUBSET Requests
    BY DEF Queued
  <2>. QED  BY <1>0, <1>1, <2>1
<1>9. Shape'
  BY <1>0, <1>1, <1>4, <1>8 DEF Shape
<1>10. QueueOK'
  BY <1>0, <1>1, <1>2, <1>4 DEF AdmissionInv, QueueOK
<1>11. StageOK'
  BY <1>1, <1>4, <1>7, StageKept
<1>12. BeforeOK'
  <2>1. ASSUME NEW s \in Requests, NEW x \in before'[s] PROVE Lane(x) = Lane(s) /\ req'[x] /= "idle"
    <3>1. CASE s = r
      <4>1. x \in Queued(queue) /\ Lane(x) = Lane(r) /\ x \in Requests
        BY <1>8, <2>1, <3>1 DEF Queued
      <4>2. req[x] /= "idle" /\ x /= r
        BY <1>2, <4>1, IdleIs
      <4>. QED  BY <1>4, <3>1, <4>1, <4>2
    <3>2. CASE s /= r
      <4>1. x \in before[s] /\ x \in Requests
        BY <1>8, <2>1, <3>2
      <4>. QED  BY <1>2, <1>4, <3>2, <4>1 DEF AdmissionInv, BeforeOK
    <3>. QED  BY <3>1, <3>2
  <2>2. ASSUME NEW lane \in Lanes, NEW i \in DOMAIN queue[lane], NEW j \in DOMAIN queue[lane],
               queue[lane][j] \in before'[queue[lane][i]]
        PROVE  j < i
    <3>1. queue[lane][i] /= r /\ queue[lane][i] \in Requests
      BY <1>0, <1>2, QueuedIs
    <3>. QED  BY <1>8, <2>2, <3>1 DEF AdmissionInv, BeforeOK
  <2>3. ASSUME NEW s \in Requests, req'[s] = "permit" \/ (req'[s] = "granting" /\ s \in Candidates)
        PROVE  before'[s] \cap Queued(queue) = {}
    BY <1>4, <1>8, <2>3 DEF AdmissionInv, BeforeOK
  <2>. QED  BY <1>1, <2>1, <2>2, <2>3 DEF BeforeOK
<1>13. ClosedOK'
  BY <1>1 DEF ClosedOK
<1>14. LeaseIsHeld'
  BY <1>1, <1>2, <1>4 DEF AdmissionInv, LeaseIsHeld
<1>15. PassedOK'
  <2>1. cancels' \in Nat /\ cancels' >= cancels
    BY <1>0, <1>1 DEF Shape
  <2>. QED  BY <1>1, <1>7, <2>1, PassedKept
<1>. QED  BY <1>5, <1>9, <1>10, <1>11, <1>12, <1>13, <1>14, <1>15 DEF AdmissionInv

\* Nobody is put in front of anybody by leaving a queue.
LEMMA BeforeThinned ==
    ASSUME AdmissionInv, Thinned(queue, queue'), Queued(queue') \subseteq Queued(queue),
           \A s \in Requests : before'[s] \subseteq before[s],
           \A s \in Requests : \A x \in before'[s] : req'[x] /= "idle",
           \A s \in Requests : req'[s] = "permit" \/ (req'[s] = "granting" /\ s \in Candidates) =>
              \/ req[s] = "permit" \/ (req[s] = "granting" /\ s \in Candidates)
              \/ before'[s] \cap Queued(queue') = {}
    PROVE  BeforeOK'
<1>0. queue \in [Lanes -> Seq(Requests)]
  BY DEF AdmissionInv, Shape
<1>1. \A s \in Requests : \A x \in before'[s] : Lane(x) = Lane(s) /\ req'[x] /= "idle"
  BY DEF AdmissionInv, BeforeOK
<1>2. ASSUME NEW lane \in Lanes, NEW i \in DOMAIN queue'[lane], NEW j \in DOMAIN queue'[lane],
             queue'[lane][j] \in before'[queue'[lane][i]]
      PROVE  j < i
  <2>1. PICK k, l \in DOMAIN queue[lane] :
           queue'[lane][i] = queue[lane][k] /\ queue'[lane][j] = queue[lane][l] /\ (l < k => j < i)
    BY DEF Thinned
  <2>2. queue[lane][k] \in Requests
    BY <1>0
  <2>3. queue[lane][l] \in before[queue[lane][k]]
    BY <1>2, <2>1, <2>2
  <2>. QED  BY <2>1, <2>3 DEF AdmissionInv, BeforeOK
<1>3. \A s \in Requests : req'[s] = "permit" \/ (req'[s] = "granting" /\ s \in Candidates) =>
         before'[s] \cap Queued(queue') = {}
  BY DEF AdmissionInv, BeforeOK
<1>. QED  BY <1>1, <1>2, <1>3 DEF BeforeOK

\* The count of the permits foreground got.
LEMMA CountIs ==
    ASSUME AdmissionInv, NEW q \in [Lanes -> Seq(Requests)], LanesOK(q), NEW permit, CountPassed(q, permit)
    PROVE  /\ passed' \in Nat
           /\ q["record"] = <<>> \/ queue["record"] = <<>> => passed' = 0
           /\ passed' /= 0 => /\ Head(q["record"]) = Head(queue["record"])
                              /\ passed' = IF permit \in Foreground THEN passed + 1 ELSE passed
<1>1. queue \in [Lanes -> Seq(Requests)] /\ LanesOK(queue) /\ passed \in Nat
  BY DEF AdmissionInv, Shape, QueueOK
<1>2. q.record = q["record"] /\ queue.record = queue["record"]
  BY <1>1, QueuedIs
<1>3. passed' = IF queue["record"] = <<>> \/ q["record"] = <<>> \/ Head(q["record"]) /= Head(queue["record"])
                THEN 0
                ELSE IF permit \in Foreground THEN passed + 1 ELSE passed
  BY <1>2 DEF CountPassed
<1>. QED  BY <1>1, <1>3

\* What is being granted by the pump is no candidate; what is being tried is.
LEMMA GrantingIs ==
    ASSUME AdmissionInv, stage = "granting"
    PROVE  /\ tail /= <<>> /\ Head(tail).kind \in {"pump", "try"}
           /\ selection \in Requests /\ req[selection] = "granting" /\ selection /= None
           /\ Head(tail).kind = "pump" <=> selection \notin Candidates
           /\ Head(tail).kind = "try" <=> selection \in Candidates
           /\ Head(tail).kind = "try" => Head(tail).of = selection
           /\ Head(tail).kind = "pump" => Head(tail).of = None
           /\ Lane(selection) \in Lanes
<1>1. /\ tail /= <<>> /\ Head(tail).kind \in {"pump", "try"}
      /\ selection \in Requests /\ req[selection] = "granting"
      /\ Head(tail).kind = "try" => selection = Head(tail).of
      /\ Head(tail).kind = "pump" => selection \notin Candidates
  BY DEF AdmissionInv, StageOK, Running
<1>2. tail \in Seq(Operation)
  BY DEF AdmissionInv, TailOK, TailFor
<1>3. Head(tail) = tail[1] /\ 1 \in DOMAIN tail
  BY <1>1, <1>2, TailIs
<1>4. OperationOK(Head(tail), req)
  BY <1>3 DEF AdmissionInv, TailOK, TailFor
<1>. QED  BY <1>1, <1>4, LaneIs DEF OperationOK

\* cancelQueuedRequest
LEMMA CancelStep ==
    ASSUME AdmissionInv, NEW r \in Requests, Cancel(r)
    PROVE  AdmissionInv'
<1>0. /\ Shape /\ queue \in [Lanes -> Seq(Requests)] /\ LanesOK(queue) /\ req \in [Requests -> States]
      /\ before \in [Requests -> SUBSET Requests] /\ TailFor(tail, req, pumping) /\ cancelled \subseteq Requests
      /\ passed \in Nat /\ streak \in 0..2 /\ cancels \in Nat
  BY DEF AdmissionInv, Shape, QueueOK, TailOK
<1>1. /\ cancels' = cancels + 1 /\ req[r] \in {"queued", "granting"} /\ r \notin cancelled /\ r \notin Candidates
      /\ queue' = Removed(queue, r)
      /\ CallPump(queue', tail) /\ CountPassed(queue', None)
      /\ UNCHANGED <<streak, stage, selection, leased, strays, open, wakeTimer, phase>>
  BY DEF Cancel, store
<1>2. Shortened(queue, queue', r)
  BY <1>0, <1>1, RemovedIs
<1>3. /\ queue' \in [Lanes -> Seq(Requests)] /\ LanesOK(queue') /\ Queued(queue') = Queued(queue) \ {r}
      /\ Thinned(queue, queue')
      /\ \A lane \in Lanes : queue[lane] /= <<>> /\ Head(queue[lane]) /= r =>
            queue'[lane] /= <<>> /\ Head(queue'[lane]) = Head(queue[lane])
  BY <1>2 DEF Shortened
<1>4. /\ passed' \in Nat
      /\ queue'["record"] = <<>> \/ queue["record"] = <<>> => passed' = 0
      /\ passed' /= 0 => Head(queue'["record"]) = Head(queue["record"]) /\ passed' = passed
  <2>1. None \notin Foreground
    BY AdmissionAssumption DEF Requests
  <2>. QED  BY <1>1, <1>3, <2>1, CountIs
<1>5. ASSUME TailFor(tail, req', pumping)
      PROVE  /\ TailOK' /\ TailKept /\ waiters' \in 0..MaxWaiters /\ pumping' \in BOOLEAN
             /\ ClosedOK'
  <2>1. Pumped(tail, req') /\ (NoneQueued(queue') /\ ~pumping => tail' = tail /\ ~pumping')
    BY <1>0, <1>1, <1>5, CallPumpIs
  <2>2. phase /= "open" => NoneQueued(queue')
    <3>1. phase /= "open" => Queued(queue) = {}
      BY <1>0, QueuedIs DEF AdmissionInv, ClosedOK
    <3>. QED  BY <1>3, <3>1, QueuedIs
  <2>3. ClosedOK'
    BY <1>1, <2>1, <2>2 DEF AdmissionInv, ClosedOK
  <2>. QED  BY <2>1, <2>3 DEF Pumped, TailOK, TailKept
<1>6. CASE req[r] = "granting"
  <2>1. cancelled' = cancelled \cup {r} /\ UNCHANGED <<req, before>>
    BY <1>6 DEF Cancel
  <2>2. stage = "granting" /\ selection = r
    BY <1>6 DEF AdmissionInv, StageOK
  <2>3. /\ TailOK' /\ TailKept /\ waiters' \in 0..MaxWaiters /\ pumping' \in BOOLEAN /\ ClosedOK'
    BY <1>0, <1>5, <2>1
  <2>4. Shape'
    BY <1>0, <1>1, <1>3, <1>4, <2>1, <2>3 DEF Shape
  <2>5. QueueOK'
    BY <1>1, <1>3, <1>6, <2>1 DEF AdmissionInv, QueueOK
  <2>6. StageOK'
    BY <1>1, <2>1, <2>2, <2>3, StageKept
  <2>7. BeforeOK'
    <3>1. \A s \in Requests : \A x \in before[s] : req[x] /= "idle"
      BY DEF AdmissionInv, BeforeOK
    <3>. QED  BY <1>3, <2>1, <3>1, BeforeThinned
  <2>8. LeaseIsHeld'
    BY <1>1, <2>1 DEF AdmissionInv, LeaseIsHeld
  <2>9. PassedOK'
    <3>1. Head(tail).kind = "pump" /\ Head(tail') = Head(tail) /\ Lane(r) \in Lanes
      BY <1>1, <2>2, <2>3, GrantingIs DEF TailKept
    <3>2. passed <= streak + cancels /\ (r \in Foreground /\ streak = 2 => passed = 0)
      BY <2>2 DEF AdmissionInv, PassedOK
    <3>3. passed' <= passed
      BY <1>0, <1>4
    <3>4. passed' <= streak + cancels' /\ passed' < streak + cancels'
      <4>1. streak \in Nat
        BY <1>0
      <4>. HIDE <1>5
      <4>. QED  BY <1>0, <1>1, <1>4, <3>2, <3>3, <4>1
    <3>5. r \in Foreground /\ streak = 2 => passed' = 0
      BY <1>4, <3>2
    <3>6. r \in Record => passed' = 0
      <4>1. SUFFICES ASSUME r \in Record, passed' /= 0 PROVE FALSE
        OBVIOUS
      <4>2. Lane(r) = "record"
        BY <4>1, LaneIs
      <4>3. Head(queue["record"]) = r
        BY <1>1, <2>2, <3>1, <4>2 DEF AdmissionInv, StageOK
      <4>4. queue'["record"] /= <<>> /\ Head(queue'["record"]) = r /\ "record" \in Lanes
        BY <1>4, <4>1, <4>3 DEF Lanes
      <4>5. 1 \in DOMAIN queue'["record"] /\ queue'["record"][1] = r
        BY <1>3, <4>4, EmptyIs
      <4>6. r \in Queued(queue')
        BY <1>3, <4>4, <4>5, QueuedIs
      <4>. QED  BY <1>3, <4>6
    <3>. QED  BY <1>1, <1>4, <2>2, <3>1, <3>4, <3>5, <3>6 DEF PassedOK
  <2>. QED  BY <2>3, <2>4, <2>5, <2>6, <2>7, <2>8, <2>9 DEF AdmissionInv
<1>7. CASE req[r] = "queued"
  <2>. DEFINE gone == {r}
  <2>1. Over(gone) /\ gone \subseteq Requests /\ Queued(queue') = Queued(queue) \ gone
    BY <1>3, <1>7 DEF Cancel
  <2>2. leased' = leased /\ \A s \in gone : req[s] \notin {"permit", "completing", "undoing"}
    BY <1>1, <1>7
  <2>. HIDE DEF gone
  <2>3. /\ req' \in [Requests -> States] /\ cancelled' \subseteq Requests
        /\ before' \in [Requests -> SUBSET Requests] /\ leased' \subseteq Requests
        /\ QueueOK' /\ BeforeOK' /\ LeaseIsHeld'
        /\ \A s \in Requests : req'[s] = IF s \in gone THEN "idle" ELSE req[s]
        /\ cancelled' = cancelled \ gone
    BY <1>3, <2>1, <2>2, OverIs
  <2>4. \A s \in Requests : s /= r => req'[s] = req[s]
    BY <2>3 DEF gone
  <2>5. req'[r] = "idle" /\ cancelled' = cancelled
    BY <1>1, <2>3 DEF gone
  <2>6. TailFor(tail, req', pumping)
    <3>1. NoOpOf(tail, r)
      BY <1>0, <1>7, NoOpIs
    <3>. QED  BY <1>0, <2>4, <2>5, <3>1, RelabelIs DEF Waits
  <2>7. /\ TailOK' /\ TailKept /\ waiters' \in 0..MaxWaiters /\ pumping' \in BOOLEAN /\ ClosedOK'
    BY <1>5, <2>6
  <2>8. Shape'
    BY <1>0, <1>1, <1>3, <1>4, <2>3, <2>7 DEF Shape
  <2>9. stage = "granting" => selection /= r /\ Lane(selection) \in Lanes
    BY <1>7, GrantingIs
  <2>10. StageOK'
    BY <1>1, <1>3, <1>7, <2>4, <2>5, <2>7, <2>9, StageKept
  <2>11. PassedOK'
    <3>1. stage = "granting" => Head(tail') = Head(tail)
      BY <2>7, GrantingIs DEF TailKept
    <3>2. passed <= streak + cancels
      BY DEF AdmissionInv, PassedOK
    <3>3. passed' <= passed /\ (passed = 0 => passed' = 0)
      BY <1>0, <1>4
    <3>4. streak \in Nat /\ cancels' \in Nat /\ cancels' >= cancels
      BY <1>0, <1>1
    <3>5. passed' <= streak + cancels' /\ (passed < streak + cancels => passed' < streak + cancels')
      BY <1>0, <1>4, <3>2, <3>3, <3>4, LessThanMore
    <3>. QED  BY <1>1, <1>4, <2>5, <3>1, <3>3, <3>5 DEF AdmissionInv, PassedOK
  <2>. QED  BY <2>3, <2>7, <2>8, <2>10, <2>11 DEF AdmissionInv
<1>. QED  BY <1>1, <1>6, <1>7

\* The signal of a candidate.
LEMMA AbortCandidateStep ==
    ASSUME AdmissionInv, NEW r \in Requests, AbortCandidate(r)
    PROVE  AdmissionInv'
<1>0. Shape /\ cancels \in Nat
  BY DEF AdmissionInv, Shape
<1>1. /\ cancels' = cancels + 1 /\ req[r] \in {"trying", "granting"} /\ r \notin cancelled /\ r \in Candidates
      /\ cancelled' = cancelled \cup {r}
      /\ UNCHANGED <<queue, req, before, streak, pumping, waiters, tail, stage, selection, leased, strays, open,
                     wakeTimer, phase, passed>>
  BY DEF AbortCandidate, store, pump
<1>2. Shape' /\ TailOK' /\ BeforeOK' /\ ClosedOK' /\ LeaseIsHeld' /\ TailKept
  BY <1>0, <1>1 DEF AdmissionInv, Shape, TailOK, BeforeOK, ClosedOK, LeaseIsHeld, TailKept
<1>3. QueueOK'
  BY <1>1 DEF AdmissionInv, QueueOK
<1>4. StageOK'
  BY <1>1, <1>2, StageKept
<1>5. PassedOK'
  <2>1. stage = "granting" /\ selection = r => Head(tail).kind = "try"
    BY <1>1, GrantingIs
  <2>2. cancels' \in Nat /\ cancels' >= cancels /\ cancels' > cancels
    BY <1>0, <1>1
  <2>. QED  BY <1>1, <1>2, <2>1, <2>2, PassedKept
<1>. QED  BY <1>2, <1>3, <1>4, <1>5 DEF AdmissionInv

\* The lease of a permit is given back, or left to expire.
LEMMA CompleteStep ==
    ASSUME AdmissionInv, NEW r \in Requests, Complete(r)
    PROVE  AdmissionInv'
<1>0. /\ Shape /\ queue \in [Lanes -> Seq(Requests)] /\ LanesOK(queue) /\ req \in [Requests -> States]
      /\ TailFor(tail, req, pumping) /\ tail \in Seq(Operation) /\ strays \in Nat /\ cancels \in Nat
  BY DEF AdmissionInv, Shape, QueueOK, TailOK, TailFor
<1>1. /\ req[r] = "permit"
      /\ UNCHANGED <<queue, streak, stage, selection, open, wakeTimer, phase, passed, cancels>>
  BY DEF Complete, counts
<1>2. NoOpOf(tail, r) /\ r \notin cancelled /\ r \notin Queued(queue)
  <2>1. NoOpOf(tail, r)
    BY <1>0, <1>1, NoOpIs
  <2>. QED  BY <1>1, <2>1 DEF AdmissionInv, QueueOK
<1>c. cancels' \in Nat /\ cancels' >= cancels /\ (queue'["record"] = <<>> => queue["record"] = <<>>)
  BY <1>0, <1>1
<1>3. CASE phase = "closed"
  <2>. DEFINE gone == {r}
  <2>1. /\ Over(gone) /\ leased' = leased \ gone /\ strays' = strays + 1 /\ CallPump(queue, tail)
        /\ gone \subseteq Requests /\ Queued(queue') = Queued(queue) \ gone
    BY <1>1, <1>2, <1>3 DEF Complete
  <2>2. queue' \in [Lanes -> Seq(Requests)] /\ LanesOK(queue') /\ Thinned(queue, queue')
    BY <1>0, <1>1, QueuedIs
  <2>. HIDE DEF gone
  <2>3. /\ req' \in [Requests -> States] /\ cancelled' \subseteq Requests
        /\ before' \in [Requests -> SUBSET Requests] /\ leased' \subseteq Requests
        /\ QueueOK' /\ BeforeOK' /\ LeaseIsHeld'
        /\ \A s \in Requests : req'[s] = IF s \in gone THEN "idle" ELSE req[s]
        /\ cancelled' = cancelled \ gone
    BY <2>1, <2>2, OverIs
  <2>4. req'[r] = "idle" /\ cancelled' = cancelled /\ \A s \in Requests : s /= r => req'[s] = req[s]
    BY <1>2, <2>3 DEF gone
  <2>5. TailFor(tail, req', pumping)
    BY <1>0, <1>2, <2>4, RelabelIs DEF Waits
  <2>6. tail = <<>> /\ ~pumping /\ NoneQueued(queue)
    BY <1>3 DEF AdmissionInv, ClosedOK
  <2>7. Pumped(tail, req') /\ tail' = tail /\ ~pumping'
    BY <1>0, <2>1, <2>5, <2>6, CallPumpIs
  <2>8. TailOK' /\ TailKept /\ waiters' \in 0..MaxWaiters /\ pumping' \in BOOLEAN
    BY <2>7 DEF Pumped, TailOK, TailKept
  <2>9. ClosedOK'
    BY <1>1, <2>6, <2>7 DEF ClosedOK
  <2>10. Shape'
    BY <1>0, <1>1, <2>1, <2>2, <2>3, <2>8 DEF Shape
  <2>11. StageOK'
    BY <1>1, <2>4, <2>8, StageKept
  <2>12. PassedOK'
    BY <1>1, <1>c, <2>4, <2>8, PassedKept
  <2>. QED  BY <2>3, <2>8, <2>9, <2>10, <2>11, <2>12 DEF AdmissionInv
<1>4. CASE phase /= "closed"
  <2>. DEFINE o == Op("complete", r)
  <2>1. /\ req' = [req EXCEPT ![r] = "completing"] /\ tail' = Append(tail, o)
        /\ UNCHANGED <<cancelled, before, leased, strays, pumping, waiters>>
    BY <1>4 DEF Complete, pump
  <2>2. o \in Operation /\ o.kind = "complete" /\ o.of = r
    BY DEF Op, Operation
  <2>. HIDE DEF o
  <2>3. /\ req' \in [Requests -> States] /\ req'[r] = "completing"
        /\ \A s \in Requests : s /= r => req'[s] = req[s]
    BY <1>0, <2>1 DEF States
  <2>4. OperationOK(o, req')
    BY <2>2, <2>3, LaneIs DEF OperationOK
  <2>5. TailFor(Append(tail, o), req', pumping)
    BY <1>0, <1>2, <2>2, <2>3, <2>4, AddIs DEF OfPump
  <2>6. TailKept /\ TailOK'
    BY <1>0, <2>1, <2>2, <2>5, AppendIs DEF TailKept, TailOK
  <2>7. Shape'
    BY <1>0, <1>1, <2>1, <2>3 DEF Shape
  <2>8. QueueOK'
    <3>1. cancelled \subseteq Requests
      BY <1>0 DEF Shape
    <3>. QED  BY <1>1, <1>2, <2>1, <2>3, <3>1 DEF AdmissionInv, QueueOK
  <2>9. StageOK'
    BY <1>1, <2>1, <2>3, <2>6, StageKept
  <2>10. BeforeOK'
    <3>1. \A s \in Requests : before[s] \subseteq Requests
      BY <1>0 DEF Shape
    <3>. QED  BY <1>1, <2>1, <2>3, <3>1 DEF AdmissionInv, BeforeOK
  <2>11. ClosedOK'
    BY <1>1, <1>4 DEF AdmissionInv, ClosedOK
  <2>12. LeaseIsHeld'
    BY <1>1, <2>1, <2>3 DEF AdmissionInv, LeaseIsHeld
  <2>13. PassedOK'
    BY <1>1, <1>c, <2>1, <2>6, PassedKept
  <2>. QED  BY <2>6, <2>7, <2>8, <2>9, <2>10, <2>11, <2>12, <2>13 DEF AdmissionInv
<1>. QED  BY <1>3, <1>4

-----------------------------------------------------------------------------
(* The operations on the control file. *)

\* What is known of the running operation.
LEMMA RunningIs ==
    ASSUME AdmissionInv, tail /= <<>>
    PROVE  /\ Head(tail) \in Operation /\ OperationOK(Head(tail), req)
           /\ Head(tail).kind \in OfPump => pumping
           /\ phase /= "closed" /\ tail \in Seq(Operation) /\ TailFor(tail, req, pumping)
           /\ \A r \in Requests : req[r] = "granting" => stage = "granting" /\ selection = r
           /\ stage /= "granting" => selection = None
<1>1. tail \in Seq(Operation)
  BY DEF AdmissionInv, TailOK, TailFor
<1>2. Head(tail) = tail[1] /\ 1 \in DOMAIN tail /\ Head(tail) \in Operation
  BY <1>1, TailIs
<1>. QED  BY <1>1, <1>2 DEF AdmissionInv, TailOK, TailFor, ClosedOK, StageOK

\* A step that ends the running operation, and with it requests.
LEMMA EndStep ==
    ASSUME AdmissionInv, tail /= <<>>, NEW gone, gone \subseteq Requests, Over(gone),
           queue' \in [Lanes -> Seq(Requests)], LanesOK(queue'),
           Queued(queue') = Queued(queue) \ gone, Thinned(queue, queue'),
           \/ leased' = leased \ gone
           \/ leased' = leased /\ \A r \in gone : req[r] \notin {"permit", "completing", "undoing"},
           stage = "granting" => selection \in gone,
           stage' = "begin", selection' = None, UNCHANGED <<streak, phase, cancels>>,
           passed' \in {0, passed}, queue'["record"] = <<>> => passed' = 0,
           strays' \in Nat, open' \in BOOLEAN, wakeTimer' \in BOOLEAN,
           TailFor(tail', req', pumping'), waiters' \in 0..MaxWaiters, pumping' \in BOOLEAN
    PROVE  AdmissionInv'
<1>0. Shape /\ passed \in Nat /\ streak \in 0..2 /\ cancels \in Nat
  BY DEF AdmissionInv, Shape
<1>1. /\ req' \in [Requests -> States] /\ cancelled' \subseteq Requests
      /\ before' \in [Requests -> SUBSET Requests] /\ leased' \subseteq Requests
      /\ QueueOK' /\ BeforeOK' /\ LeaseIsHeld'
      /\ \A r \in Requests : req'[r] = IF r \in gone THEN "idle" ELSE req[r]
  BY OverIs
<1>2. \A r \in Requests : req'[r] /= "granting"
  BY <1>1, RunningIs
<1>3. StageOK'
  BY <1>2 DEF StageOK
<1>4. Shape'
  BY <1>0, <1>1 DEF Shape
<1>5. TailOK'
  BY DEF TailOK
<1>6. ClosedOK'
  <2>1. phase /= "closed"
    BY RunningIs
  <2>2. phase /= "open" => NoneQueued(queue')
    <3>1. phase /= "open" => Queued(queue) = {}
      BY QueuedIs DEF AdmissionInv, ClosedOK, Shape, QueueOK
    <3>. QED  BY <3>1, QueuedIs
  <2>. QED  BY <2>1, <2>2 DEF ClosedOK
<1>7. PassedOK'
  <2>1. passed <= streak + cancels
    BY DEF AdmissionInv, PassedOK
  <2>2. passed' <= streak + cancels
    BY <1>0, <2>1
  <2>. QED  BY <2>2 DEF PassedOK
<1>. QED  BY <1>1, <1>3, <1>4, <1>5, <1>6, <1>7 DEF AdmissionInv

-----------------------------------------------------------------------------
(* tryGrantExclusive *)

\* A lane, with a candidate behind it.
LEMMA JoinIs ==
    ASSUME NEW s \in Seq(Requests), NEW c \in Requests
    PROVE  /\ s \o <<>> = s /\ s \o <<c>> /= <<>>
           /\ Head(s \o <<c>>) = IF s = <<>> THEN c ELSE Head(s)
OBVIOUS

\* selectRequest: the first of a lane, or a candidate whose lane is empty; foreground
\* after two foreground grants only if no record request waits.
LEMMA SelectedIs ==
    ASSUME AdmissionInv, Running({"pump", "try"}), stage = "begin", Selected /= None
    PROVE  /\ Selected \in Requests /\ Lane(Selected) \in Lanes
           /\ Head(tail).kind = "pump" =>
                 queue[Lane(Selected)] /= <<>> /\ Head(queue[Lane(Selected)]) = Selected
           /\ Head(tail).kind = "try" => Selected = Head(tail).of /\ queue[Lane(Selected)] = <<>>
           /\ Selected \in Foreground /\ streak = 2 => queue["record"] = <<>>
<1>. DEFINE c == Head(tail).of
            f == queue["foreground"]
            g == queue["record"]
            jf == IF c /= None /\ Lane(c) = "foreground" THEN <<c>> ELSE <<>>
            jg == IF c /= None /\ Lane(c) = "record" THEN <<c>> ELSE <<>>
            x == SelectRequest(c)
<1>0. queue \in [Lanes -> Seq(Requests)] /\ LanesOK(queue) /\ tail /= <<>> /\ Head(tail).kind \in {"pump", "try"}
  BY DEF AdmissionInv, Shape, QueueOK, Running
<1>1. f \in Seq(Requests) /\ g \in Seq(Requests) /\ queue.foreground = f /\ queue.record = g
  BY <1>0 DEF Lanes
<1>2. x = IF f \o jf = <<>> /\ g \o jg = <<>> THEN None
          ELSE IF f \o jf = <<>> \/ (g \o jg /= <<>> /\ streak >= 2) THEN Head(g \o jg)
          ELSE Head(f \o jf)
  BY <1>1 DEF SelectRequest
<1>3. c \in Requests \cup {None} /\ (Head(tail).kind = "pump" <=> c = None)
      /\ (Head(tail).kind = "try" => c \in Requests /\ req[c] \in {"trying", "granting"})
  <2>1. OperationOK(Head(tail), req) /\ Head(tail) \in Operation
    BY <1>0, RunningIs
  <2>. QED  BY <1>0, <2>1 DEF OperationOK, Operation
<1>4. Selected = x /\ (c = None \/ x = c) /\ x /= None
  BY DEF Selected
<1>5. \A s \in Seq(Requests) : s /= <<>> => 1 \in DOMAIN s /\ Head(s) = s[1] /\ Head(s) \in Requests
  BY EmptyIs, TailIs
<1>. HIDE DEF x, c, f, g
<1>l. "foreground" \in Lanes /\ "record" \in Lanes
  BY DEF Lanes
<1>6. /\ f /= <<>> => Head(f) \in Queued(queue) /\ Lane(Head(f)) = "foreground"
      /\ g /= <<>> => Head(g) \in Queued(queue) /\ Lane(Head(g)) = "record"
  <2>1. ASSUME NEW lane \in Lanes, queue[lane] /= <<>>
        PROVE  Head(queue[lane]) \in Queued(queue) /\ Lane(Head(queue[lane])) = lane
    <3>1. 1 \in DOMAIN queue[lane] /\ Head(queue[lane]) = queue[lane][1]
      BY <1>0, <1>5, <2>1
    <3>. QED  BY <1>0, <3>1, QueuedIs DEF LanesOK
  <2>. QED  BY <1>l, <2>1 DEF f, g
<1>7. CASE c = None
  <2>1. f \o jf = f /\ g \o jg = g
    <3>1. f \o <<>> = f /\ g \o <<>> = g
      BY <1>1
    <3>. QED  BY <1>7, <3>1
  <2>2. x = IF f = <<>> /\ g = <<>> THEN None
            ELSE IF f = <<>> \/ (g /= <<>> /\ streak >= 2) THEN Head(g) ELSE Head(f)
    BY <1>2, <2>1
  <2>3. \/ f /= <<>> /\ x = Head(f) /\ ~(g /= <<>> /\ streak >= 2)
        \/ g /= <<>> /\ x = Head(g)
    BY <1>4, <2>2
  <2>4. Head(tail).kind = "pump" /\ x \in Requests /\ Lane(x) \in Lanes
    BY <1>1, <1>3, <1>5, <1>7, <2>3, LaneIs
  <2>5. queue[Lane(x)] /= <<>> /\ Head(queue[Lane(x)]) = x
    BY <1>6, <2>3 DEF f, g
  <2>6. x \in Foreground /\ streak = 2 => g = <<>>
    <3>1. streak = 2 => streak >= 2
      OBVIOUS
    <3>2. x \in Foreground => Lane(x) = "foreground"
      BY <2>4, LaneIs
    <3>. QED  BY <1>6, <2>3, <3>1, <3>2
  <2>. QED  BY <1>4, <2>4, <2>5, <2>6 DEF g
<1>8. CASE c /= None
  <2>1. Head(tail).kind = "try" /\ c \in Requests /\ req[c] = "trying" /\ x = c /\ Lane(c) \in Lanes
    <3>1. Head(tail).kind = "try" /\ c \in Requests /\ req[c] \in {"trying", "granting"}
      BY <1>0, <1>3, <1>8
    <3>2. req[c] /= "granting"
      BY <1>0, <3>1, RunningIs
    <3>. QED  BY <1>4, <1>8, <3>1, <3>2, LaneIs
  <2>2. c \notin Queued(queue)
    BY <2>1 DEF AdmissionInv, QueueOK
  <2>3. CASE c \in Foreground
    <3>1. Lane(c) = "foreground" /\ jf = <<c>> /\ jg = <<>>
      BY <1>8, <2>1, <2>3, LaneIs
    <3>2. f \o jf /= <<>> /\ g \o jg = g /\ Head(f \o jf) = IF f = <<>> THEN c ELSE Head(f)
      <4>1. f \o <<c>> /= <<>> /\ g \o <<>> = g /\ Head(f \o <<c>>) = IF f = <<>> THEN c ELSE Head(f)
        BY <1>1, <2>1, JoinIs
      <4>. QED  BY <3>1, <4>1
    <3>3. x = IF g /= <<>> /\ streak >= 2 THEN Head(g) ELSE IF f = <<>> THEN c ELSE Head(f)
      BY <1>2, <3>2
    <3>4. f = <<>> /\ ~(g /= <<>> /\ streak >= 2)
      BY <1>6, <2>1, <2>2, <3>3
    <3>5. streak = 2 => streak >= 2
      OBVIOUS
    <3>. QED  BY <1>4, <2>1, <3>1, <3>4, <3>5 DEF f, g, c
  <2>4. CASE c \notin Foreground
    <3>1. Lane(c) = "record" /\ jf = <<>> /\ jg = <<c>>
      BY <1>8, <2>1, <2>4 DEF Lane
    <3>2. g \o jg /= <<>> /\ f \o jf = f /\ Head(g \o jg) = IF g = <<>> THEN c ELSE Head(g)
      <4>1. g \o <<c>> /= <<>> /\ f \o <<>> = f /\ Head(g \o <<c>>) = IF g = <<>> THEN c ELSE Head(g)
        BY <1>1, <2>1, JoinIs
      <4>. QED  BY <3>1, <4>1
    <3>3. x = IF f = <<>> \/ streak >= 2 THEN IF g = <<>> THEN c ELSE Head(g) ELSE Head(f)
      BY <1>2, <3>2
    <3>4. g = <<>>
      BY <1>6, <2>1, <2>2, <3>3
    <3>. QED  BY <1>4, <2>1, <2>4, <3>1, <3>4 DEF g, c
  <2>. QED  BY <2>3, <2>4
<1>. QED  BY <1>7, <1>8

\* noteGrant
LEMMA NotedIs ==
    ASSUME AdmissionInv, NEW r \in Requests, NEW c \in Requests \cup {None}
    PROVE  /\ Noted(r, c) \in 0..2
           /\ r \in Record => Noted(r, c) = 0
           /\ r \in Foreground /\ queue["record"] /= <<>> /\ (r \in Queued(queue) \/ c = r) =>
                 Noted(r, c) = IF streak < 2 THEN streak + 1 ELSE 2
           /\ Noted(r, c) = 0 \/ Noted(r, c) = IF streak < 2 THEN streak + 1 ELSE 2
<1>. DEFINE waiting == {Lane(s) : s \in Queued(queue) \cup ({c} \ {None})}
<1>0. queue \in [Lanes -> Seq(Requests)] /\ LanesOK(queue) /\ streak \in 0..2
  BY DEF AdmissionInv, Shape, QueueOK
<1>1. Noted(r, c) = IF Lane(r) = "record" \/ waiting /= {"foreground", "record"} THEN 0
                    ELSE IF streak < 2 THEN streak + 1 ELSE 2
  BY DEF Noted
<1>2. waiting \subseteq {"foreground", "record"}
  <2>1. \A s \in Queued(queue) \cup ({c} \ {None}) : s \in Requests
    BY <1>0, QueuedIs
  <2>. QED  BY <2>1, LaneIs DEF Lanes
<1>3. ASSUME r \in Foreground, queue["record"] /= <<>>, r \in Queued(queue) \/ c = r
      PROVE  "foreground" \in waiting /\ "record" \in waiting
  <2>1. Lane(r) = "foreground" /\ r \in Queued(queue) \cup ({c} \ {None})
    BY <1>3, LaneIs
  <2>2. "record" \in Lanes /\ 1 \in DOMAIN queue["record"]
    BY <1>0, <1>3, EmptyIs DEF Lanes
  <2>3. queue["record"][1] \in Queued(queue) /\ Lane(queue["record"][1]) = "record"
    BY <1>0, <2>2, QueuedIs DEF LanesOK
  <2>. QED  BY <2>1, <2>3
<1>. HIDE DEF waiting
<1>4. ASSUME r \in Foreground, queue["record"] /= <<>>, r \in Queued(queue) \/ c = r
      PROVE  Noted(r, c) = IF streak < 2 THEN streak + 1 ELSE 2
  <2>1. waiting = {"foreground", "record"}
    BY <1>2, <1>3, <1>4
  <2>2. Lane(r) /= "record"
    BY <1>4, LaneIs DEF Lane
  <2>. QED  BY <1>1, <2>1, <2>2
<1>5. r \in Record => Lane(r) = "record"
  BY LaneIs
<1>. QED  BY <1>0, <1>1, <1>4, <1>5

\* A request is chosen, and its lease is being written.
LEMMA SelectStep ==
    ASSUME AdmissionInv, Select
    PROVE  AdmissionInv'
<1>. DEFINE r == Selected
<1>0. /\ Shape /\ queue \in [Lanes -> Seq(Requests)] /\ LanesOK(queue) /\ req \in [Requests -> States]
      /\ before \in [Requests -> SUBSET Requests] /\ cancelled \subseteq Requests
  BY DEF AdmissionInv, Shape, QueueOK
<1>1. /\ Running({"pump", "try"}) /\ tail /= <<>> /\ Head(tail).kind \in {"pump", "try"} /\ stage = "begin" /\ r /= None
      /\ stage' = "granting" /\ selection' = r /\ req' = [req EXCEPT ![r] = "granting"]
      /\ UNCHANGED <<queue, cancelled, before, streak, pumping, waiters, tail, leased, strays, open, wakeTimer,
                     phase, passed, cancels>>
  BY DEF Select, Running, pump, store, counts
<1>2. /\ r \in Requests /\ Lane(r) \in Lanes
      /\ Head(tail).kind = "pump" => queue[Lane(r)] /= <<>> /\ Head(queue[Lane(r)]) = r
      /\ Head(tail).kind = "try" => r = Head(tail).of /\ queue[Lane(r)] = <<>>
      /\ r \in Foreground /\ streak = 2 => queue["record"] = <<>>
  BY <1>1, SelectedIs
<1>. HIDE DEF r
<1>3. /\ TailFor(tail, req, pumping) /\ tail \in Seq(Operation) /\ OperationOK(Head(tail), req)
      /\ \A s \in Requests : req[s] /= "granting"
  BY <1>1, RunningIs
<1>4. Head(tail).kind = "pump" =>
         r \in Queued(queue) /\ req[r] = "queued" /\ r \notin Candidates /\ r \notin cancelled
  <2>1. SUFFICES ASSUME Head(tail).kind = "pump"
                 PROVE  r \in Queued(queue) /\ req[r] = "queued" /\ r \notin Candidates /\ r \notin cancelled
    OBVIOUS
  <2>2. 1 \in DOMAIN queue[Lane(r)] /\ queue[Lane(r)][1] = r
    BY <1>0, <1>2, <2>1, EmptyIs
  <2>3. r \in Queued(queue)
    BY <1>0, <1>2, <2>2, QueuedIs
  <2>4. req[r] = "queued"
    BY <1>2, <1>3, <2>3 DEF AdmissionInv, QueueOK
  <2>. QED  BY <1>2, <2>3, <2>4 DEF AdmissionInv, QueueOK
<1>5. Head(tail).kind = "try" => req[r] = "trying" /\ r \in Candidates /\ r \notin Queued(queue)
  <2>1. SUFFICES ASSUME Head(tail).kind = "try" PROVE req[r] = "trying" /\ r \in Candidates /\ r \notin Queued(queue)
    OBVIOUS
  <2>2. req[r] = "trying" /\ r \in Candidates
    BY <1>2, <1>3, <2>1 DEF OperationOK
  <2>. QED  BY <1>2, <2>2 DEF AdmissionInv, QueueOK
<1>6. /\ req' \in [Requests -> States] /\ req'[r] = "granting"
      /\ \A s \in Requests : s /= r => req'[s] = req[s]
  BY <1>0, <1>1, <1>2 DEF States
<1>7. TailOK'
  <2>1. Head(tail).kind = "pump" => NoOpOf(tail, r)
    BY <1>2, <1>3, <1>4, NoOpIs
  <2>2. TailFor(tail, req', pumping)
    BY <1>1, <1>3, <1>5, <1>6, <2>1, RelabelIs DEF Waits
  <2>. QED  BY <1>1, <2>2 DEF TailOK
<1>8. Shape'
  BY <1>0, <1>1, <1>2, <1>6 DEF Shape
<1>9. QueueOK'
  BY <1>0, <1>1, <1>2, <1>4, <1>5, <1>6 DEF AdmissionInv, QueueOK
<1>10. StageOK'
  BY <1>1, <1>2, <1>3, <1>4, <1>6 DEF StageOK, Running
<1>11. BeforeOK'
  <2>1. Thinned(queue, queue')
    BY <1>0, <1>1, QueuedIs
  <2>2. \A s \in Requests : \A x \in before'[s] : req'[x] /= "idle"
    BY <1>0, <1>1, <1>6 DEF AdmissionInv, BeforeOK
  <2>3. r \in Candidates => before[r] \cap Queued(queue) = {}
    <3>1. SUFFICES ASSUME r \in Candidates, NEW x \in before[r], x \in Queued(queue) PROVE FALSE
      OBVIOUS
    <3>2. Lane(x) = Lane(r) /\ queue[Lane(r)] = <<>>
      BY <1>1, <1>2, <1>4, <3>1 DEF AdmissionInv, BeforeOK
    <3>3. PICK i \in DOMAIN queue[Lane(x)] : queue[Lane(x)][i] = x
      BY <1>0, <3>1, QueuedIs
    <3>4. DOMAIN queue[Lane(r)] = {}
      BY <1>0, <1>2, <3>2, EmptyIs
    <3>. QED  BY <3>2, <3>3, <3>4
  <2>. QED  BY <1>1, <1>6, <2>1, <2>2, <2>3, BeforeThinned
<1>12. ClosedOK'
  BY <1>1 DEF AdmissionInv, ClosedOK
<1>13. LeaseIsHeld'
  BY <1>1, <1>2, <1>4, <1>5, <1>6 DEF AdmissionInv, LeaseIsHeld
<1>14. PassedOK'
  <2>1. queue["record"] = <<>> => passed = 0
    BY DEF AdmissionInv, PassedOK
  <2>2. r \in Record /\ Head(tail).kind = "try" => queue["record"] = <<>>
    BY <1>2, LaneIs
  <2>3. passed <= streak + cancels
    BY DEF AdmissionInv, PassedOK
  <2>. QED  BY <1>1, <1>2, <1>4, <2>1, <2>2, <2>3 DEF PassedOK
<1>. QED  BY <1>7, <1>8, <1>9, <1>10, <1>11, <1>12, <1>13, <1>14 DEF AdmissionInv

\* The running operation of a request that is over ends.
LEMMA DroppedIs ==
    ASSUME AdmissionInv, tail /= <<>>, Head(tail).of \in Requests, Over({Head(tail).of})
    PROVE  /\ TailFor(Tail(tail), req', pumping)
           /\ Head(tail).kind \in OfPump => NoPumpIn(Tail(tail))
<1>1. TailFor(tail, req, pumping)
  BY RunningIs
<1>2. \A r \in Requests : req'[r] = IF r = Head(tail).of THEN "idle" ELSE req[r]
  BY DEF Over
<1>. QED  BY <1>1, <1>2, DropIs DEF Waits

\* No slot.
LEMMA DeclineStep ==
    ASSUME AdmissionInv, Decline
    PROVE  AdmissionInv'
<1>0. /\ Shape /\ queue \in [Lanes -> Seq(Requests)] /\ LanesOK(queue) /\ wakeTimer \in BOOLEAN
      /\ passed \in Nat /\ strays \in Nat /\ open \in BOOLEAN
  BY DEF AdmissionInv, Shape, QueueOK
<1>1. /\ tail /= <<>> /\ Head(tail).kind \in {"pump", "try"} /\ stage = "begin"
      /\ wakeTimer' = (wakeTimer \/ (Selected /= None /\ open /\ phase = "open"))
      /\ UNCHANGED <<queue, streak, stage, selection, leased, strays, open, phase, passed, cancels>>
  BY DEF Decline, Running, store, counts
<1>2. wakeTimer' \in BOOLEAN
  <2>. HIDE <1>0
  <2>. QED  BY <1>1
<1>3. /\ TailFor(tail, req, pumping) /\ OperationOK(Head(tail), req) /\ Head(tail) \in Operation
      /\ \A s \in Requests : req[s] /= "granting"
      /\ Head(tail).kind \in OfPump => pumping
      /\ phase /= "closed" /\ selection = None
  BY <1>1, RunningIs
<1>4. Thinned(queue, queue') /\ (queue["record"] = <<>> => passed = 0)
  BY <1>0, <1>1, QueuedIs DEF AdmissionInv, PassedOK
<1>5. CASE Head(tail).kind = "pump"
  <2>1. PumpReturns(queue, Tail(tail)) /\ UNCHANGED <<req, cancelled, before>>
    BY <1>5 DEF Decline
  <2>2. Head(tail).of = None /\ Head(tail).of \notin Requests
    BY <1>3, <1>5, AdmissionAssumption DEF OperationOK
  <2>3. TailFor(Tail(tail), req, pumping) /\ NoPumpIn(Tail(tail)) /\ pumping
    BY <1>1, <1>3, <1>5, <2>2, DropIs DEF OfPump
  <2>4. Pumped(Tail(tail), req)
    BY <1>0, <2>1, <2>3, PumpGoesOn
  <2>5. TailOK' /\ waiters' \in 0..MaxWaiters /\ pumping' \in BOOLEAN
    BY <2>1, <2>4 DEF TailOK, Pumped
  <2>6. Shape'
    BY <1>0, <1>1, <1>2, <2>1, <2>5 DEF Shape
  <2>7. QueueOK' /\ BeforeOK' /\ LeaseIsHeld'
    BY <1>1, <2>1 DEF AdmissionInv, QueueOK, BeforeOK, LeaseIsHeld
  <2>8. StageOK' /\ ClosedOK' /\ PassedOK'
    BY <1>1, <1>3, <2>1 DEF AdmissionInv, StageOK, ClosedOK, PassedOK
  <2>. QED  BY <2>5, <2>6, <2>7, <2>8 DEF AdmissionInv
<1>6. CASE Head(tail).kind = "try"
  <2>. DEFINE gone == {Head(tail).of}
  <2>1. CallPump(queue, Tail(tail)) /\ Over({Head(tail).of})
    BY <1>1, <1>6 DEF Decline
  <2>2. Head(tail).of \in Requests /\ req[Head(tail).of] = "trying"
    BY <1>3, <1>6 DEF OperationOK, Operation
  <2>3. Head(tail).of \notin Queued(queue)
    BY <2>2 DEF AdmissionInv, QueueOK
  <2>4. TailFor(Tail(tail), req', pumping)
    BY <1>1, <2>1, <2>2, DroppedIs
  <2>5. Pumped(Tail(tail), req')
    BY <1>0, <2>1, <2>4, CallPumpIs
  <2>6. TailFor(tail', req', pumping') /\ waiters' \in 0..MaxWaiters /\ pumping' \in BOOLEAN
    BY <2>5 DEF Pumped
  <2>7. /\ gone \subseteq Requests /\ Over(gone) /\ Queued(queue') = Queued(queue) \ gone
        /\ \A s \in gone : req[s] \notin {"permit", "completing", "undoing"}
    BY <1>1, <2>1, <2>2, <2>3
  <2>. HIDE DEF gone
  <2>. QED  BY <1>0, <1>1, <1>2, <1>3, <1>4, <2>6, <2>7, EndStep
<1>. QED  BY <1>1, <1>5, <1>6

\* What is not queued is not the first of a lane.
LEMMA HeadIs ==
    ASSUME NEW q \in [Lanes -> Seq(Requests)], LanesOK(q), NEW lane \in Lanes, q[lane] /= <<>>
    PROVE  Head(q[lane]) \in Queued(q) /\ 1 \in DOMAIN q[lane] /\ Head(q[lane]) = q[lane][1]
<1>1. q[lane] \in Seq(Requests)
  OBVIOUS
<1>2. 1 \in DOMAIN q[lane] /\ Head(q[lane]) = q[lane][1]
  BY <1>1, EmptyIs
<1>. QED  BY <1>2, QueuedIs

\* Arithmetic of the streak, when a grant was cancelled and when it was not.
LEMMA StreakIs ==
    ASSUME NEW p \in Nat, NEW s \in 0..2, NEW c \in Nat, NEW n \in 0..2, p <= s + c
    PROVE  /\ (s = 2 => p = 0) /\ (p < s + c \/ p = 0) => p <= n + c
           /\ n = (IF s < 2 THEN s + 1 ELSE 2) /\ (s = 2 => p = 0) => p + 1 <= n + c
OBVIOUS

\* The lease is in the control file.
LEMMA PumpGrantedStep ==
    ASSUME AdmissionInv, PumpGranted
    PROVE  AdmissionInv'
<1>. DEFINE r == selection
            permit == IF r \in cancelled THEN None ELSE r
            n == Noted(r, None)
<1>0. /\ Shape /\ queue \in [Lanes -> Seq(Requests)] /\ LanesOK(queue) /\ req \in [Requests -> States]
      /\ before \in [Requests -> SUBSET Requests] /\ cancelled \subseteq Requests /\ leased \subseteq Requests
      /\ passed \in Nat /\ streak \in 0..2 /\ cancels \in Nat
  BY DEF AdmissionInv, Shape, QueueOK
<1>1. /\ tail /= <<>> /\ Head(tail).kind = "pump" /\ stage = "granting"
      /\ leased' = leased \cup {r} /\ streak' = n /\ queue' = Removed(queue, r) /\ CountPassed(queue', permit)
      /\ stage' = "begin" /\ selection' = None
      /\ UNCHANGED <<cancelled, strays, open, wakeTimer, phase, cancels>>
  BY DEF PumpGranted, Running, NextStage, counts
<1>2. r \in Requests /\ req[r] = "granting" /\ r \notin Candidates /\ Head(tail).of = None /\ Lane(r) \in Lanes
  BY <1>1, GrantingIs
<1>3. /\ TailFor(tail, req, pumping) /\ Head(tail).kind \in OfPump /\ pumping /\ phase /= "closed"
      /\ \A s \in Requests : req[s] = "granting" => s = r
  BY <1>1, RunningIs DEF OfPump
<1>4. /\ n \in 0..2
      /\ r \in Foreground /\ queue["record"] /= <<>> /\ r \in Queued(queue) =>
            n = IF streak < 2 THEN streak + 1 ELSE 2
  BY <1>2, NotedIs
<1>5. Shortened(queue, queue', r)
  BY <1>0, <1>1, <1>2, RemovedIs
<1>6. /\ queue' \in [Lanes -> Seq(Requests)] /\ LanesOK(queue') /\ Queued(queue') = Queued(queue) \ {r}
      /\ Thinned(queue, queue')
  BY <1>5 DEF Shortened
<1>7. /\ passed' \in Nat
      /\ queue'["record"] = <<>> \/ queue["record"] = <<>> => passed' = 0
      /\ passed' /= 0 => /\ Head(queue'["record"]) = Head(queue["record"])
                         /\ passed' = IF permit \in Foreground THEN passed + 1 ELSE passed
  BY <1>1, <1>6, CountIs
<1>8. /\ passed <= streak + cancels
      /\ r \in Foreground /\ streak = 2 => passed = 0
      /\ r \in Foreground /\ r \in cancelled => passed = 0 \/ passed < streak + cancels
      /\ r \in Record /\ r \in cancelled => passed = 0
  BY <1>1 DEF AdmissionInv, PassedOK
<1>. HIDE DEF r, n, permit
<1>9. /\ TailFor(Tail(tail), req, pumping) /\ NoPumpIn(Tail(tail)) /\ NoOpOf(Tail(tail), r)
  <2>1. Head(tail).of \notin Requests
    BY <1>2, AdmissionAssumption
  <2>2. TailFor(Tail(tail), req, pumping) /\ NoPumpIn(Tail(tail))
    BY <1>1, <1>3, <2>1, DropIs
  <2>. QED  BY <1>2, <2>2, NoOpIs
<1>10. ClosedOK'
  <2>1. phase /= "open" => Queued(queue) = {}
    BY <1>0, QueuedIs DEF AdmissionInv, ClosedOK
  <2>2. phase /= "open" => NoneQueued(queue')
    BY <1>6, <2>1, QueuedIs
  <2>. QED  BY <1>1, <1>3, <2>2 DEF ClosedOK
<1>11. ASSUME req' \in [Requests -> States], req'[r] \in {"undoing", "permit"},
              \A s \in Requests : s /= r => req'[s] = req[s],
              before' \in [Requests -> SUBSET Requests], Pumped(Tail(tail), req') \/ TailFor(tail', req', pumping'),
              waiters' \in 0..MaxWaiters, pumping' \in BOOLEAN, passed' <= n + cancels,
              QueueOK', BeforeOK'
       PROVE  AdmissionInv'
  <2>1. Shape'
    BY <1>0, <1>1, <1>2, <1>4, <1>6, <1>7, <1>11 DEF Shape
  <2>2. TailOK'
    BY <1>11 DEF TailOK, Pumped
  <2>3. StageOK'
    BY <1>1, <1>2, <1>3, <1>11 DEF StageOK
  <2>4. LeaseIsHeld'
    BY <1>0, <1>1, <1>2, <1>11 DEF AdmissionInv, LeaseIsHeld
  <2>5. PassedOK'
    BY <1>1, <1>7, <1>11 DEF PassedOK
  <2>. QED  BY <1>10, <1>11, <2>1, <2>2, <2>3, <2>4, <2>5 DEF AdmissionInv
<1>12. CASE r \in cancelled
  <2>. DEFINE o == Op("undo", r)
  <2>1. /\ req' = [req EXCEPT ![r] = "undoing"] /\ tail' = Append(Tail(tail), o)
        /\ UNCHANGED <<before, pumping, waiters>>
    BY <1>12 DEF PumpGranted, pump, r
  <2>2. o \in Operation /\ o.kind = "undo" /\ o.of = r
    BY <1>2 DEF Op, Operation
  <2>. HIDE DEF o
  <2>3. /\ req' \in [Requests -> States] /\ req'[r] = "undoing"
        /\ \A s \in Requests : s /= r => req'[s] = req[s]
    BY <1>0, <1>2, <2>1 DEF States
  <2>4. OperationOK(o, req')
    BY <1>2, <2>2, <2>3, LaneIs DEF OperationOK
  <2>5. TailFor(tail', req', pumping')
    BY <1>2, <1>3, <1>9, <2>1, <2>2, <2>3, <2>4, AddIs
  <2>6. Queued(queue') = Queued(queue) /\ r \notin Queued(queue)
    BY <1>2, <1>6, <1>12 DEF AdmissionInv, QueueOK
  <2>7. QueueOK'
    BY <1>0, <1>1, <1>2, <1>6, <1>12, <2>3, <2>6 DEF AdmissionInv, QueueOK
  <2>8. BeforeOK'
    <3>1. \A s \in Requests : \A x \in before'[s] : req'[x] /= "idle"
      BY <1>0, <2>1, <2>3 DEF AdmissionInv, BeforeOK
    <3>. QED  BY <1>6, <2>1, <2>3, <3>1, BeforeThinned
  <2>9. passed' <= n + cancels
    <3>1. permit \notin Foreground
      BY <1>12, AdmissionAssumption DEF permit, Requests
    <3>2. passed' = 0 \/ passed' = passed
      BY <1>7, <3>1
    <3>3. r \in Foreground => passed <= n + cancels
      BY <1>0, <1>4, <1>8, <1>12, StreakIs
    <3>4. r \notin Foreground => passed = 0
      BY <1>2, <1>8, <1>12 DEF Requests
    <3>. QED  BY <1>0, <1>4, <3>2, <3>3, <3>4
  <2>10. waiters' \in 0..MaxWaiters /\ pumping' \in BOOLEAN /\ before' \in [Requests -> SUBSET Requests]
    BY <1>0, <2>1 DEF Shape
  <2>. QED  BY <1>11, <2>3, <2>5, <2>7, <2>8, <2>9, <2>10
<1>13. CASE r \notin cancelled
  <2>1. /\ req' = [req EXCEPT ![r] = "permit"] /\ before' = [s \in Requests |-> before[s] \ {r}]
        /\ PumpLoops(queue', Tail(tail))
    BY <1>13 DEF PumpGranted, r
  <2>2. /\ req' \in [Requests -> States] /\ req'[r] = "permit"
        /\ \A s \in Requests : s /= r => req'[s] = req[s]
    BY <1>0, <1>2, <2>1 DEF States
  <2>3. TailFor(Tail(tail), req', pumping)
    BY <1>9, <2>2, RelabelIs DEF Waits
  <2>4. Pumped(Tail(tail), req')
    BY <1>0, <1>3, <1>9, <2>1, <2>3, PumpGoesOn
  <2>5. waiters' \in 0..MaxWaiters /\ pumping' \in BOOLEAN /\ before' \in [Requests -> SUBSET Requests]
    <3>1. waiters' \in 0..MaxWaiters /\ pumping' \in BOOLEAN
      BY <2>4 DEF Pumped
    <3>. QED  BY <1>0, <2>1, <3>1
  <2>6. r \in Queued(queue) /\ queue[Lane(r)] /= <<>> /\ Head(queue[Lane(r)]) = r
    BY <1>1, <1>2, <1>13 DEF AdmissionInv, QueueOK, StageOK, r
  <2>7. QueueOK'
    BY <1>0, <1>1, <1>2, <1>6, <1>13, <2>2 DEF AdmissionInv, QueueOK
  <2>8. before[r] \cap Queued(queue') = {}
    <3>1. SUFFICES ASSUME NEW x \in before[r], x \in Queued(queue) PROVE FALSE
      BY <1>6
    <3>2. 1 \in DOMAIN queue[Lane(r)] /\ queue[Lane(r)][1] = r
      BY <1>0, <1>2, <2>6, HeadIs
    <3>3. Lane(x) = Lane(r)
      BY <1>2, <3>1 DEF AdmissionInv, BeforeOK
    <3>4. PICK j \in DOMAIN queue[Lane(r)] : queue[Lane(r)][j] = x
      BY <1>0, <3>1, <3>3, QueuedIs
    <3>5. j < 1
      BY <1>2, <3>1, <3>2, <3>4 DEF AdmissionInv, BeforeOK
    <3>6. queue[Lane(r)] \in Seq(Requests)
      BY <1>0, <1>2
    <3>. QED  BY <2>6, <3>4, <3>5, <3>6, EmptyIs
  <2>9. BeforeOK'
    <3>1. \A s \in Requests : before'[s] \subseteq before[s]
      BY <2>1
    <3>2. \A s \in Requests : \A x \in before'[s] : req'[x] /= "idle"
      BY <1>0, <2>2, <3>1 DEF AdmissionInv, BeforeOK
    <3>3. before'[r] \cap Queued(queue') = {}
      BY <1>2, <2>8, <3>1
    <3>. QED  BY <1>6, <2>2, <3>1, <3>2, <3>3, BeforeThinned
  <2>10. passed' <= n + cancels
    <3>1. CASE passed' = 0
      BY <1>0, <1>4, <3>1
    <3>2. CASE passed' /= 0
      <4>1. queue["record"] /= <<>> /\ queue'["record"] /= <<>> /\ "record" \in Lanes
        BY <1>7, <3>2 DEF Lanes
      <4>2. Head(queue'["record"]) /= r
        BY <1>6, <4>1, HeadIs
      <4>3. Lane(r) /= "record"
        BY <1>7, <2>6, <3>2, <4>2
      <4>4. r \in Foreground
        BY <4>3 DEF Lane
      <4>5. passed' = passed + 1
        BY <1>7, <1>13, <3>2, <4>4 DEF permit
      <4>. QED  BY <1>0, <1>4, <1>8, <2>6, <4>1, <4>4, <4>5, StreakIs
    <3>. QED  BY <3>1, <3>2
  <2>. QED  BY <1>11, <2>2, <2>4, <2>5, <2>7, <2>9, <2>10
<1>. QED  BY <1>12, <1>13

\* A candidate has its slot.
LEMMA CandidateGrantedStep ==
    ASSUME AdmissionInv, CandidateGranted
    PROVE  AdmissionInv'
<1>. DEFINE r == selection
            permit == IF r \in cancelled THEN None ELSE r
            n == Noted(r, r)
            now == IF r \in cancelled THEN "undoing" ELSE "permit"
            o == Op("complete", r)
            rq == [req EXCEPT ![r] = "permit"]
<1>0. /\ Shape /\ queue \in [Lanes -> Seq(Requests)] /\ LanesOK(queue) /\ req \in [Requests -> States]
      /\ before \in [Requests -> SUBSET Requests] /\ cancelled \subseteq Requests /\ leased \subseteq Requests
      /\ passed \in Nat /\ streak \in 0..2 /\ cancels \in Nat
  BY DEF AdmissionInv, Shape, QueueOK
<1>1. /\ tail /= <<>> /\ Head(tail).kind = "try" /\ stage = "granting"
      /\ leased' = leased \cup {r} /\ streak' = n /\ CountPassed(queue, permit)
      /\ req' = [req EXCEPT ![r] = now]
      /\ tail' = IF r \in cancelled THEN Append(Tail(tail), o) ELSE Tail(tail)
      /\ stage' = "begin" /\ selection' = None
      /\ UNCHANGED <<queue, cancelled, before, pumping, waiters, strays, open, wakeTimer, phase, cancels>>
  BY DEF CandidateGranted, Running, NextStage, counts, pump
<1>2. r \in Requests /\ req[r] = "granting" /\ r \in Candidates /\ Head(tail).of = r /\ r /= None
  BY <1>1, GrantingIs
<1>3. /\ TailFor(tail, req, pumping) /\ phase /= "closed"
      /\ \A s \in Requests : req[s] = "granting" => s = r
  BY <1>1, RunningIs
<1>4. /\ n \in 0..2
      /\ r \in Foreground /\ queue["record"] /= <<>> => n = IF streak < 2 THEN streak + 1 ELSE 2
  BY <1>2, NotedIs
<1>5. /\ passed' \in Nat
      /\ queue["record"] = <<>> => passed' = 0
      /\ passed' /= 0 => passed' = IF permit \in Foreground THEN passed + 1 ELSE passed
  BY <1>0, <1>1, CountIs
<1>6. /\ passed <= streak + cancels
      /\ r \in Foreground /\ streak = 2 => passed = 0
      /\ r \in Record => passed = 0
  BY <1>1 DEF AdmissionInv, PassedOK
<1>7. /\ o \in Operation /\ o.kind = "complete" /\ o.of = r
      /\ rq \in [Requests -> States] /\ rq[r] = "permit" /\ \A s \in Requests : s /= r => rq[s] = req[s]
  BY <1>0, <1>2 DEF Op, Operation, States
<1>8. permit \in Foreground => r \in Foreground /\ r \notin cancelled
  BY AdmissionAssumption DEF Requests
<1>9. now \in {"undoing", "permit"} /\ (r \in cancelled <=> now = "undoing")
  OBVIOUS
<1>. HIDE DEF r, n, permit, o, rq, now
<1>10. /\ req' \in [Requests -> States] /\ req'[r] = now
       /\ \A s \in Requests : s /= r => req'[s] = req[s]
  BY <1>0, <1>1, <1>2, <1>9 DEF States
<1>11. TailOK'
  <2>1. TailFor(Tail(tail), rq, pumping) /\ NoOpOf(Tail(tail), r)
    BY <1>1, <1>2, <1>3, <1>7, DropIs DEF Waits
  <2>2. CASE r \in cancelled
    <3>1. OperationOK(o, req')
      BY <1>2, <1>7, <1>9, <1>10, <2>2 DEF OperationOK
    <3>2. TailFor(Append(Tail(tail), o), req', pumping)
      BY <1>2, <1>7, <1>10, <2>1, <3>1, AddIs DEF OfPump
    <3>. QED  BY <1>1, <2>2, <3>2 DEF TailOK
  <2>3. CASE r \notin cancelled
    <3>1. rq = req'
      BY <1>1, <1>9, <2>3 DEF rq
    <3>. QED  BY <1>1, <2>1, <2>3, <3>1 DEF TailOK
  <2>. QED  BY <2>2, <2>3
<1>12. Shape'
  BY <1>0, <1>1, <1>2, <1>4, <1>5, <1>10 DEF Shape
<1>13. QueueOK'
  BY <1>0, <1>1, <1>2, <1>9, <1>10 DEF AdmissionInv, QueueOK
<1>14. StageOK'
  BY <1>1, <1>3, <1>9, <1>10 DEF StageOK
<1>15. BeforeOK'
  <2>1. \A s \in Requests : \A x \in before'[s] : req'[x] /= "idle"
    BY <1>0, <1>1, <1>9, <1>10 DEF AdmissionInv, BeforeOK
  <2>2. Thinned(queue, queue')
    BY <1>0, <1>1, QueuedIs
  <2>. QED  BY <1>1, <1>2, <1>10, <2>1, <2>2, BeforeThinned
<1>16. ClosedOK'
  BY <1>1, <1>3 DEF AdmissionInv, ClosedOK
<1>17. LeaseIsHeld'
  BY <1>0, <1>1, <1>2, <1>9, <1>10 DEF AdmissionInv, LeaseIsHeld
<1>18. passed' <= n + cancels
  <2>1. CASE passed' = 0
    BY <1>0, <1>4, <2>1
  <2>2. CASE passed' /= 0 /\ r \notin Foreground
    <3>1. passed = 0 /\ permit \notin Foreground
      BY <1>2, <1>6, <1>8, <2>2 DEF Requests
    <3>. QED  BY <1>5, <2>2, <3>1
  <2>3. CASE passed' /= 0 /\ r \in Foreground
    <3>1. n = IF streak < 2 THEN streak + 1 ELSE 2
      BY <1>4, <1>5, <2>3
    <3>2. passed' = passed \/ passed' = passed + 1
      BY <1>5, <2>3
    <3>3. passed + 1 <= n + cancels
      BY <1>0, <1>4, <1>6, <2>3, <3>1, StreakIs
    <3>. QED  BY <1>0, <1>4, <3>2, <3>3
  <2>. QED  BY <2>1, <2>2, <2>3
<1>19. PassedOK'
  BY <1>1, <1>5, <1>18 DEF PassedOK
<1>. QED  BY <1>11, <1>12, <1>13, <1>14, <1>15, <1>16, <1>17, <1>19 DEF AdmissionInv

\* rejectAll, when the pump's operation fails.
LEMMA RejectAllStep ==
    ASSUME AdmissionInv, tail /= <<>>, Head(tail).kind \in OfPump, NEW also, also \subseteq Requests,
           RejectAll(also), PumpReturns(queue', Tail(tail)),
           Head(tail).of \in Requests => also = {Head(tail).of} /\ leased' = leased \ also /\ req[Head(tail).of] = "undoing",
           Head(tail).of = None => /\ leased' = leased
                                   /\ \A r \in also : req[r] = "granting" /\ r \notin Candidates,
           stage = "granting" => selection \in also,
           stage' = "begin", selection' = None, UNCHANGED <<streak, phase, cancels>>,
           strays' \in Nat, open' \in BOOLEAN, wakeTimer' \in BOOLEAN
    PROVE  AdmissionInv'
<1>. DEFINE gone == Queued(queue) \cup also
            q2 == [foreground |-> <<>>, record |-> <<>>]
<1>0. /\ Shape /\ queue \in [Lanes -> Seq(Requests)] /\ LanesOK(queue) /\ leased \subseteq Requests
      /\ passed \in Nat
  BY DEF AdmissionInv, Shape, QueueOK
<1>1. Over(gone) /\ queue' = q2 /\ passed' = 0
  BY DEF RejectAll
<1>2. /\ q2 \in [Lanes -> Seq(Requests)] /\ LanesOK(q2) /\ Queued(q2) = {}
      /\ NoneQueued(q2) /\ Thinned(queue, q2)
  BY EmptyQueueIs
<1>3. gone \subseteq Requests /\ Queued(queue) \subseteq gone /\ also \subseteq gone
  BY <1>0, QueuedIs
<1>4. \A r \in Queued(queue) : req[r] = "queued" \/ (req[r] = "granting" /\ r \notin Candidates)
  BY <1>0, <1>3 DEF AdmissionInv, QueueOK
<1>5. /\ TailFor(tail, req, pumping) /\ pumping /\ Head(tail).of \in Requests \cup {None}
  BY RunningIs DEF Operation
<1>6. \A r \in gone : r /= Head(tail).of => NoOpOf(tail, r)
  <2>1. SUFFICES ASSUME NEW r \in gone, r /= Head(tail).of PROVE NoOpOf(tail, r)
    OBVIOUS
  <2>2. req[r] = "queued" \/ (req[r] = "granting" /\ r \notin Candidates)
    BY <1>4, <1>5, <2>1
  <2>. QED  BY <1>3, <1>5, <2>1, <2>2, NoOpIs
<1>7. \/ leased' = leased \ gone
      \/ leased' = leased /\ \A r \in gone : req[r] \notin {"permit", "completing", "undoing"}
  <2>1. CASE Head(tail).of \in Requests
    <3>1. leased \cap Queued(queue) = {}
      BY <1>0, <1>4 DEF AdmissionInv, LeaseIsHeld
    <3>. QED  BY <2>1, <3>1
  <2>2. CASE Head(tail).of = None
    BY <1>4, <2>2
  <2>. QED  BY <1>5, <2>1, <2>2
<1>h. Head(tail).of \in Requests => Head(tail).of \in gone
  OBVIOUS
<1>. HIDE DEF gone, q2
<1>8. \A r \in Requests : req'[r] = IF r \in gone THEN "idle" ELSE req[r]
  BY <1>1 DEF Over
<1>9. TailFor(Tail(tail), req', pumping) /\ NoPumpIn(Tail(tail))
  <2>1. \A r \in Requests : r /= Head(tail).of => req'[r] = req[r] \/ (NoOpOf(tail, r) /\ req'[r] \notin Waits)
    BY <1>6, <1>8 DEF Waits
  <2>2. Head(tail).of \in Requests => req'[Head(tail).of] \notin Waits
    BY <1>8, <1>h DEF Waits
  <2>. QED  BY <1>5, <2>1, <2>2, DropIs
<1>10. Pumped(Tail(tail), req')
  BY <1>0, <1>5, <1>9, PumpGoesOn
<1>11. TailFor(tail', req', pumping') /\ waiters' \in 0..MaxWaiters /\ pumping' \in BOOLEAN
  BY <1>10 DEF Pumped
<1>12. Queued(queue') = Queued(queue) \ gone /\ (stage = "granting" => selection \in gone)
  BY <1>1, <1>2, <1>3
<1>. QED  BY <1>1, <1>2, <1>3, <1>7, <1>11, <1>12, EndStep

\* The operation on the control file fails.
LEMMA GrantFailsStep ==
    ASSUME AdmissionInv, GrantFails
    PROVE  AdmissionInv'
<1>0. /\ Shape /\ queue \in [Lanes -> Seq(Requests)] /\ LanesOK(queue) /\ passed \in Nat /\ strays \in Nat
      /\ open \in BOOLEAN /\ wakeTimer \in BOOLEAN
  BY DEF AdmissionInv, Shape, QueueOK
<1>1. /\ tail /= <<>> /\ Head(tail).kind \in {"pump", "try"}
      /\ strays' \in {strays, strays + 1}
      /\ stage' = "begin" /\ selection' = None
      /\ UNCHANGED <<streak, leased, open, wakeTimer, phase, cancels>>
  BY DEF GrantFails, Running, NextStage
<1>2. strays' \in Nat
  BY <1>0, <1>1
<1>3. OperationOK(Head(tail), req) /\ Head(tail) \in Operation /\ TailFor(tail, req, pumping)
      /\ (stage /= "granting" => selection = None)
  BY <1>1, RunningIs
<1>4. CASE Head(tail).kind = "pump"
  <2>. DEFINE also == {selection} \ {None}
  <2>1. RejectAll(also) /\ PumpReturns(queue', Tail(tail))
    BY <1>4 DEF GrantFails
  <2>2. Head(tail).of = None /\ Head(tail).of \notin Requests /\ Head(tail).kind \in OfPump
    BY <1>3, <1>4, AdmissionAssumption DEF OperationOK, OfPump
  <2>3. /\ also \subseteq Requests /\ (stage = "granting" => selection \in also)
        /\ \A r \in also : req[r] = "granting" /\ r \notin Candidates
    BY <1>3, <1>4, GrantingIs
  <2>. HIDE DEF also
  <2>. QED  BY <1>0, <1>1, <1>2, <2>1, <2>2, <2>3, RejectAllStep
<1>5. CASE Head(tail).kind = "try"
  <2>. DEFINE gone == {Head(tail).of}
  <2>1. /\ Over({Head(tail).of}) /\ UNCHANGED <<queue, passed>>
        /\ CallPump(queue, Tail(tail)) \/ (tail' = Tail(tail) /\ UNCHANGED <<pumping, waiters>>)
    BY <1>5 DEF GrantFails, pump
  <2>2. Head(tail).of \in Requests /\ req[Head(tail).of] \in {"trying", "granting"} /\ Head(tail).of \in Candidates
    BY <1>3, <1>5 DEF OperationOK, Operation
  <2>3. Head(tail).of \notin Queued(queue)
    BY <2>2 DEF AdmissionInv, QueueOK
  <2>4. TailFor(Tail(tail), req', pumping)
    BY <1>1, <2>1, <2>2, DroppedIs
  <2>5. TailFor(tail', req', pumping') /\ waiters' \in 0..MaxWaiters /\ pumping' \in BOOLEAN
    <3>1. CASE CallPump(queue, Tail(tail))
      <4>1. Pumped(Tail(tail), req')
        BY <1>0, <2>4, <3>1, CallPumpIs
      <4>. QED  BY <4>1 DEF Pumped
    <3>2. CASE tail' = Tail(tail) /\ UNCHANGED <<pumping, waiters>>
      BY <1>0, <2>4, <3>2 DEF Shape
    <3>. QED  BY <2>1, <3>1, <3>2
  <2>6. /\ gone \subseteq Requests /\ Over(gone) /\ Queued(queue') = Queued(queue) \ gone
        /\ \A s \in gone : req[s] \notin {"permit", "completing", "undoing"}
        /\ stage = "granting" => selection \in gone
    BY <1>5, <2>1, <2>2, <2>3, GrantingIs
  <2>7. Thinned(queue, queue') /\ (queue["record"] = <<>> => passed = 0)
    BY <1>0, <2>1, QueuedIs DEF AdmissionInv, PassedOK
  <2>. HIDE DEF gone
  <2>. QED  BY <1>0, <1>1, <1>2, <2>1, <2>5, <2>6, <2>7, EndStep
<1>. QED  BY <1>1, <1>4, <1>5

-----------------------------------------------------------------------------
(* Completing and recovering leases. *)

\* An operation that grants nothing runs in one step.
LEMMA NotGrantingIs ==
    ASSUME AdmissionInv, tail /= <<>>, Head(tail).kind \in {"complete", "undo", "recover"}
    PROVE  /\ stage /= "granting" /\ selection = None
           /\ stage = "pumps" => Head(tail).kind = "recover"
BY GrantingIs DEF AdmissionInv, StageOK, Running

\* settlePermit
LEMMA SettlePermitStep ==
    ASSUME AdmissionInv, SettlePermit
    PROVE  AdmissionInv'
<1>. DEFINE gone == {Head(tail).of}
<1>0. /\ Shape /\ queue \in [Lanes -> Seq(Requests)] /\ LanesOK(queue) /\ passed \in Nat /\ strays \in Nat
      /\ open \in BOOLEAN /\ wakeTimer \in BOOLEAN /\ stage \in {"begin", "granting", "pumps"}
  BY DEF AdmissionInv, Shape, QueueOK
<1>1. /\ tail /= <<>> /\ Head(tail).kind = "complete" /\ Over({Head(tail).of}) /\ CallPump(queue, Tail(tail))
      /\ leased' = leased \ {Head(tail).of} /\ strays' \in {strays, strays + 1} /\ open' \in {open, TRUE}
      /\ UNCHANGED <<queue, streak, stage, selection, wakeTimer, phase, passed, cancels>>
  BY DEF SettlePermit, Running, LeaseCompleted
<1>2. strays' \in Nat
  BY <1>0, <1>1
<1>3. open' \in BOOLEAN /\ wakeTimer' \in BOOLEAN
  <2>1. open \in BOOLEAN /\ wakeTimer \in BOOLEAN
    BY <1>0
  <2>. HIDE <1>0
  <2>. QED  BY <1>1, <2>1
<1>4. stage = "begin" /\ selection = None
  BY <1>0, <1>1, NotGrantingIs
<1>5. OperationOK(Head(tail), req) /\ Head(tail) \in Operation
  BY <1>1, RunningIs
<1>6. Head(tail).of \in Requests /\ req[Head(tail).of] \in {"completing", "undoing"}
  BY <1>1, <1>5 DEF OperationOK, Operation
<1>7. Head(tail).of \notin Queued(queue)
  BY <1>6 DEF AdmissionInv, QueueOK
<1>8. Pumped(Tail(tail), req')
  <2>1. TailFor(Tail(tail), req', pumping)
    BY <1>1, <1>6, DroppedIs
  <2>. QED  BY <1>0, <1>1, <2>1, CallPumpIs
<1>9. TailFor(tail', req', pumping') /\ waiters' \in 0..MaxWaiters /\ pumping' \in BOOLEAN
  BY <1>8 DEF Pumped
<1>10. Thinned(queue, queue') /\ (queue["record"] = <<>> => passed = 0)
  BY <1>0, <1>1, QueuedIs DEF AdmissionInv, PassedOK
<1>11. /\ gone \subseteq Requests /\ Over(gone) /\ Queued(queue') = Queued(queue) \ gone
       /\ leased' = leased \ gone
  BY <1>1, <1>6, <1>7
<1>. HIDE DEF gone
<1>. QED  BY <1>0, <1>1, <1>2, <1>3, <1>4, <1>9, <1>10, <1>11, EndStep

\* The pump gives a lease back.
LEMMA UndoGrantStep ==
    ASSUME AdmissionInv, UndoGrant
    PROVE  AdmissionInv'
<1>. DEFINE gone == {Head(tail).of}
<1>0. /\ Shape /\ queue \in [Lanes -> Seq(Requests)] /\ LanesOK(queue) /\ passed \in Nat /\ strays \in Nat
      /\ open \in BOOLEAN /\ wakeTimer \in BOOLEAN /\ stage \in {"begin", "granting", "pumps"}
  BY DEF AdmissionInv, Shape, QueueOK
<1>1. /\ tail /= <<>> /\ Head(tail).kind = "undo"
      /\ leased' = leased \ {Head(tail).of} /\ strays' \in {strays, strays + 1}
      /\ UNCHANGED <<streak, stage, selection, open, wakeTimer, phase, cancels>>
  BY DEF UndoGrant, Running, LeaseCompleted
<1>2. strays' \in Nat
  BY <1>0, <1>1
<1>3. stage = "begin" /\ selection = None
  BY <1>0, <1>1, NotGrantingIs
<1>4. OperationOK(Head(tail), req) /\ Head(tail) \in Operation /\ Head(tail).kind \in OfPump /\ pumping
  BY <1>1, RunningIs DEF OfPump
<1>5. Head(tail).of \in Requests /\ req[Head(tail).of] = "undoing" /\ Head(tail).of /= None
  BY <1>1, <1>4, LaneIs DEF OperationOK, Operation
<1>6. Head(tail).of \notin Queued(queue)
  BY <1>5 DEF AdmissionInv, QueueOK
<1>7. gone \subseteq Requests /\ leased' = leased \ gone
  BY <1>1, <1>5
<1>8. CASE strays' = strays
  <2>1. Over({Head(tail).of}) /\ PumpLoops(queue, Tail(tail)) /\ UNCHANGED <<queue, passed>>
    BY <1>8 DEF UndoGrant
  <2>2. Pumped(Tail(tail), req')
    <3>1. TailFor(Tail(tail), req', pumping) /\ NoPumpIn(Tail(tail))
      BY <1>1, <1>4, <1>5, <2>1, DroppedIs
    <3>. QED  BY <1>0, <1>4, <2>1, <3>1, PumpGoesOn
  <2>3. TailFor(tail', req', pumping') /\ waiters' \in 0..MaxWaiters /\ pumping' \in BOOLEAN
    BY <2>2 DEF Pumped
  <2>4. Thinned(queue, queue') /\ (queue["record"] = <<>> => passed = 0)
    BY <1>0, <2>1, QueuedIs DEF AdmissionInv, PassedOK
  <2>5. Over(gone) /\ Queued(queue') = Queued(queue) \ gone
    BY <1>6, <2>1
  <2>. HIDE DEF gone
  <2>. QED  BY <1>0, <1>1, <1>2, <1>3, <1>7, <2>1, <2>3, <2>4, <2>5, EndStep
<1>9. CASE strays' /= strays
  <2>1. RejectAll(gone) /\ PumpReturns(queue', Tail(tail)) /\ gone = {Head(tail).of}
    BY <1>9 DEF UndoGrant
  <2>. HIDE DEF gone
  <2>. QED  BY <1>0, <1>1, <1>2, <1>3, <1>4, <1>5, <1>7, <2>1, RejectAllStep
<1>. QED  BY <1>8, <1>9

\* A step of a recovery: nothing changes for the requests.
LEMMA RecoveryStep ==
    ASSUME AdmissionInv, tail /= <<>>, stage /= "granting",
           UNCHANGED <<request, streak, leased, open, wakeTimer, phase, passed, cancels>>, selection' = None,
           stage' \in {"begin", "pumps"}, stage' = "pumps" => tail' /= <<>> /\ Head(tail').kind = "recover",
           TailFor(tail', req, pumping'), waiters' \in 0..MaxWaiters, pumping' \in BOOLEAN, strays' \in Nat
    PROVE  AdmissionInv'
<1>1. UNCHANGED <<queue, req, cancelled, before>>
  BY DEF request
<1>2. Shape' /\ TailOK'
  BY <1>1 DEF AdmissionInv, Shape, TailOK
<1>3. QueueOK' /\ BeforeOK' /\ LeaseIsHeld'
  BY <1>1 DEF AdmissionInv, QueueOK, BeforeOK, LeaseIsHeld
<1>4. phase /= "closed" /\ \A r \in Requests : req[r] /= "granting"
  BY RunningIs
<1>5. StageOK' /\ ClosedOK' /\ PassedOK'
  BY <1>1, <1>4 DEF AdmissionInv, StageOK, ClosedOK, PassedOK, Running
<1>. QED  BY <1>2, <1>3, <1>5 DEF AdmissionInv

\* The running operation of a recovery ends.
LEMMA RecoveryDropped ==
    ASSUME AdmissionInv, tail /= <<>>, Head(tail).kind = "recover"
    PROVE  TailFor(Tail(tail), req, pumping)
<1>1. OperationOK(Head(tail), req) /\ TailFor(tail, req, pumping)
  BY RunningIs
<1>2. Head(tail).of \notin Requests
  BY <1>1, AdmissionAssumption DEF OperationOK
<1>. QED  BY <1>1, <1>2, DropIs

\* settleRecoveredLease settles the lease and pumps.
LEMMA RecoverSettlesStep ==
    ASSUME AdmissionInv, RecoverSettles
    PROVE  AdmissionInv'
<1>0. Shape /\ strays \in Nat /\ waiters \in 0..MaxWaiters /\ pumping \in BOOLEAN
  BY DEF AdmissionInv, Shape
<1>1. /\ tail /= <<>> /\ Head(tail).kind = "recover" /\ stage = "begin"
      /\ UNCHANGED <<request, streak, selection, leased, open, wakeTimer, phase, passed, cancels>>
  BY DEF RecoverSettles, Running, counts
<1>2. selection = None /\ TailFor(tail, req, pumping) /\ stage /= "granting"
  BY <1>1, NotGrantingIs, RunningIs
<1>3. CASE strays > 0
  <2>1. strays' = strays - 1 /\ stage' = "pumps" /\ CallPump(queue, tail)
    BY <1>3 DEF RecoverSettles
  <2>2. strays' \in Nat
    BY <1>0, <1>3, <2>1
  <2>3. Pumped(tail, req)
    BY <1>0, <1>2, <2>1, CallPumpIs
  <2>4. /\ TailFor(tail', req, pumping') /\ waiters' \in 0..MaxWaiters /\ pumping' \in BOOLEAN
        /\ tail' /= <<>> /\ Head(tail') = Head(tail)
    BY <1>1, <2>3 DEF Pumped
  <2>. QED  BY <1>1, <1>2, <2>1, <2>2, <2>4, RecoveryStep
<1>4. CASE ~(strays > 0)
  <2>1. tail' = Tail(tail) /\ UNCHANGED <<strays, stage, pumping, waiters>>
    BY <1>4 DEF RecoverSettles, pump
  <2>2. TailFor(Tail(tail), req, pumping)
    BY <1>1, RecoveryDropped
  <2>. QED  BY <1>0, <1>1, <1>2, <2>1, <2>2, RecoveryStep
<1>. QED  BY <1>3, <1>4

\* The pump that settleRecoveredLease waited for has returned.
LEMMA RecoverReturnsStep ==
    ASSUME AdmissionInv, RecoverReturns
    PROVE  AdmissionInv'
<1>0. Shape /\ strays \in Nat /\ waiters \in 0..MaxWaiters /\ pumping \in BOOLEAN
  BY DEF AdmissionInv, Shape
<1>1. /\ tail /= <<>> /\ Head(tail).kind = "recover" /\ stage = "pumps"
      /\ stage' = "begin" /\ selection' = None /\ tail' = Tail(tail)
      /\ UNCHANGED <<request, streak, pumping, waiters, leased, strays, open, wakeTimer, phase, passed, cancels>>
  BY DEF RecoverReturns, Running, NextStage, pump, store, counts
<1>2. TailFor(Tail(tail), req, pumping)
  BY <1>1, RecoveryDropped
<1>. QED  BY <1>0, <1>1, <1>2, RecoveryStep

-----------------------------------------------------------------------------
(* The end. *)

\* What is called and what is queued are finite sets.
LEMMA CallsIs ==
    ASSUME AdmissionInv, NEW calls, calls \subseteq Requests, Queued(queue) \subseteq calls
    PROVE  /\ Cardinality(calls) \in Nat /\ Cardinality(Queued(queue)) \in Nat
           /\ Cardinality(Queued(queue)) <= Cardinality(calls)
<1>1. IsFiniteSet(calls)
  BY AdmissionAssumption, FS_Subset
<1>2. IsFiniteSet(Queued(queue)) /\ Cardinality(Queued(queue)) <= Cardinality(calls)
  BY <1>1, FS_Subset
<1>. QED  BY <1>1, <1>2, FS_CardinalityType

\* Close calls pump() often.
LEMMA CappedIs ==
    ASSUME NEW n \in Nat
    PROVE  Capped(n) \in 0..MaxWaiters
BY AdmissionAssumption DEF Capped

\* closeExclusive, until it waits.
LEMMA CloseStep ==
    ASSUME AdmissionInv, Close
    PROVE  AdmissionInv'
<1>. DEFINE waiting == {r \in Requests : req[r] = "queued"}
            inFlight == {r \in Requests : req[r] = "granting"} \ cancelled
            calls == Cardinality(waiting \cup inFlight)
            q2 == [foreground |-> <<>>, record |-> <<>>]
<1>0. /\ Shape /\ queue \in [Lanes -> Seq(Requests)] /\ LanesOK(queue) /\ req \in [Requests -> States]
      /\ cancelled \subseteq Requests /\ streak \in 0..2 /\ cancels \in Nat /\ waiters \in 0..MaxWaiters
      /\ pumping \in BOOLEAN
  BY DEF AdmissionInv, Shape, QueueOK
<1>1. /\ phase = "open" /\ phase' = "closing" /\ wakeTimer' = FALSE
      /\ req' = [r \in Requests |-> IF r \in waiting THEN "idle" ELSE req[r]]
      /\ cancelled' = cancelled \cup inFlight
      /\ before' = [r \in Requests |-> {}]
      /\ queue' = q2 /\ passed' = 0
      /\ UNCHANGED <<streak, stage, selection, leased, strays, open, cancels>>
  BY DEF Close, store, counts
<1>2. IF pumping THEN waiters' = Capped(waiters + calls) /\ UNCHANGED <<pumping, tail>>
      ELSE IF Cardinality(Queued(queue)) > 1
      THEN pumping' = TRUE /\ waiters' = Capped(calls - 1) /\ tail' = Append(tail, PumpOp)
      ELSE UNCHANGED <<pumping, waiters, tail>>
  BY DEF Close, pump
<1>3. /\ q2 \in [Lanes -> Seq(Requests)] /\ LanesOK(q2) /\ Queued(q2) = {}
      /\ \A lane \in Lanes : q2[lane] = <<>>
      /\ NoneQueued(q2)
  BY EmptyQueueIs
<1>4. /\ calls \in Nat
      /\ Cardinality(Queued(queue)) \in Nat /\ Cardinality(Queued(queue)) <= calls
  <2>1. Queued(queue) \subseteq waiting \cup inFlight
    BY <1>0, QueuedIs DEF AdmissionInv, QueueOK
  <2>. QED  BY <2>1, CallsIs
<1>5. /\ \A r \in Requests : r \in waiting <=> req[r] = "queued"
      /\ \A r \in Requests : r \in cancelled' <=> r \in cancelled \/ req[r] = "granting"
      /\ cancelled' \subseteq Requests
  BY <1>0, <1>1
<1>. HIDE DEF waiting, inFlight, calls, q2
<1>6. /\ \A r \in Requests : req'[r] = IF req[r] = "queued" THEN "idle" ELSE req[r]
      /\ req' \in [Requests -> States]
  BY <1>0, <1>1, <1>5 DEF States
<1>7. waiters' \in 0..MaxWaiters /\ pumping' \in BOOLEAN
  <2>1. waiters \in Nat
    BY <1>0
  <2>2. CASE pumping
    <3>1. waiters + calls \in Nat
      BY <1>4, <2>1
    <3>2. waiters' = Capped(waiters + calls) /\ pumping' = pumping
      BY <1>2, <2>2
    <3>. QED  BY <1>0, <3>1, <3>2, CappedIs
  <2>3. CASE ~pumping /\ Cardinality(Queued(queue)) > 1
    <3>1. calls - 1 \in Nat
      BY <1>4, <2>3
    <3>. QED  BY <1>2, <2>3, <3>1, CappedIs
  <2>4. CASE ~pumping /\ ~(Cardinality(Queued(queue)) > 1)
    BY <1>0, <1>2, <2>4
  <2>. QED  BY <2>2, <2>3, <2>4
<1>8. TailFor(tail', req', pumping') /\ TailKept
  <2>1. TailFor(tail, req, pumping) /\ tail \in Seq(Operation)
    BY DEF AdmissionInv, TailOK, TailFor
  <2>2. \A r \in Requests : req[r] = "queued" => NoOpOf(tail, r)
    BY <2>1, NoOpIs
  <2>3. TailFor(tail, req', pumping)
    BY <1>6, <2>1, <2>2, RelabelIs DEF Waits
  <2>4. CASE UNCHANGED <<pumping, tail>>
    BY <2>3, <2>4 DEF TailKept
  <2>5. CASE ~pumping /\ pumping' = TRUE /\ tail' = Append(tail, PumpOp)
    <3>1. NoPumpIn(tail)
      BY <2>1, <2>5 DEF TailFor, NoPumpIn
    <3>2. OperationOK(PumpOp, req') /\ PumpOp.of \notin Requests
      BY PumpOpIs, AdmissionAssumption DEF OperationOK
    <3>3. TailFor(Append(tail, PumpOp), req', pumping')
      BY <2>3, <2>5, <3>1, <3>2, PumpOpIs, AddIs
    <3>4. tail /= <<>> => Append(tail, PumpOp) /= <<>> /\ Head(Append(tail, PumpOp)) = Head(tail)
      BY <2>1, PumpOpIs, AppendIs
    <3>. QED  BY <2>5, <3>3, <3>4 DEF TailKept
  <2>. QED  BY <1>2, <2>4, <2>5
<1>9. Shape'
  <2>1. wakeTimer' \in BOOLEAN
    <3>. HIDE <1>0, <1>4
    <3>. QED  BY <1>1
  <2>2. before' \in [Requests -> SUBSET Requests] /\ passed' \in Nat /\ phase' \in {"open", "closing", "closed"}
    BY <1>1
  <2>. QED  BY <1>0, <1>1, <1>3, <1>5, <1>6, <1>7, <2>1, <2>2 DEF Shape
<1>10. QueueOK'
  BY <1>0, <1>1, <1>3, <1>5, <1>6 DEF AdmissionInv, QueueOK
<1>11. StageOK'
  <2>1. stage = "granting" => selection \in Requests /\ selection \in cancelled'
    BY <1>5, GrantingIs
  <2>. QED  BY <1>1, <1>6, <1>8, <2>1, StageKept
<1>12. BeforeOK'
  BY <1>1, <1>3 DEF BeforeOK
<1>13. ClosedOK'
  BY <1>1, <1>3 DEF ClosedOK
<1>14. LeaseIsHeld'
  BY <1>1, <1>6 DEF AdmissionInv, LeaseIsHeld
<1>15. PassedOK'
  <2>1. 0 <= streak + cancels
    BY <1>0
  <2>. QED  BY <1>1, <2>1 DEF PassedOK
<1>. QED  BY <1>8, <1>9, <1>10, <1>11, <1>12, <1>13, <1>14, <1>15 DEF AdmissionInv, TailOK

\* quiesce has returned.
LEMMA CloseEndsStep ==
    ASSUME AdmissionInv, CloseEnds
    PROVE  AdmissionInv'
<1>1. /\ phase = "closing" /\ tail = <<>> /\ ~pumping /\ phase' = "closed"
      /\ UNCHANGED <<queue, req, cancelled, before, streak, pumping, waiters, tail, stage, selection, leased, strays,
                     open, wakeTimer, passed, cancels>>
  BY DEF CloseEnds, request, pump, store, counts
<1>2. Shape' /\ QueueOK' /\ BeforeOK' /\ LeaseIsHeld' /\ TailOK'
  BY <1>1 DEF AdmissionInv, Shape, QueueOK, BeforeOK, LeaseIsHeld, TailOK
<1>3. StageOK' /\ PassedOK'
  BY <1>1 DEF AdmissionInv, StageOK, PassedOK, Running
<1>4. ClosedOK'
  BY <1>1 DEF AdmissionInv, ClosedOK
<1>. QED  BY <1>2, <1>3, <1>4 DEF AdmissionInv

-----------------------------------------------------------------------------
(* The theorems. *)

\* A new admission satisfies the invariant.
LEMMA InitInv == Init => AdmissionInv
<1>. SUFFICES ASSUME Init PROVE AdmissionInv
  OBVIOUS
<1>. DEFINE q2 == [foreground |-> <<>>, record |-> <<>>]
<1>1. /\ q2 \in [Lanes -> Seq(Requests)] /\ LanesOK(q2) /\ Queued(q2) = {}
      /\ (\A lane \in Lanes : q2[lane] = <<>>)
      /\ NoneQueued(q2)
  BY EmptyQueueIs
<1>2. queue = q2 /\ (\A r \in Requests : req[r] = "idle")
  BY DEF Init
<1>. HIDE DEF q2
<1>3. Shape
  <2>1. pumping \in BOOLEAN /\ open \in BOOLEAN /\ wakeTimer \in BOOLEAN
    BY Zenon DEF Init
  <2>2. /\ req \in [Requests -> States] /\ before \in [Requests -> SUBSET Requests]
    BY DEF Init, States
  <2>3. /\ streak \in 0..2 /\ waiters \in 0..MaxWaiters /\ strays \in Nat /\ passed \in Nat /\ cancels \in Nat
    BY AdmissionAssumption DEF Init
  <2>4. cancelled \subseteq Requests /\ leased \subseteq Requests /\ selection \in Requests \cup {None}
        /\ stage \in {"begin", "granting", "pumps"} /\ phase \in {"open", "closing", "closed"}
    BY DEF Init
  <2>. QED  BY <1>1, <1>2, <2>1, <2>2, <2>3, <2>4 DEF Shape
<1>4. QueueOK
  BY <1>1, <1>2 DEF QueueOK, Init
<1>5. TailOK
  <2>1. tail = <<>> /\ tail \in Seq(Operation)
    BY DEF Init
  <2>2. DOMAIN tail = {}
    BY <2>1, EmptyIs
  <2>. QED  BY <1>2, <2>1, <2>2 DEF TailOK, TailFor
<1>6. StageOK
  BY <1>2 DEF StageOK, Init
<1>7. BeforeOK
  BY <1>1, <1>2 DEF BeforeOK, Init
<1>8. ClosedOK /\ LeaseIsHeld /\ PassedOK
  BY <1>1, <1>2 DEF ClosedOK, LeaseIsHeld, PassedOK, Init
<1>. QED  BY <1>3, <1>4, <1>5, <1>6, <1>7, <1>8 DEF AdmissionInv

\* Every step keeps the invariant.
LEMMA NextInv == AdmissionInv /\ [Next]_vars => AdmissionInv'
<1>. SUFFICES ASSUME AdmissionInv, [Next]_vars PROVE AdmissionInv'
  OBVIOUS
<1>1. CASE UNCHANGED vars
  <2>1. UNCHANGED <<queue, req, cancelled, before, streak, pumping, waiters, tail, stage, selection, leased, strays,
                    open, wakeTimer, phase, passed, cancels>>
    BY <1>1 DEF vars, request, pump, store, counts
  <2>2. Shape' /\ QueueOK' /\ BeforeOK' /\ LeaseIsHeld' /\ TailOK'
    BY <2>1 DEF AdmissionInv, Shape, QueueOK, BeforeOK, LeaseIsHeld, TailOK
  <2>3. StageOK' /\ PassedOK' /\ ClosedOK'
    BY <2>1 DEF AdmissionInv, StageOK, PassedOK, ClosedOK, Running
  <2>. QED  BY <2>2, <2>3 DEF AdmissionInv
<1>2. CASE \E r \in Requests : Acquire(r) \/ TryAcquire(r) \/ Cancel(r) \/ AbortCandidate(r) \/ Complete(r)
  BY <1>2, AcquireStep, TryAcquireStep, CancelStep, AbortCandidateStep, CompleteStep
<1>3. CASE Works
  BY <1>3, SelectStep, DeclineStep, PumpGrantedStep, CandidateGrantedStep, SettlePermitStep, UndoGrantStep,
     RecoverSettlesStep, RecoverReturnsStep, CloseEndsStep DEF Works
<1>4. CASE GrantFails \/ Recover
  BY <1>4, GrantFailsStep, RecoverStep
<1>5. CASE WakeFires \/ BreakerExpires \/ StrayExpires \/ Close
  BY <1>5, WakeFiresStep, BreakerExpiresStep, StrayExpiresStep, CloseStep
<1>. QED  BY <1>1, <1>2, <1>3, <1>4, <1>5 DEF Next

\* The queue, the requests, the operations on the control file and the leases agree in
\* every reachable state of an admission.
THEOREM AdmissionInvariant == Spec => []AdmissionInv
BY InitInv, NextInv, PTL DEF Spec

\* The state of an admission keeps the shape the source gives it.
THEOREM TypeCorrect == Spec => []TypeOK
<1>1. AdmissionInv => TypeOK
  <2>. SUFFICES ASSUME AdmissionInv PROVE TypeOK
    OBVIOUS
  <2>1. Shape /\ tail \in Seq(Operation)
    BY DEF AdmissionInv, TailOK, TailFor
  <2>2. \A i \in DOMAIN tail : tail[i].of \in Requests \cup {None}
    <3>1. \A i \in DOMAIN tail : tail[i] \in Operation
      BY <2>1
    <3>. QED  BY <3>1 DEF Operation
  <2>. QED  BY <2>1, <2>2 DEF Shape, TypeOK, Lanes, States
<1>. QED  BY <1>1, AdmissionInvariant, PTL

\* No lease is left behind by a cancellation in the middle of a grant, a failing store
\* or closing, and none is taken from a permit.
THEOREM LeasesAreHeld == Spec => []LeaseIsHeld
<1>1. AdmissionInv => LeaseIsHeld
  BY DEF AdmissionInv
<1>. QED  BY <1>1, AdmissionInvariant, PTL

\* tryGrantExclusive hands no permit to a request that was cancelled while its lease
\* was written.
THEOREM CancelledGetNoPermit == Spec => []CancelledGetsNoPermit
<1>1. AdmissionInv => CancelledGetsNoPermit
  BY DEF AdmissionInv, QueueOK, CancelledGetsNoPermit
<1>. QED  BY <1>1, AdmissionInvariant, PTL

\* selectRequest and noteGrant keep a record request from waiting for more than two
\* foreground grants, and one more per cancelled grant.
THEOREM RecordTurnsCome == Spec => []RecordTurnComes
<1>1. AdmissionInv => RecordTurnComes
  BY DEF AdmissionInv, Shape, PassedOK, RecordTurnComes
<1>. QED  BY <1>1, AdmissionInvariant, PTL

\* Whatever is cancelled, rejected or tried meanwhile, nobody overtakes in a lane.
THEOREM LanesInOrder == Spec => []LaneInOrder
<1>1. AdmissionInv => LaneInOrder
  BY DEF AdmissionInv, BeforeOK, LaneInOrder
<1>. QED  BY <1>1, AdmissionInvariant, PTL

\* When close has returned, no request is queued or in flight.
THEOREM ClosedAdmissionsAreQuiet == Spec => []ClosedIsQuiet
<1>1. AdmissionInv => ClosedIsQuiet
  <2>. SUFFICES ASSUME AdmissionInv, phase = "closed" PROVE ClosedIsQuiet
    BY DEF ClosedIsQuiet
  <2>1. NoneQueued(queue) /\ tail = <<>> /\ TailFor(tail, req, pumping)
    BY DEF AdmissionInv, ClosedOK, TailOK
  <2>2. DOMAIN tail = {}
    BY <2>1
  <2>3. \A r \in Requests : req[r] \notin {"trying", "completing", "undoing"}
    BY <2>1, <2>2 DEF TailFor
  <2>4. stage /= "granting"
    BY <2>1, GrantingIs
  <2>5. \A r \in Requests : req[r] /= "granting"
    BY <2>4 DEF AdmissionInv, StageOK
  <2>6. \A r \in Requests : req[r] /= "queued"
    <3>1. Queued(queue) = {}
      BY <2>1, QueuedIs DEF AdmissionInv, Shape, QueueOK
    <3>. QED  BY <3>1 DEF AdmissionInv, QueueOK
  <2>7. \A r \in Requests : req[r] \in States
    BY DEF AdmissionInv, Shape
  <2>. QED  BY <2>1, <2>3, <2>5, <2>6, <2>7 DEF ClosedIsQuiet, States
<1>. QED  BY <1>1, AdmissionInvariant, PTL

==============================================================================
