--------------------- MODULE RecordCommitProtocolProofs ---------------------
(***************************************************************************)
(* Proofs about RecordCommitProtocol, for every number of tasks,            *)
(* attachments and crashes.                                                 *)
(*                                                                         *)
(* The pump and the control work on one ledger without a lock between them. *)
(* What keeps them apart is the registry: whoever cleans up has seen the    *)
(* task detached, and from then on a pump that is still publishing has lost *)
(* its authority for good (RetreatOK).  Everything else follows the ledger: *)
(* the before-images hold nothing of the commit's own and nothing that      *)
(* anybody replaces (GoodImages), and a caller's place in its procedure     *)
(* tells which stage and lifecycle the ledger has reached (CallerOK).       *)
(***************************************************************************)
EXTENDS RecordCommitProtocol, TLAPS

-----------------------------------------------------------------------------
(* The inductive invariant. *)

Opening == {"idle", "attach", "sync", "create"}

\* From its guard to its confirmation, a caller works on one stage.
Staging == {"guard", "capture", "guard_captured", "intent", "guard_intent", "claim", "claim_sync",
            "write", "verify", "guard_written", "confirm"}
Publishing == Staging \cup {"advance"}

Detaching == {"cancel", "cancel_guard", "detach", "detach_sync", "detached_guard", "shared"}

\* The cleanup intent is in the ledger.
Undoing == {"checkpoint", "effect", "checkpoint_after", "checkpoint_final", "checkpoint_invisible", "finish"}
Cleaning == Undoing \cup {"mark_detached", "cleanup", "cleanup_repair"}

Places == Opening \cup Publishing \cup Detaching \cup Cleaning \cup {"repair"}

Images == [Artifacts -> Writer \cup {"none"}]
Retreat == {"Cancelling", "Cancelled", "Detached"}

Local == [pc : Places, target : Stage, img : Images, reuse : BOOLEAN,
          effect : Artifacts \cup {"staged", "none"}, ok : BOOLEAN]

\* Before-images hold nothing of this commit, and what is foreign in them is still there.
GoodImages(img) ==
    /\ img \in [Artifacts -> {"before", "other"}]
    /\ \A a \in Artifacts : img[a] = "other" => artifact[a] = "other"
    /\ img["reader"] = "other" => img["body"] = "other"

NoneMine == \A a \in Artifacts : artifact[a] /= "mine"

LedgerOK ==
    /\ ledger \in Ledger
    /\ HasImages(ledger) <=> ledger.stage \notin {"ResultReady", "BodyStaged"}
    /\ ledger.captured /= NoImages <=> ledger.intent = "PublishIntent"
    /\ ledger.intent = "PublishIntent" => GoodImages(ledger.captured)
    /\ HasImages(ledger) => GoodImages(ledger.images)
    /\ ledger.intent = "cleanup" => ledger.lifecycle = "Cancelling"
    /\ ledger.lifecycle = "Absent" => ledger.stage = "ResultReady"
    /\ ledger.lifecycle \in Retreat => cancelled

RegistryOK ==
    /\ attached \subseteq Others \cup {Me} /\ current \in BOOLEAN
    /\ claim \in {"none", "mine", "same", "other"}
    /\ seen \subseteq Callers \cup {"scheduler"} /\ cancelled \in BOOLEAN
    /\ joins \in 0..MaxJoins /\ crashes \in 0..MaxCrashes

ArtifactsOK ==
    /\ artifact \in [Artifacts -> Writer]
    /\ \A a \in Artifacts : artifact[a] = "mine" => claim = "mine" /\ HasImages(ledger)
    /\ current /\ claim \in {"none", "mine"} => \A a \in Artifacts : artifact[a] /= "other"
    /\ current /\ artifact["reader"] = "other" => artifact["body"] = "other"
    /\ ledger.lifecycle = "Cancelled" => NoneMine
    /\ VerifiedIsVisible

\* What is known of caller p, with the local variables c.
CallerOK(p, c) ==
    /\ c \in Local
    /\ p = "control" => c.pc \in {"idle", "repair"} \cup Detaching \cup Cleaning
    /\ c.pc \notin Opening => ledger.lifecycle /= "Absent"
    /\ c.reuse => claim = "same"
    /\ c.pc \in Detaching \cup Cleaning => cancelled
    /\ c.pc \in Staging => ledger.stage /= "Verified" /\ c.target = NextStage(ledger.stage)
    /\ c.pc \in {"capture", "guard_captured"} => c.target = "PublishIntent"
    /\ c.pc = "guard_captured" \/ (c.pc = "intent" /\ c.target = "PublishIntent") => GoodImages(c.img)
    /\ c.pc \in Undoing => ledger.lifecycle \in Retreat
    /\ c.pc \in {"checkpoint", "effect", "checkpoint_after"} =>
          c.effect /= "none" /\ (c.effect /= "staged" => HasImages(ledger))
    /\ c.pc = "finish" \/ (c.pc = "checkpoint_invisible" /\ c.ok) => NoneMine
    /\ c.pc \in {"guard_written", "confirm"} /\ c.target = "Verified" /\ ledger.lifecycle = "Active" /\ current =>
          \A a \in Artifacts : artifact[a] = IF c.reuse THEN "other" ELSE "mine"

CallersOK == \A p \in Callers : CallerOK(p, at[p])

\* Once anybody cleans up, a pump that still publishes is not authorized any more.
RetreatOK ==
    (ledger.lifecycle \in Retreat \/ at["control"].pc \in Cleaning) /\ at["pump"].pc \in Publishing =>
        Me \notin attached

CommitInv == LedgerOK /\ RegistryOK /\ ArtifactsOK /\ at \in [Callers -> Local] /\ CallersOK /\ RetreatOK

-----------------------------------------------------------------------------
(* Lemmas about stages and local variables. *)

\* The stages by name.
LEMMA StageIs ==
    Stage = {"ResultReady", "BodyStaged", "PublishIntent", "BodyPublished",
             "MainIndexWritten", "ReaderIndexWritten", "Verified"}
<1>1. DOMAIN Stages = 1..7
  BY DEF Stages
<1>2. /\ Stages[1] = "ResultReady" /\ Stages[2] = "BodyStaged" /\ Stages[3] = "PublishIntent"
      /\ Stages[4] = "BodyPublished" /\ Stages[5] = "MainIndexWritten" /\ Stages[6] = "ReaderIndexWritten"
      /\ Stages[7] = "Verified"
  BY DEF Stages
<1>3. 1..7 = {1, 2, 3, 4, 5, 6, 7}
  OBVIOUS
<1>. QED  BY <1>1, <1>2, <1>3 DEF Stage

\* NEXT_STAGE, by name.
LEMMA NextStageIs ==
    /\ NextStage("ResultReady") = "BodyStaged" /\ NextStage("BodyStaged") = "PublishIntent"
    /\ NextStage("PublishIntent") = "BodyPublished" /\ NextStage("BodyPublished") = "MainIndexWritten"
    /\ NextStage("MainIndexWritten") = "ReaderIndexWritten" /\ NextStage("ReaderIndexWritten") = "Verified"
    /\ \A s \in Stage : s /= "Verified" => NextStage(s) \in Stage \ {"ResultReady"}
<1>1. DOMAIN Stages = 1..7
  BY DEF Stages
<1>2. /\ Stages[1] = "ResultReady" /\ Stages[2] = "BodyStaged" /\ Stages[3] = "PublishIntent"
      /\ Stages[4] = "BodyPublished" /\ Stages[5] = "MainIndexWritten" /\ Stages[6] = "ReaderIndexWritten"
      /\ Stages[7] = "Verified"
  BY DEF Stages
<1>3. ASSUME NEW k \in 1..6 PROVE NextStage(Stages[k]) = Stages[k + 1]
  <2>1. \A i \in 1..7 : Stages[i] = Stages[k] <=> i = k
    BY <1>2
  <2>2. (CHOOSE i \in 1..7 : Stages[i] = Stages[k]) = k
    BY <2>1
  <2>3. NextStage(Stages[k]) = Stages[1 + k]
    BY <1>1, <2>2 DEF NextStage
  <2>. QED  BY <2>3
<1>4. /\ NextStage("ResultReady") = "BodyStaged" /\ NextStage("BodyStaged") = "PublishIntent"
      /\ NextStage("PublishIntent") = "BodyPublished" /\ NextStage("BodyPublished") = "MainIndexWritten"
      /\ NextStage("MainIndexWritten") = "ReaderIndexWritten" /\ NextStage("ReaderIndexWritten") = "Verified"
  <2>1. NextStage(Stages[1]) = Stages[2] /\ NextStage(Stages[2]) = Stages[3] /\ NextStage(Stages[3]) = Stages[4]
    BY <1>3
  <2>2. NextStage(Stages[4]) = Stages[5] /\ NextStage(Stages[5]) = Stages[6] /\ NextStage(Stages[6]) = Stages[7]
    BY <1>3
  <2>. QED  BY <1>2, <2>1, <2>2
<1>. QED  BY <1>4, StageIs

\* What a caller has after a return.
LEMMA IdleIs ==
    /\ Idle \in Local /\ Idle.pc = "idle" /\ Idle.reuse = FALSE
    /\ NoImages \in Images /\ \A a \in Artifacts : NoImages[a] = "none"
<1>1. NoImages \in Images
  BY DEF NoImages, Images
<1>2. "ResultReady" \in Stage /\ "idle" \in Places
  BY StageIs DEF Places, Opening
<1>3. FALSE \in BOOLEAN /\ TRUE \in BOOLEAN
  OBVIOUS
<1>. QED  BY <1>1, <1>2, <1>3 DEF Idle, Local, NoImages

\* Before-images are images.
LEMMA GoodImagesIs ==
    ASSUME NEW img, GoodImages(img)
    PROVE  img \in Images /\ img /= NoImages
<1>1. img \in [Artifacts -> {"before", "other"}]
  BY DEF GoodImages
<1>2. "body" \in Artifacts
  BY DEF Artifacts
<1>3. img["body"] /= "none"
  BY <1>1, <1>2
<1>4. img \in Images
  BY <1>1 DEF Images, Writer
<1>. QED  BY <1>2, <1>3, <1>4, IdleIs

\* Caller p has moved to pc, and to the local variables c.
Moved(p, c) == at' \in [Callers -> Local] /\ at'[p] = c /\ \A q \in Callers : q /= p => at'[q] = at[q]

\* Going on in the procedure.
LEMMA GotoIs ==
    ASSUME at \in [Callers -> Local], NEW p \in Callers, NEW pc \in Places, Goto(p, pc)
    PROVE  /\ Moved(p, [at[p] EXCEPT !.pc = pc])
           /\ at'[p].pc = pc /\ at'[p].target = at[p].target /\ at'[p].img = at[p].img
           /\ at'[p].reuse = at[p].reuse /\ at'[p].effect = at[p].effect /\ at'[p].ok = at[p].ok
<1>1. at[p] \in Local
  OBVIOUS
<1>2. [at[p] EXCEPT !.pc = pc] \in Local
  BY <1>1 DEF Local
<1>3. at' = [at EXCEPT ![p] = [at[p] EXCEPT !.pc = pc]]
  BY DEF Goto
<1>4. at'[p] = [at[p] EXCEPT !.pc = pc]
  BY <1>3
<1>. QED  BY <1>1, <1>2, <1>3, <1>4 DEF Moved, Local

\* Leaving the procedure.
LEMMA ReturnIs ==
    ASSUME at \in [Callers -> Local], NEW p \in Callers, Return(p)
    PROVE  Moved(p, Idle)
BY IdleIs DEF Return, Moved

\* A caller that is idle promises nothing.
LEMMA IdleCaller ==
    ASSUME NEW p \in Callers
    PROVE  CallerOK(p, Idle)
BY IdleIs DEF CallerOK, Opening, Publishing, Staging, Detaching, Cleaning, Undoing

-----------------------------------------------------------------------------
(* Kinds of steps. *)

\* The ledger and the registry have not gone back.
Forward ==
    /\ cancelled => cancelled'
    /\ current' => current
    /\ claim /= "none" => claim' = claim
    /\ ledger'.lifecycle = "Absent" => ledger.lifecycle = "Absent"
    /\ ledger.lifecycle \in Retreat => ledger'.lifecycle \in Retreat
    /\ HasImages(ledger) => HasImages(ledger')

\* A step of p changes the ledger or the registry, and no artifact.
LEMMA LedgerStep ==
    ASSUME CommitInv, UNCHANGED artifact, LedgerOK', RegistryOK', Forward,
           NEW p \in Callers, NEW c, Moved(p, c), CallerOK(p, c)',
           p = "control" => ledger'.stage = ledger.stage /\ (ledger'.lifecycle = "Active" => ledger.lifecycle = "Active"),
           ledger'.lifecycle = "Cancelled" => NoneMine,
           ledger'.stage = "Verified" /\ ledger'.lifecycle = "Active" /\ current' =>
              \/ ledger.stage = "Verified" /\ ledger.lifecycle = "Active"
              \/ \A a \in Artifacts : artifact[a] = IF claim' = "same" THEN "other" ELSE "mine",
           ledger'.lifecycle \in Retreat => ledger.lifecycle \in Retreat \/ (at[p].pc \in Cleaning /\ c.pc \notin Publishing),
           p = "pump" /\ c.pc \in Publishing => at[p].pc \in Publishing \/ ~cancelled,
           p = "control" /\ c.pc \in Cleaning => at[p].pc \in Cleaning \/ Me \notin attached',
           Me \in attached' => Me \in attached \/ (p = "pump" /\ c.pc \notin Publishing)
    PROVE  CommitInv'
<1>0. /\ at' \in [Callers -> Local] /\ at'[p] = c /\ \A q \in Callers : q /= p => at'[q] = at[q]
  BY DEF Moved
<1>1. ArtifactsOK'
  <2>1. artifact' \in [Artifacts -> Writer]
    BY DEF CommitInv, ArtifactsOK
  <2>2. \A a \in Artifacts : artifact'[a] = "mine" => claim' = "mine" /\ HasImages(ledger')
    BY DEF CommitInv, ArtifactsOK, Forward
  <2>3. claim' \in {"none", "mine"} => claim \in {"none", "mine"}
    BY DEF Forward
  <2>4. current' /\ claim' \in {"none", "mine"} => \A a \in Artifacts : artifact'[a] /= "other"
    BY <2>3 DEF CommitInv, ArtifactsOK, Forward
  <2>5. current' /\ artifact'["reader"] = "other" => artifact'["body"] = "other"
    BY DEF CommitInv, ArtifactsOK, Forward
  <2>6. ledger'.lifecycle = "Cancelled" => NoneMine'
    BY DEF NoneMine
  <2>7. VerifiedIsVisible'
    <3>1. SUFFICES ASSUME ledger'.stage = "Verified", ledger'.lifecycle = "Active", current', NEW a \in Artifacts
                   PROVE  artifact[a] = IF claim' = "same" THEN "other" ELSE "mine"
      BY DEF VerifiedIsVisible
    <3>2. CASE ledger.stage = "Verified" /\ ledger.lifecycle = "Active"
      <4>1. artifact[a] = IF claim = "same" THEN "other" ELSE "mine"
        BY <3>1, <3>2 DEF CommitInv, ArtifactsOK, VerifiedIsVisible, Forward
      <4>2. claim /= "none"
        BY <4>1 DEF CommitInv, ArtifactsOK
      <4>. QED  BY <4>1, <4>2 DEF Forward
    <3>. QED  BY <3>1, <3>2
  <2>. QED  BY <2>1, <2>2, <2>4, <2>5, <2>6, <2>7 DEF ArtifactsOK
<1>2. CallersOK'
  <2>1. SUFFICES ASSUME NEW q \in Callers, q /= p PROVE CallerOK(q, at[q])'
    BY <1>0 DEF CallersOK
  <2>2. CallerOK(q, at[q]) /\ at'[q] = at[q] /\ (q = "control" \/ p = "control")
    BY <1>0, <2>1 DEF CommitInv, CallersOK, Callers
  <2>. DEFINE d == at[q]
  <2>3. CallerOK(q, d) /\ at'[q] = d
    BY <2>2
  <2>. HIDE DEF d
  <2>5. /\ d \in Local
        /\ q = "control" => d.pc \in {"idle", "repair"} \cup Detaching \cup Cleaning
        /\ d.pc \notin Opening => ledger'.lifecycle /= "Absent"
        /\ d.reuse => claim' = "same"
        /\ d.pc \in Detaching \cup Cleaning => cancelled'
    BY <2>3 DEF CallerOK, Forward
  <2>6. q = "control" => d.pc \notin Staging
    BY <2>5 DEF Staging, Detaching, Cleaning, Undoing
  <2>7. d.pc \in Staging => ledger'.stage /= "Verified" /\ d.target = NextStage(ledger'.stage)
    BY <2>2, <2>3, <2>6 DEF CallerOK
  <2>8. d.pc \in {"capture", "guard_captured"} => d.target = "PublishIntent"
    BY <2>3 DEF CallerOK
  <2>9. d.pc = "guard_captured" \/ (d.pc = "intent" /\ d.target = "PublishIntent") =>
           /\ d.img \in [Artifacts -> {"before", "other"}]
           /\ \A a \in Artifacts : d.img[a] = "other" => artifact'[a] = "other"
           /\ d.img["reader"] = "other" => d.img["body"] = "other"
    BY <2>3 DEF CallerOK, GoodImages
  <2>10. /\ d.pc \in Undoing => ledger'.lifecycle \in Retreat
         /\ d.pc \in {"checkpoint", "effect", "checkpoint_after"} =>
               d.effect /= "none" /\ (d.effect /= "staged" => HasImages(ledger'))
    BY <2>3 DEF CallerOK, Forward
  <2>11. d.pc = "finish" \/ (d.pc = "checkpoint_invisible" /\ d.ok) => \A a \in Artifacts : artifact'[a] /= "mine"
    BY <2>3 DEF CallerOK, NoneMine
  <2>12. d.pc \in {"guard_written", "confirm"} /\ d.target = "Verified" /\ ledger'.lifecycle = "Active" /\ current' =>
            \A a \in Artifacts : artifact'[a] = IF d.reuse THEN "other" ELSE "mine"
    <3>1. d.pc \in {"guard_written", "confirm"} => d.pc \in Staging
      BY DEF Staging
    <3>. QED  BY <2>2, <2>3, <2>6, <3>1 DEF CallerOK, Forward
  <2>. QED  BY <2>3, <2>5, <2>7, <2>8, <2>9, <2>10, <2>11, <2>12 DEF CallerOK, GoodImages, NoneMine
<1>3. RetreatOK'
  <2>1. SUFFICES ASSUME ledger'.lifecycle \in Retreat \/ at'["control"].pc \in Cleaning, at'["pump"].pc \in Publishing,
                        Me \in attached'
                 PROVE  FALSE
    BY DEF RetreatOK
  <2>2. "pump" \in Callers /\ "control" \in Callers
    BY DEF Callers
  <2>3. CASE p = "pump"
    <3>1. c.pc \in Publishing /\ at'["control"] = at["control"] /\ Me \in attached
      BY <1>0, <2>1, <2>2, <2>3
    <3>2. ledger.lifecycle \in Retreat \/ at["control"].pc \in Cleaning
      BY <2>1, <3>1
    <3>3. CallerOK("control", at["control"])
      BY <2>2 DEF CommitInv, CallersOK
    <3>4. cancelled
      BY <3>2, <3>3 DEF CommitInv, LedgerOK, CallerOK
    <3>5. at["pump"].pc \in Publishing
      BY <2>3, <3>1, <3>4
    <3>. QED  BY <3>1, <3>2, <3>5 DEF CommitInv, RetreatOK
  <2>4. CASE p = "control"
    <3>1. at'["pump"] = at["pump"] /\ at'["control"] = c /\ Me \in attached
      BY <1>0, <2>1, <2>2, <2>4
    <3>2. ledger.lifecycle \in Retreat \/ at["control"].pc \in Cleaning
      BY <2>1, <2>4, <3>1
    <3>. QED  BY <2>1, <3>1, <3>2 DEF CommitInv, RetreatOK
  <2>. QED  BY <2>3, <2>4 DEF Callers
<1>. QED  BY <1>0, <1>1, <1>2, <1>3 DEF CommitInv

\* A step of p that changes its own variables alone, and perhaps seen.
LEMMA QuietStep ==
    ASSUME CommitInv, UNCHANGED <<ledger, artifact, attached, current, claim, cancelled, joins>>,
           crashes' \in 0..MaxCrashes, seen' \subseteq Callers \cup {"scheduler"},
           NEW p \in Callers, NEW c, Moved(p, c), CallerOK(p, c),
           p = "pump" /\ c.pc \in Publishing => at[p].pc \in Publishing \/ ~cancelled,
           p = "control" /\ c.pc \in Cleaning => at[p].pc \in Cleaning \/ Me \notin attached
    PROVE  CommitInv'
<1>0. at'[p] = c
  BY DEF Moved
<1>1. LedgerOK' /\ RegistryOK'
  BY DEF CommitInv, LedgerOK, RegistryOK, GoodImages
<1>2. Forward
  BY DEF Forward
<1>3. CallerOK(p, c)'
  BY <1>0 DEF Moved, CallerOK, GoodImages, NoneMine
<1>4. ledger.lifecycle = "Cancelled" => NoneMine
  BY DEF CommitInv, ArtifactsOK
<1>. QED  BY <1>1, <1>2, <1>3, <1>4, LedgerStep

\* A step that ends the procedure of p.
LEMMA ReturnStep ==
    ASSUME CommitInv, UNCHANGED <<ledger, artifact, attached, current, claim, cancelled, joins>>,
           crashes' \in 0..MaxCrashes, seen' \subseteq Callers \cup {"scheduler"},
           NEW p \in Callers, Return(p)
    PROVE  CommitInv'
<1>1. Moved(p, Idle)
  BY ReturnIs DEF CommitInv
<1>2. Idle.pc \notin Publishing /\ Idle.pc \notin Cleaning
  BY IdleIs DEF Publishing, Staging, Cleaning, Undoing
<1>. QED  BY <1>1, <1>2, IdleCaller, QuietStep

\* What is known of a caller.
LEMMA CallerIs ==
    ASSUME CommitInv, NEW p \in Callers
    PROVE  CallerOK(p, at[p]) /\ at[p] \in Local /\ at \in [Callers -> Local]
BY DEF CommitInv, CallersOK

\* The model's names for groups of variables.
LEMMA NothingElse ==
    /\ UNCHANGED registryVars <=> UNCHANGED <<attached, current, claim, seen>>
    /\ UNCHANGED Elsewhere <=> UNCHANGED <<cancelled, joins, crashes>>
    /\ CommitInv => seen \subseteq Callers \cup {"scheduler"} /\ joins \in 0..MaxJoins /\ crashes \in 0..MaxCrashes
BY DEF registryVars, Elsewhere, CommitInv, RegistryOK

\* A step that goes on in the procedure of p: what it promises at its new place.
LEMMA GotoStep ==
    ASSUME CommitInv, UNCHANGED <<ledger, artifact, attached, current, claim, cancelled, joins, crashes>>,
           seen' \subseteq Callers \cup {"scheduler"},
           NEW p \in Callers, NEW pc \in Places, Goto(p, pc),
           p = "control" => pc \in {"repair"} \cup Detaching \cup Cleaning,
           pc \in Opening \/ ledger.lifecycle /= "Absent",
           pc \in Detaching \cup Cleaning => cancelled,
           pc \in Publishing => at[p].pc \in Publishing \/ ~cancelled,
           pc \in Staging => at[p].pc \in Staging,
           pc \in {"capture", "guard_captured"} => at[p].target = "PublishIntent",
           pc = "guard_captured" \/ (pc = "intent" /\ at[p].target = "PublishIntent") => GoodImages(at[p].img),
           pc \in Undoing => ledger.lifecycle \in Retreat,
           pc \in {"checkpoint", "effect", "checkpoint_after"} =>
              at[p].effect /= "none" /\ (at[p].effect /= "staged" => HasImages(ledger)),
           pc = "finish" \/ (pc = "checkpoint_invisible" /\ at[p].ok) => NoneMine,
           pc \in {"guard_written", "confirm"} /\ at[p].target = "Verified" /\ ledger.lifecycle = "Active" /\ current =>
              \A a \in Artifacts : artifact[a] = IF at[p].reuse THEN "other" ELSE "mine",
           pc \in Cleaning => at[p].pc \in Cleaning \/ p = "pump" \/ Me \notin attached
    PROVE  CommitInv'
<1>. DEFINE c == [at[p] EXCEPT !.pc = pc]
<1>1. Moved(p, c)
  BY GotoIs DEF CommitInv
<1>2. /\ c \in Local /\ c.pc = pc /\ c.target = at[p].target /\ c.img = at[p].img
      /\ c.reuse = at[p].reuse /\ c.effect = at[p].effect /\ c.ok = at[p].ok
  BY CallerIs DEF Local
<1>3. crashes' \in 0..MaxCrashes
  BY NothingElse
<1>. HIDE DEF c
<1>4. CallerOK(p, c)
  <2>1. CallerOK(p, at[p])
    BY CallerIs
  <2>2. pc \in Staging => ledger.stage /= "Verified" /\ c.target = NextStage(ledger.stage)
    BY <1>2, <2>1 DEF CallerOK
  <2>3. c.reuse => claim = "same"
    BY <1>2, <2>1 DEF CallerOK
  <2>. QED  BY <1>2, <2>2, <2>3 DEF CallerOK
<1>. QED  BY <1>1, <1>2, <1>3, <1>4, QuietStep

-----------------------------------------------------------------------------
(* Opening. *)

\* PumpStarts
LEMMA PumpStartsStep ==
    ASSUME CommitInv, NEW p \in Callers, PumpStarts(p)
    PROVE  CommitInv'
<1>1. /\ p = "pump" /\ Goto(p, "attach")
      /\ UNCHANGED <<ledger, artifact, attached, current, claim, seen, cancelled, joins, crashes>>
  BY NothingElse DEF PumpStarts
<1>. QED  BY <1>1, NothingElse, GotoStep DEF Places, Opening, Publishing, Staging, Detaching, Cleaning, Undoing

\* syncRegistryWorkIntoScheduler
LEMMA SyncStep ==
    ASSUME CommitInv, NEW p \in Callers,
           \/ SyncThen(p, "sync", "create")
           \/ SyncThen(p, "claim_sync", "write")
           \/ SyncThen(p, "detach_sync", "detached_guard")
    PROVE  CommitInv'
<1>1. /\ UNCHANGED <<ledger, artifact, attached, current, claim, cancelled, joins, crashes>>
      /\ seen' \subseteq Callers \cup {"scheduler"}
  BY NothingElse DEF SyncThen
<1>2. crashes' \in 0..MaxCrashes
  BY <1>1, NothingElse
<1>3. CASE Return(p)
  BY <1>1, <1>2, <1>3, ReturnStep
<1>4. CASE ~Return(p)
  <2>1. \/ at[p].pc = "sync" /\ Goto(p, "create")
        \/ at[p].pc = "claim_sync" /\ Goto(p, "write")
        \/ at[p].pc = "detach_sync" /\ Goto(p, "detached_guard")
    BY <1>4 DEF SyncThen, Step, At
  <2>2. CallerOK(p, at[p])
    BY CallerIs
  <2>3. p = "control" => at[p].pc \in {"idle", "repair"} \cup Detaching \cup Cleaning
    BY <2>2 DEF CallerOK
  <2>4. at[p].pc \notin Opening => ledger.lifecycle /= "Absent"
    BY <2>2 DEF CallerOK
  <2>5. at[p].pc \in Detaching => cancelled
    BY <2>2 DEF CallerOK
  <2>6. CASE at[p].pc = "sync" /\ Goto(p, "create")
    BY <1>1, <2>3, <2>6, GotoStep DEF Places, Opening, Publishing, Staging, Detaching, Cleaning, Undoing
  <2>7. CASE at[p].pc = "claim_sync" /\ Goto(p, "write")
    BY <1>1, <2>3, <2>4, <2>7, GotoStep DEF Places, Opening, Publishing, Staging, Detaching, Cleaning, Undoing
  <2>8. CASE at[p].pc = "detach_sync" /\ Goto(p, "detached_guard")
    BY <1>1, <2>3, <2>4, <2>5, <2>8, GotoStep DEF Places, Opening, Publishing, Staging, Detaching, Cleaning, Undoing
  <2>. QED  BY <2>1, <2>6, <2>7, <2>8
<1>. QED  BY <1>3, <1>4

\* startOrAttachRecordWork
LEMMA AttachStep ==
    ASSUME CommitInv, NEW p \in Callers, Attach(p)
    PROVE  CommitInv'
<1>1. /\ at[p].pc = "attach" /\ attached' = attached \cup {Me} /\ seen' = {p} /\ Goto(p, "sync")
      /\ UNCHANGED <<ledger, artifact, current, claim, cancelled, joins, crashes>>
  BY NothingElse DEF Attach, Step, At, RegistryChangedBy
<1>2. "sync" \in Places /\ "sync" \in Opening /\ "sync" \notin Publishing /\ "sync" \notin Cleaning
  BY DEF Places, Opening, Publishing, Staging, Cleaning, Undoing
<1>3. CallerOK(p, at[p]) /\ at \in [Callers -> Local]
  BY CallerIs
<1>4. p = "pump"
  BY <1>1, <1>3 DEF CallerOK, Callers, Detaching, Cleaning, Undoing
<1>5. /\ Moved(p, [at[p] EXCEPT !.pc = "sync"]) /\ at'[p].pc = "sync" /\ at'[p].reuse = at[p].reuse
  BY <1>1, <1>2, <1>3, GotoIs
<1>6. PICK c : c = at'[p]
  OBVIOUS
<1>7. Moved(p, c) /\ c \in Local /\ c.pc = "sync" /\ c.reuse = at[p].reuse
  BY <1>5, <1>6 DEF Moved
<1>8. CallerOK(p, c)'
  <2>1. c.reuse => claim' = "same"
    BY <1>1, <1>3, <1>7 DEF CallerOK
  <2>. QED  BY <1>2, <1>4, <1>7, <2>1 DEF CallerOK, Staging, Detaching, Cleaning, Undoing
<1>9. LedgerOK' /\ RegistryOK' /\ Forward
  BY <1>1 DEF CommitInv, LedgerOK, RegistryOK, GoodImages, Forward
<1>10. ledger.lifecycle = "Cancelled" => NoneMine
  BY DEF CommitInv, ArtifactsOK
<1>. QED  BY <1>1, <1>2, <1>4, <1>7, <1>8, <1>9, <1>10, LedgerStep

\* A fresh ledger.
LEMMA InitialLedgerIs ==
    ASSUME NEW lifecycle \in {"Absent", "Active"}
    PROVE  LET l == InitialLedger(lifecycle)
           IN  /\ l \in Ledger /\ l.stage = "ResultReady" /\ l.lifecycle = lifecycle /\ l.repair = FALSE
               /\ l.intent = "none" /\ l.captured = NoImages /\ l.images = NoImages
<1>1. "ResultReady" \in Stage /\ NoImages \in [Artifacts -> Writer \cup {"none"}]
  BY StageIs, IdleIs DEF Images
<1>2. FALSE \in BOOLEAN
  OBVIOUS
<1>. QED  BY <1>1, <1>2 DEF InitialLedger, Ledger

\* initializeRecordCommitLedger
LEMMA CreateStep ==
    ASSUME CommitInv, NEW p \in Callers, Create(p)
    PROVE  CommitInv'
<1>1. /\ at[p].pc = "create" /\ UNCHANGED <<artifact, attached, current, claim, seen, cancelled, joins, crashes>>
  BY NothingElse DEF Create, Step, At
<1>2. /\ crashes' \in 0..MaxCrashes /\ seen' \subseteq Callers \cup {"scheduler"}
  BY <1>1, NothingElse
<1>3. CallerOK(p, at[p]) /\ at \in [Callers -> Local]
  BY CallerIs
<1>4. p = "pump"
  BY <1>1, <1>3 DEF CallerOK, Callers, Detaching, Cleaning, Undoing
<1>5. CASE UNCHANGED ledger /\ Return(p)
  BY <1>1, <1>2, <1>5, ReturnStep
<1>6. CASE ~(UNCHANGED ledger /\ Return(p))
  <2>1. ~cancelled /\ Goto(p, "advance")
    BY <1>6 DEF Create
  <2>2. CASE ledger.lifecycle /= "Absent"
    <3>1. UNCHANGED ledger
      BY <1>6, <2>2 DEF Create
    <3>. QED  BY <1>1, <1>2, <1>4, <2>1, <2>2, <3>1, GotoStep
                 DEF Places, Opening, Publishing, Staging, Detaching, Cleaning, Undoing
  <2>3. CASE ledger.lifecycle = "Absent"
    <3>1. ledger' = InitialLedger("Active")
      BY <1>6, <2>3 DEF Create
    <3>2. /\ ledger' \in Ledger /\ ledger'.stage = "ResultReady" /\ ledger'.lifecycle = "Active"
          /\ ledger'.intent = "none" /\ ledger'.captured = NoImages /\ ledger'.images = NoImages
      BY <3>1, InitialLedgerIs
    <3>3. ~HasImages(ledger') /\ ~HasImages(ledger)
      BY <2>3, <3>2 DEF HasImages, CommitInv, LedgerOK
    <3>4. LedgerOK' /\ RegistryOK' /\ Forward
      BY <1>1, <2>1, <2>3, <3>2, <3>3 DEF CommitInv, LedgerOK, RegistryOK, Forward, Retreat
    <3>5. /\ "advance" \in Places /\ "advance" \notin Cleaning
      BY DEF Places, Publishing, Cleaning, Undoing
    <3>6. /\ Moved(p, [at[p] EXCEPT !.pc = "advance"]) /\ at'[p].pc = "advance" /\ at'[p].reuse = at[p].reuse
      BY <1>3, <2>1, <3>5, GotoIs
    <3>7. PICK c : c = at'[p]
      OBVIOUS
    <3>8. Moved(p, c) /\ c \in Local /\ c.pc = "advance" /\ c.reuse = at[p].reuse
      BY <3>6, <3>7 DEF Moved
    <3>9. CallerOK(p, c)'
      <4>1. c.reuse => claim' = "same"
        BY <1>1, <1>3, <3>8 DEF CallerOK
      <4>. QED  BY <1>4, <3>2, <3>8, <4>1 DEF CallerOK, Opening, Staging, Detaching, Cleaning, Undoing
    <3>. QED  BY <1>1, <1>4, <2>1, <3>2, <3>4, <3>5, <3>8, <3>9, LedgerStep DEF Retreat
  <2>. QED  BY <2>2, <2>3
<1>. QED  BY <1>5, <1>6

-----------------------------------------------------------------------------
(* advanceOnce *)

\* advanceOnce, from the ledger it reads.
LEMMA AdvanceStep ==
    ASSUME CommitInv, NEW p \in Callers, Advance(p)
    PROVE  CommitInv'
<1>1. /\ at[p].pc = "advance"
      /\ UNCHANGED <<ledger, artifact, attached, current, claim, seen, cancelled, joins, crashes>>
  BY NothingElse DEF Advance, Step, At
<1>2. /\ crashes' \in 0..MaxCrashes /\ seen' \subseteq Callers \cup {"scheduler"}
  BY <1>1, NothingElse
<1>3. CallerOK(p, at[p]) /\ at \in [Callers -> Local] /\ at[p] \in Local
  BY CallerIs
<1>4. p = "pump" /\ ledger.lifecycle /= "Absent"
  BY <1>1, <1>3 DEF CallerOK, Callers, Detaching, Cleaning, Undoing, Opening
<1>5. CASE Return(p)
  BY <1>1, <1>2, <1>5, ReturnStep
<1>6. CASE ledger.lifecycle = "Cancelling" /\ Goto(p, "cleanup")
  <2>1. cancelled
    BY <1>6 DEF CommitInv, LedgerOK, Retreat
  <2>. QED  BY <1>1, <1>2, <1>4, <1>6, <2>1, GotoStep
               DEF Places, Opening, Publishing, Staging, Detaching, Cleaning, Undoing
<1>7. CASE /\ ledger.lifecycle = "Active" /\ ledger.stage /= "Verified"
           /\ at' = [at EXCEPT ![p].pc = "guard", ![p].target = NextStage(ledger.stage)]
  <2>. DEFINE c == [at[p] EXCEPT !.pc = "guard", !.target = NextStage(ledger.stage)]
  <2>1. NextStage(ledger.stage) \in Stage /\ "guard" \in Places /\ "guard" \in Publishing /\ "guard" \notin Cleaning
    <3>1. ledger.stage \in Stage
      BY DEF CommitInv, LedgerOK, Ledger
    <3>. QED  BY <1>7, <3>1, NextStageIs DEF Places, Publishing, Staging, Cleaning, Undoing
  <2>2. c \in Local /\ c.pc = "guard" /\ c.target = NextStage(ledger.stage) /\ c.reuse = at[p].reuse
    BY <1>3, <2>1 DEF Local
  <2>3. at' = [at EXCEPT ![p] = c]
    BY <1>7
  <2>. HIDE DEF c
  <2>4. Moved(p, c)
    BY <1>3, <2>2, <2>3 DEF Moved
  <2>5. CallerOK(p, c)
    <3>1. c.reuse => claim = "same"
      BY <1>3, <2>2 DEF CallerOK
    <3>. QED  BY <1>4, <1>7, <2>2, <3>1 DEF CallerOK, Opening, Staging, Detaching, Cleaning, Undoing
  <2>6. at[p].pc \in Publishing
    BY <1>1 DEF Publishing
  <2>. QED  BY <1>1, <1>2, <1>4, <2>1, <2>2, <2>4, <2>5, <2>6, QuietStep
<1>. QED  BY <1>5, <1>6, <1>7 DEF Advance

\* A caller that works on a stage.
LEMMA StagingIs ==
    ASSUME CommitInv, NEW p \in Callers, at[p].pc \in Staging
    PROVE  /\ p = "pump" /\ ledger.lifecycle /= "Absent" /\ at[p] \in Local /\ at \in [Callers -> Local]
           /\ ledger.stage \in Stage \ {"Verified"} /\ at[p].target = NextStage(ledger.stage)
           /\ at[p].pc \in Publishing /\ (at[p].reuse => claim = "same")
           /\ at[p].pc \notin Opening /\ at[p].target \in Stage \ {"ResultReady"}
<1>1. CallerOK(p, at[p]) /\ at \in [Callers -> Local] /\ at[p] \in Local
  BY CallerIs
<1>2. p = "pump" /\ at[p].pc \notin Opening
  BY <1>1 DEF CallerOK, Callers, Detaching, Cleaning, Undoing, Staging, Opening
<1>3. ledger.stage \in Stage
  BY DEF CommitInv, LedgerOK, Ledger
<1>. QED  BY <1>1, <1>2, <1>3, NextStageIs DEF CallerOK, Publishing

\* guard and stopForGuard
LEMMA GuardThenStep ==
    ASSUME CommitInv, NEW p \in Callers, NEW from \in Staging, NEW to \in Staging, GuardThen(p, from, to),
           to = "capture" => at[p].target = "PublishIntent",
           to /= "guard_captured",
           to = "intent" /\ at[p].target = "PublishIntent" => from = "guard_captured",
           to \in {"guard_written", "confirm"} => from = "guard_written" \/ at[p].target = "PublishIntent"
    PROVE  CommitInv'
<1>1. /\ at[p].pc = from
      /\ UNCHANGED <<ledger, artifact, attached, current, claim, seen, cancelled, joins, crashes>>
  BY NothingElse DEF GuardThen, Step, At
<1>2. /\ crashes' \in 0..MaxCrashes /\ seen' \subseteq Callers \cup {"scheduler"}
  BY <1>1, NothingElse
<1>3. CallerOK(p, at[p])
  BY CallerIs
<1>4. p = "pump" /\ ledger.lifecycle /= "Absent"
  BY <1>1, StagingIs
<1>5. CASE Return(p)
  BY <1>1, <1>2, <1>5, ReturnStep
<1>6. CASE cancelled /\ Goto(p, "cancel")
  BY <1>1, <1>2, <1>4, <1>6, GotoStep DEF Places, Opening, Publishing, Staging, Detaching, Cleaning, Undoing
<1>7. CASE Goto(p, to)
  <2>1. to \in Places /\ at[p].pc \in Publishing
    BY <1>1 DEF Places, Publishing
  <2>2. /\ to \notin Detaching \cup Cleaning /\ to \notin Undoing
        /\ to \notin {"checkpoint", "effect", "checkpoint_after", "finish", "checkpoint_invisible"}
    BY DEF Staging, Detaching, Cleaning, Undoing
  <2>3. to = "intent" /\ at[p].target = "PublishIntent" => GoodImages(at[p].img)
    BY <1>1, <1>3 DEF CallerOK
  <2>4. to \in {"guard_written", "confirm"} /\ at[p].target = "Verified" /\ ledger.lifecycle = "Active" /\ current =>
           \A a \in Artifacts : artifact[a] = IF at[p].reuse THEN "other" ELSE "mine"
    BY <1>1, <1>3 DEF CallerOK
  <2>. QED  BY <1>1, <1>2, <1>4, <1>7, <2>1, <2>2, <2>3, <2>4, GotoStep
<1>. QED  BY <1>5, <1>6, <1>7 DEF GuardThen

\* The guards around each stage.
LEMMA GuardStep ==
    ASSUME CommitInv, NEW p \in Callers, Guard(p)
    PROVE  CommitInv'
<1>1. CASE GuardThen(p, "guard", IF Target(p) = "PublishIntent" THEN "capture" ELSE "intent")
  BY <1>1, GuardThenStep DEF Staging, Target
<1>2. CASE GuardThen(p, "guard_captured", "intent")
  BY <1>2, GuardThenStep DEF Staging
<1>3. CASE GuardThen(p, "guard_intent", IF Target(p) = "PublishIntent" THEN "guard_written"
                                        ELSE IF WritesArtifact(Target(p)) THEN "claim" ELSE "write")
  BY <1>3, GuardThenStep DEF Staging, Target
<1>4. CASE GuardThen(p, "guard_written", "confirm")
  BY <1>4, GuardThenStep DEF Staging
<1>. QED  BY <1>1, <1>2, <1>3, <1>4 DEF Guard

\* captureBeforeImages
LEMMA CaptureStep ==
    ASSUME CommitInv, NEW p \in Callers, Capture(p)
    PROVE  CommitInv'
<1>1. /\ at[p].pc = "capture"
      /\ UNCHANGED <<ledger, artifact, attached, current, claim, seen, cancelled, joins, crashes>>
  BY NothingElse DEF Capture, Step, At
<1>2. /\ crashes' \in 0..MaxCrashes /\ seen' \subseteq Callers \cup {"scheduler"}
  BY <1>1, NothingElse
<1>3. at[p].pc \in Staging /\ CallerOK(p, at[p])
  BY <1>1, CallerIs DEF Staging
<1>4. /\ p = "pump" /\ ledger.lifecycle /= "Absent" /\ at[p] \in Local /\ at \in [Callers -> Local]
      /\ ledger.stage \in Stage \ {"Verified"} /\ at[p].target = NextStage(ledger.stage)
      /\ at[p].pc \in Publishing /\ (at[p].reuse => claim = "same")
  BY <1>3, StagingIs
<1>5. CASE Goto(p, "repair")
  BY <1>1, <1>2, <1>4, <1>5, GotoStep DEF Places, Opening, Publishing, Staging, Detaching, Cleaning, Undoing
<1>6. CASE ~Goto(p, "repair")
  <2>. DEFINE img == IF ledger.intent = "PublishIntent" THEN ledger.captured ELSE artifact
              c == [at[p] EXCEPT !.pc = "guard_captured", !.img = img]
  <2>1. at' = [at EXCEPT ![p] = c] /\ (ledger.intent = "PublishIntent" \/ Authorized)
    BY <1>6 DEF Capture
  <2>2. at[p].target = "PublishIntent"
    BY <1>1, <1>3 DEF CallerOK
  <2>3. ledger.stage = "BodyStaged"
    BY <1>4, <2>2, NextStageIs, StageIs
  <2>4. ~HasImages(ledger)
    BY <2>3 DEF CommitInv, LedgerOK
  <2>5. GoodImages(img)
    <3>1. CASE ledger.intent = "PublishIntent"
      BY <3>1 DEF CommitInv, LedgerOK
    <3>2. CASE ledger.intent /= "PublishIntent"
      <4>1. current
        BY <2>1, <3>2 DEF Authorized
      <4>2. artifact \in [Artifacts -> Writer] /\ \A a \in Artifacts : artifact[a] /= "mine"
        BY <2>4 DEF CommitInv, ArtifactsOK
      <4>3. artifact \in [Artifacts -> {"before", "other"}]
        BY <4>2 DEF Writer
      <4>4. artifact["reader"] = "other" => artifact["body"] = "other"
        BY <4>1 DEF CommitInv, ArtifactsOK
      <4>. QED  BY <3>2, <4>3, <4>4 DEF GoodImages
    <3>. QED  BY <3>1, <3>2
  <2>6. img \in Images
    BY <2>5, GoodImagesIs
  <2>. HIDE DEF img
  <2>7. "guard_captured" \in Places /\ "guard_captured" \notin Cleaning
    BY DEF Places, Publishing, Staging, Cleaning, Undoing
  <2>8. /\ c \in Local /\ c.pc = "guard_captured" /\ c.img = img /\ c.target = at[p].target
        /\ c.reuse = at[p].reuse
    BY <1>4, <2>6, <2>7 DEF Local
  <2>. HIDE DEF c
  <2>9. Moved(p, c)
    BY <1>4, <2>1, <2>8 DEF Moved
  <2>10. CallerOK(p, c)
    BY <1>4, <2>2, <2>5, <2>8 DEF CallerOK, Opening, Staging, Detaching, Cleaning, Undoing
  <2>. QED  BY <1>1, <1>2, <1>4, <2>7, <2>8, <2>9, <2>10, QuietStep
<1>. QED  BY <1>5, <1>6

\* ensureIntent
LEMMA EnsureIntentStep ==
    ASSUME CommitInv, NEW p \in Callers, EnsureIntent(p)
    PROVE  CommitInv'
<1>. DEFINE s == at[p].target
            image == IF s = "PublishIntent" THEN at[p].img ELSE NoImages
            next == [ledger EXCEPT !.intent = s, !.captured = image]
<1>1. /\ at[p].pc = "intent"
      /\ UNCHANGED <<artifact, attached, current, claim, seen, cancelled, joins, crashes>>
  BY NothingElse DEF EnsureIntent, Step, At
<1>2. /\ crashes' \in 0..MaxCrashes /\ seen' \subseteq Callers \cup {"scheduler"}
  BY <1>1, NothingElse
<1>3. at[p].pc \in Staging /\ CallerOK(p, at[p])
  BY <1>1, CallerIs DEF Staging
<1>4. /\ p = "pump" /\ ledger.lifecycle /= "Absent" /\ at[p] \in Local /\ at \in [Callers -> Local]
      /\ ledger.stage \in Stage \ {"Verified"} /\ s = NextStage(ledger.stage)
      /\ at[p].pc \in Publishing /\ (at[p].reuse => claim = "same") /\ s \in Stage
  BY <1>3, StagingIs
<1>5. CASE UNCHANGED ledger /\ Return(p)
  BY <1>1, <1>2, <1>5, ReturnStep
<1>6. CASE UNCHANGED ledger /\ Goto(p, "guard_intent")
  BY <1>1, <1>2, <1>3, <1>4, <1>6, GotoStep DEF Places, Opening, Publishing, Staging, Detaching, Cleaning, Undoing
<1>7. CASE ledger.intent = "none" /\ ledger' = next /\ Goto(p, "guard_intent")
  <2>1. s = "PublishIntent" => GoodImages(at[p].img)
    BY <1>1, <1>3 DEF CallerOK
  <2>2. image \in Images /\ (s = "PublishIntent" => GoodImages(image)) /\ (image /= NoImages <=> s = "PublishIntent")
    BY <2>1, IdleIs, GoodImagesIs
  <2>3. ledger \in Ledger
    BY DEF CommitInv, LedgerOK
  <2>. HIDE DEF s, image
  <2>4. /\ ledger' \in Ledger /\ ledger'.intent = s /\ ledger'.captured = image
        /\ ledger'.stage = ledger.stage /\ ledger'.lifecycle = ledger.lifecycle /\ ledger'.images = ledger.images
    BY <1>4, <1>7, <2>2, <2>3 DEF Ledger, Images
  <2>5. s \notin {"none", "cleanup"}
    BY <1>4, StageIs
  <2>6. HasImages(ledger') <=> HasImages(ledger)
    BY <2>4 DEF HasImages
  <2>7. LedgerOK'
    <3>1. ledger'.intent = "PublishIntent" => GoodImages(ledger'.captured)
      BY <2>2, <2>4
    <3>2. ledger'.intent = "PublishIntent" => GoodImages(ledger.captured)'
      BY <1>1, <3>1 DEF GoodImages
    <3>3. HasImages(ledger') => GoodImages(ledger.images)'
      BY <1>1, <2>4, <2>6 DEF GoodImages, CommitInv, LedgerOK
    <3>. QED  BY <1>1, <2>2, <2>4, <2>5, <2>6, <3>2, <3>3 DEF CommitInv, LedgerOK
  <2>8. RegistryOK' /\ Forward
    BY <1>1, <2>4, <2>6 DEF CommitInv, RegistryOK, Forward
  <2>9. /\ "guard_intent" \in Places /\ "guard_intent" \notin Cleaning
    BY DEF Places, Publishing, Staging, Cleaning, Undoing
  <2>10. /\ Moved(p, [at[p] EXCEPT !.pc = "guard_intent"]) /\ at'[p].pc = "guard_intent"
         /\ at'[p].reuse = at[p].reuse /\ at'[p].target = s
    BY <1>4, <1>7, <2>9, GotoIs DEF s
  <2>11. PICK c : c = at'[p]
    OBVIOUS
  <2>12. Moved(p, c) /\ c \in Local /\ c.pc = "guard_intent" /\ c.reuse = at[p].reuse /\ c.target = s
    BY <2>10, <2>11 DEF Moved
  <2>13. CallerOK(p, c)'
    BY <1>1, <1>4, <2>4, <2>12 DEF CallerOK, Opening, Staging, Detaching, Cleaning, Undoing
  <2>14. ledger.lifecycle = "Cancelled" => NoneMine
    BY DEF CommitInv, ArtifactsOK
  <2>. QED  BY <1>1, <1>4, <2>4, <2>7, <2>8, <2>9, <2>12, <2>13, <2>14, LedgerStep
<1>. QED  BY <1>5, <1>6, <1>7 DEF EnsureIntent, Target

\* preparePublicationClaim
LEMMA ClaimPublicationStep ==
    ASSUME CommitInv, NEW p \in Callers, ClaimPublication(p)
    PROVE  CommitInv'
<1>1. /\ at[p].pc = "claim"
      /\ UNCHANGED <<ledger, artifact, attached, current, cancelled, joins, crashes>>
  BY NothingElse DEF ClaimPublication, Step, At
<1>2. /\ crashes' \in 0..MaxCrashes /\ seen' \subseteq Callers \cup {"scheduler"}
  BY <1>1, NothingElse DEF ClaimPublication, RegistryChangedBy
<1>3. at[p].pc \in Staging /\ CallerOK(p, at[p])
  BY <1>1, CallerIs DEF Staging
<1>4. /\ p = "pump" /\ ledger.lifecycle /= "Absent" /\ at[p] \in Local /\ at \in [Callers -> Local]
      /\ ledger.stage \in Stage \ {"Verified"} /\ at[p].target = NextStage(ledger.stage)
      /\ at[p].pc \in Publishing /\ (at[p].reuse => claim = "same")
  BY <1>3, StagingIs
<1>5. CASE UNCHANGED claim /\ Goto(p, "repair")
  BY <1>1, <1>2, <1>4, <1>5, GotoStep DEF Places, Opening, Publishing, Staging, Detaching, Cleaning, Undoing
<1>6. CASE UNCHANGED claim /\ Goto(p, "write")
  BY <1>1, <1>2, <1>3, <1>4, <1>6, GotoStep DEF Places, Opening, Publishing, Staging, Detaching, Cleaning, Undoing
<1>7. CASE claim = "none" /\ claim' = "mine" /\ Goto(p, "claim_sync")
  <2>1. LedgerOK' /\ RegistryOK' /\ Forward
    BY <1>1, <1>2, <1>7 DEF CommitInv, LedgerOK, RegistryOK, GoodImages, Forward
  <2>2. "claim_sync" \in Places /\ "claim_sync" \notin Cleaning
    BY DEF Places, Publishing, Staging, Cleaning, Undoing
  <2>3. /\ Moved(p, [at[p] EXCEPT !.pc = "claim_sync"]) /\ at'[p].pc = "claim_sync"
        /\ at'[p].reuse = at[p].reuse /\ at'[p].target = at[p].target
    BY <1>4, <1>7, <2>2, GotoIs
  <2>4. PICK c : c = at'[p]
    OBVIOUS
  <2>5. Moved(p, c) /\ c \in Local /\ c.pc = "claim_sync" /\ c.reuse = at[p].reuse /\ c.target = at[p].target
    BY <2>3, <2>4 DEF Moved
  <2>6. CallerOK(p, c)'
    BY <1>1, <1>4, <1>7, <2>5 DEF CallerOK, Opening, Staging, Detaching, Cleaning, Undoing
  <2>7. ledger.lifecycle = "Cancelled" => NoneMine
    BY DEF CommitInv, ArtifactsOK
  <2>. QED  BY <1>1, <1>4, <2>1, <2>2, <2>5, <2>6, <2>7, LedgerStep
<1>8. CASE UNCHANGED claim /\ claim = "same" /\ at' = [at EXCEPT ![p].pc = "verify", ![p].reuse = TRUE]
  <2>. DEFINE c == [at[p] EXCEPT !.pc = "verify", !.reuse = TRUE]
  <2>1. "verify" \in Places /\ "verify" \notin Cleaning
    BY DEF Places, Publishing, Staging, Cleaning, Undoing
  <2>2. c \in Local /\ c.pc = "verify" /\ c.reuse = TRUE /\ c.target = at[p].target
    BY <1>4, <2>1 DEF Local
  <2>3. at' = [at EXCEPT ![p] = c]
    BY <1>8
  <2>. HIDE DEF c
  <2>4. Moved(p, c)
    BY <1>4, <2>2, <2>3 DEF Moved
  <2>5. CallerOK(p, c)
    BY <1>4, <1>8, <2>2 DEF CallerOK, Opening, Staging, Detaching, Cleaning, Undoing
  <2>. QED  BY <1>1, <1>2, <1>4, <1>8, <2>1, <2>2, <2>4, <2>5, QuietStep
<1>. QED  BY <1>5, <1>6, <1>7, <1>8 DEF ClaimPublication

\* verifyStageWrite
LEMMA VerifyStageWriteStep ==
    ASSUME CommitInv, NEW p \in Callers, VerifyStageWrite(p)
    PROVE  CommitInv'
<1>1. /\ at[p].pc = "verify"
      /\ UNCHANGED <<ledger, artifact, attached, current, claim, seen, cancelled, joins, crashes>>
  BY NothingElse DEF VerifyStageWrite, Step, At
<1>2. /\ crashes' \in 0..MaxCrashes /\ seen' \subseteq Callers \cup {"scheduler"}
  BY <1>1, NothingElse
<1>3. at[p].pc \in Staging
  BY <1>1 DEF Staging
<1>4. /\ p = "pump" /\ ledger.lifecycle /= "Absent" /\ at[p] \in Local /\ at \in [Callers -> Local]
      /\ at[p].pc \in Publishing
  BY <1>3, StagingIs
<1>5. CASE Goto(p, "repair")
  BY <1>1, <1>2, <1>4, <1>5, GotoStep DEF Places, Opening, Publishing, Staging, Detaching, Cleaning, Undoing
<1>6. CASE Goto(p, "guard_written") /\ \A a \in ReadBack(at[p].target) : View(p, a) = "mine"
  <2>1. at[p].target = "Verified" => \A a \in Artifacts : artifact[a] = IF at[p].reuse THEN "other" ELSE "mine"
    BY <1>6 DEF ReadBack, View
  <2>. QED  BY <1>1, <1>2, <1>3, <1>4, <1>6, <2>1, GotoStep
               DEF Places, Opening, Publishing, Staging, Detaching, Cleaning, Undoing
<1>. QED  BY <1>5, <1>6 DEF VerifyStageWrite, Target

\* No stage is its own successor, and before-images come with PublishIntent.
LEMMA NextStageImages ==
    ASSUME NEW s \in Stage \ {"Verified"}
    PROVE  /\ NextStage(s) /= s
           /\ NextStage(s) = "PublishIntent" <=> s = "BodyStaged"
           /\ NextStage(s) \notin {"ResultReady", "BodyStaged"} <=> s /= "ResultReady"
BY NextStageIs, StageIs

\* confirmStage
LEMMA ConfirmStageStep ==
    ASSUME CommitInv, NEW p \in Callers, ConfirmStage(p)
    PROVE  CommitInv'
<1>. DEFINE s == at[p].target
            image == IF s = "PublishIntent" THEN ledger.captured ELSE ledger.images
            next == [ledger EXCEPT !.stage = s, !.intent = "none", !.captured = NoImages, !.images = image]
<1>1. /\ at[p].pc = "confirm"
      /\ UNCHANGED <<artifact, attached, current, claim, seen, cancelled, joins, crashes>>
  BY NothingElse DEF ConfirmStage, Step, At
<1>2. /\ crashes' \in 0..MaxCrashes /\ seen' \subseteq Callers \cup {"scheduler"}
  BY <1>1, NothingElse
<1>3. at[p].pc \in Staging /\ CallerOK(p, at[p])
  BY <1>1, CallerIs DEF Staging
<1>4. /\ p = "pump" /\ ledger.lifecycle /= "Absent" /\ at[p] \in Local /\ at \in [Callers -> Local]
      /\ ledger.stage \in Stage \ {"Verified"} /\ s = NextStage(ledger.stage)
      /\ at[p].pc \in Publishing /\ (at[p].reuse => claim = "same") /\ s \in Stage
  BY <1>3, StagingIs
<1>5. /\ s /= ledger.stage /\ (s = "PublishIntent" <=> ledger.stage = "BodyStaged")
      /\ s \notin {"ResultReady", "BodyStaged"} <=> ledger.stage /= "ResultReady"
  BY <1>4, NextStageImages
<1>6. CASE UNCHANGED ledger /\ Return(p)
  BY <1>1, <1>2, <1>6, ReturnStep
<1>7. CASE /\ ledger.intent = s /\ ledger' = next
           /\ IF s = "Verified" THEN Return(p) ELSE at' = [at EXCEPT ![p].pc = "advance", ![p].img = NoImages]
  <2>1. ledger \in Ledger
    BY DEF CommitInv, LedgerOK
  <2>2. s = "PublishIntent" => GoodImages(ledger.captured)
    BY <1>7 DEF CommitInv, LedgerOK
  <2>3. image \in Images
    BY <2>1 DEF Ledger, Images
  <2>. HIDE DEF s, image
  <2>4. /\ ledger' \in Ledger /\ ledger'.intent = "none" /\ ledger'.captured = NoImages
        /\ ledger'.stage = s /\ ledger'.lifecycle = ledger.lifecycle /\ ledger'.images = image
    BY <1>4, <1>7, <2>1, <2>3, IdleIs DEF Ledger, Images
  <2>5. HasImages(ledger') => GoodImages(image)
    <3>1. CASE s = "PublishIntent"
      BY <2>2, <3>1 DEF image
    <3>2. CASE s /= "PublishIntent"
      BY <2>4, <3>2 DEF image, HasImages, CommitInv, LedgerOK
    <3>. QED  BY <3>1, <3>2
  <2>6. HasImages(ledger') <=> s \notin {"ResultReady", "BodyStaged"}
    <3>1. CASE s = "PublishIntent"
      BY <2>2, <2>4, <3>1, GoodImagesIs DEF image, HasImages
    <3>2. CASE s /= "PublishIntent"
      BY <1>5, <2>4, <3>2 DEF image, HasImages, CommitInv, LedgerOK
    <3>. QED  BY <3>1, <3>2
  <2>7. HasImages(ledger) => HasImages(ledger')
    BY <1>5, <2>6 DEF CommitInv, LedgerOK
  <2>8. LedgerOK'
    <3>1. HasImages(ledger') => GoodImages(ledger.images)'
      BY <1>1, <2>4, <2>5 DEF GoodImages
    <3>. QED  BY <1>1, <1>4, <2>4, <2>6, <3>1 DEF CommitInv, LedgerOK
  <2>9. RegistryOK' /\ Forward
    BY <1>1, <2>4, <2>7 DEF CommitInv, RegistryOK, Forward
  <2>10. "advance" \in Places /\ "advance" \notin Cleaning /\ "idle" \notin Publishing \cup Cleaning
    BY DEF Places, Publishing, Staging, Cleaning, Undoing
  <2>11. ledger.lifecycle = "Cancelled" => NoneMine
    BY DEF CommitInv, ArtifactsOK
  <2>12. CASE s = "Verified"
    <3>1. Moved(p, Idle) /\ CallerOK(p, Idle)'
      <4>1. Moved(p, Idle)
        BY <1>4, <1>7, <2>12, ReturnIs
      <4>2. CallerOK(p, Idle)'
        BY IdleIs DEF CallerOK, Opening, Publishing, Staging, Detaching, Cleaning, Undoing
      <4>. QED  BY <4>1, <4>2
    <3>2. ledger.lifecycle = "Active" /\ current =>
             \A a \in Artifacts : artifact[a] = IF claim = "same" THEN "other" ELSE "mine"
      <4>1. SUFFICES ASSUME ledger.lifecycle = "Active", current
                     PROVE  \A a \in Artifacts : artifact[a] = IF claim = "same" THEN "other" ELSE "mine"
        OBVIOUS
      <4>2. \A a \in Artifacts : artifact[a] = IF at[p].reuse THEN "other" ELSE "mine"
        BY <1>1, <1>3, <2>12, <4>1 DEF CallerOK, s
      <4>3. at[p].reuse <=> claim = "same"
        <5>1. CASE at[p].reuse
          BY <1>4, <5>1
        <5>2. CASE ~at[p].reuse
          BY <4>2, <5>2 DEF CommitInv, ArtifactsOK, Artifacts
        <5>. QED  BY <5>1, <5>2
      <4>. QED  BY <4>2, <4>3
    <3>. QED  BY <1>1, <1>4, <2>4, <2>8, <2>9, <2>10, <2>11, <3>1, <3>2, IdleIs, LedgerStep
  <2>13. CASE s /= "Verified"
    <3>. DEFINE c == [at[p] EXCEPT !.pc = "advance", !.img = NoImages]
    <3>1. at' = [at EXCEPT ![p] = c]
      BY <1>7, <2>13
    <3>2. c \in Local /\ c.pc = "advance" /\ c.reuse = at[p].reuse
      BY <1>4, <2>10, IdleIs DEF Local
    <3>3. PICK d : d = c
      OBVIOUS
    <3>. HIDE DEF c
    <3>4. Moved(p, d) /\ d \in Local /\ d.pc = "advance" /\ d.reuse = at[p].reuse
      BY <1>4, <3>1, <3>2, <3>3 DEF Moved
    <3>5. CallerOK(p, d)'
      BY <1>1, <1>4, <2>4, <3>4 DEF CallerOK, Opening, Staging, Detaching, Cleaning, Undoing
    <3>. QED  BY <1>1, <1>4, <2>4, <2>8, <2>9, <2>10, <2>11, <2>13, <3>4, <3>5, LedgerStep
  <2>. QED  BY <2>12, <2>13
<1>. QED  BY <1>5, <1>6, <1>7 DEF ConfirmStage, Target, Confirmed

\* markRepair
LEMMA MarkRepairStep ==
    ASSUME CommitInv, NEW p \in Callers, MarkRepair(p)
    PROVE  CommitInv'
<1>1. /\ at[p].pc = "repair" /\ Return(p) /\ ledger' = [ledger EXCEPT !.repair = TRUE]
      /\ UNCHANGED <<artifact, attached, current, claim, seen, cancelled, joins, crashes>>
  BY NothingElse DEF MarkRepair, Step, At
<1>2. ledger \in Ledger /\ TRUE \in BOOLEAN
  BY DEF CommitInv, LedgerOK
<1>3. /\ ledger' \in Ledger /\ ledger'.intent = ledger.intent /\ ledger'.captured = ledger.captured
      /\ ledger'.stage = ledger.stage /\ ledger'.lifecycle = ledger.lifecycle /\ ledger'.images = ledger.images
  BY <1>1, <1>2 DEF Ledger
<1>4. LedgerOK' /\ RegistryOK' /\ Forward
  BY <1>1, <1>3 DEF CommitInv, LedgerOK, RegistryOK, GoodImages, Forward, HasImages
<1>5. Moved(p, Idle)
  BY <1>1, ReturnIs DEF CommitInv
<1>6. CallerOK(p, Idle)'
  BY IdleIs DEF CallerOK, Opening, Publishing, Staging, Detaching, Cleaning, Undoing
<1>7. "idle" \notin Publishing \cup Cleaning
  BY DEF Publishing, Staging, Cleaning, Undoing
<1>8. ledger.lifecycle = "Cancelled" => NoneMine
  BY DEF CommitInv, ArtifactsOK
<1>. QED  BY <1>1, <1>3, <1>4, <1>5, <1>6, <1>7, <1>8, IdleIs, LedgerStep

-----------------------------------------------------------------------------
(* cancel *)

\* cancel reads the ledger, asks the guard, and reads the shared work.
LEMMA CancelSteps ==
    ASSUME CommitInv, NEW p \in Callers,
           Cancel(p) \/ CancelGuard(p) \/ DetachedGuard(p) \/ ReadSharedWork(p)
    PROVE  CommitInv'
<1>1. /\ at[p].pc \in Detaching
      /\ UNCHANGED <<ledger, artifact, attached, current, claim, seen, cancelled, joins, crashes>>
  BY NothingElse DEF Cancel, CancelGuard, DetachedGuard, ReadSharedWork, Step, At, Detaching
<1>2. /\ crashes' \in 0..MaxCrashes /\ seen' \subseteq Callers \cup {"scheduler"}
  BY <1>1, NothingElse
<1>3. cancelled /\ ledger.lifecycle /= "Absent"
  <2>1. CallerOK(p, at[p])
    BY CallerIs
  <2>. QED  BY <1>1, <2>1 DEF CallerOK, Opening, Detaching
<1>4. CASE Return(p)
  BY <1>1, <1>2, <1>4, ReturnStep
<1>5. CASE ~Return(p)
  <2>1. PICK to \in Detaching \cup {"repair", "mark_detached", "cleanup"} :
           Goto(p, to) /\ (to \in Cleaning => Me \notin attached)
    BY <1>5 DEF Cancel, CancelGuard, DetachedGuard, ReadSharedWork, Detaching, Cleaning, Undoing
  <2>2. to \in Places /\ to \notin Publishing /\ to \notin Staging
    BY DEF Places, Publishing, Staging, Detaching, Cleaning
  <2>3. /\ to \notin {"capture", "guard_captured", "intent", "guard_written", "confirm"}
        /\ to \notin {"finish", "checkpoint_invisible", "checkpoint", "effect", "checkpoint_after"}
        /\ to \notin Undoing /\ to \in {"repair"} \cup Detaching \cup Cleaning
    BY DEF Detaching, Undoing, Cleaning
  <2>. QED  BY <1>1, <1>2, <1>3, <2>1, <2>2, <2>3, GotoStep
<1>. QED  BY <1>4, <1>5

\* detachTask
LEMMA DetachTaskStep ==
    ASSUME CommitInv, NEW p \in Callers, DetachTask(p)
    PROVE  CommitInv'
<1>1. /\ at[p].pc = "detach"
      /\ UNCHANGED <<ledger, artifact, current, claim, cancelled, joins, crashes>>
  BY NothingElse DEF DetachTask, Step, At
<1>2. /\ crashes' \in 0..MaxCrashes /\ seen' \subseteq Callers \cup {"scheduler"}
  BY <1>1, NothingElse DEF DetachTask, RegistryChangedBy
<1>3. CallerOK(p, at[p]) /\ at \in [Callers -> Local] /\ at[p] \in Local
  BY CallerIs
<1>4. cancelled /\ ledger.lifecycle /= "Absent"
  BY <1>1, <1>3 DEF CallerOK, Opening, Detaching
<1>5. CASE UNCHANGED attached /\ Return(p)
  BY <1>1, <1>2, <1>5, ReturnStep
<1>6. CASE UNCHANGED attached /\ Goto(p, "detached_guard")
  BY <1>1, <1>2, <1>4, <1>6, GotoStep DEF Places, Opening, Publishing, Staging, Detaching, Cleaning, Undoing
<1>7. CASE attached' = attached \ {Me} /\ Goto(p, "detach_sync")
  <2>1. LedgerOK' /\ RegistryOK' /\ Forward
    BY <1>1, <1>2, <1>7 DEF CommitInv, LedgerOK, RegistryOK, GoodImages, Forward
  <2>2. "detach_sync" \in Places /\ "detach_sync" \notin Cleaning /\ "detach_sync" \notin Publishing
    BY DEF Places, Publishing, Staging, Detaching, Cleaning, Undoing
  <2>3. Moved(p, [at[p] EXCEPT !.pc = "detach_sync"]) /\ at'[p].pc = "detach_sync" /\ at'[p].reuse = at[p].reuse
    BY <1>3, <1>7, <2>2, GotoIs
  <2>4. PICK c : c = at'[p]
    OBVIOUS
  <2>5. Moved(p, c) /\ c \in Local /\ c.pc = "detach_sync" /\ c.reuse = at[p].reuse
    BY <2>3, <2>4 DEF Moved
  <2>6. c.reuse => claim' = "same"
    BY <1>1, <1>3, <2>5 DEF CallerOK
  <2>7. CallerOK(p, c)'
    BY <1>1, <1>4, <2>5, <2>6 DEF CallerOK, Opening, Staging, Detaching, Cleaning, Undoing
  <2>8. ledger.lifecycle = "Cancelled" => NoneMine
    BY DEF CommitInv, ArtifactsOK
  <2>. QED  BY <1>1, <1>7, <2>1, <2>2, <2>5, <2>7, <2>8, LedgerStep
<1>. QED  BY <1>5, <1>6, <1>7 DEF DetachTask

\* A caller that cleans up has found the task cancelled.
LEMMA CleaningIs ==
    ASSUME CommitInv, NEW p \in Callers, at[p].pc \in Cleaning
    PROVE  /\ cancelled /\ ledger.lifecycle /= "Absent" /\ ledger \in Ledger
           /\ at[p] \in Local /\ at \in [Callers -> Local]
           /\ at[p].pc \in Undoing => ledger.lifecycle \in Retreat
<1>1. CallerOK(p, at[p]) /\ at \in [Callers -> Local] /\ at[p] \in Local
  BY CallerIs
<1>2. at[p].pc \notin Opening
  BY DEF Opening, Cleaning, Undoing
<1>. QED  BY <1>1, <1>2 DEF CallerOK, CommitInv, LedgerOK

\* A caller that cleans up stores the ledger, with the lifecycle of a retreat, and returns.
LEMMA RetreatStep ==
    ASSUME CommitInv, NEW p \in Callers, at[p].pc \in Cleaning, Return(p),
           UNCHANGED <<artifact, attached, current, claim, seen, cancelled, joins, crashes>>,
           ledger' \in Ledger, ledger'.lifecycle \in Retreat,
           ledger'.stage = ledger.stage, ledger'.images = ledger.images,
           \/ ledger'.intent = "none" /\ ledger'.captured = NoImages
           \/ ledger'.intent = ledger.intent /\ ledger'.captured = ledger.captured /\ ledger'.lifecycle = "Cancelling",
           ledger'.lifecycle = "Cancelled" => NoneMine
    PROVE  CommitInv'
<1>1. cancelled /\ ledger.lifecycle /= "Absent"
  BY CleaningIs
<1>2. HasImages(ledger') <=> HasImages(ledger)
  BY DEF HasImages
<1>3. LedgerOK'
  <2>1. HasImages(ledger') => GoodImages(ledger.images)'
    BY <1>2 DEF GoodImages, CommitInv, LedgerOK
  <2>2. ledger'.intent = "PublishIntent" => GoodImages(ledger.captured)'
    BY DEF GoodImages, CommitInv, LedgerOK
  <2>. QED  BY <1>1, <1>2, <2>1, <2>2 DEF CommitInv, LedgerOK, Retreat
<1>4. RegistryOK' /\ Forward
  BY <1>2 DEF CommitInv, RegistryOK, Forward, Retreat
<1>5. Moved(p, Idle)
  BY ReturnIs DEF CommitInv
<1>6. CallerOK(p, Idle)'
  BY IdleIs DEF CallerOK, Opening, Publishing, Staging, Detaching, Cleaning, Undoing
<1>7. "idle" \notin Publishing \cup Cleaning
  BY DEF Publishing, Staging, Cleaning, Undoing
<1>8. ledger'.lifecycle /= "Active"
  BY DEF Retreat
<1>. QED  BY <1>3, <1>4, <1>5, <1>6, <1>7, <1>8, IdleIs, LedgerStep

\* The commit is left to the tasks that stay attached.
LEMMA MarkDetachedStep ==
    ASSUME CommitInv, NEW p \in Callers, MarkDetached(p)
    PROVE  CommitInv'
<1>1. /\ at[p].pc = "mark_detached" /\ Return(p)
      /\ UNCHANGED <<artifact, attached, current, claim, seen, cancelled, joins, crashes>>
  BY NothingElse DEF MarkDetached, Step, At
<1>2. at[p].pc \in Cleaning
  BY <1>1 DEF Cleaning
<1>3. ledger \in Ledger /\ NoImages \in [Artifacts -> Writer \cup {"none"}]
  BY <1>2, CleaningIs, IdleIs DEF Images
<1>4. CASE UNCHANGED ledger
  BY <1>1, <1>4, NothingElse, ReturnStep
<1>5. CASE ledger' = [ledger EXCEPT !.lifecycle = "Detached", !.repair = FALSE, !.intent = "none", !.captured = NoImages]
  <2>1. FALSE \in BOOLEAN
    OBVIOUS
  <2>2. /\ ledger' \in Ledger /\ ledger'.lifecycle = "Detached" /\ ledger'.intent = "none" /\ ledger'.captured = NoImages
        /\ ledger'.stage = ledger.stage /\ ledger'.images = ledger.images
    BY <1>3, <1>5, <2>1 DEF Ledger
  <2>. QED  BY <1>1, <1>2, <2>2, RetreatStep DEF Retreat
<1>. QED  BY <1>4, <1>5 DEF MarkDetached

-----------------------------------------------------------------------------
(* cleanup *)

\* ensureCleanupIntent
LEMMA EnsureCleanupIntentStep ==
    ASSUME CommitInv, NEW p \in Callers, EnsureCleanupIntent(p)
    PROVE  CommitInv'
<1>1. /\ at[p].pc = "cleanup"
      /\ UNCHANGED <<artifact, attached, current, claim, seen, cancelled, joins, crashes>>
  BY NothingElse DEF EnsureCleanupIntent, Step, At
<1>2. at[p].pc \in Cleaning
  BY <1>1 DEF Cleaning
<1>3. /\ cancelled /\ ledger.lifecycle /= "Absent" /\ ledger \in Ledger
      /\ at[p] \in Local /\ at \in [Callers -> Local]
  BY <1>2, CleaningIs
<1>4. CASE UNCHANGED ledger /\ Return(p)
  BY <1>1, <1>4, NothingElse, ReturnStep
<1>5. CASE ~Settled(ledger) /\ ledger' = CleanupIntent(ledger) /\ StartEffect(p, "staged")
  <2>1. /\ ledger' \in Ledger /\ ledger'.intent = "cleanup" /\ ledger'.captured = NoImages /\ ledger'.lifecycle = "Cancelling"
        /\ ledger'.stage = ledger.stage /\ ledger'.images = ledger.images
    <3>1. CASE ledger.intent = "cleanup"
      <4>1. ledger' = ledger
        BY <1>5, <3>1 DEF CleanupIntent
      <4>2. ledger.captured = NoImages /\ ledger.lifecycle = "Cancelling"
        BY <3>1 DEF CommitInv, LedgerOK
      <4>. QED  BY <1>3, <3>1, <4>1, <4>2
    <3>2. CASE ledger.intent /= "cleanup"
      <4>1. ledger' = [ledger EXCEPT !.lifecycle = "Cancelling", !.intent = "cleanup", !.captured = NoImages]
        BY <1>5, <3>2 DEF CleanupIntent
      <4>2. NoImages \in [Artifacts -> Writer \cup {"none"}]
        BY IdleIs DEF Images
      <4>. QED  BY <1>3, <4>1, <4>2 DEF Ledger
    <3>. QED  BY <3>1, <3>2
  <2>2. HasImages(ledger') <=> HasImages(ledger)
    BY <2>1 DEF HasImages
  <2>3. LedgerOK'
    <3>1. HasImages(ledger') => GoodImages(ledger.images)'
      BY <1>1, <2>1, <2>2 DEF GoodImages, CommitInv, LedgerOK
    <3>. QED  BY <1>1, <1>3, <2>1, <2>2, <3>1 DEF CommitInv, LedgerOK
  <2>4. RegistryOK' /\ Forward
    BY <1>1, <1>3, <2>1, <2>2 DEF CommitInv, RegistryOK, Forward, Retreat
  <2>. DEFINE c == [at[p] EXCEPT !.pc = "checkpoint", !.effect = "staged", !.ok = TRUE]
  <2>5. at' = [at EXCEPT ![p] = c]
    BY <1>5 DEF StartEffect
  <2>6. "checkpoint" \in Places /\ "checkpoint" \notin Publishing /\ TRUE \in BOOLEAN
    BY DEF Places, Publishing, Staging, Cleaning, Undoing
  <2>7. c \in Local /\ c.pc = "checkpoint" /\ c.reuse = at[p].reuse /\ c.effect = "staged"
    BY <1>3, <2>6 DEF Local
  <2>8. PICK d : d = c
    OBVIOUS
  <2>. HIDE DEF c
  <2>9. Moved(p, d) /\ d \in Local /\ d.pc = "checkpoint" /\ d.reuse = at[p].reuse /\ d.effect = "staged"
    BY <1>3, <2>5, <2>7, <2>8 DEF Moved
  <2>10. d.reuse => claim' = "same"
    BY <1>1, <2>9, CallerIs DEF CallerOK
  <2>11. CallerOK(p, d)'
    BY <1>1, <1>3, <2>1, <2>9, <2>10 DEF CallerOK, Opening, Staging, Detaching, Cleaning, Undoing, Retreat
  <2>. QED  BY <1>1, <1>2, <2>1, <2>3, <2>4, <2>6, <2>9, <2>11, LedgerStep
<1>. QED  BY <1>4, <1>5 DEF EnsureCleanupIntent

\* A caller that cleans up stops, or goes on to another part of the cleanup.
LEMMA CleaningStep ==
    ASSUME CommitInv, NEW p \in Callers, at[p].pc \in Cleaning,
           UNCHANGED <<ledger, artifact, attached, current, claim, seen, cancelled, joins, crashes>>,
           Return(p) \/ Goto(p, "mark_detached") \/ Goto(p, "cleanup_repair")
    PROVE  CommitInv'
<1>1. CASE Return(p)
  BY <1>1, NothingElse, ReturnStep
<1>2. CASE Goto(p, "mark_detached")
  BY <1>2, NothingElse, CleaningIs, GotoStep DEF Places, Opening, Publishing, Staging, Detaching, Cleaning, Undoing
<1>3. CASE Goto(p, "cleanup_repair")
  BY <1>3, NothingElse, CleaningIs, GotoStep DEF Places, Opening, Publishing, Staging, Detaching, Cleaning, Undoing
<1>. QED  BY <1>1, <1>2, <1>3

\* cleanupCheckpoint before an effect
LEMMA CheckpointBeforeStep ==
    ASSUME CommitInv, NEW p \in Callers, CheckpointBefore(p)
    PROVE  CommitInv'
<1>1. /\ at[p].pc = "checkpoint"
      /\ UNCHANGED <<ledger, artifact, attached, current, claim, seen, cancelled, joins, crashes>>
      /\ Return(p) \/ Goto(p, "mark_detached") \/ Goto(p, "effect")
  BY NothingElse DEF CheckpointBefore, Checkpoint, Step, At
<1>2. at[p].pc \in Cleaning /\ at[p].pc \in Undoing
  BY <1>1 DEF Cleaning, Undoing
<1>3. CASE Goto(p, "effect")
  <2>1. at[p].effect /= "none" /\ (at[p].effect /= "staged" => HasImages(ledger))
    BY <1>1, CallerIs DEF CallerOK
  <2>. QED  BY <1>1, <1>2, <1>3, <2>1, NothingElse, CleaningIs, GotoStep
               DEF Places, Opening, Publishing, Staging, Detaching, Cleaning, Undoing
<1>. QED  BY <1>1, <1>2, <1>3, CleaningStep

\* cleanupCheckpoint after an effect
LEMMA CheckpointAfterStep ==
    ASSUME CommitInv, NEW p \in Callers, CheckpointAfter(p)
    PROVE  CommitInv'
<1>1. /\ at[p].pc = "checkpoint_after"
      /\ UNCHANGED <<ledger, artifact, attached, current, claim, seen, cancelled, joins, crashes>>
      /\ \/ Return(p) \/ Goto(p, "mark_detached") \/ Goto(p, "cleanup_repair") \/ Goto(p, "checkpoint_final")
         \/ NextEffect(p) /= "none" /\ StartEffect(p, NextEffect(p))
  BY NothingElse DEF CheckpointAfter, Checkpoint, Step, At
<1>2. at[p].pc \in Cleaning /\ at[p].pc \in Undoing
  BY <1>1 DEF Cleaning, Undoing
<1>3. CASE Goto(p, "checkpoint_final")
  BY <1>1, <1>2, <1>3, NothingElse, CleaningIs, GotoStep
     DEF Places, Opening, Publishing, Staging, Detaching, Cleaning, Undoing
<1>4. CASE NextEffect(p) /= "none" /\ StartEffect(p, NextEffect(p))
  <2>. DEFINE e == NextEffect(p)
              c == [at[p] EXCEPT !.pc = "checkpoint", !.effect = e, !.ok = TRUE]
  <2>1. /\ at[p].effect /= "none" /\ (at[p].effect /= "staged" => HasImages(ledger))
        /\ at[p].reuse => claim = "same"
    BY <1>1, CallerIs DEF CallerOK
  <2>2. /\ cancelled /\ ledger.lifecycle /= "Absent" /\ ledger.lifecycle \in Retreat
        /\ at[p] \in Local /\ at \in [Callers -> Local]
    BY <1>2, CleaningIs
  <2>3. at[p].effect \in {"staged", "body", "main", "reader"}
    BY <2>1, <2>2 DEF Local, Artifacts
  <2>4. e \in Artifacts /\ HasImages(ledger)
    BY <1>4, <2>1, <2>3 DEF NextEffect, Artifacts
  <2>. HIDE DEF e
  <2>5. at' = [at EXCEPT ![p] = c]
    BY <1>4 DEF StartEffect, e
  <2>6. "checkpoint" \in Places /\ "checkpoint" \notin Publishing /\ TRUE \in BOOLEAN /\ e /= "none"
    BY <2>4 DEF Places, Publishing, Staging, Cleaning, Undoing, Artifacts
  <2>7. c \in Local /\ c.pc = "checkpoint" /\ c.reuse = at[p].reuse /\ c.effect = e
    BY <2>2, <2>4, <2>6 DEF Local
  <2>. HIDE DEF c
  <2>8. Moved(p, c)
    BY <2>2, <2>5, <2>7 DEF Moved
  <2>9. CallerOK(p, c)
    BY <2>1, <2>2, <2>4, <2>6, <2>7 DEF CallerOK, Opening, Staging, Detaching, Cleaning, Undoing
  <2>. QED  BY <1>1, <1>2, <2>6, <2>7, <2>8, <2>9, NothingElse, QuietStep
<1>. QED  BY <1>1, <1>2, <1>3, <1>4, CleaningStep

\* verifyTaskExclusiveResultsInvisible
LEMMA InvisibleStep ==
    ASSUME CommitInv, NEW p \in Callers, Invisible(p)
    PROVE  CommitInv'
<1>. DEFINE ok == \A a \in Artifacts : View(p, a) \notin {"mine", "mismatch"}
            c == [at[p] EXCEPT !.pc = "checkpoint_invisible", !.ok = ok]
<1>1. /\ at[p].pc = "checkpoint_final"
      /\ UNCHANGED <<ledger, artifact, attached, current, claim, seen, cancelled, joins, crashes>>
      /\ Return(p) \/ Goto(p, "mark_detached") \/ at' = [at EXCEPT ![p] = c]
  BY NothingElse DEF Invisible, Checkpoint, Step, At
<1>2. at[p].pc \in Cleaning /\ at[p].pc \in Undoing
  BY <1>1 DEF Cleaning, Undoing
<1>3. CASE at' = [at EXCEPT ![p] = c]
  <2>1. at[p].reuse => claim = "same"
    BY <1>1, CallerIs DEF CallerOK
  <2>2. /\ cancelled /\ ledger.lifecycle /= "Absent" /\ ledger.lifecycle \in Retreat
        /\ at[p] \in Local /\ at \in [Callers -> Local]
    BY <1>2, CleaningIs
  <2>3. ok \in BOOLEAN
    BY Zenon
  <2>4. ok => NoneMine
    BY DEF View, NoneMine
  <2>. HIDE DEF ok
  <2>5. "checkpoint_invisible" \in Places /\ "checkpoint_invisible" \notin Publishing
    BY DEF Places, Publishing, Staging, Cleaning, Undoing
  <2>6. c \in Local /\ c.pc = "checkpoint_invisible" /\ c.reuse = at[p].reuse /\ c.ok = ok
    BY <2>2, <2>3, <2>5 DEF Local
  <2>. HIDE DEF c
  <2>7. Moved(p, c)
    BY <1>3, <2>2, <2>6 DEF Moved
  <2>8. CallerOK(p, c)
    BY <2>1, <2>2, <2>4, <2>6 DEF CallerOK, Opening, Staging, Detaching, Cleaning, Undoing
  <2>. QED  BY <1>1, <1>2, <2>5, <2>6, <2>7, <2>8, NothingElse, QuietStep
<1>. QED  BY <1>1, <1>2, <1>3, CleaningStep

\* The last cleanupCheckpoint
LEMMA CheckpointInvisibleStep ==
    ASSUME CommitInv, NEW p \in Callers, CheckpointInvisible(p)
    PROVE  CommitInv'
<1>1. /\ at[p].pc = "checkpoint_invisible"
      /\ UNCHANGED <<ledger, artifact, attached, current, claim, seen, cancelled, joins, crashes>>
      /\ Return(p) \/ Goto(p, "mark_detached") \/ Goto(p, "cleanup_repair") \/ (at[p].ok /\ Goto(p, "finish"))
  BY NothingElse DEF CheckpointInvisible, Checkpoint, Step, At
<1>2. at[p].pc \in Cleaning /\ at[p].pc \in Undoing
  BY <1>1 DEF Cleaning, Undoing
<1>3. CASE at[p].ok /\ Goto(p, "finish")
  <2>1. NoneMine
    BY <1>1, <1>3, CallerIs DEF CallerOK
  <2>. QED  BY <1>1, <1>2, <1>3, <2>1, NothingElse, CleaningIs, GotoStep
               DEF Places, Opening, Publishing, Staging, Detaching, Cleaning, Undoing
<1>. QED  BY <1>1, <1>2, <1>3, CleaningStep

\* finishCleanup
LEMMA FinishCleanupStep ==
    ASSUME CommitInv, NEW p \in Callers, FinishCleanup(p)
    PROVE  CommitInv'
<1>1. /\ at[p].pc = "finish"
      /\ UNCHANGED <<artifact, attached, current, claim, seen, cancelled, joins, crashes>>
  BY NothingElse DEF FinishCleanup, Step, At
<1>2. at[p].pc \in Cleaning
  BY <1>1 DEF Cleaning, Undoing
<1>3. CASE UNCHANGED ledger /\ (Return(p) \/ Goto(p, "cleanup_repair"))
  BY <1>1, <1>2, <1>3, CleaningStep
<1>4. CASE Return(p) /\ ledger' = [ledger EXCEPT !.lifecycle = "Cancelled", !.repair = FALSE,
                                                 !.intent = "none", !.captured = NoImages]
  <2>1. NoneMine
    BY <1>1, CallerIs DEF CallerOK
  <2>2. ledger \in Ledger /\ NoImages \in [Artifacts -> Writer \cup {"none"}]
    BY <1>2, CleaningIs, IdleIs DEF Images
  <2>3. FALSE \in BOOLEAN
    OBVIOUS
  <2>4. /\ ledger' \in Ledger /\ ledger'.lifecycle = "Cancelled" /\ ledger'.intent = "none" /\ ledger'.captured = NoImages
        /\ ledger'.stage = ledger.stage /\ ledger'.images = ledger.images
    BY <1>4, <2>2, <2>3 DEF Ledger
  <2>. QED  BY <1>1, <1>2, <1>4, <2>1, <2>4, RetreatStep DEF Retreat
<1>. QED  BY <1>3, <1>4 DEF FinishCleanup

\* markRepair of a cleanup
LEMMA MarkCleanupRepairStep ==
    ASSUME CommitInv, NEW p \in Callers, MarkCleanupRepair(p)
    PROVE  CommitInv'
<1>1. /\ at[p].pc = "cleanup_repair" /\ Return(p)
      /\ UNCHANGED <<artifact, attached, current, claim, seen, cancelled, joins, crashes>>
      /\ ledger' = [ledger EXCEPT !.lifecycle = "Cancelling", !.repair = TRUE]
  BY NothingElse DEF MarkCleanupRepair, Step, At
<1>2. at[p].pc \in Cleaning
  BY <1>1 DEF Cleaning, Undoing
<1>3. ledger \in Ledger /\ TRUE \in BOOLEAN
  BY <1>2, CleaningIs
<1>4. /\ ledger' \in Ledger /\ ledger'.lifecycle = "Cancelling" /\ ledger'.intent = ledger.intent
      /\ ledger'.captured = ledger.captured /\ ledger'.stage = ledger.stage /\ ledger'.images = ledger.images
  BY <1>1, <1>3 DEF Ledger
<1>. QED  BY <1>1, <1>2, <1>4, RetreatStep DEF Retreat

-----------------------------------------------------------------------------
(* The control, crashes, and everybody else. *)

\* An unreadable ledger, or a crash, ends the call.
LEMMA EndStep ==
    ASSUME CommitInv, NEW p \in Callers, ReadFails(p) \/ Crash(p)
    PROVE  CommitInv'
<1>1. UNCHANGED <<ledger, artifact, attached, current, claim, seen, cancelled, joins>> /\ Return(p)
  BY NothingElse DEF ReadFails, Crash
<1>2. crashes' \in 0..MaxCrashes
  BY NothingElse, CommitAssumption DEF ReadFails, Crash
<1>. QED  BY <1>1, <1>2, NothingElse, ReturnStep

\* The control takes up a commit that may be visible.
LEMMA ControlCancelsStep ==
    ASSUME CommitInv, NEW p \in Callers, ControlCancels(p)
    PROVE  CommitInv'
<1>1. /\ p = "control" /\ cancelled /\ HasImages(ledger) /\ Goto(p, "cancel")
      /\ UNCHANGED <<ledger, artifact, attached, current, claim, seen, cancelled, joins, crashes>>
  BY NothingElse DEF ControlCancels, MayBeVisible
<1>2. ledger.lifecycle /= "Absent"
  BY <1>1 DEF CommitInv, LedgerOK
<1>. QED  BY <1>1, <1>2, NothingElse, GotoStep DEF Places, Opening, Publishing, Staging, Detaching, Cleaning, Undoing

\* A step of the registry that no caller makes.
LEMMA RegistryStep ==
    ASSUME CommitInv, UNCHANGED <<ledger, artifact, at>>, RegistryOK', cancelled => cancelled',
           current' => current, claim /= "none" => claim' = claim, Me \in attached' => Me \in attached
    PROVE  CommitInv'
<1>. DEFINE p == "control"
<1>1. p \in Callers
  BY DEF Callers
<1>2. PICK c : c = at[p]
  OBVIOUS
<1>3. Moved(p, c) /\ CallerOK(p, c)
  BY <1>1, <1>2, CallerIs DEF Moved
<1>4. at'[p] = c
  BY <1>2
<1>. HIDE DEF p
<1>5. LedgerOK'
  BY DEF CommitInv, LedgerOK, GoodImages
<1>6. Forward
  BY DEF Forward
<1>7. CallerOK(p, c)'
  BY <1>3 DEF CallerOK, GoodImages, NoneMine
<1>8. ledger.lifecycle = "Cancelled" => NoneMine
  BY DEF CommitInv, ArtifactsOK
<1>9. p = "control"
  BY DEF p
<1>. QED  BY <1>1, <1>2, <1>3, <1>5, <1>6, <1>7, <1>8, <1>9, LedgerStep

\* Tasks attach and detach, the user cancels, the fence is lost, somebody else claims.
LEMMA RegistrySteps ==
    ASSUME CommitInv,
           \/ \E p \in Callers : ControlDetaches(p)
           \/ RequestCancellation \/ LoseFence
           \/ \E t \in Others : OtherAttaches(t) \/ OtherDetaches(t)
           \/ \E kind \in {"same", "other"} : OtherClaims(kind)
    PROVE  CommitInv'
<1>1. CASE \E p \in Callers : ControlDetaches(p)
  <2>1. UNCHANGED <<ledger, artifact, current, claim, at, cancelled, joins, crashes>>
    BY <1>1, NothingElse DEF ControlDetaches
  <2>2. RegistryOK' /\ (Me \in attached' => Me \in attached)
    BY <1>1, <2>1 DEF ControlDetaches, RegistryChangedByOther, CommitInv, RegistryOK
  <2>. QED  BY <2>1, <2>2, RegistryStep
<1>2. CASE RequestCancellation
  <2>1. /\ UNCHANGED <<ledger, artifact, current, claim, at, attached, seen, joins, crashes>>
        /\ cancelled' = TRUE
    BY <1>2, NothingElse DEF RequestCancellation
  <2>2. RegistryOK'
    BY <2>1 DEF CommitInv, RegistryOK
  <2>. QED  BY <2>1, <2>2, RegistryStep
<1>3. CASE LoseFence
  <2>1. /\ UNCHANGED <<ledger, artifact, claim, at, attached, cancelled, joins, crashes>>
        /\ current' = FALSE /\ seen' = {}
    BY <1>3, NothingElse DEF LoseFence, RegistryChangedByOther
  <2>2. RegistryOK'
    BY <2>1 DEF CommitInv, RegistryOK
  <2>. QED  BY <2>1, <2>2, RegistryStep
<1>4. CASE \E t \in Others : OtherAttaches(t) \/ OtherDetaches(t)
  <2>1. PICK t \in Others : OtherAttaches(t) \/ OtherDetaches(t)
    BY <1>4
  <2>2. t /= Me
    BY CommitAssumption
  <2>3. /\ UNCHANGED <<ledger, artifact, claim, at, current, cancelled, crashes>>
        /\ seen' = {} /\ attached' \subseteq attached \cup {t}
        /\ joins' \in 0..MaxJoins
    BY <2>1, NothingElse, CommitAssumption DEF OtherAttaches, OtherDetaches, RegistryChangedByOther
  <2>4. RegistryOK' /\ (Me \in attached' => Me \in attached)
    BY <2>2, <2>3 DEF CommitInv, RegistryOK
  <2>. QED  BY <2>3, <2>4, RegistryStep
<1>5. CASE \E kind \in {"same", "other"} : OtherClaims(kind)
  <2>1. /\ UNCHANGED <<ledger, artifact, attached, at, current, cancelled, joins, crashes>>
        /\ seen' = {} /\ claim = "none" /\ claim' \in {"same", "other"}
    BY <1>5, NothingElse DEF OtherClaims, RegistryChangedByOther
  <2>2. RegistryOK'
    BY <2>1 DEF CommitInv, RegistryOK
  <2>. QED  BY <2>1, <2>2, RegistryStep
<1>. QED  BY <1>1, <1>2, <1>3, <1>4, <1>5

-----------------------------------------------------------------------------
(* Steps that change an artifact. *)

\* What a caller with the local variables c relies on stays so.
Kept(c) ==
    /\ c.pc = "finish" \/ (c.pc = "checkpoint_invisible" /\ c.ok) => NoneMine'
    /\ c.pc \in {"guard_written", "confirm"} /\ c.target = "Verified" /\ ledger.lifecycle = "Active" /\ current =>
          \A a \in Artifacts : artifact'[a] = IF c.reuse THEN "other" ELSE "mine"

OthersKept == \A a \in Artifacts : artifact[a] = "other" => artifact'[a] = "other"

\* A step of p writes an artifact and changes p's own variables.
LEMMA ArtifactStep ==
    ASSUME CommitInv, UNCHANGED <<ledger, attached, current, claim, seen, cancelled, joins, crashes>>,
           NEW p \in Callers, NEW c, Moved(p, c), CallerOK(p, c), Kept(c), ArtifactsOK', OthersKept,
           \A q \in Callers : q /= p => Kept(at[q]),
           p = "pump" /\ c.pc \in Publishing => at[p].pc \in Publishing \/ ~cancelled,
           p = "control" /\ c.pc \in Cleaning => at[p].pc \in Cleaning \/ Me \notin attached
    PROVE  CommitInv'
<1>0. at' \in [Callers -> Local] /\ at'[p] = c /\ \A q \in Callers : q /= p => at'[q] = at[q]
  BY DEF Moved
<1>1. ASSUME NEW img, GoodImages(img) PROVE GoodImages(img)'
  BY <1>1 DEF GoodImages, OthersKept
<1>2. LedgerOK'
  <2>1. PICK img1, img2 : img1 = ledger.captured /\ img2 = ledger.images
    OBVIOUS
  <2>2. ledger.intent = "PublishIntent" => GoodImages(img1)'
    BY <1>1, <2>1 DEF CommitInv, LedgerOK
  <2>3. HasImages(ledger) => GoodImages(img2)'
    BY <1>1, <2>1 DEF CommitInv, LedgerOK
  <2>4. ledger'.intent = "PublishIntent" => GoodImages(ledger.captured)'
    BY <2>1, <2>2
  <2>5. HasImages(ledger') => GoodImages(ledger.images)'
    BY <2>1, <2>3
  <2>. QED  BY <2>4, <2>5 DEF CommitInv, LedgerOK
<1>3. RegistryOK'
  BY DEF CommitInv, RegistryOK
<1>4. ASSUME NEW q \in Callers, NEW d, CallerOK(q, d), Kept(d) PROVE CallerOK(q, d)'
  <2>1. d.pc = "guard_captured" \/ (d.pc = "intent" /\ d.target = "PublishIntent") => GoodImages(d.img)'
    BY <1>1, <1>4 DEF CallerOK
  <2>2. d.pc = "finish" \/ (d.pc = "checkpoint_invisible" /\ d.ok) => NoneMine'
    BY <1>4 DEF Kept
  <2>3. d.pc \in {"guard_written", "confirm"} /\ d.target = "Verified" /\ ledger'.lifecycle = "Active" /\ current' =>
           \A a \in Artifacts : artifact'[a] = IF d.reuse THEN "other" ELSE "mine"
    BY <1>4 DEF Kept
  <2>. QED  BY <1>4, <2>1, <2>2, <2>3 DEF CallerOK
<1>5. CallersOK'
  <2>1. SUFFICES ASSUME NEW q \in Callers PROVE CallerOK(q, at[q])'
    BY DEF CallersOK
  <2>2. CASE q = p
    <3>1. CallerOK(p, c)'
      BY <1>4
    <3>. QED  BY <1>0, <2>2, <3>1
  <2>3. CASE q /= p
    <3>1. PICK d : d = at[q]
      OBVIOUS
    <3>2. CallerOK(q, d) /\ Kept(d)
      BY <2>3, <3>1, CallerIs
    <3>3. CallerOK(q, d)'
      BY <1>4, <3>2
    <3>4. at'[q] = d
      BY <1>0, <2>3, <3>1
    <3>. QED  BY <3>3, <3>4
  <2>. QED  BY <2>2, <2>3
<1>6. RetreatOK'
  <2>1. SUFFICES ASSUME ledger.lifecycle \in Retreat \/ at'["control"].pc \in Cleaning, at'["pump"].pc \in Publishing,
                        Me \in attached
                 PROVE  FALSE
    BY DEF RetreatOK
  <2>2. "pump" \in Callers /\ "control" \in Callers
    BY DEF Callers
  <2>3. ledger.lifecycle \in Retreat \/ at["control"].pc \in Cleaning
    BY <1>0, <2>1, <2>2
  <2>4. cancelled
    BY <2>2, <2>3, CallerIs DEF CommitInv, LedgerOK, CallerOK
  <2>5. at["pump"].pc \in Publishing
    BY <1>0, <2>1, <2>2, <2>4
  <2>. QED  BY <2>1, <2>3, <2>5 DEF CommitInv, RetreatOK
<1>. QED  BY <1>0, <1>2, <1>3, <1>5, <1>6 DEF CommitInv

\* A granted write: the fence is held, nobody cleans up, and no artifact is foreign.
LEMMA GrantedIs ==
    ASSUME CommitInv, NEW p \in Callers, at[p].pc = "write", Authorized, claim = "mine"
    PROVE  /\ p = "pump" /\ current /\ ledger.lifecycle = "Active"
           /\ at["control"].pc \notin Cleaning
           /\ \A a \in Artifacts : artifact[a] /= "other"
<1>1. at[p].pc \in Staging /\ current /\ Me \in attached
  BY DEF Staging, Authorized
<1>2. p = "pump" /\ ledger.lifecycle /= "Absent" /\ at[p].pc \in Publishing
  BY <1>1, StagingIs
<1>3. ledger.lifecycle \notin Retreat /\ at["control"].pc \notin Cleaning
  BY <1>1, <1>2 DEF CommitInv, RetreatOK
<1>4. ledger.lifecycle = "Active"
  BY <1>2, <1>3 DEF CommitInv, LedgerOK, Ledger, Retreat
<1>5. \A a \in Artifacts : artifact[a] /= "other"
  BY <1>1 DEF CommitInv, ArtifactsOK
<1>. QED  BY <1>1, <1>2, <1>3, <1>4, <1>5

\* performWrite either goes on without a write, or makes one that was granted.
LEMMA PerformWriteIs ==
    ASSUME CommitInv, NEW p \in Callers, PerformWrite(p)
    PROVE  /\ at[p].pc = "write"
           /\ UNCHANGED <<ledger, attached, current, claim, seen, cancelled, joins, crashes>>
           /\ \/ UNCHANGED artifact /\ (Goto(p, "repair") \/ Goto(p, "verify"))
              \/ /\ Goto(p, "verify") /\ Authorized /\ claim = "mine" /\ HasImages(ledger)
                 /\ \E a \in Artifacts : Replaceable(a) /\ artifact' = [artifact EXCEPT ![a] = "mine"]
<1>. DEFINE s == at[p].target
<1>1. /\ at[p].pc = "write"
      /\ UNCHANGED <<ledger, attached, current, claim, seen, cancelled, joins, crashes>>
  BY NothingElse DEF PerformWrite, Step, At
<1>2. at[p].pc \in Staging
  BY <1>1 DEF Staging
<1>3. s = NextStage(ledger.stage) /\ ledger.stage \in Stage \ {"Verified"}
  BY <1>2, StagingIs
<1>4. CASE ~WritesArtifact(s)
  BY <1>1, <1>4 DEF PerformWrite, Target
<1>5. CASE s /= "Verified" /\ ~(Authorized /\ (WritesArtifact(s) => claim = "mine" /\ Replaceable(ArtifactOf[s])))
  BY <1>1, <1>5 DEF PerformWrite, Target
<1>6. CASE WritesArtifact(s) /\ Authorized /\ claim = "mine" /\ Replaceable(ArtifactOf[s])
  <2>1. s \in {"BodyPublished", "MainIndexWritten", "ReaderIndexWritten"}
    BY <1>6 DEF WritesArtifact, ArtifactOf
  <2>2. ArtifactOf[s] \in Artifacts
    BY <2>1 DEF ArtifactOf, Artifacts
  <2>3. ledger.stage \notin {"ResultReady", "BodyStaged"}
    BY <1>3, <2>1, NextStageIs
  <2>4. HasImages(ledger)
    BY <2>3 DEF CommitInv, LedgerOK
  <2>5. Goto(p, "verify") /\ artifact' = [artifact EXCEPT ![ArtifactOf[s]] = "mine"]
    BY <1>6 DEF PerformWrite, Target
  <2>. QED  BY <1>1, <1>6, <2>2, <2>4, <2>5
<1>7. s = "Verified" => ~WritesArtifact(s)
  BY DEF WritesArtifact, ArtifactOf
<1>. QED  BY <1>4, <1>5, <1>6, <1>7

\* performWrite
LEMMA PerformWriteStep ==
    ASSUME CommitInv, NEW p \in Callers, PerformWrite(p)
    PROVE  CommitInv'
<1>1. /\ at[p].pc = "write"
      /\ UNCHANGED <<ledger, attached, current, claim, seen, cancelled, joins, crashes>>
      /\ \/ UNCHANGED artifact /\ (Goto(p, "repair") \/ Goto(p, "verify"))
         \/ /\ Goto(p, "verify") /\ Authorized /\ claim = "mine" /\ HasImages(ledger)
            /\ \E a \in Artifacts : artifact' = [artifact EXCEPT ![a] = "mine"]
  BY PerformWriteIs
<1>2. at[p].pc \in Staging
  BY <1>1 DEF Staging
<1>3. /\ p = "pump" /\ ledger.lifecycle /= "Absent" /\ at[p] \in Local /\ at \in [Callers -> Local]
      /\ ledger.stage \in Stage \ {"Verified"} /\ at[p].target = NextStage(ledger.stage)
      /\ at[p].pc \in Publishing /\ (at[p].reuse => claim = "same")
  BY <1>2, StagingIs
<1>4. CASE UNCHANGED artifact /\ Goto(p, "repair")
  BY <1>1, <1>3, <1>4, NothingElse, GotoStep DEF Places, Opening, Publishing, Staging, Detaching, Cleaning, Undoing
<1>5. CASE UNCHANGED artifact /\ Goto(p, "verify")
  BY <1>1, <1>2, <1>3, <1>5, NothingElse, GotoStep DEF Places, Opening, Publishing, Staging, Detaching, Cleaning, Undoing
<1>6. CASE /\ Goto(p, "verify") /\ Authorized /\ claim = "mine" /\ HasImages(ledger)
           /\ \E a \in Artifacts : artifact' = [artifact EXCEPT ![a] = "mine"]
  <2>1. PICK a \in Artifacts : artifact' = [artifact EXCEPT ![a] = "mine"]
    BY <1>6
  <2>2. /\ current /\ ledger.lifecycle = "Active" /\ at["control"].pc \notin Cleaning
        /\ \A b \in Artifacts : artifact[b] /= "other"
    BY <1>1, <1>6, GrantedIs
  <2>3. artifact \in [Artifacts -> Writer] /\ "mine" \in Writer
    BY DEF CommitInv, ArtifactsOK, Writer
  <2>4. /\ artifact' \in [Artifacts -> Writer] /\ \A b \in Artifacts : artifact'[b] /= "other"
    BY <2>1, <2>2, <2>3
  <2>5. ArtifactsOK'
    <3>1. VerifiedIsVisible'
      BY <1>1, <1>3 DEF VerifiedIsVisible
    <3>2. "reader" \in Artifacts
      BY DEF Artifacts
    <3>. QED  BY <1>1, <1>6, <2>2, <2>4, <3>1, <3>2 DEF ArtifactsOK
  <2>6. OthersKept
    BY <2>2 DEF OthersKept
  <2>7. "verify" \in Places /\ "verify" \notin Cleaning
    BY DEF Places, Publishing, Staging, Cleaning, Undoing
  <2>8. /\ Moved(p, [at[p] EXCEPT !.pc = "verify"]) /\ at'[p].pc = "verify" /\ at'[p].reuse = at[p].reuse
        /\ at'[p].target = at[p].target
    BY <1>3, <1>6, <2>7, GotoIs
  <2>9. PICK c : c = at'[p]
    OBVIOUS
  <2>10. Moved(p, c) /\ c \in Local /\ c.pc = "verify" /\ c.reuse = at[p].reuse /\ c.target = at[p].target
    BY <2>8, <2>9 DEF Moved
  <2>11. CallerOK(p, c) /\ Kept(c)
    BY <1>3, <2>10 DEF CallerOK, Kept, Opening, Staging, Detaching, Cleaning, Undoing
  <2>12. ASSUME NEW q \in Callers, q /= p PROVE Kept(at[q])
    <3>1. q = "control" /\ CallerOK(q, at[q])
      BY <1>3, <2>12, CallerIs DEF Callers
    <3>2. at[q].pc \in {"idle", "repair"} \cup Detaching
      BY <2>2, <3>1 DEF CallerOK
    <3>. QED  BY <3>2 DEF Kept, Detaching
  <2>. QED  BY <1>1, <1>3, <2>5, <2>6, <2>7, <2>10, <2>11, <2>12, ArtifactStep
<1>. QED  BY <1>1, <1>4, <1>5, <1>6

\* No artifact becomes the commit's own.
NoneAdded == \A a \in Artifacts : artifact'[a] = "mine" => artifact[a] = "mine"

\* An effect of the cleanup puts back a before-image, and leaves what is foreign as it is.
LEMMA EffectIs ==
    ASSUME CommitInv, NEW e \in Artifacts, HasImages(ledger), EffectApplies(e), artifact' = EffectOn(e)
    PROVE  /\ artifact' \in [Artifacts -> Writer] /\ OthersKept /\ NoneAdded
           /\ current /\ claim \in {"none", "mine"} => \A a \in Artifacts : artifact'[a] /= "other"
           /\ current /\ artifact'["reader"] = "other" => artifact'["body"] = "other"
<1>. DEFINE x == IF e = "reader" THEN "body" ELSE e
            w == ledger.images[x]
<1>1. GoodImages(ledger.images)
  BY DEF CommitInv, LedgerOK
<1>2. artifact \in [Artifacts -> Writer]
  BY DEF CommitInv, ArtifactsOK
<1>3. x \in Artifacts /\ "body" \in Artifacts /\ "reader" \in Artifacts /\ e /= "staged" /\ "main" \in Artifacts
  BY DEF Artifacts
<1>4. w \in {"before", "other"} /\ (w = "other" => artifact[x] = "other")
  BY <1>1, <1>3 DEF GoodImages
<1>5. artifact' = [artifact EXCEPT ![e] = w]
  BY <1>3 DEF EffectOn
<1>6. artifact[e] = "other" => w = "other"
  <2>1. CASE e = "reader"
    BY <1>1, <2>1 DEF EffectApplies, Restored, Owned, GoodImages
  <2>2. CASE e /= "reader"
    BY <1>3, <2>2 DEF EffectApplies, Restored, Owned
  <2>. QED  BY <2>1, <2>2
<1>. HIDE DEF w, x
<1>7. artifact' \in [Artifacts -> Writer]
  BY <1>2, <1>4, <1>5 DEF Writer
<1>8. OthersKept
  BY <1>2, <1>5, <1>6 DEF OthersKept
<1>9. NoneAdded
  BY <1>2, <1>4, <1>5 DEF NoneAdded
<1>10. current /\ claim \in {"none", "mine"} => \A a \in Artifacts : artifact'[a] /= "other"
  BY <1>2, <1>3, <1>4, <1>5 DEF CommitInv, ArtifactsOK
<1>11. current /\ artifact'["reader"] = "other" => artifact'["body"] = "other"
  <2>1. SUFFICES ASSUME current, artifact'["reader"] = "other" PROVE artifact["body"] = "other"
    BY <1>3, <1>8 DEF OthersKept
  <2>2. CASE e = "reader"
    BY <1>2, <1>3, <1>4, <1>5, <2>1, <2>2 DEF x
  <2>3. CASE e /= "reader"
    BY <1>2, <1>3, <1>5, <2>1, <2>3 DEF CommitInv, ArtifactsOK
  <2>. QED  BY <2>2, <2>3
<1>. QED  BY <1>7, <1>8, <1>9, <1>10, <1>11

\* The effect proper leaves the artifacts alone, or applies to one of them.
LEMMA CleanupEffectIs ==
    ASSUME CommitInv, NEW p \in Callers, CleanupEffect(p)
    PROVE  /\ at[p].pc = "effect" /\ at[p].pc \in Undoing /\ at[p].pc \in Cleaning
           /\ UNCHANGED <<ledger, attached, current, claim, seen, cancelled, joins, crashes>>
           /\ \/ UNCHANGED artifact
              \/ /\ at[p].effect \in Artifacts /\ HasImages(ledger)
                 /\ EffectApplies(at[p].effect) /\ artifact' = EffectOn(at[p].effect)
           /\ \/ UNCHANGED artifact /\ Goto(p, "cleanup_repair")
              \/ at' = [at EXCEPT ![p].pc = "checkpoint_after", ![p].ok = EffectApplies(at[p].effect)]
<1>1. /\ at[p].pc = "effect" /\ at[p].pc \in Undoing /\ at[p].pc \in Cleaning
      /\ UNCHANGED <<ledger, attached, current, claim, seen, cancelled, joins, crashes>>
  BY NothingElse DEF CleanupEffect, Step, At, Undoing, Cleaning
<1>2. at[p].effect /= "none" /\ (at[p].effect /= "staged" => HasImages(ledger)) /\ at[p] \in Local
  BY <1>1, CallerIs DEF CallerOK
<1>3. at[p].effect \in Artifacts \cup {"staged"}
  BY <1>2 DEF Local
<1>4. at[p].effect = "staged" => EffectOn(at[p].effect) = artifact
  BY DEF EffectOn
<1>5. /\ \/ UNCHANGED artifact
         \/ EffectApplies(at[p].effect) /\ artifact' = EffectOn(at[p].effect)
      /\ \/ UNCHANGED artifact /\ Goto(p, "cleanup_repair")
         \/ at' = [at EXCEPT ![p].pc = "checkpoint_after", ![p].ok = EffectApplies(at[p].effect)]
  BY DEF CleanupEffect
<1>. QED  BY <1>1, <1>2, <1>3, <1>4, <1>5

\* restoreBodyIfOwned, restoreMainIndexIfOwned, rebuildReaderIndexFromBody
LEMMA CleanupEffectStep ==
    ASSUME CommitInv, NEW p \in Callers, CleanupEffect(p)
    PROVE  CommitInv'
<1>1. /\ at[p].pc = "effect" /\ at[p].pc \in Undoing /\ at[p].pc \in Cleaning
      /\ UNCHANGED <<ledger, attached, current, claim, seen, cancelled, joins, crashes>>
      /\ \/ UNCHANGED artifact
         \/ /\ at[p].effect \in Artifacts /\ HasImages(ledger)
            /\ EffectApplies(at[p].effect) /\ artifact' = EffectOn(at[p].effect)
      /\ \/ UNCHANGED artifact /\ Goto(p, "cleanup_repair")
         \/ at' = [at EXCEPT ![p].pc = "checkpoint_after", ![p].ok = EffectApplies(at[p].effect)]
  BY CleanupEffectIs
<1>2. CASE UNCHANGED artifact /\ Goto(p, "cleanup_repair")
  BY <1>1, <1>2, CleaningStep
<1>3. CASE at' = [at EXCEPT ![p].pc = "checkpoint_after", ![p].ok = EffectApplies(at[p].effect)]
  <2>. DEFINE ok == EffectApplies(at[p].effect)
              c == [at[p] EXCEPT !.pc = "checkpoint_after", !.ok = ok]
  <2>1. /\ at[p].effect /= "none" /\ (at[p].effect /= "staged" => HasImages(ledger))
        /\ at[p].reuse => claim = "same"
    BY <1>1, CallerIs DEF CallerOK
  <2>2. /\ cancelled /\ ledger.lifecycle /= "Absent" /\ ledger.lifecycle \in Retreat
        /\ at[p] \in Local /\ at \in [Callers -> Local]
    BY <1>1, CleaningIs
  <2>3. ok \in BOOLEAN
    <3>1. at[p].effect \in {"staged", "body", "main", "reader"}
      BY <2>1, <2>2 DEF Local, Artifacts
    <3>. QED  BY <3>1 DEF EffectApplies
  <2>4. /\ artifact' \in [Artifacts -> Writer] /\ OthersKept /\ NoneAdded
        /\ current /\ claim \in {"none", "mine"} => \A a \in Artifacts : artifact'[a] /= "other"
        /\ current /\ artifact'["reader"] = "other" => artifact'["body"] = "other"
    <3>1. CASE UNCHANGED artifact
      BY <3>1 DEF CommitInv, ArtifactsOK, OthersKept, NoneAdded
    <3>. QED  BY <1>1, <3>1, EffectIs
  <2>5. NoneMine => NoneMine'
    BY <2>4 DEF NoneMine, NoneAdded
  <2>6. ArtifactsOK'
    <3>1. VerifiedIsVisible'
      BY <1>1, <2>2 DEF VerifiedIsVisible, Retreat
    <3>2. \A a \in Artifacts : artifact'[a] = "mine" => claim = "mine" /\ HasImages(ledger)
      BY <2>4 DEF NoneAdded, CommitInv, ArtifactsOK
    <3>3. ledger.lifecycle = "Cancelled" => NoneMine'
      BY <2>5 DEF CommitInv, ArtifactsOK
    <3>. QED  BY <1>1, <2>4, <3>1, <3>2, <3>3 DEF ArtifactsOK
  <2>7. "checkpoint_after" \in Places /\ "checkpoint_after" \notin Publishing
    BY DEF Places, Publishing, Staging, Cleaning, Undoing
  <2>8. at' = [at EXCEPT ![p] = c]
    BY <1>3
  <2>. HIDE DEF ok
  <2>9. c \in Local /\ c.pc = "checkpoint_after" /\ c.reuse = at[p].reuse /\ c.effect = at[p].effect
    BY <2>2, <2>3, <2>7 DEF Local
  <2>. HIDE DEF c
  <2>10. Moved(p, c)
    BY <2>2, <2>8, <2>9 DEF Moved
  <2>11. CallerOK(p, c) /\ Kept(c)
    BY <2>1, <2>2, <2>9 DEF CallerOK, Kept, Opening, Staging, Detaching, Cleaning, Undoing
  <2>12. ASSUME NEW q \in Callers PROVE Kept(at[q])
    <3>1. CallerOK(q, at[q])
      BY CallerIs
    <3>2. ledger.lifecycle /= "Active"
      BY <2>2 DEF Retreat
    <3>3. at[q].pc = "finish" \/ (at[q].pc = "checkpoint_invisible" /\ at[q].ok) => NoneMine
      BY <3>1 DEF CallerOK
    <3>. QED  BY <2>5, <3>2, <3>3 DEF Kept
  <2>. QED  BY <1>1, <2>4, <2>6, <2>7, <2>9, <2>10, <2>11, <2>12, ArtifactStep
<1>. QED  BY <1>1, <1>2, <1>3

\* Somebody else publishes.
LEMMA OtherPublishesStep ==
    ASSUME CommitInv, NEW a \in Artifacts, OtherPublishes(a)
    PROVE  CommitInv'
<1>1. /\ UNCHANGED <<ledger, attached, current, claim, seen, at, cancelled, joins, crashes>>
      /\ artifact[a] /= "other" /\ artifact' = [artifact EXCEPT ![a] = "other"]
      /\ current => claim \in {"same", "other"} /\ \A b \in Earlier[a] : artifact[b] = "other"
  BY NothingElse DEF OtherPublishes
<1>2. /\ artifact \in [Artifacts -> Writer] /\ "other" \in Writer
      /\ \A b \in Artifacts : artifact[b] = "mine" => claim = "mine" /\ HasImages(ledger)
  BY DEF CommitInv, ArtifactsOK, Writer
<1>3. artifact' \in [Artifacts -> Writer] /\ OthersKept /\ NoneAdded
  BY <1>1, <1>2 DEF OthersKept, NoneAdded
<1>4. NoneMine => NoneMine'
  BY <1>3 DEF NoneMine, NoneAdded
<1>5. current => artifact[a] = "before"
  BY <1>1, <1>2 DEF Writer
<1>6. ArtifactsOK'
  <2>1. VerifiedIsVisible'
    <3>1. ~(ledger.stage = "Verified" /\ ledger.lifecycle = "Active" /\ current)
      <4>1. SUFFICES ASSUME ledger.stage = "Verified", ledger.lifecycle = "Active", current PROVE FALSE
        OBVIOUS
      <4>2. artifact[a] \in {"other", "mine"}
        BY <4>1 DEF CommitInv, ArtifactsOK, VerifiedIsVisible
      <4>. QED  BY <1>5, <4>1, <4>2
    <3>. QED  BY <1>1, <3>1 DEF VerifiedIsVisible
  <2>2. \A b \in Artifacts : artifact'[b] = "mine" => claim = "mine" /\ HasImages(ledger)
    BY <1>2, <1>3 DEF NoneAdded
  <2>3. ledger.lifecycle = "Cancelled" => NoneMine'
    BY <1>4 DEF CommitInv, ArtifactsOK
  <2>4. current /\ artifact'["reader"] = "other" => artifact'["body"] = "other"
    <3>1. "body" \in Artifacts /\ "reader" \in Artifacts /\ Earlier["reader"] = {"body", "main"}
      BY DEF Artifacts, Earlier
    <3>2. SUFFICES ASSUME current, artifact'["reader"] = "other" PROVE artifact["body"] = "other"
      BY <1>3, <3>1 DEF OthersKept
    <3>3. CASE a = "reader"
      BY <1>1, <3>1, <3>2, <3>3
    <3>4. CASE a /= "reader"
      BY <1>1, <1>2, <3>1, <3>2, <3>4 DEF CommitInv, ArtifactsOK
    <3>. QED  BY <3>3, <3>4
  <2>5. ~(current /\ claim \in {"none", "mine"})
    BY <1>1
  <2>. QED  BY <1>1, <1>3, <2>1, <2>2, <2>3, <2>4, <2>5 DEF ArtifactsOK
<1>7. ASSUME NEW q \in Callers PROVE Kept(at[q])
  <2>1. CallerOK(q, at[q])
    BY CallerIs
  <2>2. at[q].pc = "finish" \/ (at[q].pc = "checkpoint_invisible" /\ at[q].ok) => NoneMine
    BY <2>1 DEF CallerOK
  <2>3. ~(at[q].pc \in {"guard_written", "confirm"} /\ at[q].target = "Verified" /\ ledger.lifecycle = "Active" /\ current)
    BY <1>5, <2>1 DEF CallerOK
  <2>. QED  BY <1>4, <2>2, <2>3 DEF Kept
<1>8. PICK p \in Callers : p = "control"
  BY DEF Callers
<1>8a. PICK c : c = at[p]
  OBVIOUS
<1>9. Moved(p, c) /\ CallerOK(p, c) /\ Kept(c)
  BY <1>1, <1>7, <1>8, <1>8a, CallerIs DEF Moved
<1>. QED  BY <1>1, <1>3, <1>6, <1>7, <1>8, <1>8a, <1>9, ArtifactStep

-----------------------------------------------------------------------------
(* The invariant, and what it says. *)

\* The initial states.
LEMMA InitInv ==
    ASSUME Init
    PROVE  CommitInv
<1>1. ledger = InitialLedger("Absent") /\ claim \in {"none", "same", "other"}
  BY CommitAssumption DEF Init
<1>2. /\ ledger \in Ledger /\ ledger.stage = "ResultReady" /\ ledger.lifecycle = "Absent"
      /\ ledger.intent = "none" /\ ledger.captured = NoImages /\ ledger.images = NoImages
  BY <1>1, InitialLedgerIs
<1>3. LedgerOK
  BY <1>2 DEF LedgerOK, HasImages, Retreat
<1>4. RegistryOK
  <2>1. current \in BOOLEAN /\ cancelled \in BOOLEAN
    BY DEF Init
  <2>. QED  BY <1>1, <2>1, CommitAssumption DEF Init, RegistryOK
<1>5. ArtifactsOK
  <2>1. artifact = [a \in Artifacts |-> IF claim = "none" THEN "before" ELSE "other"]
    BY DEF Init
  <2>2. "body" \in Artifacts /\ "reader" \in Artifacts
    BY DEF Artifacts
  <2>. QED  BY <1>1, <1>2, <2>1, <2>2 DEF ArtifactsOK, NoneMine, VerifiedIsVisible, Writer
<1>6. at = [p \in Callers |-> Idle] /\ at \in [Callers -> Local]
  BY IdleIs DEF Init
<1>7. CallersOK
  BY <1>6, IdleCaller DEF CallersOK
<1>8. RetreatOK
  <2>1. "pump" \in Callers /\ "idle" \notin Publishing
    BY DEF Callers, Publishing, Staging
  <2>. QED  BY <1>6, <2>1, IdleIs DEF RetreatOK
<1>. QED  BY <1>3, <1>4, <1>5, <1>6, <1>7, <1>8 DEF CommitInv

\* Every step, one lemma per handler.
LEMMA NextInv ==
    ASSUME CommitInv, [Next]_vars
    PROVE  CommitInv'
<1>1. CASE UNCHANGED vars
  BY <1>1, RegistryStep DEF vars, CommitInv, RegistryOK
<1>2. CASE \E p \in Callers : CallerStep(p) \/ Crash(p)
  <2>1. PICK p \in Callers : CallerStep(p) \/ Crash(p)
    BY <1>2
  <2>2. CASE Opens(p)
    BY <2>2, PumpStartsStep, AttachStep, SyncStep, CreateStep DEF Opens
  <2>3. CASE Advances(p)
    BY <2>3, AdvanceStep, GuardStep, CaptureStep, EnsureIntentStep, ClaimPublicationStep, SyncStep,
       PerformWriteStep, VerifyStageWriteStep, ConfirmStageStep, MarkRepairStep DEF Advances
  <2>4. CASE Cancels(p)
    BY <2>4, CancelSteps, DetachTaskStep, SyncStep, MarkDetachedStep DEF Cancels
  <2>5. CASE Cleans(p)
    BY <2>5, EnsureCleanupIntentStep, CheckpointBeforeStep, CleanupEffectStep, CheckpointAfterStep,
       InvisibleStep, CheckpointInvisibleStep, FinishCleanupStep, MarkCleanupRepairStep DEF Cleans
  <2>6. CASE ReadFails(p) \/ Crash(p)
    BY <2>6, EndStep
  <2>7. CASE ControlCancels(p)
    BY <2>7, ControlCancelsStep
  <2>8. CASE ControlDetaches(p)
    BY <2>8, RegistrySteps
  <2>. QED  BY <2>1, <2>2, <2>3, <2>4, <2>5, <2>6, <2>7, <2>8 DEF CallerStep
<1>3. CASE RequestCancellation
  BY <1>3, RegistrySteps
<1>4. CASE \E t \in Others : OtherAttaches(t) \/ OtherDetaches(t)
  BY <1>4, RegistrySteps
<1>5. CASE LoseFence
  BY <1>5, RegistrySteps
<1>6. CASE \E kind \in {"same", "other"} : OtherClaims(kind)
  BY <1>6, RegistrySteps
<1>7. CASE \E a \in Artifacts : OtherPublishes(a)
  BY <1>7, OtherPublishesStep
<1>. QED  BY <1>1, <1>2, <1>3, <1>4, <1>5, <1>6, <1>7 DEF Next

\* The inductive invariant of the commit holds in every reachable state, for any
\* number of tasks, attachments and crashes.
THEOREM CommitInvariant == Spec => []CommitInv
BY InitInv, NextInv, PTL DEF Spec

\* The ledger, the registry and the callers keep their shape; before-images come
\* with PublishIntent and stay.
THEOREM TypeCorrect == Spec => []TypeOK
<1>1. CommitInv => TypeOK
  BY CallerIs DEF CommitInv, LedgerOK, RegistryOK, ArtifactsOK, TypeOK, Local, Images
<1>. QED  BY <1>1, CommitInvariant, PTL

\* A commit that reports Cancelled has left nothing of its own visible, and what it
\* replaced is back or somebody else's.
THEOREM CancelledLeavesNothing == Spec => []CancelledIsUndone
<1>1. ASSUME CommitInv PROVE CancelledIsUndone
  <2>1. SUFFICES ASSUME ledger.lifecycle = "Cancelled", current, NEW a \in Artifacts
                 PROVE  artifact[a] /= "mine" /\ (HasImages(ledger) => artifact[a] \in {ledger.images[a], "other"})
    BY DEF CancelledIsUndone
  <2>2. artifact[a] /= "mine"
    BY <1>1, <2>1 DEF CommitInv, ArtifactsOK, NoneMine
  <2>3. artifact[a] \in {"before", "other"}
    BY <1>1, <2>2 DEF CommitInv, ArtifactsOK, Writer
  <2>4. HasImages(ledger) => ledger.images[a] \in {"before", "other"} /\ (ledger.images[a] = "other" => artifact[a] = "other")
    BY <1>1 DEF CommitInv, LedgerOK, GoodImages
  <2>. QED  BY <2>2, <2>3, <2>4
<1>. QED  BY <1>1, CommitInvariant, PTL

\* A commit that reports Verified is what readers see, or is content-equal to the
\* winner they see, while it keeps its fence.
THEOREM VerifiedStaysVisible == Spec => []VerifiedIsVisible
<1>1. CommitInv => VerifiedIsVisible
  BY DEF CommitInv, ArtifactsOK
<1>. QED  BY <1>1, CommitInvariant, PTL

-----------------------------------------------------------------------------
(* What no step does to an artifact. *)

\* Only a granted write, a cleanup effect and somebody else change an artifact.
LEMMA ArtifactChanges ==
    ASSUME CommitInv, [Next]_vars
    PROVE  \/ UNCHANGED artifact
           \/ \E p \in Callers : PerformWrite(p) \/ CleanupEffect(p)
           \/ \E a \in Artifacts : OtherPublishes(a)
<1>1. CASE UNCHANGED vars
  BY <1>1 DEF vars
<1>2. CASE \E p \in Callers : CallerStep(p) \/ Crash(p)
  <2>1. PICK p \in Callers : CallerStep(p) \/ Crash(p)
    BY <1>2
  <2>2. Opens(p) => UNCHANGED artifact
    BY DEF Opens, PumpStarts, Attach, SyncThen, Create
  <2>3. Advances(p) => UNCHANGED artifact \/ PerformWrite(p)
    BY DEF Advances, Advance, Guard, GuardThen, Capture, EnsureIntent, ClaimPublication, SyncThen,
           VerifyStageWrite, ConfirmStage, MarkRepair
  <2>4. Cancels(p) => UNCHANGED artifact
    BY DEF Cancels, Cancel, CancelGuard, DetachTask, SyncThen, DetachedGuard, ReadSharedWork, MarkDetached
  <2>5. Cleans(p) => UNCHANGED artifact \/ CleanupEffect(p)
    BY DEF Cleans, EnsureCleanupIntent, CheckpointBefore, CheckpointAfter, Checkpoint, Invisible,
           CheckpointInvisible, FinishCleanup, MarkCleanupRepair
  <2>6. ReadFails(p) \/ ControlCancels(p) \/ ControlDetaches(p) \/ Crash(p) => UNCHANGED artifact
    BY DEF ReadFails, ControlCancels, ControlDetaches, Crash
  <2>. QED  BY <2>1, <2>2, <2>3, <2>4, <2>5, <2>6 DEF CallerStep
<1>3. RequestCancellation \/ LoseFence => UNCHANGED artifact
  BY DEF RequestCancellation, LoseFence
<1>4. \A t \in Others : OtherAttaches(t) \/ OtherDetaches(t) => UNCHANGED artifact
  BY DEF OtherAttaches, OtherDetaches
<1>5. \A kind \in {"same", "other"} : OtherClaims(kind) => UNCHANGED artifact
  BY DEF OtherClaims
<1>. QED  BY <1>1, <1>2, <1>3, <1>4, <1>5 DEF Next

\* Nothing more is published once the ledger says that the commit is being cancelled.
THEOREM NothingPublishedAfterCancel == Spec => NoPublicationAfterCancel
<1>1. ASSUME CommitInv, [Next]_vars
      PROVE  \A a \in Artifacts : artifact'[a] = "mine" /\ artifact[a] /= "mine" => ledger.lifecycle = "Active"
  <2>1. CASE UNCHANGED artifact
    BY <2>1
  <2>2. ASSUME NEW p \in Callers, PerformWrite(p) PROVE UNCHANGED artifact \/ ledger.lifecycle = "Active"
    BY <1>1, <2>2, PerformWriteIs, GrantedIs
  <2>3. ASSUME NEW p \in Callers, CleanupEffect(p) PROVE NoneAdded
    <3>1. UNCHANGED artifact => NoneAdded
      BY DEF NoneAdded
    <3>. QED  BY <1>1, <2>3, <3>1, CleanupEffectIs, EffectIs
  <2>4. ASSUME NEW a \in Artifacts, OtherPublishes(a) PROVE NoneAdded
    BY <1>1, <2>4 DEF OtherPublishes, NoneAdded, CommitInv, ArtifactsOK
  <2>. QED  BY <1>1, <2>1, <2>2, <2>3, <2>4, ArtifactChanges DEF NoneAdded
<1>. QED  BY <1>1, CommitInvariant, PTL DEF Spec, NoPublicationAfterCancel

\* Neither advancing nor cleaning up replaces what somebody else has published.
THEOREM ForeignArtifactsStay == Spec => ForeignArtifactsKept
<1>1. ASSUME CommitInv, [Next]_vars
      PROVE  \A a \in Artifacts : artifact[a] = "other" => artifact'[a] = "other"
  <2>1. CASE UNCHANGED artifact
    BY <2>1
  <2>2. ASSUME NEW p \in Callers, PerformWrite(p) PROVE UNCHANGED artifact \/ \A a \in Artifacts : artifact[a] /= "other"
    BY <1>1, <2>2, PerformWriteIs, GrantedIs
  <2>3. ASSUME NEW p \in Callers, CleanupEffect(p) PROVE OthersKept
    <3>1. UNCHANGED artifact => OthersKept
      BY DEF OthersKept
    <3>. QED  BY <1>1, <2>3, <3>1, CleanupEffectIs, EffectIs
  <2>4. ASSUME NEW a \in Artifacts, OtherPublishes(a) PROVE OthersKept
    BY <1>1, <2>4 DEF OtherPublishes, OthersKept, CommitInv, ArtifactsOK
  <2>. QED  BY <1>1, <2>1, <2>2, <2>3, <2>4, ArtifactChanges DEF OthersKept
<1>. QED  BY <1>1, CommitInvariant, PTL DEF Spec, ForeignArtifactsKept

==============================================================================
