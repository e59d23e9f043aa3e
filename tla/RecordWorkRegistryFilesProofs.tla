-------------------- MODULE RecordWorkRegistryFilesProofs --------------------
(***************************************************************************)
(* Proofs about RecordWorkRegistryFiles: the manifest and the registry file *)
(* implement RecordWorkRegistryStore, for every set of callers and contents *)
(* and any number of interruptions and lost or restored files.              *)
(*                                                                         *)
(* The manifest is what decides.  Outside a save the newest version is the  *)
(* one it names, whatever is in the registry file; during a save it names   *)
(* the version being written, one above the version callers still know.     *)
(***************************************************************************)
EXTENDS RecordWorkRegistryFiles, TLAPS

-----------------------------------------------------------------------------
(* The inductive invariant. *)

\* The manifest names a document from the moment it is published.
ManifestOK ==
    /\ manifest.updatedAt \in Nat
    /\ manifest.state /= "Published" => manifest.names = NoDocument
    /\ manifest.state = "Published" => manifest.names.rev > 0

\* A save has put the version it is writing into the manifest.
SavingOK ==
    ~LockFree => /\ manifest.state = "Published"
                 /\ manifest.names = saving.new
                 /\ saving.new.rev = saving.old.rev + 1

FilesInv == TypeOK /\ ManifestOK /\ SavingOK

-----------------------------------------------------------------------------
(* Lemmas about documents. *)

\* A document is there when its revision is not zero.
LEMMA DocumentFields ==
    ASSUME NEW doc \in Document
    PROVE  doc.rev \in Nat /\ (doc.rev > 0 => Present(doc))
BY DEF Document, Present, NoDocument

\* The documents that a creation and a mutation write.
LEMMA DocumentsWritten ==
    /\ NoDocument \in Document /\ NoDocument.rev = 0
    /\ \A now \in Nat : InitialRegistry(now) \in Document /\ InitialRegistry(now).rev = 1
    /\ \A doc \in Document, content \in Contents :
          /\ NextVersion(doc, content) \in Document
          /\ NextVersion(doc, content).rev = doc.rev + 1
<1>1. NoDocument \in Document /\ NoDocument.rev = 0
  BY DEF NoDocument, Document
<1>2. ASSUME NEW now \in Nat PROVE InitialRegistry(now) \in Document /\ InitialRegistry(now).rev = 1
  BY DEF InitialRegistry, Document
<1>3. ASSUME NEW doc \in Document, NEW content \in Contents
      PROVE  NextVersion(doc, content) \in Document /\ NextVersion(doc, content).rev = doc.rev + 1
  <2>1. doc.rev \in Nat /\ content \in Contents \cup {Initial}
    BY DEF Document
  <2>2. doc.rev + 1 \in Nat
    BY <2>1
  <2>3. NextVersion(doc, content) \in Document
    BY <2>1, <2>2 DEF NextVersion, Document
  <2>4. NextVersion(doc, content).rev = doc.rev + 1
    BY DEF NextVersion, Document
  <2>. QED  BY <2>3, <2>4
<1>. QED  BY <1>1, <1>2, <1>3

\* A save under way is told apart by the revision it writes.
LEMMA SaveHoldsLock ==
    ASSUME NEW p, NEW old, NEW new \in Document, new.rev > 0
    PROVE  [caller |-> p, old |-> old, new |-> new] /= NotSaving
<1>1. SUFFICES ASSUME [caller |-> p, old |-> old, new |-> new] = NotSaving PROVE FALSE
  OBVIOUS
<1>2. [caller |-> p, old |-> old, new |-> new].new = NotSaving.new
  BY <1>1
<1>3. new = NoDocument
  BY <1>2 DEF NotSaving
<1>. QED  BY <1>3, DocumentsWritten

\* Outside a save the newest version is the one the manifest names.
LEMMA NewestIsNamed ==
    LockFree => Newest = manifest.names
BY DEF Newest, Ready

\* What the store sees of a version that was decided.
LEMMA StoreFields ==
    ASSUME FilesInv
    PROVE  /\ Newest \in Document /\ Available \in BOOLEAN
           /\ LockFree /\ Available => Newest.rev > 0
           /\ ~Available /\ ~LockFree => Newest.rev = 0
<1>1. CASE LockFree
  <2>1. Newest = manifest.names /\ Available = Ready
    BY <1>1, NewestIsNamed DEF Available
  <2>2. Ready \in BOOLEAN
    BY DEF Ready
  <2>. QED  BY <1>1, <2>1, <2>2 DEF FilesInv, TypeOK, ManifestOK, Ready
<1>2. CASE ~LockFree
  <2>1. Newest = saving.old /\ Available = Present(saving.old) /\ saving.old \in Document
    BY <1>2 DEF Newest, Available, FilesInv, TypeOK
  <2>2. Present(saving.old) \in BOOLEAN
    BY DEF Present
  <2>3. ~Present(saving.old) => saving.old.rev = 0
    BY <2>1, DocumentFields
  <2>. QED  BY <1>2, <2>1, <2>2, <2>3
<1>. QED  BY <1>1, <1>2

-----------------------------------------------------------------------------
(* The invariant. *)

\* No files.
LEMMA FilesInit == Init => FilesInv
<1>1. SUFFICES ASSUME Init PROVE FilesInv
  OBVIOUS
<1>2. /\ manifest = Missing /\ saving = NotSaving /\ registry = NoDocument
      /\ copies = {} /\ clock = 1 /\ faults = 0
  BY <1>1 DEF Init
<1>3. manifest.state = "Missing" /\ manifest.names = NoDocument /\ manifest.updatedAt = 0
  BY <1>2 DEF Missing
<1>4. saving.old = NoDocument /\ saving.new = NoDocument
  BY <1>2 DEF NotSaving
<1>5. TypeOK
  BY <1>2, <1>3, <1>4, DocumentsWritten, FilesAssumption DEF TypeOK
<1>. QED  BY <1>2, <1>3, <1>4, <1>5 DEF FilesInv, ManifestOK, SavingOK, LockFree

\* The first half of a save, of a version one above the current one.
LEMMA WriteManifestKeeps ==
    ASSUME FilesInv, NEW p, NEW old \in Document, NEW new \in Document, NEW now \in Nat,
           new.rev = old.rev + 1, WriteManifest(p, old, new, now), clock' \in 1..MaxClock
    PROVE  /\ FilesInv' /\ ~LockFree' /\ saving'.old = old
<1>1. /\ manifest'.state = "Published" /\ manifest'.names = new /\ manifest'.updatedAt = now
      /\ saving' = [caller |-> p, old |-> old, new |-> new]
      /\ UNCHANGED <<registry, copies, faults>>
  BY DEF WriteManifest, PublishedManifest
<1>2. saving'.old = old /\ saving'.new = new
  BY <1>1
<1>3. new.rev > 0
  BY DocumentFields
<1>4. ~LockFree'
  BY <1>1, <1>3, SaveHoldsLock DEF LockFree
<1>5. TypeOK'
  BY <1>1, <1>2 DEF FilesInv, TypeOK
<1>. QED  BY <1>1, <1>2, <1>3, <1>4, <1>5 DEF FilesInv, ManifestOK, SavingOK

\* createRecordWorkRegistry on a prepared manifest: nobody sees anything yet.
LEMMA CreateIs ==
    ASSUME FilesInv, NEW p \in Callers, Create(p)
    PROVE  FilesInv' /\ UNCHANGED <<Newest, Available>>
<1>1. PICK now \in SecondRead : WriteManifest(p, NoDocument, InitialRegistry(clock), now) /\ clock' = now
  BY DEF Create
<1>2. clock \in Nat /\ clock' \in 1..MaxClock /\ now \in Nat
  BY <1>1, FilesAssumption DEF SecondRead, FilesInv, TypeOK
<1>3. /\ InitialRegistry(clock) \in Document /\ InitialRegistry(clock).rev = 1
      /\ NoDocument \in Document /\ NoDocument.rev = 0
  BY <1>2, DocumentsWritten
<1>4. FilesInv' /\ ~LockFree' /\ saving'.old = NoDocument
  BY <1>1, <1>2, <1>3, WriteManifestKeeps
<1>5. Newest' = NoDocument /\ Available' = FALSE
  BY <1>4 DEF Newest, Available, Present
<1>6. LockFree /\ manifest.state = "Prepared"
  BY DEF Create
<1>7. Newest = NoDocument /\ Available = FALSE
  BY <1>6, NewestIsNamed DEF FilesInv, ManifestOK, Available, Ready
<1>. QED  BY <1>4, <1>5, <1>7

\* mutateRegistry, up to the manifest: callers still know the old version.
LEMMA MutateIs ==
    ASSUME FilesInv, NEW p \in Callers, NEW content \in Contents, Mutate(p, content)
    PROVE  FilesInv' /\ UNCHANGED <<Newest, Available>>
<1>1. /\ LockFree /\ Ready /\ UNCHANGED clock /\ Present(registry)
      /\ WriteManifest(p, registry, NextVersion(registry, content), clock)
  BY DEF Mutate, Ready
<1>2. registry \in Document /\ clock \in Nat /\ clock' \in 1..MaxClock
  BY <1>1, FilesAssumption DEF FilesInv, TypeOK
<1>3. NextVersion(registry, content) \in Document /\ NextVersion(registry, content).rev = registry.rev + 1
  BY <1>2, DocumentsWritten
<1>4. FilesInv' /\ ~LockFree' /\ saving'.old = registry
  BY <1>1, <1>2, <1>3, WriteManifestKeeps
<1>5. Newest' = registry /\ Available' = TRUE
  BY <1>1, <1>4 DEF Newest, Available
<1>6. Newest = registry /\ Available = TRUE
  BY <1>1 DEF Newest, Available
<1>. QED  BY <1>4, <1>5, <1>6

\* A new version is decided: the next one, available or not.
Decides ==
    /\ ~LockFree /\ LockFree'
    /\ Newest'.rev = Newest.rev + 1

\* Availability changes, to a version that there is.
Flips ==
    /\ UNCHANGED Newest
    /\ Available' => Newest.rev > 0

\* A save ends, with the registry file or without it.
LEMMA SaveEnds ==
    ASSUME FilesInv, WriteRegistry \/ Interrupt
    PROVE  FilesInv' /\ Decides
<1>1. /\ ~LockFree /\ saving' = NotSaving /\ UNCHANGED <<manifest, clock>>
      /\ \/ registry' = saving.new /\ copies' = copies \cup {saving.new} /\ faults' = faults
         \/ UNCHANGED <<registry, copies>> /\ faults' = faults + 1 /\ faults < MaxFaults
  BY DEF WriteRegistry, Interrupt
<1>2. LockFree' /\ saving'.old = NoDocument /\ saving'.new = NoDocument
  BY <1>1 DEF LockFree, NotSaving
<1>3. manifest.names = saving.new /\ saving.new.rev = saving.old.rev + 1 /\ saving.new \in Document
  BY <1>1 DEF FilesInv, SavingOK, TypeOK
<1>4. faults' \in 0..MaxFaults
  BY <1>1, FilesAssumption DEF FilesInv, TypeOK
<1>5. TypeOK'
  BY <1>1, <1>2, <1>3, <1>4, DocumentsWritten DEF FilesInv, TypeOK
<1>6. FilesInv'
  BY <1>1, <1>2, <1>5 DEF FilesInv, ManifestOK, SavingOK
<1>7. Newest' = manifest'.names
  BY <1>2 DEF Newest, Ready
<1>8. Newest = saving.old
  BY <1>1 DEF Newest
<1>. QED  BY <1>1, <1>2, <1>3, <1>6, <1>7, <1>8 DEF Decides

\* The registry file is lost, restored from a copy, or written again.
LEMMA FileChanges ==
    ASSUME FilesInv,
           \/ \E p \in Callers : RecoverCreation(p)
           \/ \E doc \in copies \cup {NoDocument} : TamperRegistry(doc)
    PROVE  FilesInv' /\ (UNCHANGED <<Newest, Available>> \/ Flips)
<1>1. /\ UNCHANGED <<manifest, saving, clock>> /\ registry' \in Document
      /\ copies' \in SUBSET Document /\ faults' \in 0..MaxFaults
  <2>1. CASE \E p \in Callers : RecoverCreation(p)
    <3>1. InitialRegistry(manifest.updatedAt) \in Document
      BY DocumentsWritten DEF FilesInv, ManifestOK
    <3>. QED  BY <2>1, <3>1 DEF RecoverCreation, FilesInv, TypeOK
  <2>2. CASE \E doc \in copies \cup {NoDocument} : TamperRegistry(doc)
    BY <2>2, DocumentsWritten, FilesAssumption DEF TamperRegistry, FilesInv, TypeOK
  <2>. QED  BY <2>1, <2>2
<1>2. FilesInv'
  BY <1>1 DEF FilesInv, TypeOK, ManifestOK, SavingOK, LockFree
<1>3. CASE LockFree
  <2>1. Newest' = manifest'.names /\ Newest = manifest.names
    BY <1>1, <1>3, NewestIsNamed DEF Newest, Ready, LockFree
  <2>2. Available' => manifest.names.rev > 0
    BY <1>1, <1>3 DEF Available, LockFree, Ready, FilesInv, ManifestOK
  <2>. QED  BY <1>1, <1>2, <2>1, <2>2 DEF Flips
<1>4. CASE ~LockFree
  <2>1. UNCHANGED <<Newest, Available>>
    BY <1>1, <1>4 DEF Newest, Available, LockFree
  <2>. QED  BY <1>2, <2>1
<1>. QED  BY <1>3, <1>4

\* initializeRecordWorkRegistryIdentity, and the clock: nothing that callers see.
LEMMA NothingSeen ==
    ASSUME FilesInv, Tick \/ (\E p \in Callers : Initialize(p)) \/ UNCHANGED vars
    PROVE  FilesInv' /\ UNCHANGED <<Newest, Available>>
<1>1. CASE Tick
  <2>1. UNCHANGED <<manifest, registry, saving, copies, faults>> /\ clock' \in 1..MaxClock
    BY <1>1, FilesAssumption DEF Tick, FilesInv, TypeOK
  <2>. QED  BY <2>1 DEF FilesInv, TypeOK, ManifestOK, SavingOK, LockFree, Newest, Available, Ready
<1>2. CASE \E p \in Callers : Initialize(p)
  <2>1. /\ LockFree /\ manifest = Missing
        /\ manifest'.state = "Prepared" /\ manifest'.names = NoDocument /\ manifest'.updatedAt = clock
        /\ UNCHANGED <<registry, saving, copies, clock, faults>>
    BY <1>2 DEF Initialize, PreparedManifest
  <2>2. manifest.state = "Missing" /\ manifest.names = NoDocument
    BY <2>1 DEF Missing
  <2>3. FilesInv'
    BY <2>1, DocumentsWritten DEF FilesInv, TypeOK, ManifestOK, SavingOK, LockFree
  <2>. QED  BY <2>1, <2>2, <2>3 DEF LockFree, Newest, Available, Ready
<1>3. CASE UNCHANGED vars
  BY <1>3 DEF vars, FilesInv, TypeOK, ManifestOK, SavingOK, LockFree, Newest, Available, Ready
<1>. QED  BY <1>1, <1>2, <1>3

\* Every step keeps the invariant, and is one of the store's or hidden from callers.
LEMMA FilesNext ==
    ASSUME FilesInv, [Next]_vars
    PROVE  FilesInv' /\ (UNCHANGED <<Newest, Available>> \/ Flips \/ Decides)
BY CreateIs, MutateIs, SaveEnds, FileChanges, NothingSeen DEF Next

\* The inductive invariant: outside a save the manifest decides, during one it
\* names the next version.
THEOREM FilesInvariant == Spec => []FilesInv
BY FilesInit, FilesNext, PTL DEF Spec

\* The files and the save in progress keep their shape.
THEOREM TypeCorrect == Spec => []TypeOK
<1>1. FilesInv => TypeOK
  BY DEF FilesInv
<1>. QED  BY <1>1, FilesInvariant, PTL

\* The two files implement the store: revisions go up one at a time, and neither a
\* half-finished save, a lost file nor a restored old copy is ever served.
THEOREM FilesImplementStore == Spec => ImplementsStore
<1>1. ASSUME Init PROVE Store!Init
  <2>1. LockFree /\ manifest.names = NoDocument /\ manifest.state = "Missing"
    BY <1>1 DEF Init, LockFree, Missing
  <2>2. Newest = NoDocument /\ Available = FALSE
    BY <2>1, NewestIsNamed DEF Available, Ready
  <2>. QED  BY <2>2, DocumentsWritten DEF Store!Init
<1>2. ASSUME FilesInv, [Next]_vars PROVE [Store!Next]_(Store!vars)
  <2>1. FilesInv' /\ (UNCHANGED <<Newest, Available>> \/ Flips \/ Decides)
    BY <1>2, FilesNext
  <2>2. Available \in BOOLEAN /\ Available' \in BOOLEAN /\ (~Available /\ ~LockFree => Newest.rev = 0)
    <3>1. Available \in BOOLEAN /\ (~Available /\ ~LockFree => Newest.rev = 0)
      BY <1>2, StoreFields
    <3>2. (FilesInv => Available \in BOOLEAN)'
      BY StoreFields, PTL
    <3>. QED  BY <2>1, <3>1, <3>2
  <2>3. CASE UNCHANGED <<Newest, Available>>
    BY <2>3 DEF Store!vars
  <2>4. CASE Flips
    BY <2>2, <2>4 DEF Flips, Store!Next, Store!Lose, Store!Recover
  <2>5. CASE Decides
    BY <2>2, <2>5 DEF Decides, Store!Next, Store!Update
  <2>. QED  BY <2>1, <2>3, <2>4, <2>5
<1>. QED  BY <1>1, <1>2, FilesInvariant, PTL DEF Spec, ImplementsStore, Store!Spec

==============================================================================
