----------------------- MODULE RecordWorkRegistryFiles -----------------------
(***************************************************************************)
(* How the registry document reaches the disk (record-work-registry.ts): an *)
(* identity manifest and a registry file, each replaced atomically, the     *)
(* manifest first.  The manifest names the one registry document that may   *)
(* be served, so that a half-finished save, a lost file and an old copy put *)
(* back are all noticed.  The creation of the registry is the one save that *)
(* can be completed after an interruption.                                  *)
(*                                                                         *)
(* A sha256 hash is taken to be injective: a hash is the document it is of. *)
(* Calls hold the registry's file lock; a call that stops between its two   *)
(* writes (crash, or an error of the second write) gives the lock up.       *)
(***************************************************************************)
EXTENDS Naturals

CONSTANTS
    Callers,     \* processes that work on the conversation
    TokenOf,     \* the firstPublicationToken each of them was given
    Contents,    \* what a mutation may leave in the document
    PinnedClock, \* TRUE when callers of createRecordWorkRegistry pass nowMs
    MaxRevision, \* bound on registryRevision
    MaxClock,    \* bound on the clock
    MaxFaults    \* bound on interruptions and file losses

Initial == "initial"

ASSUME FilesAssumption ==
    /\ PinnedClock \in BOOLEAN
    /\ Initial \notin Contents
    /\ MaxRevision \in Nat /\ MaxFaults \in Nat /\ MaxClock \in Nat \ {0}

VARIABLES
    manifest, \* the manifest file
    registry, \* the registry file
    saving,   \* the save a caller is in the middle of
    copies,   \* every document that has been in the registry file
    clock,
    faults

vars == <<manifest, registry, saving, copies, clock, faults>>

-----------------------------------------------------------------------------
(* A document: its revision, its content, and the createdAt it carries. *)

Document == [rev : Nat, content : Contents \cup {Initial}, stamp : Nat]

NoDocument == [rev |-> 0, content |-> Initial, stamp |-> 0]

\* createInitialRegistry
InitialRegistry(now) == [rev |-> 1, content |-> Initial, stamp |-> now]

Missing == [state |-> "Missing", token |-> "", names |-> NoDocument, updatedAt |-> 0]

\* createPreparedManifest
PreparedManifest(token, now) ==
    [state |-> "Prepared", token |-> token, names |-> NoDocument, updatedAt |-> now]

\* publishedManifestForRegistry
PublishedManifest(m, doc, now) ==
    [state |-> "Published", token |-> m.token, names |-> doc, updatedAt |-> now]

NotSaving == [caller |-> "", old |-> NoDocument, new |-> NoDocument]

Present(doc) == doc /= NoDocument
LockFree == saving = NotSaving

\* Mutant: any registry file will do once the manifest is published.
ReadyIgnoringHash == manifest.state = "Published" /\ Present(registry)

\* loadRegistry answers "ready".
Ready ==
    /\ manifest.state = "Published"
    /\ Present(registry)
    /\ manifest.names = registry

-----------------------------------------------------------------------------
Init ==
    /\ manifest = Missing
    /\ registry = NoDocument
    /\ saving = NotSaving
    /\ copies = {}
    /\ clock = 1
    /\ faults = 0

\* initializeRecordWorkRegistryIdentity, when there is nothing yet.
Initialize(p) ==
    /\ LockFree
    /\ manifest = Missing
    /\ ~Present(registry)
    /\ manifest' = PreparedManifest(TokenOf[p], clock)
    /\ UNCHANGED <<registry, saving, copies, clock, faults>>

\* The two reads of the clock in createRecordWorkRegistry: the registry's
\* createdAt and the manifest's updatedAt.  They agree when nowMs is passed.
SecondRead == IF PinnedClock THEN {clock} ELSE clock .. MaxClock

\* persistPublishedRegistryState, up to and including the manifest.
WriteManifest(p, old, new, now) ==
    /\ manifest' = PublishedManifest(manifest, new, now)
    /\ saving' = [caller |-> p, old |-> old, new |-> new]
    /\ UNCHANGED <<registry, copies, faults>>

\* createRecordWorkRegistry on a prepared manifest.
Create(p) ==
    /\ LockFree
    /\ manifest.state = "Prepared"
    /\ manifest.token = TokenOf[p]
    /\ ~Present(registry)
    /\ \E now \in SecondRead :
          /\ WriteManifest(p, NoDocument, InitialRegistry(clock), now)
          /\ clock' = now

\* Mutant: nothing is done about a creation that stopped half way.
NeverRecovered(m) == FALSE

\* recoverInitialPublishedRegistry: the manifest names the document that
\* creation would have written at the manifest's own time.
InitialRecoverable(m) ==
    /\ m.state = "Published"
    /\ m.names = InitialRegistry(m.updatedAt)

\* createRecordWorkRegistry on a published manifest whose registry is missing.
RecoverCreation(p) ==
    /\ LockFree
    /\ manifest.token = TokenOf[p]
    /\ ~Present(registry)
    /\ InitialRecoverable(manifest)
    /\ registry' = InitialRegistry(manifest.updatedAt)
    /\ copies' = copies \cup {registry'}
    /\ UNCHANGED <<manifest, saving, clock, faults>>

\* Mutant: what the mutator made of the document is dropped.
NextVersionEmptied(doc, content) == [doc EXCEPT !.rev = @ + 1, !.content = ""]

NextVersion(doc, content) == [doc EXCEPT !.rev = @ + 1, !.content = content]

\* mutateRegistry and the other operations that save: RecordWorkRegistry has
\* what they change.
Mutate(p, content) ==
    /\ LockFree
    /\ Ready
    /\ registry.rev < MaxRevision
    /\ WriteManifest(p, registry, NextVersion(registry, content), clock)
    /\ UNCHANGED clock

\* The second half of the save.
WriteRegistry ==
    /\ ~LockFree
    /\ registry' = saving.new
    /\ copies' = copies \cup {saving.new}
    /\ saving' = NotSaving
    /\ UNCHANGED <<manifest, clock, faults>>

\* The caller stops between the two writes.
Interrupt ==
    /\ faults < MaxFaults
    /\ ~LockFree
    /\ saving' = NotSaving
    /\ faults' = faults + 1
    /\ UNCHANGED <<manifest, registry, copies, clock>>

\* Somebody deletes the registry file, or puts an older copy of it back.
TamperRegistry(doc) ==
    /\ faults < MaxFaults
    /\ registry /= doc
    /\ registry' = doc
    /\ faults' = faults + 1
    /\ UNCHANGED <<manifest, saving, copies, clock>>

Tick ==
    /\ clock < MaxClock
    /\ clock' = clock + 1
    /\ UNCHANGED <<manifest, registry, saving, copies, faults>>

Next ==
    \/ Tick
    \/ WriteRegistry
    \/ Interrupt
    \/ \E doc \in copies \cup {NoDocument} : TamperRegistry(doc)
    \/ \E p \in Callers :
          \/ Initialize(p)
          \/ Create(p)
          \/ RecoverCreation(p)
          \/ \E content \in Contents : Mutate(p, content)

\* A caller that is in the middle of a save goes on with it, and every task of
\* the conversation calls initialize and create each time it is scheduled
\* (ensureRecordWork).
Fairness ==
    /\ WF_vars(WriteRegistry)
    /\ \A p \in Callers :
          WF_vars(Initialize(p)) /\ WF_vars(Create(p)) /\ WF_vars(RecoverCreation(p))

Spec == Init /\ [][Next]_vars /\ Fairness

-----------------------------------------------------------------------------
(* Properties. *)

\* The files and the save in progress have the shape the source gives them.
TypeOK ==
    /\ manifest.state \in {"Missing", "Prepared", "Published"}
    /\ manifest.names \in Document
    /\ registry \in Document
    /\ saving.old \in Document /\ saving.new \in Document
    /\ copies \in SUBSET Document
    /\ clock \in 1..MaxClock
    /\ faults \in 0..MaxFaults

\* What a caller sees of the store.  While a save is under way the lock keeps
\* everybody out, and the old document is still the current one.
Newest == IF ~LockFree THEN saving.old
          ELSE IF Ready THEN registry
          ELSE manifest.names
Available == IF LockFree THEN Ready ELSE Present(saving.old)

Store == INSTANCE RecordWorkRegistryStore
            WITH rev <- Newest.rev, body <- Newest, available <- Available

\* The two files implement the store: revisions go up one at a time, and neither
\* a half-finished save, a lost file nor a restored old copy is ever served.
ImplementsStore == Store!Spec

\* Whenever the first creation stopped after the manifest was published and
\* before the registry was written, a later createRecordWorkRegistry call
\* completes it.
InterruptedCreationCompletes ==
    (LockFree /\ manifest.state = "Published" /\ manifest.names.rev = 1 /\ ~Present(registry))
        ~> Ready

=============================================================================
