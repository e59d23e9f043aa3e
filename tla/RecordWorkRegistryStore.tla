----------------------- MODULE RecordWorkRegistryStore -----------------------
(***************************************************************************)
(* What the persistence of a Record work registry promises its callers: a  *)
(* document whose revision moves up by one with every change, and which is *)
(* served, when it is served at all, in its newest version.  The store may *)
(* become unavailable (repair_required); it never serves an old version.   *)
(***************************************************************************)
EXTENDS Naturals

VARIABLES
    rev,      \* revision of the newest version, 0 before creation
    body,     \* the newest version
    available \* TRUE when a read answers "ready"

vars == <<rev, body, available>>

Init ==
    /\ rev = 0
    /\ available = FALSE

\* The new version may become unavailable with the very step that decides it.
Update ==
    /\ rev = 0 \/ available
    /\ rev' = rev + 1
    /\ available' \in BOOLEAN

Lose ==
    /\ available' = FALSE
    /\ UNCHANGED <<rev, body>>

Recover ==
    /\ rev > 0
    /\ available' = TRUE
    /\ UNCHANGED <<rev, body>>

Next == Update \/ Lose \/ Recover

Spec == Init /\ [][Next]_vars

=============================================================================
