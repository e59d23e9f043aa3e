------------------------ MODULE MCRecordWorkRegistry ------------------------
(* A small instance of RecordWorkRegistry for TLC. *)
EXTENDS RecordWorkRegistry, TLC

CONSTANTS r1, r2, t1, t2, c1, c2, c3, o1, o2

\* Two tasks commit on the first revision, one of them also on the second.
MCWorkOf == (c1 :> r1) @@ (c2 :> r1) @@ (c3 :> r2)
MCTaskOf == (c1 :> t1) @@ (c2 :> t2) @@ (c3 :> t1)

\* Nothing tells the two owners apart.
OwnersAlike == Permutations(Owners)

=============================================================================
