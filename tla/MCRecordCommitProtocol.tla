----------------------- MODULE MCRecordCommitProtocol -----------------------
(* Small instances of RecordCommitProtocol for TLC. *)
EXTENDS RecordCommitProtocol

=============================================================================
