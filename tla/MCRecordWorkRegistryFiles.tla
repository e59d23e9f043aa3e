---------------------- MODULE MCRecordWorkRegistryFiles ----------------------
(* Small instances of RecordWorkRegistryFiles for TLC. *)
EXTENDS RecordWorkRegistryFiles, TLC

\* The third caller was registered with another token.
MCTokenOf == ("p1" :> "tokenA") @@ ("p2" :> "tokenA") @@ ("p3" :> "tokenB")

=============================================================================
