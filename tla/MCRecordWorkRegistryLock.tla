---------------------- MODULE MCRecordWorkRegistryLock ----------------------
\* Instances of RecordWorkRegistryLock for TLC.
EXTENDS RecordWorkRegistryLock

=============================================================================
