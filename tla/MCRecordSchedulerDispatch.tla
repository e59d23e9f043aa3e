----------------------- MODULE MCRecordSchedulerDispatch -----------------------
(* RecordSchedulerDispatch on a small instance. *)
EXTENDS RecordSchedulerDispatch, TLC

UnitSymmetry == Permutations(Units)
==============================================================================
