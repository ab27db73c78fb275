----------------------------- MODULE MCSyncTest -----------------------------
(***************************************************************************)
(* SyncTest for TLC: one kthread more than a run may use, so that a worker *)
(* of an earlier run can linger while the next run has all of its own.     *)
(***************************************************************************)
EXTENDS SyncTest, TLC

Symmetry == Permutations(Tasks)

=============================================================================
