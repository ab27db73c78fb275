---------------------------- MODULE MCSyncParams ----------------------------
(***************************************************************************)
(* SyncParams for TLC: two users, two kthreads.                            *)
(***************************************************************************)
EXTENDS SyncParams, TLC

Symmetry == Permutations(Tasks) \union Permutations(Users)

=============================================================================
