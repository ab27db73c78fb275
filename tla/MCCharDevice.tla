---------------------------- MODULE MCCharDevice ----------------------------
(***************************************************************************)
(* CharDevice for TLC: tasks are interchangeable, and no property names    *)
(* one.                                                                    *)
(***************************************************************************)
EXTENDS CharDevice, TLC

Symmetry == Permutations(Users)

=============================================================================
