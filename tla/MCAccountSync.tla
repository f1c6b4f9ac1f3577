--------------------------- MODULE MCAccountSync ----------------------------
(* Instances of AccountSync for TLC. *)
EXTENDS AccountSync, TLC

JobSymmetry == Permutations(Job)

=============================================================================
