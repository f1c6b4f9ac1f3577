--------------------------- MODULE MCWatchRenewal ---------------------------
(* Instances of WatchRenewal for TLC. *)
EXTENDS WatchRenewal, TLC

UserSymmetry == Permutations(User)

=============================================================================
