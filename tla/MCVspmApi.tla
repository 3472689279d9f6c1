----------------------------- MODULE MCVspmApi -----------------------------
(* Instances of VspmApi for TLC. *)
EXTENDS VspmApi, TLC

Symmetry == Permutations(Handles) \cup Permutations(Jobs)

=============================================================================
