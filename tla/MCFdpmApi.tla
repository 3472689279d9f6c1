----------------------------- MODULE MCFdpmApi -----------------------------
(* Instances of FdpmApi for TLC. *)
EXTENDS FdpmApi, TLC

Symmetry ==
    Permutations(Handles) \cup Permutations(Jobs)
    \cup Permutations(Recs) \cup Permutations(Apps)
=============================================================================
