----------------------------- MODULE MCVspApi ------------------------------
(* Instances of VspApi for TLC. *)
EXTENDS VspApi
=============================================================================
