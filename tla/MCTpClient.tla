---------------------------- MODULE MCTpClient -----------------------------
(* Instances of TpClient for TLC. *)
EXTENDS TpClient

MCPrograms == AllPrograms
MCUds == {"uds"}
=============================================================================
