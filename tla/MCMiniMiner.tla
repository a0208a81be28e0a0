----------------------------- MODULE MCMiniMiner -----------------------------
(* Instances of MiniMiner for TLC. *)
EXTENDS MiniMiner
=============================================================================
