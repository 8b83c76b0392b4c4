---------------------------- MODULE MCDurability ----------------------------
(* Durability with one retransmitted command. *)
EXTENDS Durability, TLC
=============================================================================
