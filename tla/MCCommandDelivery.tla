-------------------------- MODULE MCCommandDelivery --------------------------
(***************************************************************************)
(* Two NPCs, two sockets, two triggers and a memory of one command id.     *)
(***************************************************************************)
EXTENDS CommandDelivery, TLC

CONSTANTS n1, n2, k1, k2

DeliverySymmetry == Permutations(Npcs) \cup Permutations(Sockets)
=============================================================================
