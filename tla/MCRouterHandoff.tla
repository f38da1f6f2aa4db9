--------------------------- MODULE MCRouterHandoff ---------------------------
(***************************************************************************)
(* The instances are given in the .cfg files: one session in one world.    *)
(***************************************************************************)
EXTENDS RouterHandoff
=============================================================================
