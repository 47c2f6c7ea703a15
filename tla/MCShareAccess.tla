---------------------------- MODULE MCShareAccess ----------------------------
(* ShareAccess on small instances. *)
EXTENDS ShareAccess, TLC
Clients == Permutations(Client)
===============================================================================
