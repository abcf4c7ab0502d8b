---------------------------- MODULE MCReplication ----------------------------
(***************************************************************************)
(* Replication between a server and a few clients.  Clients and the        *)
(* processes of a client are interchangeable.                              *)
(***************************************************************************)
EXTENDS Replication, TLC

Symmetry == Permutations(Client) \cup Permutations(Slot)
=============================================================================
