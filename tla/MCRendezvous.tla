---------------------------- MODULE MCRendezvous ----------------------------
(***************************************************************************)
(* Rendezvous with three clients: one that hosts, one that takes over, one *)
(* that comes between; a record lives for two ticks.                       *)
(***************************************************************************)
EXTENDS Rendezvous
=============================================================================
