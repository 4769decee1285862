--------------------------- MODULE MCReplication ---------------------------
(* Instances of Replication for TLC. *)
EXTENDS Replication, TLC
=============================================================================
