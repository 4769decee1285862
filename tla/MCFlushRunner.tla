--------------------------- MODULE MCFlushRunner ---------------------------
(* Instances of FlushRunner for TLC. *)
EXTENDS FlushRunner
=============================================================================
