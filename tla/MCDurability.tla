---------------------------- MODULE MCDurability ----------------------------
(* Model-checking instances of Durability.                                 *)
EXTENDS Durability, TLC

RecordSymmetry == Permutations(Records)
=============================================================================
