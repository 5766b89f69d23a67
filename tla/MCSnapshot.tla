----------------------------- MODULE MCSnapshot -----------------------------
(* Small instances of Snapshot for TLC. *)
EXTENDS Snapshot, TLC

RequestSymmetry == Permutations(Request)
=============================================================================
