-------------------------- MODULE MCSeriesWorkflow --------------------------
(* Small instances of SeriesWorkflow for TLC. *)
EXTENDS SeriesWorkflow, TLC

PatchSymmetry == Permutations(Exportable \ EditsOverlay)
=============================================================================
