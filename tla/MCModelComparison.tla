------------------------- MODULE MCModelComparison -------------------------
(* Small instances of ModelComparison.  Models are interchangeable, and so *)
(* are workers, where no liveness property is checked.                     *)
EXTENDS ModelComparison, TLC

Interchangeable == Permutations(Models) \cup Permutations(Workers)
=============================================================================
