------------------------- MODULE MCReportAnalysis --------------------------
(* Small instances of ReportAnalysis.  The .cfg files choose the actors and *)
(* the endpoints in use; threads and workers are interchangeable.           *)
EXTENDS ReportAnalysis, TLC

Threads == Permutations(Handlers) \cup Permutations(Workers)
=============================================================================
