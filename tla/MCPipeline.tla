----------------------------- MODULE MCPipeline -----------------------------
(* The pipeline over small ranges: two overlapping ranges, as two runs that  *)
(* resolve different chain tips select.                                      *)
EXTENDS Pipeline, TLC

CONSTANTS f1, f2, a1, a2, First, Second

MCRanges == {First, Second}

\* Workers of a kind are interchangeable (safety runs only).
WorkerSymmetry == Permutations(Fetchers) \cup Permutations(Analysers)
=============================================================================
