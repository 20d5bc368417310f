----------------------------- MODULE MCProgress -----------------------------
(* One task that reports from two goroutines, for TLC. *)
EXTENDS Progress, TLC

CONSTANTS t1, r1, r2

ReporterSymmetry == Permutations(Reporter)
=============================================================================
