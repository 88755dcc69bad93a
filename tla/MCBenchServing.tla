--------------------------- MODULE MCBenchServing ---------------------------
(* Instances of BenchServing for TLC.                                      *)
EXTENDS BenchServing

=============================================================================
