----------------------------- MODULE MCBoxSession -----------------------------
(* An instance of BoxSession for TLC: its constants are in the cfg, and which *)
(* study is which does not matter.                                            *)
EXTENDS BoxSession, TLC

MCStudies == Permutations(Study)

=============================================================================
