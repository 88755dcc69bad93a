---------------------------- MODULE MCCellServer ----------------------------
(* Instances of CellServer for TLC: sglang's cells first, as in            *)
(* FRAMEWORK_ORDER, and one of another framework after them.               *)
EXTENDS CellServer

SglangFirst == 1..(Last - 1)

=============================================================================
