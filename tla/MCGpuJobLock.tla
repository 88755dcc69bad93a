---------------------------- MODULE MCGpuJobLock ----------------------------
(* Instances of GpuJobLock for TLC: three jobs, one box or two.            *)
EXTENDS GpuJobLock

CONSTANTS j1, j2, j3, h1, h2

AllOnOneBox == [j \in Job |-> h1]
ThirdOnAnotherBox == [j \in Job |-> IF j = j3 THEN h2 ELSE h1]

\* Every job has a number of its own.
OwnPid == [j \in Job |-> j]

=============================================================================
