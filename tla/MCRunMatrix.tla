---------------------------- MODULE MCRunMatrix -----------------------------
(* Instances of RunMatrix for TLC: three frameworks, the first of which    *)
(* needs no installation and the second of which has no case; the first    *)
(* case of a framework opted in to throughput.                             *)
EXTENDS RunMatrix

TwoNoneTwo == <<2, 0, 2>>
LaterOnes == 2..Frameworks

BothModes ==
  [c \in Cell |-> IF c[2] = 1 THEN Mode ELSE {"single_e2e"}]

=============================================================================
