--------------------------- MODULE MCBiweeklyRun ----------------------------
(* An instance of BiweeklyRun for TLC: two runs.  On one day, one of them    *)
(* may have to send its launch again, and results have one chunk; on two     *)
(* days, no launch is lost, and results have one chunk or two.               *)
EXTENDS BiweeklyRun

CONSTANTS r1, r2

OneDay == [r \in Run |-> 1]
TwoDays == [r \in Run |-> IF r = r1 THEN 2 ELSE 3]

MCIds == {OneDay, TwoDays}

MCLossy == {<<r1, 1>>}

MCSizes == {<<1, 1>>} \cup ({2, 3} \X (1..2))

=============================================================================
