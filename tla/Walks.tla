------------------------------- MODULE Walks -------------------------------
(* What one walk along a sequence computes. The walks are functions of how *)
(* far they have come, as the community modules' FoldLeft and SelectSeq    *)
(* with an operator for the test cannot be reasoned about.                 *)
EXTENDS Integers, Sequences

\* The elements of s that are in S, in the order they have in s.
Kept(s, S) ==
    LET kept[i \in 0..Len(s)] ==
            IF i = 0 THEN <<>>
            ELSE IF s[i] \in S THEN Append(kept[i - 1], s[i]) ELSE kept[i - 1]
    IN  kept[Len(s)]

\* The sum of the numbers of xs.
Total(xs) ==
    LET sum[i \in 0..Len(xs)] == IF i = 0 THEN 0 ELSE sum[i - 1] + xs[i]
    IN  sum[Len(xs)]
=============================================================================
