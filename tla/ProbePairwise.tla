---------------------------- MODULE ProbePairwise ----------------------------
(***************************************************************************)
(* How the matrix of the sglang probe is built: the search for pairwise    *)
(* cells, one cell per step, and then the phases with a fixed list.        *)
(* (sglang_probe/runner.py: build_pairwise_cells, build_matrix.)           *)
(*                                                                         *)
(* The search is greedy: of the first `window` candidates it takes the     *)
(* first that covers most of the pairs of values not covered yet.          *)
(***************************************************************************)
EXTENDS ProbeMatrix

CONSTANTS
  Orders,  (* the sequences of candidates a shuffle may leave              *)
  Windows, (* how many of them the search looks at (5000)                  *)
  Maxima   (* the values of max_pairwise_cells                             *)

ASSUME PairwiseAssumption ==
  /\ Windows \subseteq Nat \ {0} /\ Maxima \subseteq Nat
  /\ \A o \in Orders : o \in Seq(ToSet(o))

VARIABLES
  offered,   (* the candidates                                             *)
  window,
  maximum,
  selected,
  remaining,
  uncovered, (* the pairs of values that no selected cell has              *)
  fruitless, (* the last cell selected covered nothing new                 *)
  fixed      (* the cells of the other phases, once they are built         *)

searchInput == <<offered, window, maximum>>
searchVars  == <<searchInput, selected, remaining, uncovered, fruitless, fixed>>

SearchTypeOK ==
  /\ offered \in Orders /\ window \in Windows /\ maximum \in Maxima
  /\ selected \in Seq(ToSet(offered)) /\ remaining \in Seq(ToSet(offered))
  /\ ToSet(selected) \cup ToSet(remaining) = ToSet(offered)
  /\ uncovered \subseteq PairsOf(ToSet(offered))
  /\ fruitless \in BOOLEAN

SearchInit ==
  /\ offered \in Orders /\ window \in Windows /\ maximum \in Maxima
  /\ selected = <<>> /\ remaining = offered
  /\ uncovered = PairsOf(ToSet(offered))
  /\ fruitless = FALSE /\ fixed = {}

More == uncovered # {} /\ remaining # <<>> /\ Len(selected) < maximum /\ ~fruitless

New(c)   == PairKeys(c) \cap uncovered
Score(i) == Cardinality(New(remaining[i]))

\* The candidates the search looks at, and the first of the best among them.
Seen == {i \in DOMAIN remaining : i <= window}
IsBest(i) ==
  /\ i \in Seen
  /\ \A j \in Seen : Score(i) >= Score(j) /\ (j < i => Score(i) > Score(j))

\* Mutant of Pick: a cell that covers nothing new does not end the loop.
PickOn ==
  /\ More
  /\ \E i \in Seen :
       /\ IsBest(i)
       /\ selected' = Append(selected, remaining[i])
       /\ remaining' = RemoveAt(remaining, i)
       /\ uncovered' = uncovered \ PairKeys(remaining[i])
  /\ UNCHANGED <<searchInput, fruitless, fixed>>

\* Mutant of Pick: a cell that covers a single new pair ends the loop.
PickEnough ==
  /\ More
  /\ \E i \in Seen :
       /\ IsBest(i)
       /\ selected' = Append(selected, remaining[i])
       /\ remaining' = RemoveAt(remaining, i)
       /\ uncovered' = uncovered \ PairKeys(remaining[i])
       /\ fruitless' = (Score(i) <= 1)
  /\ UNCHANGED <<searchInput, fixed>>

\* One round of the loop.  A cell that covers nothing new is still taken, and
\* ends it.
Pick ==
  /\ More
  /\ \E i \in Seen :
       /\ IsBest(i)
       /\ selected' = Append(selected, remaining[i])
       /\ remaining' = RemoveAt(remaining, i)
       /\ uncovered' = uncovered \ PairKeys(remaining[i])
       /\ fruitless' = (Score(i) = 0)
  /\ UNCHANGED <<searchInput, fixed>>

FixedCells == SmokeCells(Catalog) \cup TargetedCells \cup StressCells

\* The other phases.
Fix ==
  /\ ~More /\ fixed = {}
  /\ fixed' = FixedCells
  /\ UNCHANGED <<searchInput, selected, remaining, uncovered, fruitless>>

SearchNext == Pick \/ Fix

SearchSpec == SearchInit /\ [][SearchNext]_searchVars

-----------------------------------------------------------------------------
(* Properties.                                                             *)

\* A search that ends with room for more cells has covered every pair of the
\* candidates it looked at last: a pair that is left behind is in none but those
\* beyond the window.  A round that finds nothing new in the window ends the
\* search, and what the candidates behind it have to add is never looked at.
UncoveredIsUnseen ==
  ~More /\ Len(selected) # maximum =>
    \A i \in DOMAIN remaining :
      i < window => PairKeys(remaining[i]) \subseteq PairsOf(ToSet(selected))

\* What a reader may take it to promise: every pair is covered that any candidate
\* has, unless the search has taken as many cells as it may.  TLC refutes it for
\* windows smaller than the list.
CoversOrCapped ==
  ~More =>
    \/ PairsOf(ToSet(selected)) = PairsOf(ToSet(offered))
    \/ Len(selected) = maximum

\* Every cell taken covers a pair that no cell before it does, except perhaps the
\* last: the budget of GPU time is not spent on cells that add nothing.
EachAddsAPair ==
  \A i \in 1 .. Len(selected) - 1 :
    \E p \in PairKeys(selected[i]) : \A j \in 1 .. i - 1 : p \notin PairKeys(selected[j])

\* No case of the targeted list is dropped by the filter that is there for the
\* product of all values (`if compatible(...)` says nothing when it drops one), and
\* every model is smoke tested in every family it supports.
NothingDropped ==
  fixed # {} =>
    /\ TargetedSpecs \subseteq fixed
    /\ \A m \in Catalog, f \in Families : Supports(m, f) =>
         \E c \in fixed : c.model = m /\ c.family = f /\ c.entrypoint \notin Offline

=============================================================================
