----------------------------- MODULE Probe_proofs -----------------------------
(***************************************************************************)
(* What holds of the sglang probe for any candidates in any order, any     *)
(* matrices of distinct cells and any number of invocations: the greedy    *)
(* search, the fixed lists, and the invocations of one output directory.   *)
(***************************************************************************)
EXTENDS Probe, FiniteSetTheorems, SequenceTheorems, TLAPS

-----------------------------------------------------------------------------
(* The pairs of a cell.                                                    *)

LEMMA AxesFinite == IsFiniteSet(Axes)
<1>. DEFINE A1 == {} \cup {"model"}
            A2 == A1 \cup {"entrypoint"}
            A3 == A2 \cup {"args"}
            A4 == A3 \cup {"env"}
            A5 == A4 \cup {"family"}
<1>1. IsFiniteSet(A1)  BY FS_EmptySet, FS_AddElement
<1>2. IsFiniteSet(A2)  BY <1>1, FS_AddElement
<1>3. IsFiniteSet(A3)  BY <1>2, FS_AddElement
<1>4. IsFiniteSet(A4)  BY <1>3, FS_AddElement
<1>5. IsFiniteSet(A5)  BY <1>4, FS_AddElement
<1>6. IsFiniteSet(A5 \cup {"stress"})  BY <1>5, FS_AddElement
<1>7. Axes = A5 \cup {"stress"}  BY DEF Axes
<1>. QED  BY <1>6, <1>7

LEMMA PairKeysFinite == ASSUME NEW c PROVE IsFiniteSet(PairKeys(c))
<1>. DEFINE D == {y \in Axes \X Axes : y[1] # y[2]}
            f == [x \in D |-> {<<x[1], Value(c, x[1])>>, <<x[2], Value(c, x[2])>>}]
<1>1. IsFiniteSet(Axes \X Axes)
  BY AxesFinite, FS_Product
<1>2. D \in SUBSET (Axes \X Axes)
  OBVIOUS
<1>3. IsFiniteSet(D)
  BY <1>1, <1>2, FS_Subset
<1>4. f \in Surjection(D, PairKeys(c))
  BY DEF Surjection, PairKeys
<1>. QED
  BY <1>3, <1>4, FS_Surjection

\* What is new about a candidate is nothing exactly when its score is 0.
LEMMA ScoreZero ==
  ASSUME NEW i
  PROVE  /\ Score(i) \in Nat
         /\ Score(i) = 0 <=> New(remaining[i]) = {}
<1>1. IsFiniteSet(New(remaining[i]))
  BY PairKeysFinite, FS_Subset DEF New
<1>. QED
  BY <1>1, FS_EmptySet, FS_CardinalityType DEF Score

LEMMA PairsOfUnion ==
  ASSUME NEW S, NEW T PROVE PairsOf(S \cup T) = PairsOf(S) \cup PairsOf(T)
BY DEF PairsOf

-----------------------------------------------------------------------------
(* Sequences.                                                              *)

LEMMA AppendElements ==
  ASSUME NEW S, NEW s \in Seq(S), NEW e \in S
  PROVE  /\ Append(s, e) \in Seq(S)
         /\ Len(Append(s, e)) = Len(s) + 1
         /\ ToSet(Append(s, e)) = ToSet(s) \cup {e}
<1>. DEFINE t == Append(s, e)
<1>1. t \in Seq(S) /\ Len(t) = Len(s) + 1 /\ DOMAIN t = 1 .. Len(s) + 1
  OBVIOUS
<1>2. \A i \in 1 .. Len(s) : t[i] = s[i]
  OBVIOUS
<1>3. t[Len(s) + 1] = e
  OBVIOUS
<1>4. DOMAIN s = 1 .. Len(s) /\ Len(s) \in Nat
  OBVIOUS
<1>5. ToSet(t) \subseteq ToSet(s) \cup {e}
  BY <1>1, <1>2, <1>3, <1>4 DEF ToSet
<1>6. ToSet(s) \cup {e} \subseteq ToSet(t)
  BY <1>1, <1>2, <1>3, <1>4 DEF ToSet
<1>. QED
  BY <1>1, <1>5, <1>6

LEMMA RemoveElements ==
  ASSUME NEW S, NEW s \in Seq(S), NEW i \in DOMAIN s
  PROVE  /\ RemoveAt(s, i) \in Seq(S)
         /\ Len(RemoveAt(s, i)) = Len(s) - 1
         /\ ToSet(RemoveAt(s, i)) \cup {s[i]} = ToSet(s)
         /\ \A j \in 1 .. Len(s) - 1 :
              RemoveAt(s, i)[j] = IF j < i THEN s[j] ELSE s[j + 1]
<1>. DEFINE a == SubSeq(s, 1, i - 1)
            b == SubSeq(s, i + 1, Len(s))
            t == a \o b
<1>0. Len(s) \in Nat /\ DOMAIN s = 1 .. Len(s) /\ i \in 1 .. Len(s)
  OBVIOUS
<1>9. \A j \in 1 .. Len(s) : s[j] \in S
  BY <1>0
<1>1. a \in Seq(S) /\ Len(a) = i - 1 /\ \A j \in 1 .. i - 1 : a[j] = s[j]
  <2>1. \A j \in 1 .. i - 1 : s[j] \in S
    BY <1>0, <1>9
  <2>2. /\ a \in Seq(S)
        /\ Len(a) = IF 1 <= i - 1 THEN (i - 1) - 1 + 1 ELSE 0
        /\ \A j \in 1 .. (i - 1) - 1 + 1 : a[j] = s[1 + j - 1]
    BY <2>1, <1>0, SubSeqProperties
  <2>. QED
    BY <2>2, <1>0
<1>2. b \in Seq(S) /\ Len(b) = Len(s) - i /\ \A j \in 1 .. Len(s) - i : b[j] = s[i + j]
  <2>1. \A j \in i + 1 .. Len(s) : s[j] \in S
    BY <1>0, <1>9
  <2>2. /\ b \in Seq(S)
        /\ Len(b) = IF i + 1 <= Len(s) THEN Len(s) - (i + 1) + 1 ELSE 0
        /\ \A j \in 1 .. Len(s) - (i + 1) + 1 : b[j] = s[(i + 1) + j - 1]
    BY <2>1, <1>0, SubSeqProperties
  <2>. HIDE DEF b
  <2>3. Len(b) = Len(s) - i
    BY <2>2, <1>0
  <2>4. ASSUME NEW j \in 1 .. Len(s) - i PROVE b[j] = s[i + j]
    <3>1. j \in 1 .. Len(s) - (i + 1) + 1 /\ (i + 1) + j - 1 = i + j
      BY <1>0
    <3>. QED
      BY <2>2, <3>1
  <2>. QED
    BY <2>2, <2>3, <2>4
<1>3. /\ t \in Seq(S) /\ Len(t) = Len(a) + Len(b)
      /\ \A j \in 1 .. Len(a) + Len(b) : t[j] = IF j <= Len(a) THEN a[j] ELSE b[j - Len(a)]
  BY <1>1, <1>2, ConcatProperties
<1>4. Len(t) = Len(s) - 1 /\ \A j \in 1 .. Len(s) - 1 : t[j] = IF j < i THEN s[j] ELSE s[j + 1]
  <2>. HIDE DEF a, b, t
  <2>1. Len(a) + Len(b) = Len(s) - 1
    BY <1>0, <1>1, <1>2
  <2>2. ASSUME NEW j \in 1 .. Len(s) - 1
        PROVE  t[j] = IF j < i THEN s[j] ELSE s[j + 1]
    <3>1. t[j] = IF j <= Len(a) THEN a[j] ELSE b[j - Len(a)]
      BY <1>3, <2>1
    <3>2. CASE j < i
      BY <1>0, <1>1, <3>1, <3>2
    <3>3. CASE ~(j < i)
      <4>1. /\ ~(j <= Len(a)) /\ j - Len(a) \in 1 .. Len(s) - i
            /\ i + (j - Len(a)) = j + 1
        BY <1>0, <1>1, <3>3
      <4>. QED
        BY <1>2, <3>1, <3>3, <4>1
    <3>. QED
      BY <3>2, <3>3
  <2>. QED
    BY <1>3, <2>1, <2>2
<1>7. t = RemoveAt(s, i)
  BY DEF RemoveAt
<1>8. DOMAIN t = 1 .. Len(s) - 1
  BY <1>3, <1>4
<1>. HIDE DEF t
<1>5. ToSet(t) \subseteq ToSet(s)
  <2>1. ASSUME NEW j \in 1 .. Len(s) - 1 PROVE t[j] \in ToSet(s)
    <3>1. j \in DOMAIN s /\ j + 1 \in DOMAIN s
      BY <1>0
    <3>2. t[j] = IF j < i THEN s[j] ELSE s[j + 1]
      BY <1>4
    <3>. QED
      BY <3>1, <3>2 DEF ToSet
  <2>. QED
    BY <1>8, <2>1 DEF ToSet
<1>6. ASSUME NEW k \in DOMAIN s, k # i PROVE s[k] \in ToSet(t)
  <2>1. CASE k < i
    <3>1. k \in 1 .. Len(s) - 1
      BY <1>0, <2>1
    <3>2. t[k] = s[k]
      BY <1>4, <3>1, <2>1
    <3>. QED
      BY <1>8, <3>1, <3>2 DEF ToSet
  <2>2. CASE k > i
    <3>1. k - 1 \in 1 .. Len(s) - 1 /\ ~(k - 1 < i) /\ (k - 1) + 1 = k
      BY <1>0, <2>2
    <3>2. t[k - 1] = s[k]
      BY <1>4, <3>1
    <3>. QED
      BY <1>8, <3>1, <3>2 DEF ToSet
  <2>. QED
    BY <1>0, <1>6, <2>1, <2>2
<1>10. ToSet(t) \cup {s[i]} = ToSet(s)
  BY <1>5, <1>6 DEF ToSet
<1>. QED
  BY <1>3, <1>4, <1>7, <1>10

-----------------------------------------------------------------------------
(* The search.                                                             *)

\* What is left to cover is what no selected cell has, and after a fruitless choice
\* nothing is new about the candidates that it was made from.
PairwiseInv ==
  /\ SearchTypeOK
  /\ Len(selected) + Len(remaining) = Len(offered)
  /\ Len(selected) <= maximum
  /\ uncovered = PairsOf(ToSet(offered)) \ PairsOf(ToSet(selected))
  /\ fruitless => \A i \in DOMAIN remaining : i < window => New(remaining[i]) = {}

LEMMA PairwiseInit == SearchInit => PairwiseInv
<1>. SUFFICES ASSUME SearchInit PROVE PairwiseInv
  OBVIOUS
<1>. USE DEF SearchInit
<1>1. offered \in Seq(ToSet(offered)) /\ maximum \in Nat
  BY PairwiseAssumption
<1>2. selected \in Seq(ToSet(offered)) /\ Len(selected) = 0 /\ ToSet(selected) = {}
  BY DEF ToSet
<1>3. SearchTypeOK
  BY <1>1, <1>2 DEF SearchTypeOK
<1>4. Len(selected) + Len(remaining) = Len(offered) /\ Len(selected) <= maximum
  BY <1>1, <1>2
<1>5. PairsOf(ToSet(selected)) = {}
  BY <1>2 DEF PairsOf
<1>. QED
  BY <1>3, <1>4, <1>5 DEF PairwiseInv

LEMMA PickStep == PairwiseInv /\ Pick => PairwiseInv'
<1>. SUFFICES ASSUME PairwiseInv, Pick PROVE PairwiseInv'
  OBVIOUS
<1>1. PICK i \in Seen :
        /\ IsBest(i)
        /\ selected' = Append(selected, remaining[i])
        /\ remaining' = RemoveAt(remaining, i)
        /\ uncovered' = uncovered \ PairKeys(remaining[i])
        /\ fruitless' = (Score(i) = 0)
  BY DEF Pick
<1>. DEFINE c == remaining[i]
            all == ToSet(offered)
<1>2. /\ i \in DOMAIN remaining /\ remaining \in Seq(all) /\ selected \in Seq(all)
      /\ offered \in Seq(all) /\ maximum \in Nat /\ window \in Nat
      /\ offered' = offered /\ window' = window /\ maximum' = maximum
  BY PairwiseAssumption DEF PairwiseInv, SearchTypeOK, Seen, Pick, searchInput
<1>3. c \in all
  BY <1>2
<1>4. /\ selected' \in Seq(all) /\ Len(selected') = Len(selected) + 1
      /\ ToSet(selected') = ToSet(selected) \cup {c}
  BY <1>1, <1>2, <1>3, AppendElements
<1>5. /\ remaining' \in Seq(all) /\ Len(remaining') = Len(remaining) - 1
      /\ ToSet(remaining') \cup {c} = ToSet(remaining)
  BY <1>1, <1>2, RemoveElements
<1>6. Len(selected) \in Nat /\ Len(remaining) \in Nat /\ Len(offered) \in Nat
      /\ DOMAIN remaining = 1 .. Len(remaining)
  BY <1>2
<1>7. ToSet(selected') \cup ToSet(remaining') = all
  BY <1>4, <1>5 DEF PairwiseInv, SearchTypeOK
<1>8. fruitless' \in BOOLEAN
  BY <1>1
<1>9. PairsOf(ToSet(selected')) = PairsOf(ToSet(selected)) \cup PairKeys(c)
  BY <1>4 DEF PairsOf
<1>10. uncovered' = PairsOf(all) \ PairsOf(ToSet(selected'))
  BY <1>1, <1>9 DEF PairwiseInv
<1>11. SearchTypeOK'
  BY <1>2, <1>4, <1>5, <1>7, <1>8, <1>10 DEF SearchTypeOK, PairwiseInv
<1>12. (Len(selected) + Len(remaining) = Len(offered) /\ Len(selected) <= maximum)'
  <2>1. Len(selected) < maximum
    BY DEF Pick, More
  <2>2. Len(selected') = Len(selected) + 1 /\ Len(remaining') = Len(remaining) - 1
    BY <1>4, <1>5
  <2>3. Len(selected) + Len(remaining) = Len(offered)
    BY DEF PairwiseInv
  <2>4. Len(selected') + Len(remaining') = Len(offered)
    BY <1>6, <2>2, <2>3
  <2>5. Len(selected') <= maximum
    BY <1>2, <1>6, <2>1, <2>2
  <2>. QED
    BY <1>2, <2>4, <2>5
<1>13. ASSUME Score(i) = 0, NEW j \in DOMAIN remaining', j < window
       PROVE  PairKeys(remaining'[j]) \cap uncovered' = {}
  <2>1. \A k \in Seen : New(remaining[k]) = {}
    <3>1. \A k \in Seen : Score(i) >= Score(k)
      BY <1>1 DEF IsBest
    <3>. QED
      BY <3>1, <1>13, ScoreZero
  <2>2. j \in 1 .. Len(remaining) - 1
    BY <1>5, <1>6
  <2>3. remaining'[j] = IF j < i THEN remaining[j] ELSE remaining[j + 1]
    BY <1>1, <1>2, <2>2, RemoveElements
  <2>4. PICK k \in Seen : remaining'[j] = remaining[k]
    <3>1. CASE j < i
      BY <1>2, <1>6, <1>13, <2>2, <2>3, <3>1 DEF Seen
    <3>2. CASE ~(j < i)
      <4>1. j + 1 \in Seen
        BY <1>2, <1>6, <1>13, <2>2 DEF Seen
      <4>. QED
        BY <2>3, <3>2, <4>1
    <3>. QED
      BY <3>1, <3>2
  <2>5. PairKeys(remaining[k]) \cap uncovered = {}
    BY <2>1 DEF New
  <2>. QED
    BY <1>1, <2>4, <2>5
<1>14. (fruitless => \A j \in DOMAIN remaining : j < window => New(remaining[j]) = {})'
  <2>1. ASSUME fruitless' PROVE Score(i) = 0
    BY <1>1, <2>1
  <2>. QED
    BY <1>2, <1>13, <2>1 DEF New
<1>. QED
  BY <1>2, <1>10, <1>11, <1>12, <1>14 DEF PairwiseInv

LEMMA PairwiseStep == PairwiseInv /\ [SearchNext]_searchVars => PairwiseInv'
<1>. SUFFICES ASSUME PairwiseInv, [SearchNext]_searchVars PROVE PairwiseInv'
  OBVIOUS
<1>1. CASE Pick
  BY <1>1, PickStep
<1>2. CASE Fix
  BY <1>2 DEF Fix, searchInput, PairwiseInv, SearchTypeOK, New
<1>3. CASE UNCHANGED searchVars
  BY <1>3 DEF searchVars, searchInput, PairwiseInv, SearchTypeOK, New
<1>. QED
  BY <1>1, <1>2, <1>3 DEF SearchNext

LEMMA PairwiseInvariant == SearchSpec => []PairwiseInv
BY PairwiseInit, PairwiseStep, PTL DEF SearchSpec

\* The search takes each candidate at most once and keeps those it has not taken:
\* build_pairwise_cells, for every order of any number of candidates.
THEOREM PairwiseTypes == SearchSpec => []SearchTypeOK
<1>1. PairwiseInv => SearchTypeOK
  BY DEF PairwiseInv
<1>. QED
  BY <1>1, PairwiseInvariant, PTL

LEMMA CoversAtEnd == PairwiseInv => UncoveredIsUnseen
<1>. SUFFICES ASSUME PairwiseInv, ~More, Len(selected) # maximum,
                     NEW i \in DOMAIN remaining, i < window
              PROVE  PairKeys(remaining[i]) \subseteq PairsOf(ToSet(selected))
  BY DEF UncoveredIsUnseen
<1>1. remaining[i] \in ToSet(offered)
  BY DEF PairwiseInv, SearchTypeOK, ToSet
<1>2. PairKeys(remaining[i]) \subseteq PairsOf(ToSet(offered))
  BY <1>1 DEF PairsOf
<1>3. Len(selected) < maximum
  <2>1. selected \in Seq(ToSet(offered)) /\ maximum \in Nat
    BY PairwiseAssumption DEF PairwiseInv, SearchTypeOK
  <2>. QED
    BY <2>1 DEF PairwiseInv
<1>4. remaining # <<>>
  OBVIOUS
<1>5. PairKeys(remaining[i]) \cap uncovered = {}
  <2>1. CASE uncovered = {}
    BY <2>1
  <2>2. CASE fruitless
    BY <2>2 DEF PairwiseInv, New
  <2>. QED
    BY <1>3, <1>4, <2>1, <2>2 DEF More
<1>. QED
  BY <1>2, <1>5 DEF PairwiseInv

-----------------------------------------------------------------------------
(* What each cell adds.                                                    *)

Adds(s, i) ==
  \E p \in PairKeys(s[i]) : \A j \in 1 .. i - 1 : p \notin PairKeys(s[j])

\* Every cell adds a pair, but for the last one if it was the fruitless choice.
AddsInv ==
  /\ EachAddsAPair
  /\ ~fruitless => \A i \in 1 .. Len(selected) : Adds(selected, i)

LEMMA AddsStep == PairwiseInv /\ AddsInv /\ Pick => AddsInv'
<1>. SUFFICES ASSUME PairwiseInv, AddsInv, Pick PROVE AddsInv'
  OBVIOUS
<1>1. PICK i \in Seen :
        /\ selected' = Append(selected, remaining[i])
        /\ fruitless' = (Score(i) = 0)
  BY DEF Pick
<1>. DEFINE taken == Len(selected)
            c == remaining[i]
<1>2. selected \in Seq(ToSet(offered)) /\ c \in ToSet(offered)
  <2>1. remaining \in Seq(ToSet(offered)) /\ i \in DOMAIN remaining
    BY DEF PairwiseInv, SearchTypeOK, Seen
  <2>. QED
    BY <2>1 DEF PairwiseInv, SearchTypeOK
<1>3. /\ taken \in Nat /\ Len(selected') = taken + 1
      /\ \A k \in 1 .. taken : selected'[k] = selected[k]
      /\ selected'[taken + 1] = c
  BY <1>1, <1>2
<1>4. \A k \in 1 .. taken : Adds(selected, k)
  BY DEF AddsInv, Pick, More
<1>5. \A k \in 1 .. taken : Adds(selected', k)
  <2>1. ASSUME NEW k \in 1 .. taken PROVE Adds(selected', k)
    <3>1. PICK p \in PairKeys(selected[k]) :
            \A j \in 1 .. k - 1 : p \notin PairKeys(selected[j])
      BY <1>4 DEF Adds
    <3>2. \A j \in 1 .. k - 1 : j \in 1 .. taken
      BY <1>3
    <3>3. selected'[k] = selected[k] /\ \A j \in 1 .. k - 1 : selected'[j] = selected[j]
      BY <1>3, <3>2
    <3>. QED
      BY <3>1, <3>3 DEF Adds
  <2>. QED
    BY <2>1
<1>6. ASSUME Score(i) # 0 PROVE Adds(selected', taken + 1)
  <2>1. PICK p \in New(c) : TRUE
    BY <1>6, ScoreZero
  <2>2. p \in PairKeys(c) /\ p \in uncovered
    BY <2>1 DEF New
  <2>3. p \notin PairsOf(ToSet(selected))
    BY <2>2 DEF PairwiseInv
  <2>4. \A j \in 1 .. taken : selected[j] \in ToSet(selected)
    BY <1>2 DEF ToSet
  <2>5. \A j \in 1 .. taken : p \notin PairKeys(selected[j])
    BY <2>3, <2>4 DEF PairsOf
  <2>6. 1 .. (taken + 1) - 1 = 1 .. taken
    BY <1>3
  <2>7. \A j \in 1 .. (taken + 1) - 1 : p \notin PairKeys(selected'[j])
    BY <1>3, <2>5, <2>6
  <2>. QED
    BY <1>3, <2>2, <2>7 DEF Adds
<1>7. EachAddsAPair'
  <2>1. 1 .. Len(selected') - 1 = 1 .. taken
    BY <1>3
  <2>. QED
    BY <1>5, <2>1 DEF EachAddsAPair, Adds
<1>8. (~fruitless => \A k \in 1 .. Len(selected) : Adds(selected, k))'
  <2>. SUFFICES ASSUME ~fruitless', NEW k \in 1 .. Len(selected') PROVE Adds(selected', k)
    OBVIOUS
  <2>1. k \in 1 .. taken \/ k = taken + 1
    BY <1>3
  <2>. QED
    BY <1>1, <1>5, <1>6, <2>1
<1>. QED
  BY <1>7, <1>8 DEF AddsInv

LEMMA AddsInductive ==
  PairwiseInv /\ AddsInv /\ [SearchNext]_searchVars => AddsInv'
<1>. SUFFICES ASSUME PairwiseInv, AddsInv, [SearchNext]_searchVars PROVE AddsInv'
  OBVIOUS
<1>1. CASE Pick
  BY <1>1, AddsStep
<1>2. CASE UNCHANGED <<selected, fruitless>>
  BY <1>2 DEF AddsInv, Adds, EachAddsAPair
<1>. QED
  BY <1>1, <1>2 DEF SearchNext, Fix, searchVars

LEMMA AddsInit == SearchInit => AddsInv
<1>. SUFFICES ASSUME SearchInit PROVE AddsInv
  OBVIOUS
<1>1. Len(selected) = 0
  BY DEF SearchInit
<1>2. 1 .. Len(selected) = {} /\ 1 .. Len(selected) - 1 = {}
  BY <1>1
<1>. QED
  BY <1>2 DEF AddsInv, EachAddsAPair

-----------------------------------------------------------------------------
(* The lists that are fixed.                                               *)

\* No two models of the catalogue have the same id: those that are asked for by it.
LEMMA ModelsById ==
  /\ ById("zimage_t2i") = Model("zimage_t2i", "image", "T2I", 1, {}, {"static", "second"})
  /\ ById("wan21_t2v_1_3b") = Model("wan21_t2v_1_3b", "video", "T2V", 1, {"diffusers_ok"}, {"dynamic"})
  /\ ById("qwen_image_t2i") = Model("qwen_image_t2i", "image", "T2I", 1, {"diffusers_ok"}, {})
  /\ ById("wan22_i2v_a14b") = Model("wan22_i2v_a14b", "video", "I2V", 2, Edit \cup {"dual_dit"}, {})
  /\ ById("wan22_ti2v_5b") = Model("wan22_ti2v_5b", "video", "TI2V", 1, Edit, {})
  /\ ById("hunyuan3d_shape") = Model("hunyuan3d_shape", "3d", "I2M", 1, Edit, {})
  /\ ById("flux2_t2i") = Model("flux2_t2i", "image", "T2I", 1, {"diffusers_ok"}, {})
  /\ ById("lingbot_world_realtime") =
       Model("lingbot_world_realtime", "video", "REALTIME", 1, Edit \cup {"realtime"}, {})
<1>1. ASSUME NEW id, NEW m \in Catalog, m.id = id,
             \A x \in Catalog : x.id = id => x = m
      PROVE  ById(id) = m
  BY <1>1 DEF ById
<1>. HIDE DEF ById
<1>2. ById("zimage_t2i") = Model("zimage_t2i", "image", "T2I", 1, {}, {"static", "second"})
  BY <1>1 DEF Catalog, ImageModels, VideoModels, OtherModels, Model
<1>3. ById("wan21_t2v_1_3b") = Model("wan21_t2v_1_3b", "video", "T2V", 1, {"diffusers_ok"}, {"dynamic"})
  BY <1>1 DEF Catalog, ImageModels, VideoModels, OtherModels, Model
<1>4. ById("qwen_image_t2i") = Model("qwen_image_t2i", "image", "T2I", 1, {"diffusers_ok"}, {})
  BY <1>1 DEF Catalog, ImageModels, VideoModels, OtherModels, Model
<1>5. ById("wan22_i2v_a14b") = Model("wan22_i2v_a14b", "video", "I2V", 2, Edit \cup {"dual_dit"}, {})
  BY <1>1 DEF Catalog, ImageModels, VideoModels, OtherModels, Model
<1>6. ById("wan22_ti2v_5b") = Model("wan22_ti2v_5b", "video", "TI2V", 1, Edit, {})
  BY <1>1 DEF Catalog, ImageModels, VideoModels, OtherModels, Model
<1>7. ById("hunyuan3d_shape") = Model("hunyuan3d_shape", "3d", "I2M", 1, Edit, {})
  BY <1>1 DEF Catalog, ImageModels, VideoModels, OtherModels, Model
<1>8. ById("flux2_t2i") = Model("flux2_t2i", "image", "T2I", 1, {"diffusers_ok"}, {})
  BY <1>1 DEF Catalog, ImageModels, VideoModels, OtherModels, Model
<1>9. ById("lingbot_world_realtime") =
        Model("lingbot_world_realtime", "video", "REALTIME", 1, Edit \cup {"realtime"}, {})
  BY <1>1 DEF Catalog, ImageModels, VideoModels, OtherModels, Model
<1>. QED
  BY <1>2, <1>3, <1>4, <1>5, <1>6, <1>7, <1>8, <1>9

\* The filter lets every targeted spec through.
LEMMA TargetedAll == TargetedSpecs \subseteq TargetedCells
<1>. DEFINE T(id, e, a, v, f, s) == Cell("targeted", ById(id), e, a, v, f, s)
            H(id, a, v, f) == T(id, "serve_raw_http", a, v, f, "stability")
<1>. USE ModelsById DEF Cell, Compatible, Supports, HasLora, Model, Edit, Offline
<1>1. Compatible(T("zimage_t2i", "python_lora", "lora_static", "baseline", "image_generation", "stability"))
  OBVIOUS
<1>2. Compatible(T("wan21_t2v_1_3b", "python_lora", "lora_dynamic", "baseline", "video_generation", "stability"))
  OBVIOUS
<1>3. Compatible(H("wan21_t2v_1_3b", "dit_layerwise_offload", "stage_logging", "video_generation"))
  OBVIOUS
<1>4. Compatible(H("qwen_image_t2i", "backend_sglang", "cache_dit_basic", "image_generation"))
  OBVIOUS
<1>5. Compatible(H("qwen_image_t2i", "backend_diffusers", "cache_dit_scm_fast", "image_generation"))
  OBVIOUS
<1>6. Compatible(H("wan22_i2v_a14b", "ulysses2", "cache_dit_secondary", "video_generation"))
  OBVIOUS
<1>7. Compatible(H("wan22_ti2v_5b", "ring2", "stage_logging", "video_generation"))
  OBVIOUS
<1>8. Compatible(H("wan21_t2v_1_3b", "batching_metrics", "stage_logging", "video_generation"))
  OBVIOUS
<1>9. Compatible(H("hunyuan3d_shape", "batching_metrics", "stage_logging", "mesh"))
  OBVIOUS
<1>10. Compatible(H("zimage_t2i", "disabled_io", "baseline", "image_generation"))
  OBVIOUS
<1>11. Compatible(H("flux2_t2i", "backend_diffusers", "baseline", "image_generation"))
  OBVIOUS
<1>12. Compatible(T("lingbot_world_realtime", "serve_raw_http", "baseline", "stage_logging", "realtime", "smoke"))
  OBVIOUS
<1>20. \A c \in TargetedSpecs : Compatible(c)
  <2>. HIDE DEF Cell, Compatible
  <2>. QED
    BY <1>1, <1>2, <1>3, <1>4, <1>5, <1>6, <1>7, <1>8, <1>9, <1>10, <1>11, <1>12, Zenon DEF TargetedSpecs
<1>. QED
  BY <1>20, Zenon DEF TargetedCells

\* Whatever a model supports is smoke tested over a server.
LEMMA SmokeAll ==
  ASSUME NEW m \in Catalog, NEW f \in Families, Supports(m, f)
  PROVE  \E c \in SmokeCells(Catalog) : c.model = m /\ c.family = f /\ c.entrypoint \notin Offline
<1>. DEFINE c == Cell("smoke", m, "serve_raw_http", "baseline", "baseline", f, "smoke")
<1>. DEFINE plain(mm, e, g) == Cell("smoke", mm, e, "baseline", "baseline", g, "smoke")
            of(mm, g) == IF g \in Generating
                         THEN {plain(mm, e, g) :
                                 e \in {"serve_raw_http", "serve_openai_sdk", "cli_generate"}}
                         ELSE {plain(mm, "serve_raw_http", g)}
<1>1. c \in SmokeCells(Catalog)
  <2>1. c \in of(m, f)
    OBVIOUS
  <2>. HIDE DEF of, c
  <2>2. <<m, f>> \in {y \in Catalog \X Families : Supports(y[1], y[2])}
    OBVIOUS
  <2>3. of(m, f) \in {of(x[1], x[2]) : x \in {y \in Catalog \X Families : Supports(y[1], y[2])}}
    BY <2>2
  <2>. QED
    BY <2>1, <2>3 DEF SmokeCells, of
<1>2. c.model = m /\ c.family = f /\ c.entrypoint \notin Offline
  BY DEF Cell, Offline
<1>. QED
  BY <1>1, <1>2

LEMMA FixedDropsNothing == fixed \in {{}, FixedCells} => NothingDropped
BY TargetedAll, SmokeAll DEF NothingDropped, FixedCells

-----------------------------------------------------------------------------
(* The invocations: the parts of the invariant.                            *)

Serving == {"health", "requests", "stop"}
Running == {"next", "launch", "end"} \cup Serving
Before  == {"load", "write", "collect", "rewrite"}

RunTypeOK ==
  /\ cells \in Matrices
  /\ pc \in {"idle"} \cup Before \cup Running
  /\ pc # "idle" => opts \in Options
  /\ todo \in Seq(AllCells) /\ mine \subseteq AllCells
  /\ ended \in [AllCells -> {"none", "ok", "failed"}]
  /\ fails \in Nat
  /\ good \in BOOLEAN /\ hurt \in BOOLEAN

\* The cells to run are some that this invocation has collected, each of them once.
TodoInv ==
  /\ pc \notin Running => todo = <<>>
  /\ pc \in {"launch", "end"} \cup Serving => todo # <<>>
  /\ pc \in Before => mine = {} /\ fails = 0 /\ ~hurt
  /\ IsInjective(todo) /\ ToSet(todo) \subseteq mine

\* What has been run has ended, and there are failures when one of them failed.
EndsInv ==
  pc \in Running =>
    /\ \A c \in mine \ ToSet(todo) : ended[c] \in {"ok", "failed"}
    /\ fails > 0 <=> \E c \in mine \ ToSet(todo) : ended[c] = "failed"

\* A job ends so when it should not.
BadEnd(c) == IF c.family = "invalid" THEN "completed" ELSE "failed"

\* What was hurt has been counted, or the requests will not end well.
HurtInv ==
  /\ pc \in {"next", "launch", "health"} => (hurt => fails > 0)
  /\ pc \in {"stop", "end"} => (hurt => fails > 0 \/ ~good)
  /\ pc = "requests" =>
       (hurt => \/ fails > 0 \/ ~good
                \/ step # "done" /\ server = "dead"
                \/ step \in {"early", "poll"} /\ job = BadEnd(cell))

\* Where the requests of a cell stand.
RequestInv ==
  pc = "requests" =>
    /\ n \in Nat /\ n > 0
    /\ step \in {"ask", "early", "poll", "health", "after", "final", "done"}
    /\ BySdk(cell) => step \in {"ask", "poll", "done"}
    /\ step = "ask" /\ (BySdk(cell) \/ cell.family = "realtime") => good
    /\ step \in {"ask", "final"} => job = "none"
    /\ step \in {"health", "after"} /\ job \in {"queued", BadEnd(cell)} => ~good

\* The cells whose server was given up and that are on record as failed.
Failed == {s \in givenUp \cap mine : s \notin ToSet(todo) /\ ended[s] = "failed"}

\* A leader that runs is that of the cell at hand, and has not exited, or it was given
\* up: its cell is on record as failed, will be, or the invocation has ended badly.
AliveInv ==
  /\ \A s \in alive \ Failed :
       \/ pc \in Serving /\ s = cell /\ server # "dead"
       \/ pc = "end" /\ s = cell /\ s \in givenUp /\ ~good
       \/ pc = "idle" /\ s \in givenUp /\ exit # 0
  /\ workers \subseteq alive \cup early

RunInv ==
  /\ RunTypeOK /\ TodoInv /\ EndsInv /\ HurtInv /\ RequestInv /\ AliveInv
  /\ pc # "idle" => exit = 2 /\ ~reported
  /\ CleanExit
  /\ SummaryAgrees

-----------------------------------------------------------------------------
(* Sequences without repetition.                                           *)

LEMMA HeadTail ==
  ASSUME NEW S, NEW s \in Seq(S), IsInjective(s), s # <<>>
  PROVE  /\ Head(s) \in S /\ Head(s) \in ToSet(s)
         /\ Tail(s) \in Seq(S) /\ IsInjective(Tail(s))
         /\ ToSet(Tail(s)) = ToSet(s) \ {Head(s)}
<1>. DEFINE t == Tail(s)
<1>1. /\ Len(s) \in Nat /\ Len(s) > 0 /\ DOMAIN s = 1 .. Len(s) /\ Head(s) = s[1]
      /\ t \in Seq(S) /\ Len(t) = Len(s) - 1 /\ DOMAIN t = 1 .. Len(s) - 1
      /\ \A i \in 1 .. Len(s) - 1 : t[i] = s[i + 1]
  OBVIOUS
<1>. HIDE DEF t
<1>2. \A i, j \in 1 .. Len(s) : s[i] = s[j] => i = j
  BY <1>1 DEF IsInjective
<1>3. IsInjective(t)
  <2>. SUFFICES ASSUME NEW i \in 1 .. Len(s) - 1, NEW j \in 1 .. Len(s) - 1, t[i] = t[j] PROVE i = j
    BY <1>1 DEF IsInjective
  <2>1. i + 1 \in 1 .. Len(s) /\ j + 1 \in 1 .. Len(s) /\ s[i + 1] = s[j + 1]
    BY <1>1
  <2>2. i + 1 = j + 1
    BY <2>1, <1>2
  <2>. QED
    BY <2>2
<1>4. ASSUME NEW i \in 1 .. Len(s) - 1 PROVE t[i] \in ToSet(s) \ {s[1]}
  <2>1. i + 1 \in 1 .. Len(s) /\ i + 1 # 1 /\ 1 \in 1 .. Len(s) /\ t[i] = s[i + 1]
    BY <1>1
  <2>. QED
    BY <2>1, <1>1, <1>2 DEF ToSet
<1>5. ASSUME NEW i \in 1 .. Len(s), i # 1 PROVE s[i] \in ToSet(t)
  <2>1. i - 1 \in 1 .. Len(s) - 1 /\ (i - 1) + 1 = i
    BY <1>1, <1>5
  <2>2. t[i - 1] = s[i]
    BY <1>1, <2>1
  <2>. QED
    BY <1>1, <2>1, <2>2 DEF ToSet
<1>6. ToSet(t) = ToSet(s) \ {s[1]}
  BY <1>1, <1>4, <1>5 DEF ToSet
<1>7. s[1] \in S /\ s[1] \in ToSet(s)
  BY <1>1 DEF ToSet
<1>. QED
  BY <1>1, <1>3, <1>6, <1>7 DEF t

LEMMA Joined ==
  ASSUME NEW S, NEW s \in Seq(S), NEW t \in Seq(S), IsInjective(s), IsInjective(t),
         ToSet(s) \cap ToSet(t) = {}
  PROVE  /\ s \o t \in Seq(S) /\ IsInjective(s \o t)
         /\ ToSet(s \o t) = ToSet(s) \cup ToSet(t)
<1>. DEFINE r == s \o t
<1>1. /\ r \in Seq(S) /\ Len(r) = Len(s) + Len(t)
      /\ \A i \in 1 .. Len(s) + Len(t) : r[i] = IF i <= Len(s) THEN s[i] ELSE t[i - Len(s)]
  BY ConcatProperties
<1>2. /\ Len(s) \in Nat /\ Len(t) \in Nat
      /\ DOMAIN s = 1 .. Len(s) /\ DOMAIN t = 1 .. Len(t) /\ DOMAIN r = 1 .. Len(s) + Len(t)
  BY <1>1
<1>. HIDE DEF r
<1>3. \A i \in 1 .. Len(s) : i \in DOMAIN r /\ r[i] = s[i] /\ s[i] \in ToSet(s)
  BY <1>1, <1>2 DEF ToSet
<1>4. \A i \in 1 .. Len(t) : i + Len(s) \in DOMAIN r /\ r[i + Len(s)] = t[i] /\ t[i] \in ToSet(t)
  <2>1. ASSUME NEW i \in 1 .. Len(t) PROVE r[i + Len(s)] = t[i]
    <3>1. i + Len(s) \in 1 .. Len(s) + Len(t) /\ ~(i + Len(s) <= Len(s)) /\ (i + Len(s)) - Len(s) = i
      BY <1>2
    <3>. QED
      BY <1>1, <3>1
  <2>. QED
    BY <1>2, <2>1 DEF ToSet
<1>5. \A i \in DOMAIN r : \/ i \in 1 .. Len(s)
                          \/ i - Len(s) \in 1 .. Len(t) /\ i = (i - Len(s)) + Len(s)
  BY <1>2
<1>6. ToSet(r) = ToSet(s) \cup ToSet(t)
  <2>1. ToSet(r) \subseteq ToSet(s) \cup ToSet(t)
    <3>1. ASSUME NEW i \in DOMAIN r PROVE r[i] \in ToSet(s) \cup ToSet(t)
      <4>1. CASE i \in 1 .. Len(s)
        BY <4>1, <1>3
      <4>2. CASE i - Len(s) \in 1 .. Len(t) /\ i = (i - Len(s)) + Len(s)
        <5>1. PICK k \in 1 .. Len(t) : i = k + Len(s)
          BY <4>2
        <5>. QED
          BY <5>1, <1>4
      <4>. QED
        BY <4>1, <4>2, <1>5
    <3>. QED
      BY <3>1 DEF ToSet
  <2>2. ToSet(s) \cup ToSet(t) \subseteq ToSet(r)
    BY <1>2, <1>3, <1>4 DEF ToSet
  <2>. QED
    BY <2>1, <2>2
<1>7. IsInjective(r)
  <2>. SUFFICES ASSUME NEW i \in DOMAIN r, NEW j \in DOMAIN r, r[i] = r[j] PROVE i = j
    BY DEF IsInjective
  <2>1. CASE i \in 1 .. Len(s) /\ j \in 1 .. Len(s)
    BY <2>1, <1>2, <1>3 DEF IsInjective
  <2>2. CASE i \notin 1 .. Len(s) /\ j \notin 1 .. Len(s)
    <3>1. PICK k \in 1 .. Len(t) : i = k + Len(s)
      BY <2>2, <1>5
    <3>2. PICK l \in 1 .. Len(t) : j = l + Len(s)
      BY <2>2, <1>5
    <3>3. t[k] = t[l]
      BY <3>1, <3>2, <1>4
    <3>4. k = l
      BY <3>3, <1>2 DEF IsInjective
    <3>. QED
      BY <3>1, <3>2, <3>4
  <2>3. CASE i \in 1 .. Len(s) /\ j \notin 1 .. Len(s)
    <3>1. PICK l \in 1 .. Len(t) : j = l + Len(s)
      BY <2>3, <1>5
    <3>. QED
      BY <2>3, <3>1, <1>3, <1>4
  <2>4. CASE i \notin 1 .. Len(s) /\ j \in 1 .. Len(s)
    <3>1. PICK k \in 1 .. Len(t) : i = k + Len(s)
      BY <2>4, <1>5
    <3>. QED
      BY <2>4, <3>1, <1>3, <1>4
  <2>. QED
    BY <2>1, <2>2, <2>3, <2>4
<1>. QED
  BY <1>1, <1>6, <1>7 DEF r

LEMMA Prefix ==
  ASSUME NEW S, NEW s \in Seq(S), IsInjective(s), NEW k \in 1 .. Len(s)
  PROVE  SubSeq(s, 1, k) \in Seq(S) /\ IsInjective(SubSeq(s, 1, k))
<1>. DEFINE t == SubSeq(s, 1, k)
<1>1. t \in Seq(S) /\ Len(t) = k /\ \A i \in 1 .. k : t[i] = s[i]
  <2>1. \A i \in 1 .. k : s[i] \in S
    OBVIOUS
  <2>2. /\ t \in Seq(S)
        /\ Len(t) = IF 1 <= k THEN k - 1 + 1 ELSE 0
        /\ \A i \in 1 .. k - 1 + 1 : t[i] = s[1 + i - 1]
    BY <2>1, SubSeqProperties
  <2>. QED
    BY <2>2
<1>. HIDE DEF t
<1>2. DOMAIN t = 1 .. k /\ DOMAIN s = 1 .. Len(s) /\ \A i \in 1 .. k : i \in 1 .. Len(s)
  BY <1>1
<1>3. IsInjective(t)
  BY <1>1, <1>2 DEF IsInjective
<1>. QED
  BY <1>1, <1>3 DEF t

-----------------------------------------------------------------------------
(* The cells that are collected.                                           *)

LEMMA CellsOfPhase ==
  ASSUME cells \in Matrices, NEW p \in {"smoke", "pairwise", "targeted", "stress"}
  PROVE  /\ cells[p] \in Seq(AllCells) /\ IsInjective(cells[p])
         /\ \A c \in ToSet(cells[p]) : c.phase = p
<1>1. p \in DOMAIN cells /\ cells[p] \in Seq(ToSet(cells[p])) /\ IsInjective(cells[p])
      /\ \A c \in ToSet(cells[p]) : c.phase = p
  BY ProbeAssumption
<1>2. ToSet(cells[p]) \subseteq AllCells
  BY <1>1 DEF AllCells
<1>3. cells[p] \in Seq(AllCells)
  BY <1>1, <1>2
<1>. QED
  BY <1>1, <1>3

LEMMA CollectedOnce ==
  ASSUME cells \in Matrices, opts \in Options
  PROVE  Collected \in Seq(AllCells) /\ IsInjective(Collected)
<1>. DEFINE of(p) == IF /\ p \in Phases(opts.profile)
                        /\ p = "pairwise" => matrix.of \in Searched
                     THEN cells[p] ELSE <<>>
            all == of("smoke") \o of("pairwise") \o of("targeted") \o of("stress")
<1>1. ASSUME NEW p \in {"smoke", "pairwise", "targeted", "stress"}
      PROVE  /\ of(p) \in Seq(AllCells) /\ IsInjective(of(p))
             /\ \A c \in ToSet(of(p)) : c.phase = p
  <2>1. IsInjective(<<>>) /\ ToSet(<<>>) = {} /\ <<>> \in Seq(AllCells)
    BY DEF IsInjective, ToSet
  <2>2. of(p) = cells[p] \/ of(p) = <<>>
    OBVIOUS
  <2>. HIDE DEF of
  <2>. QED
    BY <2>1, <2>2, CellsOfPhase
<1>2. all \in Seq(AllCells) /\ IsInjective(all)
  <2>. DEFINE a == of("smoke") \o of("pairwise")
              b == a \o of("targeted")
  <2>. HIDE DEF of
  <2>1. /\ a \in Seq(AllCells) /\ IsInjective(a)
        /\ ToSet(a) = ToSet(of("smoke")) \cup ToSet(of("pairwise"))
    <3>1. ToSet(of("smoke")) \cap ToSet(of("pairwise")) = {}
      BY <1>1
    <3>. QED
      BY <3>1, <1>1, Joined
  <2>. HIDE DEF a
  <2>2. /\ b \in Seq(AllCells) /\ IsInjective(b)
        /\ ToSet(b) = ToSet(a) \cup ToSet(of("targeted"))
    <3>1. ToSet(a) \cap ToSet(of("targeted")) = {}
      BY <1>1, <2>1
    <3>. QED
      BY <3>1, <1>1, <2>1, Joined
  <2>. HIDE DEF b
  <2>3. ToSet(b) \cap ToSet(of("stress")) = {}
    BY <1>1, <2>1, <2>2
  <2>4. b \o of("stress") \in Seq(AllCells) /\ IsInjective(b \o of("stress"))
    BY <2>3, <1>1, <2>2, Joined
  <2>. QED
    BY <2>4 DEF a, b
<1>3. Collected = IF opts.limit = 0 \/ opts.limit > Len(all) THEN all ELSE SubSeq(all, 1, opts.limit)
  BY DEF Collected
<1>4. opts.limit \in Nat
  <2>1. Limits \subseteq Nat /\ {0} \subseteq Nat
    BY ProbeAssumption
  <2>2. opts.limit \in Limits \cup {0}
    BY DEF Options
  <2>. QED
    BY <2>1, <2>2
<1>. HIDE DEF all
<1>5. Len(all) \in Nat
  BY <1>2
<1>6. CASE opts.limit = 0 \/ opts.limit > Len(all)
  BY <1>2, <1>3, <1>6
<1>7. CASE ~(opts.limit = 0 \/ opts.limit > Len(all))
  <2>1. opts.limit \in 1 .. Len(all)
    BY <1>4, <1>5, <1>7
  <2>. QED
    BY <1>2, <1>3, <1>7, <2>1, Prefix
<1>. QED
  BY <1>6, <1>7

-----------------------------------------------------------------------------
(* What the steps of an invocation have in common.                         *)

\* The cell at hand, and what is left after it.
LEMMA AtHand ==
  ASSUME RunTypeOK, TodoInv, todo # <<>>
  PROVE  /\ cell \in AllCells /\ cell \in mine /\ cell \in ToSet(todo)
         /\ Tail(todo) \in Seq(AllCells) /\ IsInjective(Tail(todo))
         /\ ToSet(Tail(todo)) = ToSet(todo) \ {cell}
BY HeadTail DEF RunTypeOK, TodoInv, cell

\* The leaders that were left to run stay on record.
LEMMA FailedKept ==
  ASSUME UNCHANGED <<todo, mine, ended>>, givenUp \subseteq givenUp'
  PROVE  Failed \subseteq Failed'
BY DEF Failed

\* A step between the ends of two cells keeps the books.
LEMMA Books ==
  ASSUME RunInv, pc \in Running, pc' \in Running,
         UNCHANGED <<cells, opts, todo, mine, ended, fails, exit, reported>>,
         good' \in BOOLEAN, hurt' \in BOOLEAN,
         pc' # "next" => todo # <<>>
  PROVE  /\ RunTypeOK' /\ TodoInv' /\ EndsInv'
         /\ exit' = 2 /\ ~reported' /\ CleanExit' /\ SummaryAgrees'
<1>1. exit' = 2 /\ ~reported' /\ pc' # "idle"
  BY DEF RunInv, Running, Serving
<1>2. CleanExit' /\ SummaryAgrees'
  BY <1>1 DEF CleanExit, SummaryAgrees
<1>3. AllCells' = AllCells
  BY DEF AllCells
<1>4. RunTypeOK'
  BY <1>3 DEF RunInv, RunTypeOK, Running, Serving
<1>5. TodoInv'
  BY DEF RunInv, TodoInv, Running, Serving, Before
<1>6. EndsInv'
  BY DEF RunInv, EndsInv
<1>. QED
  BY <1>1, <1>2, <1>4, <1>5, <1>6

\* What a cell came to is known, and still to be recorded.
LEMMA EndsKeeps ==
  ASSUME RunInv, pc \in Running, todo # <<>>, NEW ok \in BOOLEAN, Ends(ok),
         UNCHANGED <<cells, opts, todo, mine, ended, fails, exit, reported>>,
         hurt' \in BOOLEAN,
         hurt' => fails > 0 \/ ~ok,
         givenUp \subseteq givenUp', workers' \subseteq alive' \cup early',
         \A s \in alive' \ Failed : s = cell /\ s \in givenUp' /\ ~ok
  PROVE  RunInv'
<1>1. pc' = "end" /\ pc' \in Running /\ pc' \notin Serving /\ cell' = cell
  BY DEF Ends, Running, Serving, cell
<1>2. good' \in BOOLEAN /\ (ok <=> good')
  BY Zenon DEF Ends
<1>3. Failed \subseteq Failed'
  BY FailedKept
<1>4. AliveInv'
  BY <1>1, <1>2, <1>3 DEF AliveInv
<1>5. HurtInv' /\ RequestInv'
  BY <1>1, <1>2 DEF HurtInv, RequestInv
<1>. QED
  BY <1>1, <1>2, <1>4, <1>5, Books DEF RunInv

\* The end of a cell counts what was hurt.
LEMMA CellEndKeeps ==
  ASSUME RunInv, CellEnd
  PROVE  RunInv'
<1>0. /\ pc = "end" /\ pc' = "next" /\ todo' = Tail(todo) /\ todo # <<>>
      /\ ended' = [ended EXCEPT ![cell] = IF good THEN "ok" ELSE "failed"]
      /\ fails' = IF good THEN fails ELSE fails + 1
      /\ UNCHANGED <<hurt, cells, opts, mine, exit, reported, alive, workers, early, givenUp>>
      /\ RunTypeOK /\ TodoInv /\ EndsInv /\ fails \in Nat /\ AllCells' = AllCells
      /\ good \in BOOLEAN /\ hurt \in BOOLEAN
  BY DEF CellEnd, Goto, RunInv, RunTypeOK, TodoInv, AllCells, procs, report
<1>1. /\ cell \in AllCells /\ cell \in mine /\ cell \in ToSet(todo)
      /\ todo' \in Seq(AllCells) /\ IsInjective(todo')
      /\ ToSet(todo') = ToSet(todo) \ {cell}
  BY <1>0, AtHand
<1>2. mine' \ ToSet(todo') = (mine \ ToSet(todo)) \cup {cell}
  BY <1>0, <1>1
<1>3. /\ ended' \in [AllCells -> {"none", "ok", "failed"}]
      /\ ended'[cell] = IF good THEN "ok" ELSE "failed"
      /\ \A c \in mine \ ToSet(todo) : ended'[c] = ended[c]
  <2>1. ended \in [AllCells -> {"none", "ok", "failed"}] /\ mine \subseteq AllCells
    BY <1>0 DEF RunTypeOK
  <2>. QED
    BY <1>0, <1>1, <2>1
<1>4. /\ fails' \in Nat
      /\ good => fails' = fails
      /\ ~good => fails' = fails + 1 /\ fails' > 0
      /\ fails > 0 => fails' > 0
  BY <1>0
<1>5. EndsInv'
  <2>1. \A c \in mine \ ToSet(todo) : ended[c] \in {"ok", "failed"}
    BY <1>0 DEF EndsInv, Running
  <2>2. fails > 0 <=> \E c \in mine \ ToSet(todo) : ended[c] = "failed"
    BY <1>0 DEF EndsInv, Running
  <2>3. \A c \in mine' \ ToSet(todo') : ended'[c] \in {"ok", "failed"}
    BY <1>2, <1>3, <2>1
  <2>4. fails' > 0 <=> \E c \in mine' \ ToSet(todo') : ended'[c] = "failed"
    <3>1. CASE good
      BY <3>1, <1>2, <1>3, <1>4, <2>2
    <3>2. CASE ~good
      BY <3>2, <1>2, <1>3, <1>4
    <3>. QED
      BY <3>1, <3>2
  <2>. QED
    BY <2>3, <2>4 DEF EndsInv
<1>6. RunTypeOK'
  <2>1. pc' \in {"idle"} \cup Before \cup Running /\ opts \in Options
    BY <1>0 DEF Running, Serving, Before, RunTypeOK
  <2>2. cells' \in Matrices /\ mine' \subseteq AllCells
    BY <1>0 DEF RunTypeOK
  <2>3. good' \in BOOLEAN
    BY Zenon DEF CellEnd
  <2>. QED
    BY <1>0, <1>1, <1>3, <1>4, <2>1, <2>2, <2>3 DEF RunTypeOK
<1>7. TodoInv'
  <2>1. ToSet(todo') \subseteq mine'
    BY <1>0, <1>1 DEF TodoInv
  <2>. QED
    BY <1>0, <1>1, <2>1 DEF TodoInv, Running, Serving, Before
<1>8. HurtInv' /\ RequestInv'
  <2>1. hurt => fails > 0 \/ ~good
    BY <1>0 DEF RunInv, HurtInv
  <2>. QED
    BY <1>0, <1>4, <2>1 DEF HurtInv, RequestInv
<1>9. AliveInv'
  <2>1. Failed \subseteq Failed'
    BY <1>0, <1>1, <1>3 DEF Failed
  <2>2. \A s \in alive \ Failed : s = cell /\ s \in givenUp /\ ~good
    BY <1>0 DEF RunInv, AliveInv, Serving
  <2>3. \A s \in alive \ Failed : s \in Failed'
    BY <1>0, <1>1, <1>3, <2>2 DEF Failed
  <2>. QED
    BY <1>0, <2>1, <2>3 DEF RunInv, AliveInv
<1>10. exit' = 2 /\ ~reported' /\ pc' # "idle"
  BY <1>0 DEF RunInv
<1>11. CleanExit' /\ SummaryAgrees'
  BY <1>10 DEF CleanExit, SummaryAgrees
<1>. QED
  BY <1>5, <1>6, <1>7, <1>8, <1>9, <1>10, <1>11 DEF RunInv

-----------------------------------------------------------------------------
(* Before and after the cells.                                             *)

LEMMA InvokeKeeps ==
  ASSUME RunInv, Invoke
  PROVE  RunInv'
<1>1. /\ pc = "idle" /\ pc' = "load" /\ opts' \in Options
      /\ fails' = 0 /\ exit' = 2 /\ hurt' = FALSE /\ mine' = {} /\ alive' = {} /\ workers' = {}
      /\ UNCHANGED <<good, cells, todo, ended>>
  BY DEF Invoke, Goto
<1>2. AllCells' = AllCells
  BY <1>1 DEF AllCells
<1>3. todo = <<>>
  BY <1>1 DEF RunInv, TodoInv, Running, Serving
<1>4. RunTypeOK'
  <2>1. hurt' \in BOOLEAN
    BY <1>1, Zenon
  <2>. QED
    BY <1>1, <1>2, <2>1 DEF RunInv, RunTypeOK, Before
<1>5. TodoInv'
  BY <1>1, <1>3 DEF TodoInv, Running, Serving, Before, ToSet, IsInjective
<1>6. EndsInv' /\ HurtInv' /\ RequestInv' /\ AliveInv'
  BY <1>1 DEF EndsInv, HurtInv, RequestInv, AliveInv, Running, Serving
<1>7. ~reported'
  BY Zenon DEF Invoke
<1>8. CleanExit' /\ SummaryAgrees'
  BY <1>1, <1>7 DEF CleanExit, SummaryAgrees
<1>. QED
  BY <1>1, <1>4, <1>5, <1>6, <1>7, <1>8 DEF RunInv

\* The matrix is read or made, or the invocation ends over a torn one.
LEMMA MatrixKeeps ==
  ASSUME RunInv, Load \/ Write \/ Catalogue
  PROVE  RunInv'
<1>1. /\ pc \in Before /\ pc' \in {"idle"} \cup Before
      /\ UNCHANGED <<good, hurt, cells, opts, mine, fails, ended, alive, workers, early, givenUp,
                     reported>>
      /\ todo' = todo \/ todo' = <<>>
  BY DEF Load, Write, Catalogue, Goto, Abort, Before, cellVars, procs, report
<1>2. AllCells' = AllCells /\ todo = <<>> /\ todo' = <<>> /\ mine = {} /\ ~hurt /\ exit = 2 /\ ~reported
  BY <1>1 DEF AllCells, RunInv, TodoInv, Running, Serving, Before
<1>3. RunTypeOK'
  BY <1>1, <1>2 DEF RunInv, RunTypeOK, Before
<1>4. TodoInv' /\ EndsInv' /\ HurtInv' /\ RequestInv'
  BY <1>1, <1>2 DEF RunInv, TodoInv, EndsInv, HurtInv, RequestInv, Running, Serving, Before
<1>5. pc' # "idle" => exit' = 2
  BY <1>1, <1>2 DEF Load, Write, Catalogue, Goto, Abort, Before
<1>6. AliveInv'
  <2>1. alive = {}
    BY <1>1, <1>2 DEF RunInv, AliveInv, Failed, Serving, Before
  <2>. QED
    BY <1>1, <2>1 DEF RunInv, AliveInv
<1>7. CleanExit' /\ SummaryAgrees'
  BY <1>1, <1>2 DEF CleanExit, SummaryAgrees
<1>. QED
  BY <1>1, <1>2, <1>3, <1>4, <1>5, <1>6, <1>7 DEF RunInv

LEMMA CollectKeeps ==
  ASSUME RunInv, Collect
  PROVE  RunInv'
<1>1. /\ pc = "collect" /\ pc' = "next"
      /\ UNCHANGED <<good, hurt, cells, opts, fails, exit, ended, reported, alive, workers, early,
                     givenUp>>
      /\ (todo' = Collected /\ mine' = ToSet(Collected)) \/ UNCHANGED <<todo, mine>>
  BY DEF Collect, Goto, cellVars, files, procs, report
<1>2. /\ AllCells' = AllCells /\ todo = <<>> /\ mine = {} /\ fails = 0 /\ ~hurt /\ exit = 2
      /\ cells \in Matrices /\ opts \in Options /\ IsInjective(todo)
  BY <1>1 DEF AllCells, RunInv, TodoInv, RunTypeOK, Running, Serving, Before
<1>3. /\ todo' \in Seq(AllCells) /\ IsInjective(todo') /\ mine' = ToSet(todo')
  <2>1. ToSet(<<>>) = {}
    BY DEF ToSet
  <2>2. CASE todo' = Collected /\ mine' = ToSet(Collected)
    BY <1>2, <2>2, CollectedOnce
  <2>3. CASE todo' = todo /\ mine' = mine
    BY <1>2, <2>1, <2>3
  <2>. QED
    BY <1>1, <2>2, <2>3
<1>4. mine' \subseteq AllCells
  BY <1>3 DEF ToSet
<1>5. RunTypeOK'
  BY <1>1, <1>2, <1>3, <1>4 DEF RunInv, RunTypeOK, Running
<1>6. TodoInv' /\ EndsInv'
  BY <1>1, <1>2, <1>3 DEF TodoInv, EndsInv, Running, Serving, Before
<1>7. HurtInv' /\ RequestInv' /\ AliveInv'
  <2>1. alive = {}
    BY <1>1, <1>2 DEF RunInv, AliveInv, Failed, Serving
  <2>. QED
    BY <1>1, <1>2, <2>1 DEF RunInv, HurtInv, RequestInv, AliveInv, Serving
<1>9. ~reported'
  BY <1>1 DEF RunInv
<1>8. CleanExit' /\ SummaryAgrees'
  BY <1>1, <1>2, <1>9 DEF CleanExit, SummaryAgrees
<1>. QED
  BY <1>1, <1>2, <1>5, <1>6, <1>7, <1>8, <1>9 DEF RunInv

\* An invocation that ends without a summary, and not with 0, leaves the leaders that
\* run to those who give them up.
LEMMA EndedBadly ==
  ASSUME RunInv, pc' = "idle", todo' = <<>>, exit' \in {1, 2}, good' \in BOOLEAN, ~reported',
         UNCHANGED <<hurt, cells, mine, fails, ended, alive, workers, early>>,
         \A s \in alive : s \in givenUp'
  PROVE  RunInv'
<1>1. AllCells' = AllCells /\ exit' # 0
  BY DEF AllCells
<1>2. RunTypeOK'
  BY <1>1 DEF RunInv, RunTypeOK
<1>3. TodoInv'
  BY DEF TodoInv, Running, Serving, Before, ToSet, IsInjective
<1>4. EndsInv' /\ HurtInv' /\ RequestInv'
  BY DEF EndsInv, HurtInv, RequestInv, Running, Serving
<1>5. AliveInv'
  BY <1>1 DEF RunInv, AliveInv
<1>6. CleanExit' /\ SummaryAgrees'
  BY <1>1 DEF CleanExit, SummaryAgrees
<1>. QED
  BY <1>2, <1>3, <1>4, <1>5, <1>6 DEF RunInv

\* A kill, or a full disk where nobody catches it.
LEMMA KillKeeps ==
  ASSUME RunInv, Kill \/ Unwritten \/ SummaryFails
  PROVE  RunInv'
<1>1. /\ pc # "idle" /\ pc' = "idle" /\ exit' \in {1, 2} /\ todo' = <<>>
      /\ UNCHANGED <<hurt, cells, mine, fails, ended, reported, alive, workers, early>>
      /\ givenUp' = IF Kill /\ pc \in Serving THEN givenUp \cup {cell} ELSE givenUp
      /\ ~Kill => pc \notin Serving
  BY DEF Kill, Unwritten, SummaryFails, Abort, Serving, cellVars, files, report, procs
<1>2. good' \in BOOLEAN
  <2>1. good' = TRUE \/ good' = good
    BY Zenon DEF Kill, Unwritten, SummaryFails, cellVars
  <2>2. good \in BOOLEAN
    BY DEF RunInv, RunTypeOK
  <2>. QED
    BY <2>1, <2>2, Zenon
<1>3. ~reported'
  BY <1>1 DEF RunInv
<1>4. \A s \in alive : s \in givenUp'
  BY <1>1 DEF RunInv, AliveInv, Failed
<1>. QED
  BY <1>1, <1>2, <1>3, <1>4, EndedBadly

LEMMA SummaryKeeps ==
  ASSUME RunInv, Summarize
  PROVE  RunInv'
<1>1. /\ pc = "next" /\ pc' = "idle" /\ todo = <<>> /\ todo' = <<>>
      /\ summary' = {c \in AllCells : ended[c] = "failed"}
      /\ exit' = IF fails > 0 THEN 1 ELSE 0
      /\ UNCHANGED <<good, hurt, cells, mine, fails, ended, alive, workers, early, givenUp>>
  BY DEF Summarize, cellVars, procs
<1>2. AllCells' = AllCells /\ RunTypeOK /\ TodoInv /\ EndsInv /\ HurtInv /\ ToSet(todo) = {}
      /\ mine \subseteq AllCells /\ fails \in Nat
  BY <1>1 DEF AllCells, RunInv, RunTypeOK, ToSet
<1>3. RunTypeOK'
  BY <1>1, <1>2 DEF RunTypeOK
<1>4. TodoInv' /\ EndsInv' /\ HurtInv' /\ RequestInv'
  BY <1>1, <1>2 DEF TodoInv, EndsInv, HurtInv, RequestInv, Running, Serving, Before
<1>5. AliveInv'
  <2>1. Failed \subseteq Failed'
    BY <1>1, FailedKept
  <2>2. alive \subseteq Failed
    BY <1>1 DEF RunInv, AliveInv, Serving
  <2>. QED
    BY <1>1, <2>1, <2>2 DEF RunInv, AliveInv
<1>6. /\ \A c \in mine : ended[c] \in {"ok", "failed"}
      /\ fails > 0 <=> \E c \in mine : ended[c] = "failed"
      /\ hurt => fails > 0
  BY <1>1, <1>2 DEF EndsInv, HurtInv, Running
<1>7. CleanExit'
  BY <1>1, <1>6 DEF CleanExit
<1>8. SummaryAgrees'
  <2>1. fails > 0 <=> summary' \cap mine' # {}
    BY <1>1, <1>2, <1>6
  <2>. QED
    BY <1>1, <2>1 DEF SummaryAgrees
<1>. QED
  BY <1>1, <1>3, <1>4, <1>5, <1>7, <1>8 DEF RunInv

-----------------------------------------------------------------------------
(* A cell and its server.                                                  *)

\* Where no server is at hand, a leader that runs is on record.
LEMMA NoneLeft ==
  ASSUME RunInv, pc \in {"next", "launch"}
  PROVE  alive \subseteq Failed
BY DEF RunInv, AliveInv, Serving

LEMMA Kinds ==
  ASSUME RunInv
  PROVE  good \in BOOLEAN /\ hurt \in BOOLEAN
BY DEF RunInv, RunTypeOK

LEMMA PlannedKeeps ==
  ASSUME RunInv, DryCell \/ OfflineCell \/ ServerCell \/ LaunchFails
  PROVE  RunInv'
<1>. USE Kinds
<1>1. /\ pc \in {"next", "launch"} /\ pc \in Running /\ pc \notin Serving /\ todo # <<>>
      /\ UNCHANGED <<cells, opts, todo, mine, ended, fails, exit, reported, alive, workers, early,
                     givenUp>>
  BY DEF DryCell, OfflineCell, ServerCell, LaunchFails, Goto, Running, Serving, Beside, files,
         report, procs, RunInv, TodoInv
<1>2. /\ hurt => fails > 0
      /\ workers \subseteq alive \cup early
      /\ alive \subseteq Failed
  BY <1>1, NoneLeft DEF RunInv, HurtInv, AliveInv
<1>3. CASE DryCell
  <2>1. Ends(TRUE) /\ hurt' = hurt
    BY <1>3 DEF DryCell
  <2>. QED
    BY <1>1, <1>2, <2>1, EndsKeeps
<1>4. CASE OfflineCell
  <2>1. PICK ok \in BOOLEAN : Ends(ok) /\ hurt' = (hurt \/ ~ok)
    BY <1>4 DEF OfflineCell
  <2>2. hurt' \in BOOLEAN /\ (hurt' => hurt \/ ~ok)
    BY <2>1
  <2>. QED
    BY <1>1, <1>2, <2>1, <2>2, EndsKeeps
<1>5. CASE ServerCell
  <2>1. pc' = "launch" /\ UNCHANGED <<good, hurt>>
    BY <1>5 DEF ServerCell, Goto, cellVars
  <2>2. pc' \in Running
    BY <2>1 DEF Running
  <2>3. Failed \subseteq Failed'
    BY <1>1, FailedKept
  <2>4. HurtInv' /\ RequestInv' /\ AliveInv'
    BY <1>1, <1>2, <2>1, <2>3 DEF HurtInv, RequestInv, AliveInv
  <2>. QED
    BY <1>1, <2>1, <2>2, <2>4, Books DEF RunInv
<1>6. CASE LaunchFails
  <2>1. Ends(FALSE) /\ hurt' = hurt
    BY <1>6 DEF LaunchFails
  <2>. QED
    BY <1>1, <1>2, <2>1, EndsKeeps
<1>. QED
  BY <1>3, <1>4, <1>5, <1>6

\* When the leader of the server at hand is gone, the others run on as they did, and
\* workers without a leader have seen it end.
LEMMA GoneKeeps ==
  ASSUME RunInv, GroupGone \/ LeaderGone
  PROVE  /\ alive' = alive \ {cell}
         /\ workers' \subseteq alive' \cup early'
<1>1. workers \subseteq alive \cup early
  BY DEF RunInv, AliveInv
<1>. QED
  BY <1>1 DEF GroupGone, LeaderGone

LEMMA StartKeeps ==
  ASSUME RunInv, Launch \/ ServerStarts \/ Healthy
  PROVE  RunInv'
<1>. USE Kinds
<1>1. /\ pc \in {"launch", "health"} /\ pc' \in {"health", "requests"}
      /\ pc \in Running /\ pc' \in Running /\ pc' \in Serving
      /\ UNCHANGED <<cells, opts, todo, mine, ended, fails, exit, reported, hurt, givenUp>>
  BY DEF Launch, ServerStarts, Healthy, Goto, Running, Serving, files, report, procs
<1>2. todo # <<>> /\ (hurt => fails > 0) /\ cell' = cell /\ Failed \subseteq Failed'
  BY <1>1, FailedKept DEF RunInv, TodoInv, HurtInv, Serving, cell
<1>3. good' \in BOOLEAN
  BY Zenon DEF Launch, ServerStarts, Healthy, Begin
<1>4. AliveInv'
  <2>0. workers \subseteq alive \cup early
    BY DEF RunInv, AliveInv
  <2>1. CASE Launch
    BY <1>1, <1>2, <2>0, <2>1, NoneLeft DEF Launch, Goto, AliveInv, Serving
  <2>2. CASE ServerStarts
    <3>1. \A s \in alive \ Failed : s = cell
      BY <1>1, <2>2 DEF ServerStarts, RunInv, AliveInv
    <3>2. CASE server' = "up" /\ UNCHANGED <<alive, workers, early>>
      BY <1>1, <1>2, <2>0, <3>1, <3>2 DEF AliveInv
    <3>3. CASE LeaderGone
      BY <1>1, <1>2, <3>1, <3>3, GoneKeeps DEF AliveInv
    <3>. QED
      BY <2>2, <3>2, <3>3 DEF ServerStarts
  <2>3. CASE Healthy
    BY <1>1, <1>2, <2>3 DEF Healthy, Goto, RunInv, AliveInv, procs, Serving
  <2>. QED
    BY <2>1, <2>2, <2>3
<1>5. RequestInv'
  BY DEF Launch, ServerStarts, Healthy, Goto, Begin, RequestInv
<1>6. HurtInv'
  BY <1>1, <1>2 DEF HurtInv
<1>. QED
  BY <1>1, <1>2, <1>3, <1>4, <1>5, <1>6, Books DEF RunInv

\* A server that exits, or does not answer in time.
LEMMA StartFailsKeeps ==
  ASSUME RunInv, Exited \/ HealthTimeout
  PROVE  RunInv'
<1>. USE Kinds
<1>1. /\ pc = "health" /\ pc \in Running
      /\ UNCHANGED <<cells, opts, todo, mine, ended, fails, exit, reported, hurt, alive, workers,
                     early>>
  BY DEF Exited, HealthTimeout, Running, Serving, files, report, procs
<1>2. /\ todo # <<>> /\ (hurt => fails > 0)
      /\ workers \subseteq alive \cup early
      /\ \A s \in alive \ Failed : s = cell /\ server # "dead"
  BY <1>1 DEF RunInv, TodoInv, HurtInv, Serving, AliveInv
<1>3. CASE HealthTimeout
  <2>1. Ends(FALSE) /\ givenUp' = givenUp \cup {cell}
    BY <1>3 DEF HealthTimeout
  <2>. QED
    BY <1>1, <1>2, <2>1, EndsKeeps
<1>4. CASE Exited
  <2>1. server = "dead" /\ givenUp' = givenUp /\ alive \subseteq Failed
    BY <1>2, <1>4 DEF Exited, procs
  <2>2. CASE Ends(FALSE)
    BY <1>1, <1>2, <2>1, <2>2, EndsKeeps
  <2>3. CASE pc' = "launch" /\ good' = good
    <3>1. pc' \in Running
      BY <2>3 DEF Running
    <3>2. Failed \subseteq Failed'
      BY <1>1, <2>1, FailedKept
    <3>3. HurtInv' /\ RequestInv' /\ AliveInv'
      BY <1>1, <1>2, <2>1, <2>3, <3>2 DEF HurtInv, RequestInv, AliveInv
    <3>. QED
      BY <1>1, <1>2, <2>3, <3>1, <3>3, Books DEF RunInv
  <2>. QED
    BY <1>4, <2>2, <2>3 DEF Exited
<1>. QED
  BY <1>3, <1>4

\* The requests are over, and the server is stopped or left.
LEMMA StopKeeps ==
  ASSUME RunInv, Requested \/ Raises \/ Stop
  PROVE  RunInv'
<1>. USE Kinds
<1>1. /\ todo # <<>> /\ pc \in {"requests", "stop"} /\ pc \in Running
      /\ UNCHANGED <<hurt, cells, opts, todo, mine, ended, fails, exit, reported>>
  BY DEF RunInv, TodoInv, Requested, Raises, Stop, Goto, Running, Serving, cellVars, files, report
<1>2. CASE Stop
  <2>1. pc = "stop" /\ (StopGone \/ StopTerm \/ StopKill \/ StopUnrecorded)
    BY <1>2 DEF Stop
  <2>2. /\ hurt => fails > 0 \/ ~good
        /\ workers \subseteq alive \cup early
        /\ \A s \in alive \ Failed : s = cell /\ server # "dead"
    BY <2>1 DEF RunInv, HurtInv, AliveInv
  <2>3. CASE StopGone
    <3>1. Ends(good) \/ Ends(FALSE)
      BY <2>3 DEF StopGone
    <3>3. /\ alive \subseteq Failed
          /\ UNCHANGED <<alive, workers, early, givenUp>>
      BY <2>2, <2>3 DEF StopGone, procs
    <3>. QED
      BY <1>1, <2>2, <3>1, <3>3, EndsKeeps
  <2>4. CASE StopTerm \/ StopKill
    <3>1. Ends(good) /\ givenUp' = givenUp /\ (GroupGone \/ LeaderGone)
      BY <2>4 DEF StopTerm, StopKill
    <3>2. alive' = alive \ {cell} /\ workers' \subseteq alive' \cup early'
      BY <3>1, GoneKeeps
    <3>. QED
      BY <1>1, <2>2, <3>1, <3>2, EndsKeeps
  <2>5. CASE StopUnrecorded
    <3>1. Ends(FALSE) /\ givenUp' = givenUp \cup {cell} /\ UNCHANGED <<alive, workers, early>>
      BY <2>5 DEF StopUnrecorded
    <3>. QED
      BY <1>1, <2>2, <3>1, EndsKeeps
  <2>. QED
    BY <2>1, <2>3, <2>4, <2>5
<1>3. CASE Requested \/ Raises
  <2>1. /\ pc = "requests" /\ pc' = "stop" /\ pc' \in Running /\ pc' \in Serving
        /\ UNCHANGED <<server, alive, workers, early, givenUp>>
    BY <1>3 DEF Requested, Raises, Goto, Running, Serving, cellVars, procs
  <2>2. (step = "done" /\ good' = good) \/ good' = FALSE
    BY <1>3 DEF Requested, Raises, cellVars
  <2>3. good' \in BOOLEAN
    BY <2>2, Zenon
  <2>4. HurtInv'
    BY <1>1, <2>1, <2>2 DEF RunInv, HurtInv
  <2>5. RequestInv' /\ AliveInv'
    <3>1. Failed \subseteq Failed'
      BY <1>1, <2>1, FailedKept
    <3>. QED
      BY <1>1, <2>1, <3>1 DEF RunInv, RequestInv, AliveInv, cell, Serving
  <2>. QED
    BY <1>1, <2>1, <2>3, <2>4, <2>5, Books DEF RunInv
<1>. QED
  BY <1>2, <1>3

-----------------------------------------------------------------------------
(* The requests of a cell.                                                 *)

\* What may happen to a server and its job under the requests.
LEMMA EnvironmentKeeps ==
  ASSUME RunInv, JobStep \/ Dies \/ DiesLate
  PROVE  RunInv'
<1>. USE Kinds
<1>1. /\ pc \in {"requests", "stop"} /\ pc' = pc /\ pc \in Running /\ pc \in Serving
      /\ UNCHANGED <<step, n, good, cells, opts, todo, mine, ended, fails, exit, reported, givenUp>>
      /\ server = "up" /\ todo # <<>> /\ cell' = cell /\ Failed \subseteq Failed'
      /\ workers \subseteq alive \cup early
      /\ \A s \in alive \ Failed : s = cell
  BY FailedKept DEF JobStep, JobEnds, Dies, DiesLate, ServerDies, Outside, Running, Serving, files,
         report, procs, RunInv, TodoInv, AliveInv, cell
<1>4. CASE DiesLate
  <2>1. pc = "stop" /\ LeaderGone /\ hurt' = hurt
    BY <1>4 DEF DiesLate
  <2>2. HurtInv' /\ AliveInv' /\ RequestInv'
    BY <1>1, <2>1, GoneKeeps DEF RunInv, HurtInv, AliveInv, RequestInv
  <2>. QED
    BY <1>1, <2>1, <2>2, Books DEF RunInv
<1>2. CASE Dies
  <2>1. /\ server' = "dead" /\ hurt' = TRUE /\ job' = job /\ LeaderGone
        /\ pc = "requests" /\ step # "done"
    BY <1>2 DEF Dies, ServerDies
  <2>2. hurt' \in BOOLEAN
    BY <2>1, Zenon
  <2>3. HurtInv' /\ AliveInv' /\ RequestInv'
    BY <1>1, <2>1, GoneKeeps DEF RunInv, HurtInv, AliveInv, RequestInv
  <2>. QED
    BY <1>1, <2>2, <2>3, Books DEF RunInv
<1>3. CASE JobStep
  <2>1. /\ job = "queued" /\ job' \in {"completed", "failed"} /\ server' = server
        /\ UNCHANGED <<alive, workers, early>>
        /\ pc = "requests" /\ step \notin {"off", "done"}
        /\ hurt' \in BOOLEAN
        /\ hurt' => hurt \/ job' = BadEnd(cell)
    BY <1>3 DEF JobStep, JobEnds, BadEnd, Outside, procs
  <2>2. AliveInv'
    BY <1>1, <2>1 DEF RunInv, AliveInv
  <2>3. RequestInv'
    BY <1>1, <2>1 DEF RunInv, RequestInv
  <2>4. HurtInv'
    <3>1. /\ step \in {"early", "poll", "health", "after"}
          /\ step \in {"health", "after"} => ~good
          /\ job # BadEnd(cell)
      BY <1>1, <2>1 DEF RunInv, RequestInv, BadEnd
    <3>2. hurt => fails > 0 \/ ~good
      BY <1>1, <3>1 DEF RunInv, HurtInv
    <3>. QED
      BY <1>1, <2>1, <3>1, <3>2 DEF HurtInv
  <2>. QED
    BY <1>1, <2>1, <2>2, <2>3, <2>4, Books DEF RunInv
<1>. QED
  BY <1>2, <1>3, <1>4

\* The next round of a family's loop, or what follows it: what holds of the answers
\* is not forgotten.
LEMMA RoundKeeps ==
  ASSUME RunInv, pc = "requests", Round(cell),
         UNCHANGED <<server, hurt>>, UNCHANGED Outside, good' \in BOOLEAN,
         BySdk(cell) => step \in {"ask", "poll"},
         cell.family = "realtime" => ~BySdk(cell),
         hurt => fails > 0 \/ ~good' \/ (server = "dead" /\ ~BySdk(cell))
  PROVE  RunInv'
<1>1. /\ pc' = "requests" /\ pc \in Running /\ pc \in Serving /\ cell' = cell /\ todo # <<>>
      /\ UNCHANGED <<cells, opts, todo, mine, ended, fails, exit, reported, alive, workers, early,
                     givenUp>>
      /\ AliveInv'
  BY FailedKept DEF Outside, Running, Serving, files, report, procs, RunInv, TodoInv, AliveInv, cell
<1>2. n \in Nat /\ n > 0 /\ job' = "none"
  BY DEF RunInv, RequestInv, Round
<1>3. CASE BySdk(cell)
  <2>1. step' = "done" /\ n' = n
    BY <1>3 DEF Round
  <2>2. RequestInv' /\ HurtInv'
    BY <1>1, <1>2, <1>3, <2>1 DEF RequestInv, HurtInv
  <2>. QED
    BY <1>1, <2>2, Kinds, Books DEF RunInv
<1>4. CASE ~BySdk(cell)
  <2>1. /\ step' \in {"ask", "final"} /\ n' \in Nat /\ n' > 0
        /\ step' = "ask" => cell.family # "realtime"
    <3>1. cell.family = "realtime" => Rounds(cell) = 1
      BY DEF Rounds
    <3>2. \/ n < Rounds(cell) /\ step' = "ask" /\ n' = n + 1
          \/ ~(n < Rounds(cell)) /\ step' = "final" /\ n' = n
      BY <1>4 DEF Round
    <3>. QED
      BY <1>2, <3>1, <3>2
  <2>2. RequestInv' /\ HurtInv'
    BY <1>1, <1>2, <1>4, <2>1 DEF RequestInv, HurtInv, BadEnd
  <2>. QED
    BY <1>1, <2>2, Kinds, Books DEF RunInv
<1>. QED
  BY <1>3, <1>4

\* Another step within the round.
LEMMA MoveKeeps ==
  ASSUME RunInv, pc = "requests",
         UNCHANGED <<server, n, hurt>>, UNCHANGED Outside, good' \in BOOLEAN,
         step' \in {"early", "poll", "health", "after", "done"},
         BySdk(cell) => step' \in {"poll", "done"},
         step' \in {"health", "after"} /\ job' \in {"queued", BadEnd(cell)} => ~good',
         hurt => \/ fails > 0 \/ ~good'
                 \/ step' # "done" /\ server = "dead"
                 \/ step' \in {"early", "poll"} /\ job' = BadEnd(cell)
  PROVE  RunInv'
<1>1. /\ pc' = "requests" /\ pc \in Running /\ pc \in Serving /\ cell' = cell /\ todo # <<>>
      /\ UNCHANGED <<cells, opts, todo, mine, ended, fails, exit, reported, alive, workers, early,
                     givenUp>>
      /\ AliveInv'
  BY FailedKept DEF Outside, Running, Serving, files, report, procs, RunInv, TodoInv, AliveInv, cell
<1>2. RequestInv'
  BY <1>1 DEF RunInv, RequestInv
<1>3. HurtInv'
  BY <1>1 DEF HurtInv
<1>. QED
  BY <1>1, <1>2, <1>3, Kinds, Books DEF RunInv

\* What may be said when a request is answered.
LEMMA Answered ==
  ASSUME RunInv, pc = "requests"
  PROVE  /\ good \in BOOLEAN
         /\ \A ok \in Answers : ok \in BOOLEAN /\ (server = "dead" => ~ok)
         /\ BySdk(cell) => /\ step \in {"ask", "poll", "done"}
                           /\ cell.family \in Generating
         /\ step = "ask" /\ (BySdk(cell) \/ cell.family = "realtime") => good
         /\ step \in {"ask", "final"} => job = "none"
         /\ step \in {"health", "after"} /\ job \in {"queued", BadEnd(cell)} => ~good
         /\ hurt => \/ fails > 0 \/ ~good
                    \/ step # "done" /\ server = "dead"
                    \/ step \in {"early", "poll"} /\ job = BadEnd(cell)
BY Kinds DEF RunInv, RequestInv, HurtInv, Answers, BySdk

LEMMA AskKeeps ==
  ASSUME RunInv, pc = "requests", UNCHANGED Outside,
         AskPlain(cell) \/ AskRealtime(cell) \/ AskSdk(cell) \/ AskRefused(cell)
         \/ AskNoId(cell) \/ AskJob(cell) \/ AskBad(cell)
  PROVE  RunInv'
<1>. DEFINE c == cell
<1>. HIDE DEF c
<1>0. /\ step = "ask" /\ job = "none" /\ good \in BOOLEAN
      /\ hurt => fails > 0 \/ ~good \/ server = "dead"
      /\ BySdk(c) \/ c.family = "realtime" => good
      /\ BySdk(c) => c.family \in Generating
      /\ \A ok \in Answers : ok \in BOOLEAN /\ (server = "dead" => ~ok)
      /\ BadEnd(c) # "none"
  BY Answered DEF AskPlain, AskRealtime, AskSdk, AskRefused, AskNoId, AskJob, AskBad, BadEnd, c
<1>1. CASE AskPlain(c)
  <2>1. PICK ok \in Answers : good' = (good /\ ok)
    BY <1>1 DEF AskPlain
  <2>2. good' \in BOOLEAN /\ (~good \/ ~ok => ~good')
    BY <2>1, <1>0
  <2>3. Round(c) /\ ~BySdk(c) /\ c.family # "realtime" /\ UNCHANGED <<server, hurt>>
    BY <1>1 DEF AskPlain
  <2>. QED
    BY <1>0, <2>2, <2>3, RoundKeeps DEF c
<1>2. CASE AskRealtime(c)
  <2>1. PICK ok \in Answers : good' = ok
    BY <1>2 DEF AskRealtime
  <2>2. good' \in BOOLEAN /\ (server = "dead" => ~good')
    BY <2>1, <1>0
  <2>3. Round(c) /\ ~BySdk(c) /\ UNCHANGED <<server, hurt>>
    BY <1>0, <1>2 DEF AskRealtime, Generating
  <2>. QED
    BY <1>0, <1>2, <2>2, <2>3, RoundKeeps DEF c, AskRealtime
<1>3. CASE AskSdk(c)
  <2>1. PICK ok \in Answers : good' = ok
    BY <1>3 DEF AskSdk
  <2>2. good' \in BOOLEAN /\ (server = "dead" => ~good')
    BY <2>1, <1>0
  <2>3. BySdk(c) /\ step' = "done" /\ UNCHANGED <<server, n, job, hurt>>
    BY <1>3 DEF AskSdk
  <2>. QED
    BY <1>0, <2>2, <2>3, MoveKeeps DEF c
<1>4. CASE AskRefused(c)
  <2>1. good' = FALSE /\ HasJobs(c) /\ UNCHANGED <<server, hurt>>
    BY <1>4 DEF AskRefused
  <2>2. good' \in BOOLEAN /\ c.family # "realtime"
    BY <2>1, Zenon DEF HasJobs
  <2>3. CASE Round(c)
    BY <1>0, <2>1, <2>2, <2>3, RoundKeeps DEF c
  <2>4. CASE ~BySdk(c) /\ step' = "after" /\ UNCHANGED n
    BY <1>0, <2>1, <2>2, <2>4, MoveKeeps DEF c
  <2>. QED
    BY <1>4, <2>3, <2>4 DEF AskRefused
<1>5. CASE AskNoId(c)
  <2>1. HasJobs(c) /\ ~BySdk(c) /\ server = "up" /\ UNCHANGED <<server, good, hurt>>
    BY <1>5 DEF AskNoId
  <2>2. c.family # "realtime"
    BY <2>1 DEF HasJobs
  <2>3. CASE Round(c)
    BY <1>0, <2>1, <2>2, <2>3, RoundKeeps DEF c
  <2>4. CASE step' = "after" /\ job' = "none" /\ UNCHANGED n
    BY <1>0, <2>1, <2>2, <2>4, MoveKeeps DEF c
  <2>. QED
    BY <1>5, <2>3, <2>4 DEF AskNoId
<1>6. CASE AskJob(c)
  <2>1. /\ server = "up" /\ step' \in {"early", "poll"} /\ (BySdk(c) => step' = "poll")
        /\ UNCHANGED <<server, n, good, hurt>>
    BY <1>6 DEF AskJob
  <2>. QED
    BY <1>0, <2>1, MoveKeeps DEF c
<1>7. CASE AskBad(c)
  <2>1. ~BySdk(c) /\ UNCHANGED <<server, n, hurt>>
    BY <1>0, <1>7 DEF AskBad, Generating
  <2>2. CASE \E ok \in Answers : good' = (good /\ ok) /\ step' = "health" /\ job' = job
    <3>1. PICK ok \in Answers : good' = (good /\ ok)
      BY <2>2
    <3>2. good' \in BOOLEAN /\ (~good \/ ~ok => ~good')
      BY <3>1, <1>0
    <3>. QED
      BY <1>0, <2>1, <2>2, <3>2, MoveKeeps DEF c
  <2>3. CASE server = "up" /\ job' = "queued" /\ step' = "poll" /\ UNCHANGED good
    BY <1>0, <2>1, <2>3, MoveKeeps DEF c
  <2>4. CASE server = "up" /\ step' = "health" /\ UNCHANGED <<job, good>>
    BY <1>0, <2>1, <2>4, MoveKeeps DEF c
  <2>. QED
    BY <1>7, <2>2, <2>3, <2>4 DEF AskBad
<1>. QED
  BY <1>1, <1>2, <1>3, <1>4, <1>5, <1>6, <1>7 DEF c

\* A job is polled until it has ended, or for as long as the deadline lets.
LEMMA PollKeeps ==
  ASSUME RunInv, pc = "requests", UNCHANGED Outside,
         PollEnded(cell) \/ PollBad(cell) \/ PollDeadline(cell)
  PROVE  RunInv'
<1>. DEFINE c == cell
<1>. HIDE DEF c
<1>0. /\ step = "poll" /\ good \in BOOLEAN /\ Then(c) /\ UNCHANGED <<server, hurt>>
      /\ hurt => fails > 0 \/ ~good \/ server = "dead" \/ job = BadEnd(c)
      /\ \A ok \in Answers : ok \in BOOLEAN /\ (server = "dead" => ~ok)
      /\ BySdk(c) => c.family \in Generating
  BY Answered DEF PollEnded, PollBad, PollDeadline, c
\* A job that has not ended as it should counts.
<1>1. /\ good' \in BOOLEAN /\ (~good => ~good')
      /\ ~good' \/ (server = "up" /\ job \notin {"queued", BadEnd(c)})
  <2>1. CASE good' = FALSE
    BY <2>1, Zenon
  <2>2. CASE /\ c.family # "invalid" /\ server = "up" /\ job = "completed"
             /\ \E ok \in Answers : good' = (good /\ ok)
    <3>1. PICK ok \in Answers : good' = (good /\ ok)
      BY <2>2
    <3>. QED
      BY <1>0, <2>2, <3>1 DEF BadEnd
  <2>3. CASE c.family = "invalid" /\ server = "up" /\ job = "failed" /\ good' = good
    BY <1>0, <2>3 DEF BadEnd
  <2>. QED
    BY <2>1, <2>2, <2>3 DEF PollEnded, PollBad, PollDeadline, c
<1>2. hurt => fails > 0 \/ ~good'
  BY <1>0, <1>1
<1>3. CASE c.family = "invalid"
  BY <1>0, <1>1, <1>2, <1>3, MoveKeeps DEF Then, Generating, c
<1>4. CASE c.family # "invalid" /\ BySdk(c)
  <2>1. c.family # "realtime"
    BY <1>0, <1>4 DEF Generating
  <2>. QED
    BY <1>0, <1>1, <1>2, <1>4, <2>1, RoundKeeps DEF Then, c
<1>5. CASE c.family # "invalid" /\ ~BySdk(c)
  BY <1>0, <1>1, <1>2, <1>5, MoveKeeps DEF Then, c
<1>. QED
  BY <1>3, <1>4, <1>5

LEMMA CheckKeeps ==
  ASSUME RunInv, pc = "requests", UNCHANGED Outside,
         Early(cell) \/ BadHealth(cell) \/ After(cell) \/ FinalHealth(cell)
  PROVE  RunInv'
<1>. DEFINE c == cell
<1>. HIDE DEF c
<1>0. /\ step \in {"early", "health", "after", "final"} /\ good \in BOOLEAN
      /\ UNCHANGED <<server, hurt>> /\ ~BySdk(c)
      /\ hurt => fails > 0 \/ ~good \/ server = "dead" \/ (step = "early" /\ job = BadEnd(c))
  BY Answered DEF Early, BadHealth, After, FinalHealth, c
<1>1. PICK ok \in Answers : good' = (good /\ ok)
  BY DEF Early, BadHealth, After, FinalHealth
<1>2. good' \in BOOLEAN /\ (~good \/ server = "dead" => ~good')
  BY <1>0, <1>1, Answered
<1>3. CASE step = "early"
  BY <1>0, <1>2, <1>3, MoveKeeps DEF Early, BadHealth, After, FinalHealth, c
<1>4. CASE step \in {"health", "after"}
  BY <1>0, <1>2, <1>4, RoundKeeps DEF Early, BadHealth, After, FinalHealth, c
<1>5. CASE step = "final"
  BY <1>0, <1>2, <1>5, MoveKeeps DEF Early, BadHealth, After, FinalHealth, c
<1>. QED
  BY <1>0, <1>3, <1>4, <1>5

-----------------------------------------------------------------------------
(* Every step.                                                             *)

LEMMA RunStep == RunInv /\ [Next]_vars => RunInv'
<1>. SUFFICES ASSUME RunInv, [Next]_vars PROVE RunInv'
  OBVIOUS
<1>1. CASE RequestStep
  BY <1>1, AskKeeps, PollKeeps, CheckKeeps DEF RequestStep, CellStep
<1>2. CASE Next /\ ~RequestStep
  BY <1>2, InvokeKeeps, MatrixKeeps, CollectKeeps, SummaryKeeps, KillKeeps, PlannedKeeps, StartKeeps,
     StartFailsKeeps, StopKeeps, CellEndKeeps, EnvironmentKeeps DEF Next, ProbeStep
<1>3. CASE UNCHANGED vars
  <2>1. UNCHANGED <<server, step, n, good, job, hurt, cells, run, pc, opts, todo, mine, attempt,
                    fails, exit, ended, summary, reported, alive, workers, early, givenUp>>
    BY <1>3 DEF vars, cellVars, files, report, procs
  <2>2. AllCells' = AllCells /\ cell' = cell
    BY <2>1 DEF AllCells, cell
  <2>3. RunTypeOK' /\ TodoInv' /\ EndsInv'
    BY <2>1, <2>2 DEF RunInv, RunTypeOK, TodoInv, EndsInv
  <2>4. HurtInv' /\ RequestInv' /\ AliveInv'
    BY <2>1, <2>2 DEF RunInv, HurtInv, RequestInv, AliveInv, Failed
  <2>5. CleanExit' /\ SummaryAgrees' /\ (pc' # "idle" => exit' = 2 /\ ~reported')
    BY <2>1 DEF RunInv, CleanExit, SummaryAgrees
  <2>. QED
    BY <2>3, <2>4, <2>5 DEF RunInv
<1>. QED
  BY <1>1, <1>2, <1>3

LEMMA RunInit == Init => RunInv
<1>. SUFFICES ASSUME Init PROVE RunInv
  OBVIOUS
<1>1. /\ pc = "idle" /\ todo = <<>> /\ mine = {} /\ alive = {} /\ workers = {} /\ exit = 2 /\ fails = 0
      /\ ~reported
      /\ cells \in Matrices /\ ended = [c \in AllCells |-> "none"]
      /\ good = TRUE /\ hurt = FALSE
  BY DEF Init, CellInit
<1>2. good \in BOOLEAN /\ hurt \in BOOLEAN
  BY <1>1, Zenon
<1>3. RunTypeOK
  BY <1>1, <1>2 DEF RunTypeOK
<1>4. TodoInv
  BY <1>1 DEF TodoInv, Running, Serving, Before, IsInjective, ToSet
<1>. QED
  BY <1>1, <1>3, <1>4 DEF RunInv, EndsInv, HurtInv, RequestInv, AliveInv, CleanExit, SummaryAgrees,
     Running, Serving

-----------------------------------------------------------------------------
(* The search within the probe, which forgets it once the matrix is built. *)

SearchInv ==
  \/ PairwiseInv /\ AddsInv /\ fixed \in {{}, FixedCells}
  \/ offered = <<>> /\ selected = <<>> /\ remaining = <<>> /\ uncovered = {} /\ fixed = {}

LEMMA SearchInvHolds == ProbeSpec => []SearchInv
<1>1. ProbeInit => SearchInv
  <2>. SUFFICES ASSUME SearchInit PROVE SearchInv
    BY DEF ProbeInit
  <2>1. fixed = {}
    BY DEF SearchInit
  <2>. QED
    BY <2>1, PairwiseInit, AddsInit DEF SearchInv
<1>2. SearchInv /\ [ProbeNext]_probeVars => SearchInv'
  <2>. SUFFICES ASSUME SearchInv, [ProbeNext]_probeVars PROVE SearchInv'
    OBVIOUS
  <2>1. CASE UNCHANGED searchVars
    <3>1. UNCHANGED <<offered, window, maximum, selected, remaining, uncovered, fruitless, fixed>>
      BY <2>1 DEF searchVars, searchInput
    <3>2. CASE PairwiseInv /\ AddsInv /\ fixed \in {{}, FixedCells}
      <4>1. PairwiseInv' /\ AddsInv'
        BY <2>1, <3>2, PairwiseStep, AddsInductive
      <4>. QED
        BY <3>1, <3>2, <4>1 DEF SearchInv, FixedCells
    <3>3. CASE offered = <<>> /\ selected = <<>> /\ remaining = <<>> /\ uncovered = {} /\ fixed = {}
      BY <3>1, <3>3 DEF SearchInv
    <3>. QED
      BY <3>2, <3>3 DEF SearchInv
  <2>2. CASE Returns
    BY <2>2 DEF Returns, SearchInv
  <2>3. CASE Searching /\ SearchNext
    <3>1. PairwiseInv /\ AddsInv /\ fixed \in {{}, FixedCells}
      BY <2>3 DEF SearchInv, Searching
    <3>2. PairwiseInv' /\ AddsInv'
      BY <2>3, <3>1, PairwiseStep, AddsInductive
    <3>3. fixed' \in {{}, FixedCells}
      BY <2>3, <3>1 DEF SearchNext, Pick, Fix
    <3>. QED
      BY <3>2, <3>3 DEF SearchInv, FixedCells
  <2>. QED
    BY <2>1, <2>2, <2>3 DEF ProbeNext, probeVars
<1>. QED
  BY <1>1, <1>2, PTL DEF ProbeSpec

\* Whatever the candidates, their order, the window and the maximum, a search that
\* ends with room for more cells leaves no pair behind that a candidate of its
\* window has.
THEOREM GreedyLeavesUnseen == ProbeSpec => []UncoveredIsUnseen
<1>1. SearchInv => UncoveredIsUnseen
  <2>1. PairwiseInv => UncoveredIsUnseen
    BY CoversAtEnd
  <2>2. remaining = <<>> => UncoveredIsUnseen
    BY DEF UncoveredIsUnseen
  <2>. QED
    BY <2>1, <2>2 DEF SearchInv
<1>. QED
  BY <1>1, SearchInvHolds, PTL

\* Whatever the candidates, their order, the window and the maximum, each cell the
\* search takes covers a pair that no cell before it does, except perhaps the last.
THEOREM GreedyWastesNothing == ProbeSpec => []EachAddsAPair
<1>1. SearchInv => EachAddsAPair
  <2>1. AddsInv => EachAddsAPair
    BY DEF AddsInv
  <2>2. selected = <<>> => EachAddsAPair
    <3>1. selected = <<>> => 1 .. Len(selected) - 1 = {}
      OBVIOUS
    <3>. QED
      BY <3>1 DEF EachAddsAPair
  <2>. QED
    BY <2>1, <2>2 DEF SearchInv
<1>. QED
  BY <1>1, SearchInvHolds, PTL

\* No targeted spec is dropped by the filter, and no model goes without a smoke test
\* of what it supports: of the catalogue and the specs as the source has them.
THEOREM NothingIsDropped == ProbeSpec => []NothingDropped
<1>1. SearchInv => NothingDropped
  BY FixedDropsNothing DEF SearchInv
<1>. QED
  BY <1>1, SearchInvHolds, PTL

-----------------------------------------------------------------------------
(* The invocations within the probe.                                       *)

LEMMA RunInvHolds == ProbeSpec => []RunInv
<1>1. ProbeInit => RunInv
  BY RunInit DEF ProbeInit
<1>2. RunInv /\ [ProbeNext]_probeVars => RunInv'
  <2>1. [ProbeNext]_probeVars => [Next]_vars
    BY DEF ProbeNext, Returns, probeVars
  <2>. QED
    BY <2>1, RunStep
<1>. QED
  BY <1>1, <1>2, PTL DEF ProbeSpec

\* An exit code of 0 means that every collected cell has ended well and that no
\* server died under one and no job failed, for any matrices, profiles, limits and
\* number of invocations, killed ones among them.
THEOREM ExitIsClean == ProbeSpec => []CleanExit
<1>1. RunInv => CleanExit
  BY DEF RunInv
<1>. QED
  BY <1>1, RunInvHolds, PTL

\* The summary, which is made of the stream of all invocations, names a cell of this
\* one exactly when its exit code tells of a failure.
THEOREM SummaryAgreesAlways == ProbeSpec => []SummaryAgrees
<1>1. RunInv => SummaryAgrees
  BY DEF RunInv
<1>. QED
  BY <1>1, RunInvHolds, PTL

\* No leader of a server outlives an invocation that exits with 0, and one that
\* outlives its cell within an invocation was given up and is on record as failed, for
\* any cells and whatever its stop could not write; workers go on without a leader only
\* where it ended before them.
THEOREM LeftIsFailedAlways == ProbeSpec => []LeftIsFailed
<1>1. RunInv => LeftIsFailed
  <2>. SUFFICES ASSUME RunInv PROVE LeftIsFailed
    OBVIOUS
  <2>1. ASSUME exit = 0, NEW s \in alive PROVE FALSE
    <3>1. pc = "idle"
      BY <2>1 DEF RunInv
    <3>2. s \in Failed
      BY <2>1, <3>1 DEF RunInv, AliveInv, Serving
    <3>. QED
      BY <2>1, <3>2 DEF RunInv, CleanExit, Failed
  <2>2. ASSUME NEW s \in alive
        PROVE  \/ pc # "idle" /\ todo # <<>> /\ s = cell
               \/ s \in givenUp /\ (pc # "idle" => ended[s] = "failed")
    <3>1. CASE s \in Failed
      BY <3>1 DEF Failed
    <3>2. CASE s \notin Failed
      BY <3>2 DEF RunInv, AliveInv, TodoInv, Serving
    <3>. QED
      BY <3>1, <3>2
  <2>3. workers \subseteq alive \cup early
    BY DEF RunInv, AliveInv
  <2>. QED
    BY <2>1, <2>2, <2>3 DEF LeftIsFailed
<1>. QED
  BY <1>1, RunInvHolds, PTL

=============================================================================
