---------------------------- MODULE Walks_proofs ----------------------------
(***************************************************************************)
(* The walks of Walks for sequences of any length. Induction over the      *)
(* places of a sequence is done with the least number of a set: a walk     *)
(* that goes wrong goes wrong at a first place.                            *)
(***************************************************************************)
EXTENDS Walks, Functions, SequencesExt, SequenceTheorems, WellFoundedInduction, TLAPS

LEMMA LeastNumber ==
  ASSUME NEW T \in SUBSET Nat, T # {}
  PROVE  \E x \in T : \A y \in T : x <= y
<1>. DEFINE R == {ss \in Nat \X Nat : ss[1] < ss[2]}
<1>1. IsWellFoundedOn(R, Nat)
  BY NatLessThanWellFounded DEF OpToRel
<1>2. PICK x \in T : \A y \in T : <<y, x>> \notin R
  <2>. HIDE DEF R
  <2>. QED
    BY <1>1, WFMin
<1>3. ASSUME NEW y \in T PROVE x <= y
  <2>1. <<y, x>> \in Nat \X Nat /\ <<y, x>> \notin R
    BY <1>2
  <2>. QED
    BY <2>1
<1>. QED
  BY <1>3

LEMMA UpTo ==
  ASSUME NEW n \in Nat, NEW S, 0 \in S, \A i \in 0 .. n - 1 : i \in S => i + 1 \in S
  PROVE  0 .. n \subseteq S
<1>. DEFINE T == (0 .. n) \ S
<1>. SUFFICES ASSUME T # {} PROVE FALSE
  OBVIOUS
<1>1. PICK k \in T : \A y \in T : k <= y
  <2>1. T \in SUBSET Nat
    OBVIOUS
  <2>. QED
    BY <2>1, LeastNumber
<1>2. k # 0 /\ k - 1 \in 0 .. n - 1
  BY <1>1
<1>3. k - 1 \in S
  BY <1>1, <1>2
<1>4. (k - 1) + 1 \in S
  BY <1>2, <1>3
<1>. QED
  BY <1>1, <1>2, <1>4

\* A walk of n steps in V: from b, the i-th step as the function h has it.
Steps(n, V) == [(1 .. n) \X V -> V]
IsWalk(f, n, V, b, h) ==
  f \in [0 .. n -> V] /\ f[0] = b /\ \A i \in 1 .. n : f[i] = h[<<i, f[i - 1]>>]

LEMMA WalkExists ==
  ASSUME NEW n \in Nat, NEW V, NEW b \in V, NEW h \in Steps(n, V)
  PROVE  \E f : IsWalk(f, n, V, b, h)
<1>. USE DEF Steps
<1>. DEFINE Walk(f, k) == f[0] = b /\ \A i \in 1 .. k : f[i] = h[<<i, f[i - 1]>>]
            S == {k \in 0 .. n : \E f \in [0 .. k -> V] : Walk(f, k)}
<1>1. 0 \in S
  <2>. DEFINE g == [i \in 0 .. 0 |-> b]
  <2>1. g \in [0 .. 0 -> V] /\ Walk(g, 0)
    OBVIOUS
  <2>. HIDE DEF g
  <2>. QED
    BY <2>1
<1>2. ASSUME NEW k \in 0 .. n - 1, k \in S PROVE k + 1 \in S
  <2>1. PICK f \in [0 .. k -> V] : Walk(f, k)
    BY <1>2
  <2>. DEFINE e == h[<<k + 1, f[k]>>]
              g == [i \in 0 .. k + 1 |-> IF i = k + 1 THEN e ELSE f[i]]
  <2>2. k \in Nat /\ k + 1 \in 1 .. n /\ k + 1 \in 0 .. n
    OBVIOUS
  <2>3. f[k] \in V /\ e \in V
    BY <2>2
  <2>4. g \in [0 .. k + 1 -> V]
    <3>. HIDE DEF e
    <3>. QED
      BY <2>2, <2>3
  <2>5. g[0] = b
    BY <2>1, <2>2
  <2>6. ASSUME NEW i \in 1 .. k + 1 PROVE g[i] = h[<<i, g[i - 1]>>]
    <3>1. g[i - 1] = f[i - 1]
      BY <2>2
    <3>2. CASE i = k + 1
      <4>1. g[i] = e /\ i - 1 = k
        BY <3>2, <2>2
      <4>2. e = h[<<i, f[i - 1]>>]
        BY <3>2, <4>1
      <4>. QED
        BY <3>1, <4>1, <4>2
    <3>3. CASE i # k + 1
      <4>1. i \in 1 .. k /\ g[i] = f[i]
        BY <3>3, <2>2
      <4>. QED
        BY <3>1, <4>1, <2>1
    <3>. QED
      BY <3>2, <3>3
  <2>. HIDE DEF g
  <2>7. Walk(g, k + 1)
    BY <2>5, <2>6
  <2>. QED
    BY <2>2, <2>4, <2>7
<1>. HIDE DEF S
<1>3. 0 .. n \subseteq S
  BY <1>1, <1>2, UpTo
<1>4. n \in S
  BY <1>3
<1>. QED
  BY <1>4 DEF S, IsWalk

-----------------------------------------------------------------------------
(* What is kept of a sequence.                                             *)

\* The walk of Kept, step by step.
Keeping(f, T, s, S) ==
  /\ f \in [0 .. Len(s) -> Seq(T)]
  /\ f[0] = <<>>
  /\ \A i \in 1 .. Len(s) : f[i] = IF s[i] \in S THEN Append(f[i - 1], s[i]) ELSE f[i - 1]
  /\ Kept(s, S) = f[Len(s)]

LEMMA KeptWalk ==
  ASSUME NEW T, NEW s \in Seq(T), NEW S
  PROVE  \E f : Keeping(f, T, s, S)
<1>. DEFINE n == Len(s)
            Step(f) == [i \in 0 .. n |->
                          IF i = 0 THEN <<>>
                          ELSE IF s[i] \in S THEN Append(f[i - 1], s[i]) ELSE f[i - 1]]
            h == [p \in (1 .. n) \X Seq(T) |-> IF s[p[1]] \in S THEN Append(p[2], s[p[1]]) ELSE p[2]]
            c == CHOOSE f : f = Step(f)
<1>1. n \in Nat /\ <<>> \in Seq(T) /\ \A i \in 1 .. n : s[i] \in T
  OBVIOUS
<1>2. h \in [(1 .. n) \X Seq(T) -> Seq(T)]
  OBVIOUS
<1>3. PICK f \in [0 .. n -> Seq(T)] : f[0] = <<>> /\ \A i \in 1 .. n : f[i] = h[<<i, f[i - 1]>>]
  <2>. DEFINE e == <<>>
              V == Seq(T)
  <2>1. e \in V /\ h \in Steps(n, V) /\ n \in Nat
    BY <1>1, <1>2 DEF Steps
  <2>. HIDE DEF h, n, e, V
  <2>2. PICK f : IsWalk(f, n, V, e, h)
    BY <2>1, WalkExists
  <2>. QED
    BY <2>2 DEF e, V, IsWalk
<1>4. ASSUME NEW i \in 1 .. n
      PROVE  f[i] = IF s[i] \in S THEN Append(f[i - 1], s[i]) ELSE f[i - 1]
  <2>1. i - 1 \in 0 .. n /\ f[i - 1] \in Seq(T)
    BY <1>1, <1>3
  <2>2. <<i, f[i - 1]>> \in (1 .. n) \X Seq(T)
    BY <2>1
  <2>. QED
    BY <1>3, <2>2
<1>5. f = Step(f)
  <2>1. ASSUME NEW i \in 0 .. n PROVE f[i] = Step(f)[i]
    <3>1. CASE i = 0
      BY <3>1, <1>3
    <3>2. CASE i # 0
      <4>1. i \in 1 .. n
        BY <3>2, <1>1
      <4>. QED
        BY <3>2, <4>1, <1>4
    <3>. QED
      BY <3>1, <3>2
  <2>. QED
    BY <2>1
<1>6. c = Step(c)
  <2>. HIDE DEF Step
  <2>. QED
    BY <1>5
<1>7. c = f
  <2>. DEFINE E == {i \in 0 .. n : c[i] = f[i]}
  <2>. HIDE DEF c
  <2>1. 0 \in E
    BY <1>1, <1>3, <1>6
  <2>2. ASSUME NEW i \in 0 .. n - 1, i \in E PROVE i + 1 \in E
    <3>1. i + 1 \in 1 .. n /\ i + 1 \in 0 .. n /\ (i + 1) - 1 = i /\ i + 1 # 0
      BY <1>1
    <3>2. c[i + 1] = IF s[i + 1] \in S THEN Append(c[(i + 1) - 1], s[i + 1]) ELSE c[(i + 1) - 1]
      BY <1>6, <3>1
    <3>3. f[i + 1] = IF s[i + 1] \in S THEN Append(f[(i + 1) - 1], s[i + 1]) ELSE f[(i + 1) - 1]
      BY <1>4, <3>1
    <3>. QED
      BY <2>2, <3>1, <3>2, <3>3
  <2>. HIDE DEF E
  <2>3. 0 .. n \subseteq E
    BY <1>1, <2>1, <2>2, UpTo
  <2>4. \A i \in 0 .. n : c[i] = f[i]
    BY <2>3 DEF E
  <2>5. c = [i \in 0 .. n |-> c[i]]
    BY <1>6
  <2>. QED
    BY <2>4, <2>5
<1>8. Kept(s, S) = c[n]
  BY DEF Kept
<1>. HIDE DEF c, h, Step
<1>9. Keeping(f, T, s, S)
  BY <1>3, <1>4, <1>7, <1>8 DEF Keeping
<1>. QED
  BY <1>9

LEMMA KeptEmpty ==
  ASSUME NEW S
  PROVE  Kept(<<>>, S) = <<>>
<1>1. <<>> \in Seq({}) /\ Len(<<>>) = 0
  OBVIOUS
<1>2. PICK f : Keeping(f, {}, <<>>, S)
  BY <1>1, KeptWalk
<1>. QED
  BY <1>1, <1>2 DEF Keeping

LEMMA KeptAppend ==
  ASSUME NEW T, NEW s \in Seq(T), NEW S, NEW x \in T
  PROVE  Kept(Append(s, x), S) = IF x \in S THEN Append(Kept(s, S), x) ELSE Kept(s, S)
<1>. DEFINE t == Append(s, x)
            n == Len(s)
<1>1. n \in Nat /\ t \in Seq(T) /\ Len(t) = n + 1 /\ t[n + 1] = x /\ \A i \in 1 .. n : t[i] = s[i]
  OBVIOUS
<1>. HIDE DEF t
<1>2. PICK f : Keeping(f, T, s, S)
  BY KeptWalk
<1>3. PICK g : Keeping(g, T, t, S)
  BY <1>1, KeptWalk
<1>. USE DEF Keeping
<1>. DEFINE E == {i \in 0 .. n : f[i] = g[i]}
<1>. HIDE DEF n
<1>4. 0 \in E
  BY <1>1, <1>2, <1>3
<1>5. ASSUME NEW i \in 0 .. n - 1, i \in E PROVE i + 1 \in E
  <2>1. i + 1 \in 1 .. n /\ i + 1 \in 1 .. Len(t) /\ (i + 1) - 1 = i /\ i + 1 \in 0 .. n
    BY <1>1
  <2>2. t[i + 1] = s[i + 1] /\ f[i] = g[i]
    BY <2>1, <1>1, <1>5
  <2>3. f[i + 1] = IF s[i + 1] \in S THEN Append(f[(i + 1) - 1], s[i + 1]) ELSE f[(i + 1) - 1]
    BY <2>1, <1>2 DEF n
  <2>4. g[i + 1] = IF t[i + 1] \in S THEN Append(g[(i + 1) - 1], t[i + 1]) ELSE g[(i + 1) - 1]
    BY <2>1, <1>3
  <2>. QED
    BY <2>1, <2>2, <2>3, <2>4
<1>. HIDE DEF E
<1>6. 0 .. n \subseteq E
  BY <1>1, <1>4, <1>5, UpTo
<1>7. f[n] = g[n]
  BY <1>1, <1>6 DEF E
<1>8. n + 1 \in 1 .. Len(t) /\ (n + 1) - 1 = n
  BY <1>1
<1>. QED
  BY <1>1, <1>2, <1>3, <1>7, <1>8 DEF t

\* m tells where the elements of r were among the first k of s: in their order,
\* and no element of S at another place.
Places(m, r, k, s, S) ==
  /\ m \in [1 .. Len(r) -> 1 .. k]
  /\ \A j \in 1 .. Len(r) : r[j] = s[m[j]] /\ s[m[j]] \in S
  /\ \A j, q \in 1 .. Len(r) : j < q => m[j] < m[q]
  /\ \A i \in 1 .. k : s[i] \in S => \E j \in 1 .. Len(r) : m[j] = i

LEMMA KeptPlaces ==
  ASSUME NEW T, NEW s \in Seq(T), NEW S
  PROVE  Kept(s, S) \in Seq(T) /\ \E m : Places(m, Kept(s, S), Len(s), s, S)
<1>. DEFINE n == Len(s)
<1>1. n \in Nat /\ \A i \in 1 .. n : s[i] \in T
  OBVIOUS
<1>2. PICK f : Keeping(f, T, s, S)
  BY KeptWalk
<1>. USE DEF Keeping
<1>. DEFINE E == {k \in 0 .. n : \E m : Places(m, f[k], k, s, S)}
<1>3. 0 \in E
  <2>. DEFINE m == [j \in {} |-> 0]
  <2>1. Len(f[0]) = 0 /\ 1 .. Len(f[0]) = {} /\ 1 .. 0 = {}
    BY <1>2
  <2>2. m \in [1 .. Len(f[0]) -> 1 .. 0]
    BY <2>1
  <2>3. Places(m, f[0], 0, s, S)
    BY <2>1, <2>2 DEF Places
  <2>. QED
    BY <2>3, <1>1
<1>4. ASSUME NEW k \in 0 .. n - 1, k \in E PROVE k + 1 \in E
  <2>1. k \in Nat /\ k + 1 \in 1 .. n /\ (k + 1) - 1 = k /\ k + 1 \in 0 .. n
    BY <1>1
  <2>2. PICK m : Places(m, f[k], k, s, S)
    BY <1>4
  <2>3. f[k] \in Seq(T) /\ s[k + 1] \in T /\ Len(f[k]) \in Nat
    BY <1>1, <1>2, <2>1
  <2>4. f[k + 1] = IF s[k + 1] \in S THEN Append(f[k], s[k + 1]) ELSE f[k]
    BY <1>2, <2>1
  <2>5. CASE s[k + 1] \notin S
    <3>1. f[k + 1] = f[k]
      BY <2>4, <2>5
    <3>2. m \in [1 .. Len(f[k]) -> 1 .. k + 1]
      BY <2>1, <2>2, <2>3 DEF Places
    <3>3. Places(m, f[k + 1], k + 1, s, S)
      BY <2>1, <2>2, <2>5, <3>1, <3>2 DEF Places
    <3>. QED
      BY <2>1, <3>3
  <2>6. CASE s[k + 1] \in S
    <3>. DEFINE w == Len(f[k])
                g == [j \in 1 .. w + 1 |-> IF j = w + 1 THEN k + 1 ELSE m[j]]
    <3>. USE DEF Places
    <3>1. /\ Len(f[k + 1]) = w + 1 /\ f[k + 1][w + 1] = s[k + 1]
          /\ \A j \in 1 .. w : f[k + 1][j] = f[k][j]
      BY <2>3, <2>4, <2>6
    <3>2. g \in [1 .. w + 1 -> 1 .. k + 1]
      BY <2>1, <2>2, <2>3
    <3>3. ASSUME NEW j \in 1 .. w + 1 PROVE f[k + 1][j] = s[g[j]] /\ s[g[j]] \in S
      BY <2>2, <2>3, <2>6, <3>1
    <3>4. ASSUME NEW j \in 1 .. w + 1, NEW q \in 1 .. w + 1, j < q PROVE g[j] < g[q]
      <4>. HIDE DEF Keeping
      <4>1. j \in 1 .. w /\ m[j] \in 1 .. k
        BY <2>2, <2>3, <3>4
      <4>2. CASE q = w + 1
        BY <2>1, <2>3, <4>1, <4>2
      <4>3. CASE q # w + 1
        <5>1. q \in 1 .. w /\ m[j] < m[q]
          BY <2>2, <2>3, <3>4, <4>1, <4>3
        <5>. HIDE DEF Places
        <5>. QED
          BY <2>3, <4>1, <5>1
      <4>. QED
        BY <4>2, <4>3
    <3>5. ASSUME NEW i \in 1 .. k + 1, s[i] \in S PROVE \E j \in 1 .. w + 1 : g[j] = i
      <4>1. CASE i = k + 1
        BY <2>3, <4>1
      <4>2. CASE i # k + 1
        <5>1. PICK j \in 1 .. w : m[j] = i
          BY <2>1, <2>2, <3>5, <4>2
        <5>2. j \in 1 .. w + 1 /\ g[j] = i
          BY <2>3, <5>1
        <5>. QED
          BY <5>2
      <4>. QED
        BY <4>1, <4>2
    <3>. HIDE DEF g, w
    <3>6. Places(g, f[k + 1], k + 1, s, S)
      BY <3>1, <3>2, <3>3, <3>4, <3>5
    <3>. HIDE DEF Places
    <3>. QED
      BY <2>1, <3>6
  <2>. QED
    BY <2>5, <2>6
<1>. HIDE DEF E
<1>5. 0 .. n \subseteq E
  BY <1>1, <1>3, <1>4, UpTo
<1>6. \E m : Places(m, f[n], n, s, S)
  BY <1>1, <1>5 DEF E
<1>. QED
  BY <1>1, <1>2, <1>6

LEMMA KeptElements ==
  ASSUME NEW T, NEW s \in Seq(T), NEW S
  PROVE  /\ Kept(s, S) \in Seq(T)
         /\ ToSet(Kept(s, S)) = ToSet(s) \cap S
         /\ Kept(s, S) = <<>> <=> ToSet(s) \cap S = {}
         /\ Kept(s, S) # <<>> => Kept(s, S)[1] \in ToSet(s) \cap S
<1>. DEFINE r == Kept(s, S)
<1>1. PICK m : r \in Seq(T) /\ Places(m, r, Len(s), s, S)
  BY KeptPlaces
<1>. HIDE DEF r
<1>2. ToSet(r) \subseteq ToSet(s) \cap S
  BY <1>1 DEF Places, ToSet
<1>3. ASSUME NEW i \in 1 .. Len(s), s[i] \in S PROVE s[i] \in ToSet(r)
  <2>1. PICK j \in 1 .. Len(r) : m[j] = i
    BY <1>1, <1>3 DEF Places
  <2>2. r[j] = s[i] /\ j \in DOMAIN r
    BY <1>1, <2>1 DEF Places
  <2>. QED
    BY <2>2 DEF ToSet
<1>4. ToSet(r) = ToSet(s) \cap S
  BY <1>2, <1>3 DEF ToSet
<1>5. r # <<>> => r[1] \in ToSet(r)
  BY <1>1 DEF ToSet
<1>6. r = <<>> => ToSet(r) = {}
  BY DEF ToSet
<1>. QED
  BY <1>1, <1>4, <1>5, <1>6 DEF r

LEMMA KeptAll ==
  ASSUME NEW T, NEW s \in Seq(T), NEW S, ToSet(s) \subseteq S
  PROVE  Kept(s, S) = s
<1>. DEFINE n == Len(s)
<1>1. n \in Nat /\ \A i \in 1 .. n : s[i] \in S
  BY DEF ToSet
<1>2. PICK f : Keeping(f, T, s, S)
  BY KeptWalk
<1>. DEFINE E == {i \in 0 .. n : Len(f[i]) = i /\ \A j \in 1 .. i : f[i][j] = s[j]}
<1>3. 0 \in E
  BY <1>1, <1>2 DEF Keeping
<1>4. ASSUME NEW i \in 0 .. n - 1, i \in E PROVE i + 1 \in E
  <2>1. i \in Nat /\ i \in 0 .. n /\ i + 1 \in 1 .. n /\ (i + 1) - 1 = i /\ i + 1 \in 0 .. n
    BY <1>1
  <2>2. f[i] \in Seq(T) /\ f[i + 1] = Append(f[i], s[i + 1]) /\ s[i + 1] \in T
    <3>1. s[i + 1] \in S /\ s[i + 1] \in T
      BY <1>1, <2>1
    <3>2. f[i + 1] = IF s[i + 1] \in S THEN Append(f[(i + 1) - 1], s[i + 1]) ELSE f[(i + 1) - 1]
      BY <1>2, <2>1 DEF Keeping
    <3>3. f[i] \in Seq(T)
      BY <1>2, <2>1 DEF Keeping
    <3>. QED
      BY <2>1, <3>1, <3>2, <3>3
  <2>3. Len(f[i]) = i /\ \A j \in 1 .. i : f[i][j] = s[j]
    BY <1>4
  <2>4. /\ Len(f[i + 1]) = i + 1 /\ f[i + 1][i + 1] = s[i + 1]
        /\ \A j \in 1 .. i : f[i + 1][j] = f[i][j]
    <3>. DEFINE g == f[i]
                x == s[i + 1]
    <3>1. g \in Seq(T) /\ x \in T /\ Len(g) = i /\ f[i + 1] = Append(g, x)
      BY <2>2, <2>3
    <3>. HIDE DEF g, x
    <3>2. Len(Append(g, x)) = i + 1 /\ Append(g, x)[i + 1] = x /\ \A j \in 1 .. i : Append(g, x)[j] = g[j]
      BY <2>1, <3>1
    <3>. QED
      BY <3>1, <3>2 DEF g, x
  <2>5. ASSUME NEW j \in 1 .. i + 1 PROVE f[i + 1][j] = s[j]
    <3>1. j = i + 1 \/ j \in 1 .. i
      BY <2>1
    <3>. QED
      BY <2>3, <2>4, <3>1
  <2>. QED
    BY <2>1, <2>4, <2>5
<1>. HIDE DEF E
<1>5. 0 .. n \subseteq E
  BY <1>1, <1>3, <1>4, UpTo
<1>6. Len(f[n]) = n /\ \A j \in 1 .. n : f[n][j] = s[j]
  BY <1>1, <1>5 DEF E
<1>7. Kept(s, S) = f[n] /\ f[n] \in Seq(T)
  BY <1>1, <1>2 DEF Keeping
<1>. QED
  BY <1>6, <1>7

-----------------------------------------------------------------------------
(* Sums.                                                                   *)

Summing(f, xs) ==
  /\ f \in [0 .. Len(xs) -> Nat]
  /\ f[0] = 0
  /\ \A i \in 1 .. Len(xs) : f[i] = f[i - 1] + xs[i]
  /\ Total(xs) = f[Len(xs)]

LEMMA TotalWalk ==
  ASSUME NEW xs \in Seq(Nat)
  PROVE  \E f : Summing(f, xs)
<1>. DEFINE n == Len(xs)
            Step(f) == [i \in 0 .. n |-> IF i = 0 THEN 0 ELSE f[i - 1] + xs[i]]
            h == [p \in (1 .. n) \X Nat |-> p[2] + xs[p[1]]]
            c == CHOOSE f : f = Step(f)
<1>1. n \in Nat /\ \A i \in 1 .. n : xs[i] \in Nat
  OBVIOUS
<1>2. h \in Steps(n, Nat)
  BY <1>1 DEF Steps
<1>3. PICK f : IsWalk(f, n, Nat, 0, h)
  <2>. HIDE DEF h, n
  <2>. QED
    BY <1>1, <1>2, WalkExists
<1>4. f \in [0 .. n -> Nat] /\ f[0] = 0
  BY <1>3 DEF IsWalk
<1>5. ASSUME NEW i \in 1 .. n PROVE f[i] = f[i - 1] + xs[i]
  <2>1. i - 1 \in 0 .. n /\ f[i - 1] \in Nat
    BY <1>1, <1>4
  <2>2. f[i] = h[<<i, f[i - 1]>>]
    BY <1>3 DEF IsWalk
  <2>. QED
    BY <2>1, <2>2
<1>6. f = Step(f)
  <2>1. ASSUME NEW i \in 0 .. n PROVE f[i] = Step(f)[i]
    <3>1. CASE i = 0
      BY <3>1, <1>4
    <3>2. CASE i # 0
      <4>1. i \in 1 .. n
        BY <3>2, <1>1
      <4>. QED
        BY <3>2, <4>1, <1>5
    <3>. QED
      BY <3>1, <3>2
  <2>. QED
    BY <2>1, <1>4
<1>7. c = Step(c)
  <2>. HIDE DEF Step
  <2>. QED
    BY <1>6
<1>8. c = f
  <2>. DEFINE E == {i \in 0 .. n : c[i] = f[i]}
  <2>. HIDE DEF c
  <2>1. 0 \in E
    BY <1>1, <1>4, <1>7
  <2>2. ASSUME NEW i \in 0 .. n - 1, i \in E PROVE i + 1 \in E
    <3>1. i + 1 \in 1 .. n /\ i + 1 \in 0 .. n /\ (i + 1) - 1 = i /\ i + 1 # 0
      BY <1>1
    <3>2. c[i + 1] = c[(i + 1) - 1] + xs[i + 1]
      BY <1>7, <3>1
    <3>3. f[i + 1] = f[(i + 1) - 1] + xs[i + 1]
      BY <1>5, <3>1
    <3>. QED
      BY <2>2, <3>1, <3>2, <3>3
  <2>. HIDE DEF E
  <2>3. 0 .. n \subseteq E
    BY <1>1, <2>1, <2>2, UpTo
  <2>4. \A i \in 0 .. n : c[i] = f[i]
    BY <2>3 DEF E
  <2>5. c = [i \in 0 .. n |-> c[i]]
    BY <1>7
  <2>. QED
    BY <1>4, <2>4, <2>5
<1>9. Total(xs) = c[n]
  BY DEF Total
<1>. HIDE DEF c, h, Step
<1>10. Summing(f, xs)
  BY <1>4, <1>5, <1>8, <1>9 DEF Summing
<1>. QED
  BY <1>10

LEMMA TotalAppend ==
  /\ Total(<<>>) = 0
  /\ \A xs \in Seq(Nat), x \in Nat :
        Total(xs) \in Nat /\ Total(Append(xs, x)) = Total(xs) + x
<1>1. Total(<<>>) = 0
  <2>1. <<>> \in Seq(Nat) /\ Len(<<>>) = 0
    OBVIOUS
  <2>2. PICK f : Summing(f, <<>>)
    BY <2>1, TotalWalk
  <2>. QED
    BY <2>1, <2>2 DEF Summing
<1>2. ASSUME NEW xs \in Seq(Nat), NEW x \in Nat
      PROVE  Total(xs) \in Nat /\ Total(Append(xs, x)) = Total(xs) + x
  <2>. DEFINE t == Append(xs, x)
              n == Len(xs)
  <2>1. n \in Nat /\ t \in Seq(Nat) /\ Len(t) = n + 1 /\ t[n + 1] = x /\ \A i \in 1 .. n : t[i] = xs[i]
    OBVIOUS
  <2>. HIDE DEF t
  <2>2. PICK f : Summing(f, xs)
    BY TotalWalk
  <2>3. PICK g : Summing(g, t)
    BY <2>1, TotalWalk
  <2>. DEFINE E == {i \in 0 .. n : f[i] = g[i]}
  <2>4. 0 \in E
    BY <2>1, <2>2, <2>3 DEF Summing
  <2>5. ASSUME NEW i \in 0 .. n - 1, i \in E PROVE i + 1 \in E
    <3>1. i + 1 \in 1 .. n /\ i + 1 \in 1 .. Len(t) /\ (i + 1) - 1 = i /\ i + 1 \in 0 .. n
      BY <2>1
    <3>2. t[i + 1] = xs[i + 1] /\ f[i] = g[i]
      BY <3>1, <2>1, <2>5
    <3>3. f[i + 1] = f[(i + 1) - 1] + xs[i + 1]
      BY <3>1, <2>2 DEF Summing
    <3>4. g[i + 1] = g[(i + 1) - 1] + t[i + 1]
      BY <3>1, <2>3 DEF Summing
    <3>. QED
      BY <3>1, <3>2, <3>3, <3>4
  <2>. HIDE DEF E
  <2>6. 0 .. n \subseteq E
    <3>. HIDE DEF n
    <3>. QED
      BY <2>1, <2>4, <2>5, UpTo
  <2>7. f[n] = g[n]
    BY <2>1, <2>6 DEF E
  <2>8. n + 1 \in 1 .. Len(t) /\ (n + 1) - 1 = n /\ n \in 0 .. n
    BY <2>1
  <2>9. g[n + 1] = g[n] + x
    BY <2>1, <2>3, <2>8 DEF Summing
  <2>10. Total(xs) = f[n] /\ f[n] \in Nat /\ Total(t) = g[n + 1]
    BY <2>1, <2>2, <2>3, <2>8 DEF Summing
  <2>. QED
    BY <2>7, <2>9, <2>10 DEF t
<1>. QED
  BY <1>1, <1>2
=============================================================================
