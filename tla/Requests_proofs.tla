---------------------------- MODULE Requests_proofs ---------------------------
(***************************************************************************)
(* What holds of a cell's requests for any numbers of them: the tags       *)
(* (Requests), for any number of warmups, repeats, throughput requests and *)
(* tags; and the requests on the wire (Sender), for any senders, durations *)
(* and numbers of warmups and measured requests.                           *)
(***************************************************************************)
EXTENDS Requests, Sender, Walks_proofs

-----------------------------------------------------------------------------
(* Sequences and numbers.                                                  *)

Kinds == {"warm", "extra", "single", "dump", "throughput"}

LEMMA SumsAndProducts ==
  ASSUME NEW a \in Nat, NEW b \in Nat PROVE a * b \in Nat /\ a + b \in Nat
OBVIOUS

LEMMA Limits == MaxInputs \in Nat /\ Serving \in Nat
BY RequestsAssumption

LEMMA TagIs ==
  ASSUME NEW k \in Nat, InRange(k), NEW kind, NEW time
  PROVE  /\ Tagged(k, kind, time).tag = k
         /\ Tagged(k, kind, time) = [tag |-> k, kind |-> kind, time |-> time]
BY Limits DEF InRange, Tagged

LEMMA RequestOf ==
  ASSUME NEW k \in Nat, InRange(k), NEW kind \in Kinds, NEW time \in Nat
  PROVE  [tag |-> k, kind |-> kind, time |-> time] \in Request
BY Limits DEF Request, Kinds, InRange

LEMMA TagsAreNumbers == ASSUME NEW q \in Request PROVE q.tag \in Nat
BY Limits DEF Request

LEMMA SentTags ==
  ASSUME sent \in Seq(Request)
  PROVE  \A i \in DOMAIN sent : sent[i] \in Request /\ sent[i].tag \in Nat
<1>1. \A i \in DOMAIN sent : sent[i] \in Request
  OBVIOUS
<1>. QED
  BY <1>1, TagsAreNumbers

LEMMA Appended ==
  ASSUME NEW S, NEW s \in Seq(S), NEW e \in S
  PROVE  /\ Append(s, e) \in Seq(S)
         /\ DOMAIN Append(s, e) = 1 .. Len(s) + 1
         /\ \A i \in 1 .. Len(s) : Append(s, e)[i] = s[i]
         /\ Append(s, e)[Len(s) + 1] = e
OBVIOUS

LEMMA Concatenated ==
  ASSUME NEW S, NEW s \in Seq(S), NEW d \in Seq(S)
  PROVE  /\ s \o d \in Seq(S)
         /\ DOMAIN (s \o d) = 1 .. Len(s) + Len(d)
         /\ \A i \in 1 .. Len(s) : (s \o d)[i] = s[i]
         /\ \A i \in Len(s) + 1 .. Len(s) + Len(d) : (s \o d)[i] = d[i - Len(s)]
<1>1. s \o d \in Seq(S) /\ Len(s \o d) = Len(s) + Len(d)
  OBVIOUS
<1>2. DOMAIN (s \o d) = 1 .. Len(s) + Len(d)
  BY <1>1
<1>3. \A i \in 1 .. Len(s) + Len(d) : (s \o d)[i] = IF i <= Len(s) THEN s[i] ELSE d[i - Len(s)]
  BY ConcatProperties
<1>. QED
  BY <1>1, <1>2, <1>3

-----------------------------------------------------------------------------
(* Every number is given out once, and tags are numbers.                   *)

Numbered == \A i \in DOMAIN sent : sent[i].tag < next

TagInv == TypeOK /\ Numbered /\ NoTagTwice

\* A request that is sent keeps the tags apart.
LEMMA SendsKeeps ==
  ASSUME TagInv, NEW kind \in Kinds, NEW time \in Nat, Sends(kind, time)
  PROVE  next' \in Nat /\ sent' \in Seq(Request) /\ Numbered' /\ NoTagTwice'
<1>. DEFINE r == Tagged(next, kind, time)
<1>1. next \in Nat /\ sent \in Seq(Request) /\ next' = next + 1 /\ sent' = Append(sent, r)
      /\ InRange(next)
  BY DEF TagInv, TypeOK, Sends
<1>2. r.tag = next /\ r \in Request
  <2>1. r = [tag |-> next, kind |-> kind, time |-> time]
    BY <1>1, TagIs
  <2>. QED
    BY <2>1, <1>1, RequestOf
<1>. HIDE DEF r
<1>3. /\ sent' \in Seq(Request) /\ DOMAIN sent' = 1 .. Len(sent) + 1
      /\ \A i \in 1 .. Len(sent) : sent'[i] = sent[i]
      /\ sent'[Len(sent) + 1] = r
  BY <1>1, <1>2, Appended
<1>4. DOMAIN sent = 1 .. Len(sent) /\ Len(sent) \in Nat
  BY <1>1
<1>5. \A i \in DOMAIN sent : sent[i].tag \in Nat /\ sent[i].tag < next
  BY <1>1, SentTags DEF TagInv, Numbered
<1>6. Numbered'
  BY <1>1, <1>2, <1>3, <1>4, <1>5 DEF Numbered
<1>7. NoTagTwice'
  <2>. SUFFICES ASSUME NEW i \in DOMAIN sent', NEW j \in DOMAIN sent', sent'[i].tag = sent'[j].tag
                PROVE  i = j
    BY DEF NoTagTwice
  <2>1. CASE i \in DOMAIN sent /\ j \in DOMAIN sent
    BY <2>1, <1>3, <1>4 DEF TagInv, NoTagTwice
  <2>2. CASE i = Len(sent) + 1 \/ j = Len(sent) + 1
    BY <2>2, <1>1, <1>2, <1>3, <1>4, <1>5
  <2>. QED
    BY <2>1, <2>2, <1>3, <1>4
<1>. QED
  BY <1>1, <1>3, <1>6, <1>7

LEMMA RefusedKeeps ==
  ASSUME TagInv, Refused
  PROVE  next' \in Nat /\ sent' \in Seq(Request) /\ Numbered' /\ NoTagTwice'
<1>1. next \in Nat /\ sent \in Seq(Request) /\ next' = next + 1 /\ sent' = sent
  BY DEF TagInv, TypeOK, Refused
<1>2. \A i \in DOMAIN sent : sent[i].tag \in Nat
  BY <1>1, SentTags
<1>. QED
  BY <1>1, <1>2 DEF TagInv, Numbered, NoTagTwice

\* So do the throughput requests, numbered ahead.
LEMMA ServeKeeps ==
  ASSUME TagInv, Serve
  PROVE  next' \in Nat /\ sent' \in Seq(Request) /\ Numbered' /\ NoTagTwice'
<1>. DEFINE f == [i \in 1..Serving |-> Tagged(next + i - 1, "throughput", 1)]
<1>1. next \in Nat /\ sent \in Seq(Request) /\ next' = next + Serving /\ Serving \in Nat
  BY RequestsAssumption DEF TagInv, TypeOK, Serve
<1>2. sent' = sent \o f /\ \A k \in next .. next + Serving - 1 : InRange(k)
  BY DEF Serve
<1>3. \A i \in 1..Serving : f[i].tag = next + i - 1 /\ f[i] \in Request
  <2>. TAKE i \in 1..Serving
  <2>1. next + i - 1 \in next .. next + Serving - 1 /\ next + i - 1 \in Nat
    BY <1>1
  <2>2. InRange(next + i - 1)
    BY <2>1, <1>2
  <2>3. f[i] = [tag |-> next + i - 1, kind |-> "throughput", time |-> 1]
    BY <2>1, <2>2, TagIs
  <2>. QED
    BY <2>1, <2>2, <2>3, RequestOf DEF Kinds
<1>0. f \in [1..Serving -> Request]
  BY <1>3
<1>. HIDE DEF f
<1>4. f \in Seq(Request) /\ Len(f) = Serving /\ DOMAIN f = 1..Serving
  BY <1>0, <1>1
<1>5. /\ sent' \in Seq(Request) /\ DOMAIN sent' = 1 .. Len(sent) + Serving
      /\ \A i \in 1 .. Len(sent) : sent'[i] = sent[i]
      /\ \A i \in Len(sent) + 1 .. Len(sent) + Serving : sent'[i] = f[i - Len(sent)]
  BY <1>1, <1>2, <1>4, Concatenated
<1>6. DOMAIN sent = 1 .. Len(sent) /\ Len(sent) \in Nat
  BY <1>1
<1>7. \A i \in 1 .. Len(sent) : sent'[i].tag \in Nat /\ sent'[i].tag < next
  BY <1>1, <1>5, <1>6, SentTags DEF TagInv, Numbered
<1>8. \A i \in Len(sent) + 1 .. Len(sent) + Serving : sent'[i].tag = next + (i - Len(sent)) - 1
  <2>. TAKE i \in Len(sent) + 1 .. Len(sent) + Serving
  <2>. DEFINE k == i - Len(sent)
  <2>1. k \in 1..Serving /\ i = Len(sent) + k
    BY <1>1, <1>6
  <2>. HIDE DEF k
  <2>2. f[k].tag = next + k - 1
    BY <2>1, <1>3
  <2>3. sent'[i] = f[k]
    BY <2>1, <1>5
  <2>. QED
    BY <2>1, <2>2, <2>3 DEF k
<1>9. Numbered'
  BY <1>1, <1>5, <1>6, <1>7, <1>8 DEF Numbered
<1>10. NoTagTwice'
  <2>. SUFFICES ASSUME NEW i \in DOMAIN sent', NEW j \in DOMAIN sent', sent'[i].tag = sent'[j].tag
                PROVE  i = j
    BY DEF NoTagTwice
  <2>1. CASE i \in 1 .. Len(sent) /\ j \in 1 .. Len(sent)
    BY <2>1, <1>5, <1>6 DEF TagInv, NoTagTwice
  <2>2. CASE i \in 1 .. Len(sent) /\ j \notin 1 .. Len(sent)
    BY <2>2, <1>1, <1>5, <1>6, <1>7, <1>8
  <2>3. CASE i \notin 1 .. Len(sent) /\ j \in 1 .. Len(sent)
    BY <2>3, <1>1, <1>5, <1>6, <1>7, <1>8
  <2>4. CASE i \notin 1 .. Len(sent) /\ j \notin 1 .. Len(sent)
    <3>1. /\ i \in Len(sent) + 1 .. Len(sent) + Serving
          /\ j \in Len(sent) + 1 .. Len(sent) + Serving
      BY <2>4, <1>1, <1>5, <1>6
    <3>2. next + (i - Len(sent)) - 1 = next + (j - Len(sent)) - 1
      BY <3>1, <1>8
    <3>. QED
      BY <3>1, <3>2, <1>1, <1>6
  <2>. QED
    BY <2>1, <2>2, <2>3, <2>4
<1>. QED
  BY <1>1, <1>5, <1>9, <1>10

-----------------------------------------------------------------------------
(* The other variables.                                                    *)

LEMMA EstimateType == ASSUME NEW xs \in Seq(Nat) PROVE Estimate(xs) \in Nat
<1>1. WarmSteps \in Nat /\ CaseSteps \in Nat
  BY RequestsAssumption
<1>2. CASE xs = <<>>
  BY <1>2 DEF Estimate
<1>3. CASE xs # <<>>
  <2>1. Len(xs) \in DOMAIN xs /\ xs[Len(xs)] \in Nat
    BY <1>3
  <2>. QED
    BY <1>1, <1>3, <2>1 DEF Estimate
<1>. QED
  BY <1>2, <1>3

LEMMA AfterWarmType ==
  ASSUME TypeOK, pc = "warm", NEW xs \in Seq(Nat), AfterWarm(xs)
  PROVE  /\ lats' \in Seq(Nat) /\ est' \in Nat
         /\ pc' \in {"warm", "extra"}
         /\ steady' = steady /\ extra' = extra /\ spent' = spent
BY EstimateType DEF TypeOK, AfterWarm

LEMMA Latencies ==
  ASSUME NEW d \in (IF SameShape THEN CaseTime ELSE WarmTime) \cup CaseTime
  PROVE  d \in Nat
BY RequestsAssumption

-----------------------------------------------------------------------------
(* One step.                                                               *)

LEMMA TagInit == Init => TagInv
BY RequestsAssumption DEF Init, TagInv, TypeOK, Numbered, NoTagTwice

\* What every action does to the numbers and the requests sent.
LEMMA NumbersStep ==
  ASSUME TagInv, Next
  PROVE  next' \in Nat /\ sent' \in Seq(Request) /\ Numbered' /\ NoTagTwice'
<1>. USE DEF Kinds
<1>1. CASE Warm
  BY <1>1, SendsKeeps, Latencies DEF Warm
<1>2. CASE WarmFails
  BY <1>2, SendsKeeps, RefusedKeeps DEF WarmFails
<1>3. CASE Extra
  BY <1>3, SendsKeeps, Latencies DEF Extra
<1>4. CASE ExtraFails
  BY <1>4, SendsKeeps, RefusedKeeps DEF ExtraFails
<1>5. CASE Measure
  BY <1>5, SendsKeeps, Latencies DEF Measure
<1>6. CASE MeasureFails
  BY <1>6, SendsKeeps, RefusedKeeps DEF MeasureFails
<1>7. CASE Dump
  <2>1. CASE Refused
    BY <2>1, RefusedKeeps
  <2>2. CASE \E d \in CaseTime \cup {0} : Sends("dump", d)
    <3>1. PICK d \in CaseTime \cup {0} : Sends("dump", d)
      BY <2>2
    <3>2. d \in Nat
      BY Latencies
    <3>. QED
      BY <3>1, <3>2, SendsKeeps
  <2>. QED
    BY <1>7, <2>1, <2>2 DEF Dump
<1>8. CASE Serve
  BY <1>8, ServeKeeps
<1>9. CASE UNCHANGED <<next, sent>>
  BY <1>9 DEF TagInv, TypeOK, Numbered, NoTagTwice
<1>10. CASE ServeRefused
  <2>1. PICK k \in next .. next + Serving - 1 : next' = k + 1
    BY <1>10 DEF ServeRefused
  <2>2. sent' = sent /\ sent \in Seq(Request) /\ next \in Nat
    BY <1>10 DEF ServeRefused, TagInv, TypeOK
  <2>3. next' \in Nat /\ next' > next
    BY <2>1, <2>2, Limits
  <2>4. \A i \in DOMAIN sent : sent[i].tag \in Nat
    BY <2>2, SentTags
  <2>. QED
    BY <2>2, <2>3, <2>4 DEF TagInv, Numbered, NoTagTwice
<1>. QED
  BY <1>1, <1>2, <1>3, <1>4, <1>5, <1>6, <1>7, <1>8, <1>9, <1>10
  DEF Next, Warmed, Measured, SkipDump

LEMMA TypesStep ==
  ASSUME TagInv, Next
  PROVE  TypeOK'
<1>. USE RequestsAssumption DEF warmup
<1>0. TypeOK /\ next' \in Nat /\ sent' \in Seq(Request)
  BY NumbersStep DEF TagInv
<1>1. CASE Warm
  <2>1. PICK d \in (IF SameShape THEN CaseTime ELSE WarmTime) : AfterWarm(Append(lats, d))
    BY <1>1 DEF Warm
  <2>2. Append(lats, d) \in Seq(Nat)
    BY <1>0, Latencies DEF TypeOK
  <2>. QED
    BY <1>0, <1>1, <2>1, <2>2, AfterWarmType DEF Warm, TypeOK
<1>2. CASE WarmFails
  <2>1. lats \in Seq(Nat) /\ AfterWarm(lats) /\ pc = "warm"
    BY <1>0, <1>2 DEF WarmFails, TypeOK
  <2>. QED
    BY <1>0, <2>1, AfterWarmType DEF TypeOK
<1>3. CASE Extra
  <2>1. PICK d \in CaseTime :
           /\ IF SameShape
              THEN lats' = Append(lats, d) /\ UNCHANGED steady
              ELSE steady' = Append(steady, d) /\ UNCHANGED lats
           /\ spent' = spent + d
           /\ est' = d * WarmSteps
    BY <1>3 DEF Extra
  <2>2. d \in Nat /\ WarmSteps \in Nat
    BY Latencies
  <2>3. lats' \in Seq(Nat) /\ steady' \in Seq(Nat)
    <3>1. lats \in Seq(Nat) /\ steady \in Seq(Nat)
      BY <1>0 DEF TypeOK
    <3>2. Append(lats, d) \in Seq(Nat)
      BY <3>1, <2>2
    <3>3. Append(steady, d) \in Seq(Nat)
      BY <3>1, <2>2
    <3>4. CASE SameShape
      BY <3>1, <3>2, <3>4, <2>1
    <3>5. CASE ~SameShape
      BY <3>1, <3>3, <3>5, <2>1
    <3>. QED
      BY <3>4, <3>5
  <2>4. spent' \in Nat
    <3>1. spent \in Nat /\ spent' = spent + d
      BY <1>0, <2>1 DEF TypeOK
    <3>. QED
      BY <3>1, <2>2, SumsAndProducts
  <2>5. d * WarmSteps \in Nat
    BY <2>2, SumsAndProducts
  <2>6. extra \in 0..ExtraMax /\ ExtraMax \in Nat
    BY <1>0 DEF TypeOK
  <2>7. extra' = extra + 1 /\ extra < ExtraMax /\ pc' = pc
    BY <1>3 DEF Extra, Wanted
  <2>8. extra' \in 0..ExtraMax
    BY <2>6, <2>7
  <2>. QED
    BY <1>0, <2>1, <2>3, <2>4, <2>5, <2>7, <2>8 DEF TypeOK
<1>4. CASE ExtraFails
  BY <1>0, <1>4 DEF ExtraFails, Wanted, TypeOK
<1>5. CASE Warmed \/ Measure \/ MeasureFails \/ Measured
  BY <1>0, <1>5 DEF Warmed, Measure, MeasureFails, Measured, TypeOK
<1>6. CASE Dump \/ SkipDump \/ Serve \/ ServeRefused
  BY <1>0, <1>6 DEF Dump, SkipDump, Serve, ServeRefused, TypeOK
<1>. QED
  BY <1>1, <1>2, <1>3, <1>4, <1>5, <1>6 DEF Next

LEMMA TagInductive == TagInv /\ [Next]_vars => TagInv'
<1>. SUFFICES ASSUME TagInv, [Next]_vars PROVE TagInv'
  OBVIOUS
<1>1. CASE Next
  BY <1>1, NumbersStep, TypesStep DEF TagInv
<1>2. CASE UNCHANGED vars
  BY <1>2 DEF vars, TagInv, TypeOK, Numbered, NoTagTwice
<1>. QED
  BY <1>1, <1>2

LEMMA TagInvariant == Spec => []TagInv
BY TagInit, TagInductive, PTL DEF Spec

-----------------------------------------------------------------------------
(* What this says of the tags.                                             *)

\* The state of a cell's requests is well typed, for any number of warmups,
\* repeats and throughput requests (_run_warmups, _request_case).
THEOREM TypeCorrect == Spec => []TypeOK
<1>1. TagInv => TypeOK
  BY DEF TagInv
<1>. QED
  BY <1>1, TagInvariant, PTL

\* For any number of requests and tags, failures included, no server is sent the
\* same tag twice: a number that the digits cannot hold is refused instead.
THEOREM TagsAreApart == Spec => []NoTagTwice
<1>1. TagInv => NoTagTwice
  BY DEF TagInv
<1>. QED
  BY <1>1, TagInvariant, PTL

-----------------------------------------------------------------------------
(* The warmups: the loop's own books against the requests that were sent.  *)

Tried  == Times(Of("extra"))
Shaped == (IF SameShape THEN Times(Of("warm")) ELSE <<>>) \o Tried

\* The loop decides by its books: the answers at the measured shape, the extra
\* requests and what they took, and the last of the answers for the next cost.
Books ==
  /\ pc \in {"warm", "extra"} => FullLats = OfAnswers(Shaped)
  /\ pc = "warm" => Tried = <<>> /\ steady = <<>> /\ extra = 0 /\ spent = 0
  /\ pc = "extra" =>
       /\ Len(Tried) = extra
       /\ Total(Tried) = spent
       /\ FullLats # <<>> => est = FullLats[Len(FullLats)] * WarmSteps
       /\ FullLats = <<>> => Tried = <<>>

SettledInv == TagInv /\ Books /\ SettledOrSpent

LEMMA TimesAppend ==
  ASSUME NEW reqs \in Seq(Request)
  PROVE  /\ Times(reqs) \in Seq(Nat)
         /\ \A q \in Request : Times(Append(reqs, q)) = Append(Times(reqs), q.time)
<1>1. \A q \in Request : q.time \in Nat
  BY DEF Request
<1>2. \A i \in 1 .. Len(reqs) : reqs[i].time \in Nat
  BY <1>1
<1>3. Times(reqs) \in Seq(Nat) /\ Len(Times(reqs)) = Len(reqs)
  BY <1>2 DEF Times
<1>4. ASSUME NEW q \in Request PROVE Times(Append(reqs, q)) = Append(Times(reqs), q.time)
  <2>1. q.time \in Nat /\ Append(reqs, q) \in Seq(Request) /\ Len(Append(reqs, q)) = Len(reqs) + 1
    BY <1>1
  <2>2. ASSUME NEW i \in 1 .. Len(reqs) + 1
        PROVE  Times(Append(reqs, q))[i] = Append(Times(reqs), q.time)[i]
    BY <1>3, <2>1 DEF Times
  <2>. QED
    BY <1>3, <2>1, <2>2 DEF Times
<1>. QED
  BY <1>3, <1>4

LEMMA OfType ==
  ASSUME sent \in Seq(Request), NEW k
  PROVE  Of(k) \in Seq(Request) /\ Times(Of(k)) \in Seq(Nat)
BY KeptPlaces, TimesAppend DEF Of

\* A request is one more of its kind, and of no other.
LEMMA SendsOne ==
  ASSUME TagInv, NEW kind \in Kinds, NEW d \in Nat, Sends(kind, d), NEW k \in Kinds
  PROVE  Times(Of(k))' = IF k = kind THEN Append(Times(Of(k)), d) ELSE Times(Of(k))
<1>. DEFINE q == Tagged(next, kind, d)
            K == [tag : 0..(MaxInputs - 1), kind : {k}, time : Nat]
<1>1. next \in Nat /\ sent \in Seq(Request) /\ sent' = Append(sent, q) /\ InRange(next)
  BY DEF TagInv, TypeOK, Sends
<1>2. q = [tag |-> next, kind |-> kind, time |-> d] /\ q \in Request
  BY <1>1, TagIs, RequestOf
<1>3. q \in K <=> k = kind
  BY <1>1, <1>2 DEF Request, Kinds
<1>4. q.time = d
  BY <1>2
<1>. HIDE DEF q, K
<1>5. Kept(sent', K) = IF q \in K THEN Append(Kept(sent, K), q) ELSE Kept(sent, K)
  BY <1>1, <1>2, KeptAppend
<1>6. Of(k) = Kept(sent, K) /\ Of(k)' = Kept(sent', K)
  BY DEF Of, K
<1>7. Of(k) \in Seq(Request)
  BY <1>1, OfType
<1>8. CASE k = kind
  <2>1. Of(k)' = Append(Of(k), q)
    BY <1>3, <1>5, <1>6, <1>8
  <2>2. Times(Append(Of(k), q)) = Append(Times(Of(k)), d)
    BY <1>2, <1>4, <1>7, TimesAppend
  <2>. QED
    BY <1>8, <2>1, <2>2 DEF Times
<1>9. CASE k # kind
  <2>1. Of(k)' = Of(k)
    BY <1>3, <1>5, <1>6, <1>9
  <2>. QED
    BY <1>9, <2>1 DEF Times
<1>. QED
  BY <1>8, <1>9

LEMMA AnswersAppend ==
  ASSUME NEW xs \in Seq(Nat), NEW d \in Nat
  PROVE  /\ OfAnswers(xs) \in Seq(Nat)
         /\ OfAnswers(Append(xs, d)) = IF d = 0 THEN OfAnswers(xs) ELSE Append(OfAnswers(xs), d)
<1>. DEFINE P == Nat \ {0}
<1>1. d \in P <=> d # 0
  OBVIOUS
<1>2. OfAnswers(xs) = Kept(xs, P) /\ OfAnswers(Append(xs, d)) = Kept(Append(xs, d), P)
  BY DEF OfAnswers
<1>. HIDE DEF P
<1>3. Kept(xs, P) \in Seq(Nat)
  BY KeptPlaces
<1>4. Kept(Append(xs, d), P) = IF d \in P THEN Append(Kept(xs, P), d) ELSE Kept(xs, P)
  BY KeptAppend
<1>. QED
  BY <1>1, <1>2, <1>3, <1>4

LEMMA Nothing == OfAnswers(<<>>) = <<>> /\ Times(<<>>) = <<>> /\ Total(<<>>) = 0
<1>1. Times(<<>>) = <<>>
  BY DEF Times
<1>. QED
  BY <1>1, KeptEmpty, TotalAppend DEF OfAnswers

LEMMA ShapedType ==
  ASSUME sent \in Seq(Request)
  PROVE  Tried \in Seq(Nat) /\ Shaped \in Seq(Nat) /\ Times(Of("warm")) \in Seq(Nat)
BY OfType DEF Tried, Shaped

LEMMA BooksInit == Init => Books /\ SettledOrSpent
<1>. SUFFICES ASSUME Init PROVE Books /\ SettledOrSpent
  OBVIOUS
<1>1. sent = <<>> /\ lats = <<>> /\ steady = <<>> /\ extra = 0 /\ spent = 0
      /\ pc = IF Fixed = 0 THEN "single" ELSE "warm"
  BY DEF Init
<1>2. Tried = <<>> /\ Times(Of("warm")) = <<>>
  BY <1>1, KeptEmpty, Nothing DEF Tried, Of
<1>3. Shaped = <<>>
  BY <1>2 DEF Shaped
<1>4. Books
  BY <1>1, <1>2, <1>3, Nothing DEF Books, FullLats
<1>5. SettledOrSpent
  BY <1>1 DEF SettledOrSpent
<1>. QED
  BY <1>4, <1>5

LEMMA WarmDone ==
  ASSUME SettledInv, pc = "warm", NEW xs \in Seq(Nat), AfterWarm(xs),
         Tried' = <<>>, SameShape => xs = OfAnswers(Times(Of("warm"))'),
         Times(Of("warm"))' \in Seq(Nat)
  PROVE  Books' /\ SettledOrSpent'
<1>1. steady' = <<>> /\ extra' = 0 /\ spent' = 0 /\ lats' = xs
      /\ pc' \in {"warm", "extra"} /\ (pc' = "extra" => est' = Estimate(xs))
  BY DEF SettledInv, Books, AfterWarm
<1>3. Shaped' = IF SameShape THEN Times(Of("warm"))' ELSE <<>>
  BY DEF Shaped, SameShape
<1>4. FullLats' = OfAnswers(Shaped')
  <2>1. CASE SameShape
    BY <2>1, <1>1, <1>3 DEF FullLats, SameShape
  <2>2. CASE ~SameShape
    BY <2>2, <1>1, <1>3, Nothing DEF FullLats, SameShape
  <2>. QED
    BY <2>1, <2>2
<1>5. FullLats' = IF SameShape THEN xs ELSE <<>>
  BY <1>1 DEF FullLats, SameShape
<1>6. pc' = "extra" /\ FullLats' # <<>> => est' = FullLats'[Len(FullLats')] * WarmSteps
  BY <1>1, <1>5 DEF Estimate
<1>7. OfAnswers(Shaped)' = OfAnswers(Shaped') /\ Total(Tried)' = Total(Tried')
  BY DEF OfAnswers
<1>8. Books'
  BY <1>1, <1>4, <1>6, <1>7, Nothing DEF Books
<1>. QED
  BY <1>1, <1>8 DEF SettledOrSpent

LEMMA WarmBooks ==
  ASSUME SettledInv, Warm \/ WarmFails
  PROVE  Books' /\ SettledOrSpent'
<1>1. TagInv /\ TypeOK /\ sent \in Seq(Request) /\ lats \in Seq(Nat) /\ pc = "warm" /\ Tried = <<>>
  BY DEF SettledInv, TagInv, TypeOK, Books, Warm, WarmFails
<1>2. Times(Of("warm")) \in Seq(Nat) /\ (SameShape => lats = OfAnswers(Times(Of("warm"))))
  <2>1. Times(Of("warm")) \in Seq(Nat)
    BY <1>1, OfType
  <2>2. SameShape => Shaped = Times(Of("warm"))
    BY <1>1, <2>1 DEF Shaped
  <2>. QED
    BY <1>1, <2>1, <2>2 DEF SettledInv, Books, FullLats
<1>. USE DEF Kinds
<1>3. CASE Warm
  <2>1. PICK d \in (IF SameShape THEN CaseTime ELSE WarmTime) :
          Sends("warm", d) /\ AfterWarm(Append(lats, d))
    BY <1>3 DEF Warm
  <2>2. d \in Nat /\ d # 0
    BY RequestsAssumption
  <2>3. Times(Of("warm"))' = Append(Times(Of("warm")), d) /\ Tried' = Tried
    BY <1>1, <2>1, <2>2, SendsOne DEF Tried
  <2>4. OfAnswers(Append(Times(Of("warm")), d)) = Append(OfAnswers(Times(Of("warm"))), d)
    BY <1>2, <2>2, AnswersAppend
  <2>5. Append(Times(Of("warm")), d) \in Seq(Nat)
    BY <1>2, <2>2
  <2>6. Append(lats, d) \in Seq(Nat)
    BY <1>1, <2>2
  <2>. QED
    BY <1>1, <1>2, <2>1, <2>3, <2>4, <2>5, <2>6, WarmDone
<1>4. CASE WarmFails
  <2>1. AfterWarm(lats) /\ (Sends("warm", 0) \/ Refused)
    BY <1>4 DEF WarmFails
  <2>2. CASE Sends("warm", 0)
    <3>1. Times(Of("warm"))' = Append(Times(Of("warm")), 0) /\ Tried' = Tried
      BY <1>1, <2>2, SendsOne DEF Tried
    <3>2. OfAnswers(Append(Times(Of("warm")), 0)) = OfAnswers(Times(Of("warm")))
      BY <1>2, AnswersAppend
    <3>3. Append(Times(Of("warm")), 0) \in Seq(Nat)
      BY <1>2
    <3>. QED
      BY <1>1, <1>2, <2>1, <3>1, <3>2, <3>3, WarmDone
  <2>3. CASE Refused
    <3>1. sent' = sent
      BY <2>3 DEF Refused
    <3>2. Times(Of("warm"))' = Times(Of("warm")) /\ Tried' = Tried
      BY <3>1 DEF Of, Times, Tried
    <3>. QED
      BY <1>1, <1>2, <2>1, <3>1, <3>2, WarmDone
  <2>. QED
    BY <2>1, <2>2, <2>3
<1>. QED
  BY <1>3, <1>4

LEMMA ExtraBooks ==
  ASSUME SettledInv, Extra
  PROVE  Books' /\ SettledOrSpent'
<1>1. /\ TagInv /\ sent \in Seq(Request) /\ lats \in Seq(Nat) /\ steady \in Seq(Nat)
      /\ extra \in Nat /\ spent \in Nat /\ pc = "extra" /\ pc' = "extra" /\ extra' = extra + 1
      /\ FullLats = OfAnswers(Shaped) /\ Len(Tried) = extra /\ Total(Tried) = spent
  BY RequestsAssumption DEF SettledInv, TagInv, TypeOK, Books, Extra
<1>2. PICK d \in CaseTime :
        /\ Sends("extra", d)
        /\ IF SameShape
           THEN lats' = Append(lats, d) /\ UNCHANGED steady
           ELSE steady' = Append(steady, d) /\ UNCHANGED lats
        /\ spent' = spent + d
        /\ est' = d * WarmSteps
  BY DEF Extra
<1>3. d \in Nat /\ d # 0
  BY RequestsAssumption
<1>4. Tried \in Seq(Nat) /\ Shaped \in Seq(Nat) /\ Times(Of("warm")) \in Seq(Nat)
  BY <1>1, ShapedType
<1>5. Tried' = Append(Tried, d) /\ Times(Of("warm"))' = Times(Of("warm"))
  BY <1>1, <1>2, <1>3, SendsOne DEF Tried, Kinds
<1>6. Shaped' = Append(Shaped, d)
  <2>. DEFINE w == IF SameShape THEN Times(Of("warm")) ELSE <<>>
  <2>1. w \in Seq(Nat) /\ Shaped = w \o Tried
    BY <1>4 DEF Shaped
  <2>2. Shaped' = w \o Tried'
    BY <1>5 DEF Shaped, SameShape
  <2>. HIDE DEF w
  <2>3. w \o Append(Tried, d) = Append(w \o Tried, d)
    BY <1>3, <1>4, <2>1
  <2>. QED
    BY <1>5, <2>1, <2>2, <2>3
<1>7. FullLats' = Append(FullLats, d) /\ FullLats \in Seq(Nat)
  BY <1>1, <1>2 DEF FullLats, SameShape
<1>8. OfAnswers(Shaped') = Append(OfAnswers(Shaped), d)
  BY <1>3, <1>4, <1>6, AnswersAppend
<1>9. Len(Tried') = extra' /\ Total(Tried') = spent'
  <2>. HIDE DEF Tried
  <2>1. Len(Append(Tried, d)) = Len(Tried) + 1
    BY <1>3, <1>4
  <2>2. Total(Append(Tried, d)) = Total(Tried) + d
    BY <1>3, <1>4, TotalAppend
  <2>. QED
    BY <1>1, <1>2, <1>5, <2>1, <2>2
<1>10. FullLats' # <<>> /\ FullLats'[Len(FullLats')] = d
  BY <1>3, <1>7
<1>11. OfAnswers(Shaped)' = OfAnswers(Shaped') /\ Total(Tried)' = Total(Tried')
  BY DEF OfAnswers
<1>12. Books'
  BY <1>1, <1>2, <1>7, <1>8, <1>9, <1>10, <1>11 DEF Books
<1>. QED
  BY <1>1, <1>12 DEF SettledOrSpent

\* Leaving the loop: what is not wanted any more is what the property names.
LEMMA Budgeted ==
  ASSUME NEW a \in Nat, NEW b \in Nat, NEW c \in Nat, NEW w \in Nat \ {0}, a * w + b * w > c * w
  PROVE  a + b > c
<1>. SUFFICES ASSUME a + b <= c PROVE FALSE
  OBVIOUS
<1>1. PICK k \in Nat : c = (a + b) + k
  <2>1. c - (a + b) \in Nat /\ c = (a + b) + (c - (a + b))
    OBVIOUS
  <2>. QED
    BY <2>1
<1>2. c * w = (a * w + b * w) + k * w
  BY <1>1
<1>3. k * w \in Nat /\ a * w \in Nat /\ b * w \in Nat
  BY SumsAndProducts
<1>. QED
  BY <1>2, <1>3

LEMMA WarmedBooks ==
  ASSUME SettledInv, Warmed
  PROVE  Books' /\ SettledOrSpent'
<1>. DEFINE shape == OfAnswers(Shaped)
            k == Len(shape)
<1>1. /\ pc = "extra" /\ ~Wanted /\ pc' = "single" /\ sent' = sent /\ next' = next /\ est' = est
      /\ Len(Tried) = extra /\ Total(Tried) = spent /\ FullLats = shape
      /\ FullLats # <<>> => est = FullLats[Len(FullLats)] * WarmSteps
      /\ FullLats = <<>> => Tried = <<>>
  BY DEF SettledInv, Books, Warmed
<1>. SUFFICES SettledOrSpent'
  BY <1>1 DEF Books
<1>2. /\ extra \in 0 .. ExtraMax /\ ExtraMax \in Nat /\ spent \in Nat /\ est \in Nat
      /\ WarmSteps \in Nat \ {0} /\ Budget \in Nat /\ sent \in Seq(Request)
  BY RequestsAssumption DEF SettledInv, TagInv, TypeOK
<1>3. shape \in Seq(Nat)
  BY <1>2, ShapedType, AnswersAppend, 0 \in Nat
<1>4. /\ k >= 2 /\ Agree(shape[k], shape[k - 1]) => SettledOrSpent'
      /\ Len(Tried) = ExtraMax => SettledOrSpent'
      /\ k > 0 /\ Total(Tried) + shape[k] > Budget => SettledOrSpent'
      /\ k = 0 /\ est > Budget * WarmSteps => SettledOrSpent'
  <2>1. Times(Of("extra"))' = Tried /\ Times(Of("warm"))' = Times(Of("warm"))
    BY <1>1 DEF Of, Times, Tried
  <2>2. (IF SameShape THEN Times(Of("warm")) ELSE <<>>)' \o Times(Of("extra"))' = Shaped
    BY <2>1 DEF Shaped, SameShape
  <2>3. OfAnswers((IF SameShape THEN Times(Of("warm")) ELSE <<>>) \o Times(Of("extra")))' = shape
    BY <2>2 DEF OfAnswers
  <2>. QED
    BY <1>1, <2>1, <2>3 DEF SettledOrSpent
<1>5. CASE ~(extra < ExtraMax)
  BY <1>1, <1>2, <1>4, <1>5
<1>6. CASE Converged
  BY <1>1, <1>4, <1>6 DEF Converged
<1>7. CASE ~(spent * WarmSteps + est <= Budget * WarmSteps)
  <2>1. spent * WarmSteps + est > Budget * WarmSteps
    BY <1>2, <1>7, SumsAndProducts
  <2>2. CASE FullLats # <<>>
    <3>. HIDE DEF shape
    <3>1. k \in Nat \ {0} /\ shape[k] \in Nat
      BY <1>1, <1>3, <2>2
    <3>2. est = shape[k] * WarmSteps
      BY <1>1, <2>2
    <3>3. spent + shape[k] > Budget
      BY <1>2, <2>1, <3>1, <3>2, Budgeted
    <3>. QED
      BY <1>1, <1>4, <3>1, <3>3
  <2>3. CASE FullLats = <<>>
    <3>1. k = 0 /\ Tried = <<>>
      BY <1>1, <2>3
    <3>2. spent = 0
      BY <1>1, <3>1, Nothing
    <3>3. est > Budget * WarmSteps
      BY <1>2, <2>1, <3>2
    <3>. QED
      BY <1>4, <3>1, <3>3
  <2>. QED
    BY <2>2, <2>3
<1>. QED
  BY <1>1, <1>5, <1>6, <1>7 DEF Wanted

LEMMA ExtraFailsBooks ==
  ASSUME SettledInv, ExtraFails
  PROVE  Books' /\ SettledOrSpent'
<1>1. pc = "extra" /\ pc' = "single" /\ TagInv /\ next \in Nat /\ sent \in Seq(Request)
  BY DEF SettledInv, TagInv, TypeOK, ExtraFails
<1>2. CASE Sends("extra", 0)
  <2>1. Times(Of("extra"))' = Append(Times(Of("extra")), 0) /\ Times(Of("extra")) \in Seq(Nat)
    BY <1>1, <1>2, SendsOne, OfType DEF Kinds
  <2>2. Len(Times(Of("extra"))') > 0 /\ Times(Of("extra"))'[Len(Times(Of("extra"))')] = 0
    BY <2>1
  <2>. QED
    BY <1>1, <2>2 DEF Books, SettledOrSpent
<1>3. CASE Refused
  <2>1. next' > MaxInputs
    BY <1>1, <1>3, Limits DEF Refused, InRange
  <2>. QED
    BY <1>1, <2>1 DEF Books, SettledOrSpent
<1>. QED
  BY <1>2, <1>3 DEF ExtraFails

\* What comes after the warmups changes nothing of them.
LEMMA LaterBooks ==
  ASSUME SettledInv, Measure \/ MeasureFails \/ Measured \/ Dump \/ SkipDump \/ Serve \/ ServeRefused
  PROVE  Books' /\ SettledOrSpent'
<1>. USE DEF Kinds
<1>1. TagInv /\ SettledOrSpent /\ next \in Nat /\ MaxInputs \in Nat /\ CaseTime \subseteq Nat
  BY RequestsAssumption DEF SettledInv, TagInv, TypeOK
<1>2. pc' \notin {"warm", "extra"} /\ (pc' = "end" \/ pc \in {"single", "dump"})
  BY DEF Measure, MeasureFails, Measured, Dump, SkipDump, Serve, ServeRefused
<1>3. Books'
  BY <1>2 DEF Books
<1>4. CASE pc' # "end"
  <2>1. /\ est' = est
        /\ (\E k \in {"single", "dump"}, d \in Nat : Sends(k, d)) \/ Refused \/ UNCHANGED <<next, sent>>
    BY <1>1, <1>4 DEF Measure, MeasureFails, Measured, Dump, SkipDump, Serve, ServeRefused, warmup
  <2>2. Times(Of("extra"))' = Times(Of("extra")) /\ Times(Of("warm"))' = Times(Of("warm"))
    <3>1. CASE \E k \in {"single", "dump"}, d \in Nat : Sends(k, d)
      BY <1>1, <3>1, SendsOne
    <3>2. CASE sent' = sent
      BY <3>2 DEF Of, Times
    <3>. QED
      BY <2>1, <3>1, <3>2 DEF Refused
  <2>3. next' >= next /\ next' \in Nat
    BY <1>1, <2>1 DEF Sends, Refused
  <2>4. OfAnswers((IF SameShape THEN Times(Of("warm")) ELSE <<>>) \o Times(Of("extra")))'
          = OfAnswers((IF SameShape THEN Times(Of("warm")) ELSE <<>>) \o Times(Of("extra")))
    BY <2>2 DEF OfAnswers, SameShape
  <2>5. pc \in {"single", "dump", "throughput"}
    BY <1>2, <1>4
  <2>. QED
    BY <1>1, <1>3, <2>1, <2>2, <2>3, <2>4, <2>5 DEF SettledOrSpent
<1>. QED
  BY <1>3, <1>4 DEF SettledOrSpent

LEMMA SettledInductive == SettledInv /\ [Next]_vars => SettledInv'
<1>. SUFFICES ASSUME SettledInv, [Next]_vars PROVE SettledInv'
  OBVIOUS
<1>1. TagInv'
  BY TagInductive DEF SettledInv
<1>2. CASE Next
  <2>1. Books' /\ SettledOrSpent'
    BY <1>2, WarmBooks, ExtraBooks, ExtraFailsBooks, WarmedBooks, LaterBooks DEF Next
  <2>. QED
    BY <1>1, <2>1 DEF SettledInv
<1>3. CASE UNCHANGED vars
  <2>1. Times(Of("extra"))' = Times(Of("extra")) /\ Times(Of("warm"))' = Times(Of("warm"))
    BY <1>3 DEF Of, Times, vars
  <2>2. Tried' = Tried /\ Shaped' = Shaped /\ OfAnswers(Shaped)' = OfAnswers(Shaped)
        /\ Total(Tried)' = Total(Tried)
    BY <2>1 DEF Tried, Shaped, OfAnswers, SameShape
  <2>3. Books'
    BY <1>3, <2>2 DEF SettledInv, Books, FullLats, SameShape, vars
  <2>4. SettledOrSpent'
    BY <1>3, <2>1, <2>2 DEF SettledInv, SettledOrSpent, Tried, Shaped, SameShape, vars
  <2>. QED
    BY <1>1, <2>3, <2>4 DEF SettledInv
<1>. QED
  BY <1>2, <1>3

\* However the warmups go, and whatever they take: the measured window opens on
\* a server that has settled at the shape it is measured at, or that has cost
\* what warming up may cost (_run_warmups). The loop's own books agree with the
\* requests as they were sent.
THEOREM WarmedUpOrSpent == Spec => []SettledOrSpent
<1>1. Init => SettledInv
  BY TagInit, BooksInit DEF SettledInv
<1>2. SettledInv => SettledOrSpent
  BY DEF SettledInv
<1>. QED
  BY <1>1, <1>2, SettledInductive, PTL DEF Spec

-----------------------------------------------------------------------------
(* The requests on the wire: the parts of the invariant.                   *)

\* A request is under way.
Active == phase \notin {"between", "end"}

Outcomes   == {"ok", "error", "timeout", "nameless"}
JobEntry   == [req : Nat, left : Nat]
LastResult == [outcome : Outcomes, latency : Nat, job : {"none", "queued"} \cup Ends, ended : Nat,
               lost : Nat, by : SUBSET Nat]

SenderTypeOK ==
  /\ sender \in Senders
  /\ n \in Nat /\ timer \in Nat /\ t \in Nat
  /\ ended \in Nat /\ lost \in Nat /\ read \in Nat /\ stopped \in Nat
  /\ phase \in {"between", "end", "posting", "reply", "pause", "get", "status", "retry", "listen",
               "outputs"}
  /\ answer \in {"none", "queued"} \cup Ends
  /\ queue \in Seq(JobEntry)
  /\ job \in {"none", "queued"} \cup Ends
  /\ up \in BOOLEAN
  /\ by \in SUBSET Nat
  /\ log \in Seq(Outcomes)
  /\ last \in LastResult \cup {None}

\* The clock has not passed the timer. A phase that waits has a latest timer, and
\* one that reads an answer has waited no longer before it.
OnTime ==
  /\ t <= timer
  /\ phase \in {"posting", "listen"} => timer <= REQUEST_TIMEOUT
  /\ phase = "get" => timer < REQUEST_TIMEOUT + GetTimeout
  /\ phase = "pause" => /\ timer <= t + POLL_INTERVAL
                        /\ timer <= REQUEST_TIMEOUT + POLL_INTERVAL + read
  /\ phase = "retry" => timer < REQUEST_TIMEOUT + GetTimeout + RetrySleep + read
  /\ phase \in {"reply", "outputs"} => t <= REQUEST_TIMEOUT + read
  /\ phase = "status" => t < REQUEST_TIMEOUT + GetTimeout + read
  /\ ~Active => timer = 0 /\ answer = "none"

\* When the job ended is known once it has ended; the time since then was lost,
\* but for the pause that follows it or was under way. An answer that says so was
\* composed after that.
EndIsKnown ==
  Active =>
    /\ job \notin Ends => lost = 0 /\ answer \notin Ends
    /\ job \in Ends => ended <= t
    /\ answer \in Ends => job = answer /\ ended <= stopped /\ stopped <= t
    /\ job \in Outputs =>
         /\ phase \in {"posting", "reply", "listen", "outputs"} => t <= ended + lost
         /\ phase = "status" /\ answer \notin Ends => t <= ended + lost
         /\ t <= ended + POLL_INTERVAL + lost
         /\ phase = "pause" => timer <= ended + POLL_INTERVAL + lost
    /\ phase = "reply" /\ sender.kind = "sync" => job \in Ends
    /\ phase = "outputs" => answer \in Outputs
    /\ last = None

\* The series: every request but the one under way has an outcome, and one that
\* fails after the warmups is the last.
SeriesGoesOn ==
  /\ Len(log) = IF Active THEN n - 1 ELSE n
  /\ phase # "end" => \A q \in 1 .. Len(log) : q > WarmRequests => log[q] \in Answers

\* The server's jobs are of different requests, in their order; a request that
\* was answered has none, and the one under way has one only while it is queued.
JobsOfRequests ==
  /\ \A i \in 1 .. Len(queue) :
       /\ queue[i].req \in 1 .. n
       /\ queue[i].req <= Len(log) => log[queue[i].req] # "ok"
       /\ Active /\ queue[i].req = n => job = "queued"
  /\ \A i, j \in 1 .. Len(queue) : i < j => queue[i].req < queue[j].req

\* Only jobs of requests that were given up have run beside this one.
DisturbedByGivenUp ==
  Active => \A q \in by : q \in 1 .. Len(log) /\ log[q] # "ok"

TimedOutLate ==
  last.outcome = "timeout" /\ last.job \in Outputs /\ last.lost = 0 =>
    last.ended + POLL_INTERVAL >= REQUEST_TIMEOUT

SenderInv ==
  /\ SenderTypeOK
  /\ OnTime
  /\ EndIsKnown
  /\ SeriesGoesOn
  /\ JobsOfRequests
  /\ DisturbedByGivenUp
  /\ LatencyIsItsJob
  /\ TimedOutLate
  /\ DisturbedOnlyByWarmup

-----------------------------------------------------------------------------
(* Facts of the constants.                                                  *)

LEMMA Durations ==
  /\ REQUEST_TIMEOUT \in Nat /\ REQUEST_TIMEOUT > 0
  /\ GetTimeout \in Nat /\ GetTimeout > 0
  /\ POLL_INTERVAL \in Nat /\ POLL_INTERVAL > 0 /\ POLL_INTERVAL <= GetTimeout
  /\ RetrySleep \in Nat /\ RetrySleep > 0
  /\ WarmRequests \in Nat /\ MeasuredRequests \in Nat
  /\ PromptTimeout \in Nat /\ PromptTimeout <= REQUEST_TIMEOUT
  /\ AllRequests \in Nat
BY SenderAssumption DEF AllRequests

\* What any sender accepts is the output of a job that completed.
LEMMA AcceptedIsOutput ==
  ASSUME sender \in Senders, job \in sender.accepts
  PROVE  job \in Outputs
<1>1. \A s \in AllSenders : s.accepts \subseteq Outputs
  BY DEF AllSenders, SendImageSglang, SendVideoSglang, SendEditSglang, SendVideoVllm, SendImageVllm,
         SendChatVllm, SendImageLightx2v, SendVideoLightx2v, SendJsonGeneric, SendVideoGeneric,
         SendEditGeneric, SendPromptComfyui, SendVideoFastvideo, Way, SomeOutput, AnyOutput,
         Tracks, Outputs
<1>. QED
  BY <1>1, SendersAssumption

-----------------------------------------------------------------------------
(* What the steps have in common.                                           *)

\* A result of the request under way keeps the invariant when a latency is that of
\* its job, and when a request is given up after its deadline only.
LEMMA SettleKeeps ==
  ASSUME SenderInv, Active, n > 0,
         NEW outcome \in Outcomes, NEW latency \in Nat,
         Settle(outcome, latency),
         outcome = "ok" => /\ job \in Outputs
                           /\ ended <= latency
                           /\ latency <= ended + POLL_INTERVAL + lost,
         outcome = "timeout" /\ job \in Outputs /\ lost = 0 =>
           ended + POLL_INTERVAL >= REQUEST_TIMEOUT
  PROVE  SenderInv'
<1>. USE Durations
<1>0. n \in Nat /\ log \in Seq(Outcomes) /\ outcome \in Outcomes
  BY DEF SenderInv, SenderTypeOK
<1>1. /\ log' = Append(log, outcome) /\ last' = Result(outcome, latency)
      /\ phase' \in {"between", "end"}
      /\ phase' # "end" => outcome \in Answers \/ n <= WarmRequests
      /\ timer' = 0 /\ t' = 0 /\ answer' = "none" /\ stopped' = 0
      /\ UNCHANGED <<sender, n, by, lost, read, queue, job, up, ended>>
  BY <1>0 DEF Settle, Forget, server
<1>2. SenderTypeOK'
  <2>1. log' \in Seq(Outcomes)
    BY <1>0, <1>1
  <2>2. last' \in LastResult
    BY <1>0, <1>1 DEF SenderInv, SenderTypeOK, Result, LastResult
  <2>. QED
    BY <2>1, <2>2, <1>1 DEF SenderInv, SenderTypeOK
<1>3. OnTime'
  BY <1>1 DEF OnTime, Active
<1>4. ~Active' /\ EndIsKnown' /\ DisturbedByGivenUp'
  BY <1>1 DEF EndIsKnown, Active, DisturbedByGivenUp
<1>5. /\ Len(log) = n - 1 /\ Len(log') = n
      /\ \A q \in 1 .. Len(log) : log'[q] = log[q]
      /\ log'[n] = outcome
  BY <1>1 DEF SenderInv, SenderTypeOK, SeriesGoesOn
<1>6. SeriesGoesOn'
  BY <1>1, <1>4, <1>5 DEF SenderInv, SeriesGoesOn, Active, SenderTypeOK
<1>7. JobsOfRequests'
  <2>1. ASSUME NEW i \in 1 .. Len(queue)
        PROVE  /\ queue[i].req \in 1 .. n
               /\ log'[queue[i].req] # "ok"
    <3>1. queue[i].req \in 1 .. n
      BY DEF SenderInv, JobsOfRequests
    <3>2. CASE queue[i].req = n
      BY <3>2, <1>5 DEF SenderInv, JobsOfRequests, Outputs
    <3>3. CASE queue[i].req # n
      <4>1. queue[i].req \in 1 .. Len(log)
        BY <3>1, <3>3, <1>5 DEF SenderInv, SenderTypeOK
      <4>. QED
        BY <3>1, <4>1, <1>5 DEF SenderInv, JobsOfRequests
    <3>. QED
      BY <3>1, <3>2, <3>3
  <2>. QED
    BY <2>1, <1>1, <1>4 DEF SenderInv, JobsOfRequests
<1>8. LatencyIsItsJob' /\ TimedOutLate'
  BY <1>1 DEF LatencyIsItsJob, TimedOutLate, Result
<1>9. DisturbedOnlyByWarmup'
  <2>. SUFFICES ASSUME outcome = "ok", n > WarmRequests, ~Contains(log', "nameless"), NEW q \in by
                PROVE  q <= WarmRequests /\ log'[q] # "ok"
    BY <1>1 DEF DisturbedOnlyByWarmup, Result
  <2>1. q \in 1 .. Len(log) /\ log[q] # "ok"
    BY DEF SenderInv, DisturbedByGivenUp
  <2>2. log[q] # "nameless"
    BY <2>1, <1>5 DEF Contains, SenderInv, SenderTypeOK
  <2>3. q > WarmRequests => log[q] \in Answers
    BY <2>1 DEF SenderInv, SeriesGoesOn, Active
  <2>. QED
    BY <2>1, <2>2, <2>3, <1>5 DEF Answers
<1>. QED
  BY <1>2, <1>3, <1>4, <1>6, <1>7, <1>8, <1>9 DEF SenderInv

\* So does a wait, for the time that is its own.
LEMMA WaitKeeps ==
  ASSUME SenderInv, Active,
         NEW what \in {"pause", "get", "retry", "listen"}, NEW time \in Nat, Wait(what, time),
         what = "pause" => /\ time = POLL_INTERVAL /\ t <= REQUEST_TIMEOUT + read
                           /\ job \in Outputs => t <= ended + lost,
         what = "get" => time = GetTimeout /\ t < REQUEST_TIMEOUT,
         what = "retry" => time = RetrySleep /\ phase \in {"get", "status"},
         what = "listen" => t + time = REQUEST_TIMEOUT /\ phase = "reply"
  PROVE  SenderInv'
<1>. USE Durations
<1>1. /\ phase' = what /\ timer' = t + time /\ answer' = "none" /\ stopped' = 0
      /\ UNCHANGED <<t, queue, job, up, ended, sender, n, by, lost, read, log, last>>
      /\ Active'
  BY DEF Wait, server, timed, Active
<1>2. SenderTypeOK'
  BY <1>1 DEF SenderInv, SenderTypeOK
<1>3. OnTime'
  BY <1>1 DEF SenderInv, SenderTypeOK, OnTime, Active
<1>4. EndIsKnown'
  BY <1>1 DEF SenderInv, SenderTypeOK, EndIsKnown, Ends, Outputs
<1>5. SeriesGoesOn' /\ DisturbedByGivenUp'
  BY <1>1 DEF SenderInv, SeriesGoesOn, DisturbedByGivenUp, Active
<1>6. JobsOfRequests'
  BY <1>1 DEF SenderInv, JobsOfRequests
<1>7. LatencyIsItsJob' /\ TimedOutLate' /\ DisturbedOnlyByWarmup'
  BY <1>1 DEF SenderInv, LatencyIsItsJob, TimedOutLate, DisturbedOnlyByWarmup
<1>. QED
  BY <1>2, <1>3, <1>4, <1>5, <1>6, <1>7 DEF SenderInv

\* So does an answer that begins, however long it takes to read.
LEMMA ArrivesKeeps ==
  ASSUME SenderInv,
         NEW what \in {"reply", "status", "outputs"}, NEW time \in Nat, Arrives(what, time),
         what = "reply" => /\ phase = "posting"
                           /\ sender.kind = "sync" => job \in Ends,
         what = "status" => phase = "get",
         what = "outputs" => phase = "listen" /\ job \in Outputs
  PROVE  SenderInv'
<1>. USE Durations
<1>1. /\ phase' = what /\ timer' = t + time /\ answer' = job /\ stopped' = t
      /\ UNCHANGED <<t, queue, job, up, ended, sender, n, by, lost, read, log, last>>
      /\ Active /\ Active'
  BY DEF Arrives, server, timed, Active
<1>2. SenderTypeOK'
  BY <1>1 DEF SenderInv, SenderTypeOK
<1>3. OnTime'
  BY <1>1 DEF SenderInv, SenderTypeOK, OnTime, Active
<1>4. EndIsKnown'
  BY <1>1 DEF SenderInv, SenderTypeOK, EndIsKnown, Ends, Outputs
<1>5. SeriesGoesOn' /\ DisturbedByGivenUp'
  BY <1>1 DEF SenderInv, SeriesGoesOn, DisturbedByGivenUp, Active
<1>6. JobsOfRequests'
  BY <1>1 DEF SenderInv, JobsOfRequests
<1>7. LatencyIsItsJob' /\ TimedOutLate' /\ DisturbedOnlyByWarmup'
  BY <1>1 DEF SenderInv, LatencyIsItsJob, TimedOutLate, DisturbedOnlyByWarmup
<1>. QED
  BY <1>2, <1>3, <1>4, <1>5, <1>6, <1>7 DEF SenderInv

\* A request under way has a number, and what its job has come to is not late.
LEMMA UnderWay ==
  ASSUME SenderInv, Active
  PROVE  n > 0 /\ t \in Nat
BY DEF SenderInv, SeriesGoesOn, SenderTypeOK

\* The output that is looked at is that of the request's own job.
LEMMA CheckedKeeps ==
  ASSUME SenderInv, Active, NEW latency \in Nat, Checked(latency),
         job \in Outputs => ended <= latency /\ latency <= ended + POLL_INTERVAL + lost
  PROVE  SenderInv'
<1>1. CASE job \in sender.accepts /\ Settle("ok", latency)
  <2>1. job \in Outputs
    BY <1>1, AcceptedIsOutput DEF SenderInv, SenderTypeOK
  <2>. QED
    BY <1>1, <2>1, UnderWay, SettleKeeps DEF Outcomes
<1>2. CASE Settle("error", 0)
  BY <1>2, UnderWay, SettleKeeps DEF Outcomes
<1>. QED
  BY <1>1, <1>2 DEF Checked

-----------------------------------------------------------------------------
(* The actions.                                                             *)

LEMMA BeginKeeps ==
  ASSUME SenderInv, Begin
  PROVE  SenderInv'
<1>. USE Durations
<1>1. /\ n' = n + 1 /\ phase' = "posting" /\ t' = 0
      /\ timer' \in {PromptTimeout, REQUEST_TIMEOUT}
      /\ ended' = 0 /\ lost' = 0 /\ read' = 0 /\ by' = {} /\ job' = "none" /\ last' = None
      /\ UNCHANGED <<sender, queue, up, answer, stopped, log>>
      /\ ~Active /\ Active' /\ phase # "end"
  BY DEF Begin, Active
<1>2. SenderTypeOK'
  BY <1>1 DEF SenderInv, SenderTypeOK
<1>3. OnTime' /\ DisturbedByGivenUp'
  BY <1>1 DEF OnTime, DisturbedByGivenUp, SenderInv, SenderTypeOK
<1>4. EndIsKnown'
  <2>1. answer = "none"
    BY <1>1 DEF SenderInv, OnTime
  <2>. QED
    BY <1>1, <2>1 DEF EndIsKnown, Ends, Outputs
<1>5. SeriesGoesOn'
  BY <1>1 DEF SenderInv, SenderTypeOK, SeriesGoesOn
<1>6. JobsOfRequests'
  BY <1>1 DEF SenderInv, SenderTypeOK, SeriesGoesOn, JobsOfRequests
<1>7. LatencyIsItsJob' /\ TimedOutLate' /\ DisturbedOnlyByWarmup'
  BY <1>1 DEF LatencyIsItsJob, TimedOutLate, DisturbedOnlyByWarmup, None
<1>. QED
  BY <1>2, <1>3, <1>4, <1>5, <1>6, <1>7 DEF SenderInv

LEMMA PostKeeps ==
  ASSUME SenderInv,
         PostFails \/ Answered \/ Submitted \/ SubmittedNameless \/ (\E time \in Reading : Reply(time))
  PROVE  SenderInv'
<1>. USE Durations, UnderWay
<1>1. phase \in {"posting", "reply"} /\ Active
  BY DEF PostFails, Answered, Submitted, SubmittedNameless, Reply, WasRead, Active
<1>2. /\ t <= REQUEST_TIMEOUT + read
      /\ t \in Nat /\ ended \in Nat /\ lost \in Nat /\ timer \in Nat /\ read \in Nat
  BY <1>1 DEF SenderInv, SenderTypeOK, OnTime
<1>3. CASE PostFails
  BY <1>1, <1>3, SettleKeeps DEF Outcomes, PostFails
<1>4. CASE Answered
  <2>1. job \in Outputs => ended <= t /\ t <= ended + POLL_INTERVAL + lost
    BY <1>1, <1>2 DEF SenderInv, EndIsKnown, Ends
  <2>. QED
    BY <1>1, <1>2, <1>4, <2>1, CheckedKeeps DEF Answered
<1>5. CASE Submitted
  <2>1. job \in Outputs => t <= ended + lost
    BY <1>1 DEF SenderInv, EndIsKnown
  <2>. QED
    BY <1>1, <1>2, <1>5, <2>1, WaitKeeps DEF Submitted
<1>6. CASE SubmittedNameless
  BY <1>1, <1>2, <1>6, SettleKeeps DEF Outcomes, SubmittedNameless
<1>7. CASE \E time \in Reading : Reply(time)
  BY <1>7, ArrivesKeeps, SenderAssumption DEF Reply
<1>. QED
  BY <1>3, <1>4, <1>5, <1>6, <1>7

LEMMA PauseOverKeeps ==
  ASSUME SenderInv, PauseOver
  PROVE  SenderInv'
<1>. USE Durations, UnderWay
<1>1. phase \in {"pause", "retry"} /\ Active /\ t = timer
  BY DEF PauseOver, Active
<1>2. t \in Nat /\ ended \in Nat /\ lost \in Nat
  BY DEF SenderInv, SenderTypeOK
<1>3. CASE t < REQUEST_TIMEOUT /\ Wait("get", GetTimeout)
  BY <1>1, <1>3, WaitKeeps
<1>4. CASE ~(t < REQUEST_TIMEOUT) /\ Settle("timeout", 0)
  <2>1. job \in Outputs /\ lost = 0 => ended + POLL_INTERVAL >= REQUEST_TIMEOUT
    BY <1>1, <1>2, <1>4 DEF SenderInv, EndIsKnown
  <2>. QED
    BY <1>1, <1>4, <2>1, SettleKeeps DEF Outcomes
<1>. QED
  BY <1>3, <1>4 DEF PauseOver, Poll

LEMMA StatusKeeps ==
  ASSUME SenderInv,
         Status \/ StatusRefused \/ StatusLost \/ (\E time \in Reading : StatusArrives(time))
  PROVE  SenderInv'
<1>. USE Durations, UnderWay
<1>1. phase \in {"get", "status"} /\ Active
  BY DEF Status, StatusRefused, StatusLost, StatusArrives, WasRead, Active
<1>2. t \in Nat /\ ended \in Nat /\ lost \in Nat /\ read \in Nat
  BY DEF SenderInv, SenderTypeOK
<1>3. CASE StatusRefused
  BY <1>1, <1>3, SettleKeeps DEF Outcomes, StatusRefused
<1>4. CASE StatusLost
  BY <1>1, <1>4, WaitKeeps DEF StatusLost
<1>5. CASE Completed /\ Checked(t)
  <2>1. job \in Outputs => ended <= t /\ t <= ended + POLL_INTERVAL + lost
    BY <1>1, <1>2 DEF SenderInv, EndIsKnown, Ends
  <2>. QED
    BY <1>1, <1>2, <1>5, <2>1, CheckedKeeps
<1>6. CASE Settle("error", 0)
  BY <1>1, <1>6, SettleKeeps DEF Outcomes
<1>7. CASE /\ phase = "status"
           /\ answer \in {"queued", "cancelled"}
           /\ IF t > REQUEST_TIMEOUT THEN Settle("timeout", 0) ELSE Wait("pause", POLL_INTERVAL)
  <2>1. phase = "status" /\ job \in Outputs => t <= ended + lost
    <3>1. phase = "status" /\ job \in Outputs => answer \notin Ends
      BY <1>1, <1>7 DEF SenderInv, EndIsKnown, Outputs
    <3>. QED
      BY <1>1, <3>1 DEF SenderInv, EndIsKnown
  <2>2. CASE t > REQUEST_TIMEOUT /\ Settle("timeout", 0)
    BY <1>1, <1>2, <1>7, <2>1, <2>2, SettleKeeps DEF Outcomes
  <2>3. CASE ~(t > REQUEST_TIMEOUT) /\ Wait("pause", POLL_INTERVAL)
    BY <1>1, <1>2, <1>7, <2>1, <2>3, WaitKeeps
  <2>. QED
    BY <1>7, <2>2, <2>3
<1>8. CASE \E time \in Reading : StatusArrives(time)
  BY <1>8, ArrivesKeeps, SenderAssumption DEF StatusArrives
<1>. QED
  BY <1>3, <1>4, <1>5, <1>6, <1>7, <1>8 DEF Status, WasRead

LEMMA EventsKeep ==
  ASSUME SenderInv, Queued \/ ListenFails \/ (\E time \in Reading : Event(time))
  PROVE  SenderInv'
<1>. USE Durations, UnderWay
<1>1. phase \in {"reply", "listen"} /\ Active
  BY DEF Queued, Event, ListenFails, WasRead, Active
<1>2. t \in Nat
  BY DEF SenderInv, SenderTypeOK
<1>3. CASE Settle("error", 0)
  BY <1>1, <1>3, SettleKeeps DEF Outcomes
<1>4. CASE phase = "reply" /\ t < REQUEST_TIMEOUT /\ Wait("listen", REQUEST_TIMEOUT - t)
  BY <1>1, <1>2, <1>4, WaitKeeps
<1>5. CASE \E time \in Reading : phase = "listen" /\ job \in Outputs /\ Arrives("outputs", time)
  BY <1>5, ArrivesKeeps, SenderAssumption
<1>. QED
  BY <1>3, <1>4, <1>5 DEF Queued, Event, ListenFails, WasRead

LEMMA ReadKeeps ==
  ASSUME SenderInv, (\E image \in BOOLEAN : Read(image)) \/ ReadFails
  PROVE  SenderInv'
<1>. USE Durations, UnderWay
<1>1. phase = "outputs" /\ Active
  BY DEF Read, ReadFails, WasRead, Active
<1>2. /\ t \in Nat /\ ended \in Nat /\ lost \in Nat /\ stopped \in Nat
      /\ ended <= stopped /\ stopped <= t /\ t <= ended + lost
  BY <1>1 DEF SenderInv, SenderTypeOK, EndIsKnown, Ends
<1>3. CASE ReadFails
  BY <1>1, <1>3, SettleKeeps DEF Outcomes, ReadFails
<1>4. CASE \E image \in BOOLEAN : Read(image)
  <2>1. PICK latency \in {t, stopped} : Checked(latency)
    BY <1>4 DEF Read
  <2>2. latency \in Nat /\ ended <= latency /\ latency <= ended + POLL_INTERVAL + lost
    BY <1>2
  <2>. QED
    BY <1>1, <2>1, <2>2, CheckedKeeps
<1>. QED
  BY <1>3, <1>4

\* The server takes the job of the request under way behind those it has.
LEMMA AcceptKeeps ==
  ASSUME SenderInv, NEW work \in Work, Accept(work)
  PROVE  SenderInv'
<1>1. /\ phase = "posting" /\ job = "none" /\ job' = "queued"
      /\ queue' = Append(queue, [req |-> n, left |-> work])
      /\ UNCHANGED <<phase, timer, t, answer, stopped, up, ended, sender, n, by, lost, read, log, last>>
      /\ Active /\ Active'
  BY DEF Accept, timed, Active
<1>2. n \in Nat /\ n > 0 /\ work \in Nat /\ queue \in Seq(JobEntry) /\ Len(log) = n - 1
  BY <1>1, UnderWay, SenderAssumption DEF SenderInv, SenderTypeOK, SeriesGoesOn
<1>3. /\ queue' \in Seq(JobEntry) /\ Len(queue') = Len(queue) + 1
      /\ \A i \in 1 .. Len(queue) : queue'[i] = queue[i]
      /\ queue'[Len(queue) + 1].req = n
  BY <1>1, <1>2 DEF JobEntry
<1>4. \A i \in 1 .. Len(queue) : queue[i].req \in 1 .. n /\ queue[i].req # n
  BY <1>1 DEF SenderInv, JobsOfRequests
<1>5. SenderTypeOK' /\ OnTime' /\ EndIsKnown'
  BY <1>1, <1>3 DEF SenderInv, SenderTypeOK, OnTime, EndIsKnown, Ends, Outputs
<1>6. JobsOfRequests'
  BY <1>1, <1>2, <1>3, <1>4 DEF SenderInv, JobsOfRequests
<1>7. SeriesGoesOn' /\ DisturbedByGivenUp'
  BY <1>1 DEF SenderInv, SeriesGoesOn, DisturbedByGivenUp
<1>8. LatencyIsItsJob' /\ TimedOutLate' /\ DisturbedOnlyByWarmup'
  BY <1>1 DEF SenderInv, LatencyIsItsJob, TimedOutLate, DisturbedOnlyByWarmup
<1>. QED
  BY <1>5, <1>6, <1>7, <1>8 DEF SenderInv

LEMMA ServerDiesKeeps ==
  ASSUME SenderInv, ServerDies
  PROVE  SenderInv'
<1>1. /\ up' = FALSE /\ queue' = <<>>
      /\ UNCHANGED <<phase, timer, t, answer, stopped, job, ended, sender, n, by, lost, read, log, last>>
      /\ Active /\ Active'
  BY DEF ServerDies, timed, Active
<1>2. SenderTypeOK'
  <2>1. up' \in BOOLEAN
    BY <1>1, Zenon
  <2>2. queue' \in Seq(JobEntry)
    BY <1>1
  <2>. QED
    BY <1>1, <2>1, <2>2 DEF SenderInv, SenderTypeOK
<1>5. OnTime' /\ EndIsKnown'
  BY <1>1 DEF SenderInv, OnTime, EndIsKnown
<1>3. JobsOfRequests' /\ SeriesGoesOn' /\ DisturbedByGivenUp'
  BY <1>1 DEF SenderInv, JobsOfRequests, SeriesGoesOn, DisturbedByGivenUp
<1>4. LatencyIsItsJob' /\ TimedOutLate' /\ DisturbedOnlyByWarmup'
  BY <1>1 DEF SenderInv, LatencyIsItsJob, TimedOutLate, DisturbedOnlyByWarmup
<1>. QED
  BY <1>2, <1>3, <1>4, <1>5 DEF SenderInv

\* What time does to the server's first job: it goes on, or it ends.
LEMMA JobRuns ==
  ASSUME SenderInv, Tick, queue # <<>>
  PROVE  /\ queue \in Seq(JobEntry) /\ Len(queue) > 0
         /\ queue' \in Seq(JobEntry)
         /\ Head(queue) = queue[1]
         /\ \/ /\ Len(queue') = Len(queue)
               /\ \A i \in 1 .. Len(queue) : queue'[i].req = queue[i].req
               /\ UNCHANGED <<job, ended>>
            \/ /\ Len(queue') = Len(queue) - 1
               /\ \A i \in 1 .. Len(queue') : queue'[i] = queue[i + 1]
               /\ \/ queue[1].req = n /\ ended' = t + 1 /\ job' \in Ends
                  \/ queue[1].req # n /\ UNCHANGED <<job, ended>>
<1>1. queue \in Seq(JobEntry) /\ Len(queue) > 0 /\ Head(queue) = queue[1] /\ queue[1] \in JobEntry
  BY DEF SenderInv, SenderTypeOK
<1>2. CASE Head(queue).left > 1 /\ queue' = [queue EXCEPT ![1].left = @ - 1] /\ UNCHANGED <<job, ended>>
  <2>. DEFINE e == [queue[1] EXCEPT !.left = queue[1].left - 1]
  <2>0. queue[1].req \in Nat /\ queue[1].left \in Nat /\ queue[1].left - 1 \in Nat
        /\ queue[1] = [req |-> queue[1].req, left |-> queue[1].left]
    BY <1>1, <1>2 DEF JobEntry
  <2>1. e \in JobEntry /\ e.req = queue[1].req
    <3>1. e = [req |-> queue[1].req, left |-> queue[1].left - 1]
      BY <2>0
    <3>. QED
      BY <2>0, <3>1 DEF JobEntry
  <2>2. DOMAIN queue' = DOMAIN queue /\ \A i \in DOMAIN queue : queue'[i] = IF i = 1 THEN e ELSE queue[i]
    BY <1>1, <1>2
  <2>3. DOMAIN queue = 1 .. Len(queue) /\ \A i \in DOMAIN queue : queue[i] \in JobEntry
    BY <1>1
  <2>. HIDE DEF e
  <2>4. queue' \in [1 .. Len(queue) -> JobEntry]
    BY <1>1, <1>2, <2>1, <2>2, <2>3
  <2>5. /\ queue' \in Seq(JobEntry) /\ Len(queue') = Len(queue)
        /\ \A i \in 1 .. Len(queue) : queue'[i].req = queue[i].req
    BY <1>1, <2>1, <2>2, <2>3, <2>4
  <2>. QED
    BY <1>1, <1>2, <2>5
<1>3. CASE /\ ~(Head(queue).left > 1) /\ queue' = Tail(queue)
           /\ IF Head(queue).req = n THEN ended' = t + 1 /\ job' \in Ends ELSE UNCHANGED <<ended, job>>
  <2>1. /\ queue' \in Seq(JobEntry) /\ Len(queue') = Len(queue) - 1
        /\ \A i \in 1 .. Len(queue') : queue'[i] = queue[i + 1]
    BY <1>1, <1>3
  <2>. QED
    BY <1>1, <1>3, <2>1
<1>. QED
  BY <1>1, <1>2, <1>3 DEF Tick

LEMMA TickKeeps ==
  ASSUME SenderInv, Tick
  PROVE  SenderInv'
<1>. USE Durations, UnderWay
<1>1. /\ Active /\ Active' /\ t < timer /\ t' = t + 1
      /\ lost' = IF job \notin Ends \/ phase = "pause" THEN lost ELSE lost + 1
      /\ read' = IF phase \in {"reply", "status", "outputs"} THEN read + 1 ELSE read
      /\ UNCHANGED <<sender, n, phase, timer, up, answer, stopped, log, last>>
  BY DEF Tick, Active
<1>2. /\ t \in Nat /\ timer \in Nat /\ ended \in Nat /\ lost \in Nat /\ n \in Nat /\ stopped \in Nat
      /\ lost' \in Nat /\ read \in Nat /\ read' \in Nat /\ t' \in Nat /\ n > 0 /\ Len(log) = n - 1
  BY <1>1 DEF SenderInv, SenderTypeOK, SeriesGoesOn
<1>3. OnTime'
  BY <1>1, <1>2 DEF SenderInv, OnTime, Active
<1>5. \/ UNCHANGED <<job, ended>>
      \/ job = "queued" /\ ended' = t + 1 /\ job' \in Ends
  <2>1. CASE queue = <<>>
    BY <2>1 DEF Tick
  <2>2. CASE queue # <<>> /\ queue[1].req = n
    <3>1. 1 \in 1 .. Len(queue)
      BY <2>2, JobRuns
    <3>2. job = "queued"
      BY <1>1, <2>2, <3>1 DEF SenderInv, JobsOfRequests
    <3>. QED
      BY <2>2, <3>2, JobRuns
  <2>3. CASE queue # <<>> /\ queue[1].req # n
    BY <2>3, JobRuns
  <2>. QED
    BY <2>1, <2>2, <2>3
<1>6. EndIsKnown' /\ ended' \in Nat /\ job' \in {"none", "queued"} \cup Ends
  <2>1. CASE UNCHANGED <<job, ended>> /\ job \in Ends
    <3>1. job \in Ends /\ ended <= t /\ job' = job /\ ended' = ended
      BY <1>1, <2>1 DEF SenderInv, EndIsKnown
    <3>2. job \in Outputs =>
            /\ phase \in {"posting", "reply", "listen", "outputs"} => t' <= ended + lost'
            /\ phase = "status" /\ answer \notin Ends => t' <= ended + lost'
            /\ t' <= ended + POLL_INTERVAL + lost'
            /\ phase = "pause" => timer <= ended + POLL_INTERVAL + lost'
      BY <1>1, <1>2, <3>1 DEF SenderInv, EndIsKnown
    <3>. QED
      BY <1>1, <1>2, <3>1, <3>2 DEF SenderInv, EndIsKnown
  <2>2. CASE UNCHANGED <<job, ended>> /\ job \notin Ends
    BY <1>1, <1>2, <2>2 DEF SenderInv, SenderTypeOK, EndIsKnown, Ends
  <2>3. CASE job = "queued" /\ ended' = t + 1 /\ job' \in Ends
    <3>1. /\ job \notin Ends /\ lost = 0 /\ lost' = 0 /\ answer \notin Ends
          /\ phase # "outputs" /\ last = None
      BY <1>1, <2>3 DEF SenderInv, EndIsKnown, Ends, Outputs
    <3>2. phase = "pause" => timer <= t + POLL_INTERVAL
      BY DEF SenderInv, OnTime
    <3>. QED
      BY <1>1, <1>2, <2>3, <3>1, <3>2 DEF EndIsKnown
  <2>. QED
    BY <1>5, <2>1, <2>2, <2>3
<1>7. /\ queue' \in Seq(JobEntry) /\ JobsOfRequests'
      /\ by' \in SUBSET Nat /\ DisturbedByGivenUp'
  <2>1. CASE queue = <<>>
    BY <1>1, <2>1 DEF Tick, SenderInv, SenderTypeOK, JobsOfRequests, DisturbedByGivenUp
  <2>2. CASE queue # <<>>
    <3>1. /\ queue[1].req \in 1 .. n
          /\ queue[1].req # n => queue[1].req \in 1 .. Len(log) /\ log[queue[1].req] # "ok"
      BY <1>2, <2>2, JobRuns DEF SenderInv, JobsOfRequests
    <3>2. by' = by \cup ({queue[1].req} \ {n})
      BY <2>2, JobRuns DEF Tick
    <3>3. by' \in SUBSET Nat /\ DisturbedByGivenUp'
      <4>1. by \in SUBSET Nat /\ \A q \in by : q \in 1 .. Len(log) /\ log[q] # "ok"
        BY <1>1 DEF SenderInv, SenderTypeOK, DisturbedByGivenUp
      <4>2. \A q \in by' : q \in 1 .. Len(log') /\ log'[q] # "ok"
        BY <1>1, <3>1, <3>2, <4>1
      <4>3. by' \in SUBSET Nat
        <5>1. queue[1].req \in Nat
          BY <1>2, <3>1
        <5>. QED
          BY <3>2, <4>1, <5>1
      <4>4. DisturbedByGivenUp'
        BY <4>2 DEF DisturbedByGivenUp
      <4>. QED
        BY <4>3, <4>4
    <3>4. ASSUME /\ Len(queue') = Len(queue)
                 /\ \A i \in 1 .. Len(queue) : queue'[i].req = queue[i].req
                 /\ UNCHANGED <<job, ended>>
          PROVE  JobsOfRequests'
      <4>1. Len(queue) \in Nat
        BY <2>2, JobRuns
      <4>2. ASSUME NEW i \in 1 .. Len(queue')
            PROVE  /\ queue'[i].req \in 1 .. n'
                   /\ queue'[i].req <= Len(log') => log'[queue'[i].req] # "ok"
                   /\ queue'[i].req = n' => job' = "queued"
        BY <1>1, <3>4, <4>1 DEF SenderInv, JobsOfRequests
      <4>3. \A i, j \in 1 .. Len(queue') : i < j => queue'[i].req < queue'[j].req
        BY <3>4, <4>1 DEF SenderInv, JobsOfRequests
      <4>. QED
        BY <4>2, <4>3 DEF JobsOfRequests
    <3>5. ASSUME /\ Len(queue') = Len(queue) - 1
                 /\ \A i \in 1 .. Len(queue') : queue'[i] = queue[i + 1]
                 /\ \/ queue[1].req = n
                    \/ queue[1].req # n /\ UNCHANGED <<job, ended>>
          PROVE  JobsOfRequests'
      <4>1. /\ Len(queue) \in Nat
            /\ \A i \in 1 .. Len(queue') : i + 1 \in 1 .. Len(queue) /\ 1 < i + 1
            /\ Len(queue) > 0
        BY <2>2, <3>5, JobRuns
      <4>2. \A i \in 1 .. Len(queue') : queue[1].req < queue'[i].req
        BY <3>5, <4>1 DEF SenderInv, JobsOfRequests
      <4>3. ASSUME NEW i \in 1 .. Len(queue'), NEW j \in 1 .. Len(queue'), i < j
            PROVE  queue'[i].req < queue'[j].req
        <5>1. /\ i + 1 \in 1 .. Len(queue) /\ j + 1 \in 1 .. Len(queue)
              /\ queue'[i] = queue[i + 1] /\ queue'[j] = queue[j + 1]
          BY <3>5, <4>1
        <5>2. i + 1 < j + 1
          BY <4>1, <4>3
        <5>3. \A k, l \in 1 .. Len(queue) : k < l => queue[k].req < queue[l].req
          BY DEF SenderInv, JobsOfRequests
        <5>. QED
          BY <5>1, <5>2, <5>3
      <4>4. ASSUME NEW i \in 1 .. Len(queue')
            PROVE  /\ queue'[i].req \in 1 .. n'
                   /\ queue'[i].req <= Len(log') => log'[queue'[i].req] # "ok"
                   /\ queue'[i].req = n' => job' = "queued"
        <5>1. i + 1 \in 1 .. Len(queue) /\ queue'[i] = queue[i + 1]
          BY <3>5, <4>1
        <5>2. /\ queue[i + 1].req \in 1 .. n
              /\ queue[i + 1].req <= Len(log) => log[queue[i + 1].req] # "ok"
              /\ queue[i + 1].req = n => job = "queued"
          BY <1>1, <5>1 DEF SenderInv, JobsOfRequests
        <5>3. queue[1].req < queue'[i].req
          BY <4>2
        <5>4. queue[i + 1].req = n => job' = job
          BY <1>2, <3>1, <3>5, <5>1, <5>2, <5>3
        <5>. QED
          BY <1>1, <5>1, <5>2, <5>4
      <4>. QED
        BY <4>3, <4>4 DEF JobsOfRequests
    <3>. QED
      BY <2>2, <3>3, <3>4, <3>5, JobRuns
  <2>. QED
    BY <2>1, <2>2
<1>8. SenderTypeOK'
  BY <1>1, <1>2, <1>6, <1>7 DEF SenderInv, SenderTypeOK
<1>9. SeriesGoesOn' /\ LatencyIsItsJob' /\ TimedOutLate' /\ DisturbedOnlyByWarmup'
  <2>1. last = None /\ last' = None
    BY <1>1 DEF SenderInv, EndIsKnown
  <2>. QED
    BY <1>1, <2>1 DEF SenderInv, SeriesGoesOn, LatencyIsItsJob, TimedOutLate, DisturbedOnlyByWarmup, None
<1>. QED
  BY <1>3, <1>6, <1>7, <1>8, <1>9 DEF SenderInv

-----------------------------------------------------------------------------
(* The theorems.                                                            *)

\* The invariant holds of every behaviour: the types, the clock and its timer,
\* what is known of the job's end, the series, and the jobs the server has.
THEOREM SenderInvHolds == SenderSpec => []SenderInv
<1>1. ASSUME SenderInit PROVE SenderInv
  <2>1. SenderTypeOK
    <3>1. up \in BOOLEAN
      BY <1>1, Zenon DEF SenderInit
    <3>2. queue \in Seq(JobEntry) /\ log \in Seq(Outcomes)
      BY <1>1 DEF SenderInit
    <3>. QED
      BY <1>1, <3>1, <3>2, Durations DEF SenderInit, SenderTypeOK, None
  <2>2. OnTime /\ EndIsKnown /\ SeriesGoesOn /\ JobsOfRequests /\ DisturbedByGivenUp
    BY <1>1 DEF SenderInit, OnTime, EndIsKnown, SeriesGoesOn, JobsOfRequests, DisturbedByGivenUp, Active
  <2>3. LatencyIsItsJob /\ TimedOutLate /\ DisturbedOnlyByWarmup
    BY <1>1 DEF SenderInit, None, LatencyIsItsJob, TimedOutLate, DisturbedOnlyByWarmup
  <2>. QED
    BY <2>1, <2>2, <2>3 DEF SenderInv
<1>2. ASSUME SenderInv, SenderNext PROVE SenderInv'
  BY <1>2, BeginKeeps, PostKeeps, PauseOverKeeps, StatusKeeps, EventsKeep, ReadKeeps, AcceptKeeps,
     ServerDiesKeeps, TickKeeps DEF SenderNext
<1>3. ASSUME SenderInv, UNCHANGED senderVars PROVE SenderInv'
  BY <1>3 DEF senderVars, SenderInv, SenderTypeOK, OnTime, EndIsKnown, SeriesGoesOn, JobsOfRequests,
     DisturbedByGivenUp, LatencyIsItsJob, TimedOutLate, DisturbedOnlyByWarmup, Active
<1>. QED
  BY <1>1, <1>2, <1>3, PTL DEF SenderSpec

\* A latency is that of the request's own completed job: it covers all of the job's
\* time in the server, and one status interval more at most, besides what the sender
\* lost otherwise; for any sender, timeout, interval and number of requests.
THEOREM LatencyIsItsJobAlways == SenderSpec => []LatencyIsItsJob
<1>1. SenderInv => LatencyIsItsJob
  BY DEF SenderInv
<1>. QED
  BY <1>1, SenderInvHolds, PTL

\* A measured request that succeeded shared the server with jobs of given-up
\* warmups only, as long as no submission was taken for an answer.
THEOREM DisturbedOnlyByWarmupAlways == SenderSpec => []DisturbedOnlyByWarmup
<1>1. SenderInv => DisturbedOnlyByWarmup
  BY DEF SenderInv
<1>. QED
  BY <1>1, SenderInvHolds, PTL

\* No request waits for more than a status check and its pause beyond its timeout,
\* besides what it reads, however long that takes; and none is given up whose job
\* had ended an interval before the timeout, unless a status check was slow.
THEOREM InTimeAlways == SenderSpec => []InTime
<1>1. SenderInv => InTime
  <2>. SUFFICES ASSUME SenderInv PROVE InTime
    OBVIOUS
  <2>1. t < REQUEST_TIMEOUT + GetTimeout + RetrySleep + read
    BY Durations DEF SenderInv, SenderTypeOK, OnTime, Active
  <2>. QED
    BY <2>1 DEF SenderInv, TimedOutLate, InTime
<1>. QED
  BY <1>1, SenderInvHolds, PTL

=============================================================================
