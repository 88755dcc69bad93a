------------------------------ MODULE Requests ------------------------------
(***************************************************************************)
(* The requests one cell sends to its server: _run_warmups, then           *)
(* run_single_request, then run_throughput, all numbered by one counter    *)
(* (_request_case), because the number is the two-digit tag that keeps a   *)
(* server from answering a request out of the cache of another.            *)
(*                                                                         *)
(* Times are whole seconds.  An estimate is kept multiplied by WarmSteps,  *)
(* so that lat * case_steps / warmup_steps stays exact.                    *)
(***************************************************************************)
EXTENDS SequencesExt, Walks

CONSTANTS
  Fixed,      (* warmup_requests                                           *)
  WarmSteps,  (* steps of a fixed warmup; CaseSteps when it has no others  *)
  CaseSteps,  (* steps of a measured request                               *)
  WarmTime,   (* the latencies a fixed warmup may have                     *)
  CaseTime,   (* the latencies a request of the measured shape may have    *)
  ExtraMax,   (* WARMUP_EXTRA_MAX                                          *)
  Budget,     (* WARMUP_EXTRA_BUDGET_S                                     *)
  Converge,   (* WARMUP_CONVERGE_PCT                                       *)
  Repeats,    (* measured_repeats; 0 when single_e2e is not asked for      *)
  PerfDump,   (* does the framework have a perf dump (sglang)?             *)
  DumpMax,    (* PERF_DUMP_MAX_S                                           *)
  Serving,    (* requests of bench_serving, its warmups included; 0 when   *)
              (* throughput is not asked for                               *)
  MaxInputs   (* MAX_REQUEST_INPUTS: tags are 0..MaxInputs-1               *)

ASSUME RequestsAssumption ==
  /\ {Fixed, ExtraMax, Budget, Converge, Repeats, DumpMax, Serving} \subseteq Nat
  /\ {WarmSteps, CaseSteps, MaxInputs} \subseteq Nat \ {0}
  /\ WarmTime \subseteq Nat \ {0} /\ CaseTime \subseteq Nat \ {0}
  /\ PerfDump \in BOOLEAN

VARIABLES
  pc,     (* "warm", "extra", "single", "dump", "throughput" or "end"      *)
  next,   (* the counter: inputs                                           *)
  lats,   (* latencies of the fixed warmups that were answered             *)
  steady, (* those of the extra ones, when their shape is another          *)
  extra,  (* how many extra warmups were tried                             *)
  spent,  (* what they took                                                *)
  est,    (* what the next one is expected to take, times WarmSteps        *)
  sent    (* history: every request sent, with time 0 when it failed       *)

vars == <<pc, next, lats, steady, extra, spent, est, sent>>

Request == [tag : 0..(MaxInputs - 1), kind : {"warm", "extra", "single",
            "dump", "throughput"}, time : Nat]

TypeOK ==
  /\ pc \in {"warm", "extra", "single", "dump", "throughput", "end"}
  /\ next \in Nat
  /\ lats \in Seq(Nat) /\ steady \in Seq(Nat)
  /\ extra \in 0..ExtraMax
  /\ spent \in Nat
  /\ est \in Nat
  /\ sent \in Seq(Request)

SameShape == WarmSteps = CaseSteps

Init ==
  /\ pc = IF Fixed = 0 THEN "single" ELSE "warm"
  /\ next = 0
  /\ lats = <<>> /\ steady = <<>>
  /\ extra = 0
  /\ spent = 0
  /\ est = 0
  /\ sent = <<>>

-----------------------------------------------------------------------------
\* _request_case raises for a number that two digits do not hold.
InRange(n) == n < MaxInputs

\* The tag is the number's last two digits.
Tagged(n, kind, time) == [tag |-> n % MaxInputs, kind |-> kind, time |-> time]

\* A request with the next number is sent; it takes `time`, or fails.
Sends(kind, time) ==
  /\ next' = next + 1
  /\ InRange(next)
  /\ sent' = Append(sent, Tagged(next, kind, time))

\* Its number is out of range: nothing is sent.
Refused ==
  /\ next' = next + 1
  /\ ~InRange(next)
  /\ sent' = sent

\* The last two differ by at most WARMUP_CONVERGE_PCT of the smaller.
Agree(x, y) == 100 * (x - y) <= Converge * y /\ 100 * (y - x) <= Converge * x

\* Mutant of FullLats: the loop looks at the fixed warmups, whose shape is
\* not the measured one.
FixedLats == lats

\* The warmups that had the measured shape.
FullLats == IF SameShape THEN lats ELSE steady

Converged ==
  Len(FullLats) >= 2 /\ Agree(FullLats[Len(FullLats)], FullLats[Len(FullLats) - 1])

-----------------------------------------------------------------------------
(* _run_warmups.                                                           *)

\* The estimate that follows the last of the fixed warmups.
Estimate(xs) ==
  IF xs = <<>> THEN 0
  ELSE xs[Len(xs)] * (IF SameShape THEN WarmSteps ELSE CaseSteps)

\* Every fixed warmup takes a number, answered or not.
AfterWarm(xs) ==
  /\ lats' = xs
  /\ IF next' = Fixed
     THEN pc' = "extra" /\ est' = Estimate(xs)
     ELSE UNCHANGED <<pc, est>>
  /\ UNCHANGED <<steady, extra, spent>>

Warm ==
  /\ pc = "warm"
  /\ \E t \in (IF SameShape THEN CaseTime ELSE WarmTime) :
       Sends("warm", t) /\ AfterWarm(Append(lats, t))

WarmFails ==
  /\ pc = "warm"
  /\ Sends("warm", 0) \/ Refused
  /\ AfterWarm(lats)

Wanted ==
  /\ extra < ExtraMax
  /\ spent * WarmSteps + est <= Budget * WarmSteps
  /\ ~Converged

\* One more warmup, of the measured shape, and its time is the new estimate.
Extra ==
  /\ pc = "extra" /\ Wanted
  /\ \E t \in CaseTime :
       /\ Sends("extra", t)
       /\ IF SameShape
          THEN lats' = Append(lats, t) /\ UNCHANGED steady
          ELSE steady' = Append(steady, t) /\ UNCHANGED lats
       /\ spent' = spent + t
       /\ est' = t * WarmSteps
  /\ extra' = extra + 1
  /\ UNCHANGED pc

\* It fails, and the loop is left.
ExtraFails ==
  /\ pc = "extra" /\ Wanted
  /\ Sends("extra", 0) \/ Refused
  /\ extra' = extra + 1
  /\ pc' = "single"
  /\ UNCHANGED <<lats, steady, spent, est>>

Warmed ==
  /\ pc = "extra" /\ ~Wanted
  /\ pc' = "single"
  /\ UNCHANGED <<next, lats, steady, extra, spent, est, sent>>

-----------------------------------------------------------------------------
(* run_single_request and run_throughput.                                  *)

warmup == <<lats, steady, extra, spent, est>>

Of(kind) == Kept(sent, [tag : 0..(MaxInputs - 1), kind : {kind}, time : Nat])
Times(reqs) == [i \in DOMAIN reqs |-> reqs[i].time]

\* One of the measured repeats.
Measure ==
  /\ pc = "single" /\ Len(Of("single")) < Repeats
  /\ \E t \in CaseTime : Sends("single", t)
  /\ UNCHANGED <<pc, warmup>>

\* A repeat that fails, or has no number left, fails the cell.
MeasureFails ==
  /\ pc = "single" /\ Len(Of("single")) < Repeats
  /\ Sends("single", 0) \/ Refused
  /\ pc' = "end"
  /\ UNCHANGED warmup

\* All repeats are in.
Measured ==
  /\ pc = "single" /\ Len(Of("single")) = Repeats
  /\ pc' = IF PerfDump /\ Repeats > 0 THEN "dump" ELSE "throughput"
  /\ UNCHANGED <<next, warmup, sent>>

Median(xs) ==
  LET s == SortSeq(xs, <)
      n == Len(xs)
  IN  (s[(n + 1) \div 2] + s[n \div 2 + 1]) \div 2

\* The unmeasured request for the server's own breakdown, whose failure is only
\* noted.
Dump ==
  /\ pc = "dump"
  /\ Median(Times(Of("single"))) <= DumpMax
  /\ (\E t \in CaseTime \cup {0} : Sends("dump", t)) \/ Refused
  /\ pc' = "throughput"
  /\ UNCHANGED warmup

\* It is skipped where requests are expensive.
SkipDump ==
  /\ pc = "dump"
  /\ Median(Times(Of("single"))) > DumpMax
  /\ pc' = "throughput"
  /\ UNCHANGED <<next, warmup, sent>>

\* Mutant of Serve: bench_serving numbers its own requests.
ServeFromZero ==
  /\ pc = "throughput"
  /\ next' = next + Serving
  /\ \A n \in 0..(Serving - 1) : InRange(n)
  /\ sent' = sent \o [i \in 1..Serving |-> Tagged(i - 1, "throughput", 1)]
  /\ pc' = "end"
  /\ UNCHANGED warmup

\* bench_serving's requests are numbered before it is started.  There are none
\* when throughput is not asked for.
Serve ==
  /\ pc = "throughput"
  /\ next' = next + Serving
  /\ \A n \in next..(next + Serving - 1) : InRange(n)
  /\ sent' = sent \o [i \in 1..Serving |-> Tagged(next + i - 1, "throughput", 1)]
  /\ pc' = "end"
  /\ UNCHANGED warmup

\* One of them has no number, or (on the first) the framework's request is not
\* one that bench_serving can send: the row is an error, and nothing is sent.
ServeRefused ==
  /\ pc = "throughput"
  /\ \E n \in next..(next + Serving - 1) :
       /\ \A k \in next..(n - 1) : InRange(k)
       /\ ~InRange(n) \/ n = next
       /\ next' = n + 1
  /\ pc' = "end"
  /\ UNCHANGED <<warmup, sent>>

Next ==
  \/ Warm \/ WarmFails \/ Extra \/ ExtraFails \/ Warmed
  \/ Measure \/ MeasureFails \/ Measured \/ Dump \/ SkipDump
  \/ Serve \/ ServeRefused

Spec == Init /\ [][Next]_vars

-----------------------------------------------------------------------------
(* Properties.                                                             *)

\* No server is sent the same tag twice, whichever of its requests fail, and
\* however many there are: a repeat would be answered from a cache.
NoTagTwice ==
  \A i, j \in DOMAIN sent : sent[i].tag = sent[j].tag => i = j

\* A request that failed has no time.
OfAnswers(times) == Kept(times, Nat \ {0})

\* The measured window opens on a server that has settled at the shape it is
\* measured at, or that cost the extra warmups it may.  From the requests as
\* they were sent: the last two answers of that shape agree, all extra warmups
\* are used up, the last one failed, or another would not fit the budget.
SettledOrSpent ==
  (pc \in {"single", "dump", "throughput"} /\ Fixed > 0) =>
    LET tried == Times(Of("extra"))
        shape == OfAnswers((IF SameShape THEN Times(Of("warm")) ELSE <<>>) \o tried)
        n == Len(shape)
    IN  \/ n >= 2 /\ Agree(shape[n], shape[n - 1])
        \/ Len(tried) = ExtraMax
        \/ Len(tried) > 0 /\ tried[Len(tried)] = 0
        \/ next > MaxInputs
        \/ n > 0 /\ Total(tried) + shape[n] > Budget
        \/ n = 0 /\ est > Budget * WarmSteps

\* "Cost the full-shape request before charging for it, so a 690s video is not
\* silently billed one because `spent` starts at zero." The code does not keep
\* it: the estimate is zero when every fixed warmup failed, and too low when a
\* short request says little of a long one.
NotBilledOverBudget ==
  \A i \in DOMAIN sent : sent[i].kind = "extra" => sent[i].time <= Budget

=============================================================================
