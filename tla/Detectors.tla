------------------------------ MODULE Detectors ------------------------------
(***************************************************************************)
(* What a node makes of an agent's evidence: the mechanical kernel of      *)
(* diagnosis/detectors and the five detectors of detection/.  Evidence     *)
(* accumulates: transactions arrive in any order, days end with a success  *)
(* rate, agents of the cohort come to share links.  Rates and healths are  *)
(* in percent; distances that need a logarithm are inputs.                 *)
(***************************************************************************)
EXTENDS Integers, SequencesExt

CONSTANTS
  Transaction,          \* those that may arrive: [sig, at, ok, programs, flow, cost, peer]
  ActionOf,             \* _PROGRAM_ACTION_MAP: [program -> action]
  Profiles,             \* DOMAIN_PROFILES: [domain -> [action -> percent]]
  Kernel,               \* the kernel's thresholds
  Scanner,              \* the scan's thresholds
  Library,              \* PATTERN_LIBRARY: [pattern -> severity, 1 to 5]
  CutMargin(_, _),      \* ADWIN's bound for two sub-windows, percent of the range
  Deviation(_, _),      \* sqrt(p(1-p)/i) of a failure rate p on day i
  DdmDays,              \* DDM_MIN_N
  Rates,                \* success rates a day may have
  Cohort,               \* wallets of the cohort, numbered in sorting order
  FunderOf, DealtWith,  \* their funding source (0 unknown) and counterparties
  ClusterFrom,          \* MIN_CLUSTER_SIZE
  Observed, Days, Ties  \* BOUNDS: transactions, days, links

VARIABLES
  arrived,      \* the transactions in the order of their arrival
  days,         \* daily_success_rate_series, the oldest first
  links         \* direct links in the cohort, pairs of wallets

evidenceVars == <<arrived, days, links>>

Percent(part, all) == (100 * part) \div all
Clamp(x, low, high) == Max({low, Min({x, high})})
SumOf(s, f(_)) == FoldFunction(LAMBDA x, n : n + f(x), 0, s)

\* quantize_to_int and round: halves go to the even neighbour.
Rounded(n, d) ==
  LET q == n \div d
      r == 2 * (n % d)
  IN IF r > d \/ (r = d /\ q % 2 = 1) THEN q + 1 ELSE q

-----------------------------------------------------------------------------
(* diagnosis/detectors: the kernel over the window's transactions.         *)

\* Mutant: by time alone, ties as they arrived.
MutBefore(t, u) == t.at < u.at
Before(t, u) == t.at < u.at \/ (t.at = u.at /\ t.sig < u.sig)

Canonical(txs) == SortSeq(SelectSeq(txs, LAMBDA t : t.at \in Kernel.from..Kernel.to), Before)

Longer(s, t) == IF Len(s) > Len(t) THEN s ELSE t

\* tool_loop: the longest run of calls of one outer program, cut where it
\* exceeds the burst's span.
MutLoopRun(txs) ==
  LET Extend(s, t) ==
        CASE t.programs = <<>> -> [best |-> Longer(s.run, s.best), run |-> <<>>]
          [] s.run # <<>> /\ t.programs # <<>> /\ Head(t.programs) = Head(Head(s.run).programs)
               /\ t.at - Last(s.run).at <= Kernel.loopSpan -> [s EXCEPT !.run = Append(@, t)]
          [] OTHER -> [best |-> Longer(s.run, s.best), run |-> <<t>>]
      end == FoldLeft(Extend, [best |-> <<>>, run |-> <<>>], txs)
  IN Longer(end.run, end.best)
LoopRun(txs) ==
  LET Extend(s, t) ==
        CASE t.programs = <<>> -> [best |-> Longer(s.run, s.best), run |-> <<>>]
          [] s.run # <<>> /\ t.programs # <<>> /\ Head(t.programs) = Head(Head(s.run).programs)
               /\ t.at - Head(s.run).at <= Kernel.loopSpan -> [s EXCEPT !.run = Append(@, t)]
          [] OTHER -> [best |-> Longer(s.run, s.best), run |-> <<t>>]
      end == FoldLeft(Extend, [best |-> <<>>, run |-> <<>>], txs)
  IN Longer(end.run, end.best)

\* rapid_drain: the outflows of the worst window, which slides from outflow to
\* outflow.
Outflow(txs) == SumOf(txs, LAMBDA t : -t.flow)
DrainRun(txs) ==
  LET Slide(s, t) ==
        LET kept == SelectSeq(Append(s.run, t), LAMBDA u : t.at - u.at <= Kernel.drainSpan)
        IN [run |-> kept, best |-> IF Outflow(kept) > Outflow(s.best) THEN kept ELSE s.best]
  IN FoldLeft(Slide, [run |-> <<>>, best |-> <<>>], SelectSeq(txs, LAMBDA t : t.flow < 0)).best

\* timing_anomaly: twice the median gap of the fastest sample, and that sample.
TwiceMedian(gaps) ==
  LET s == SortSeq(gaps, <)
      n == Len(s)
  IN s[(n + 1) \div 2] + s[n \div 2 + 1]
Samples(txs) == {SubSeq(txs, i, i + Kernel.sample) : i \in 1..(Len(txs) - Kernel.sample)}
MedianGap(sample) == TwiceMedian([i \in 1..Kernel.sample |-> sample[i + 1].at - sample[i].at])
FastRun(txs) ==
  LET fastest == {s \in Samples(txs) : \A r \in Samples(txs) : MedianGap(s) <= MedianGap(r)}
      start(s) == CHOOSE i \in DOMAIN txs : txs[i] = s[1]
  IN IF fastest = {} THEN <<>> ELSE CHOOSE s \in fastest : \A r \in fastest : start(s) <= start(r)

\* cost_blowup: the dearest transactions of a window that cost too much.
CostOf(txs) == SumOf(txs, LAMBDA t : t.cost)
Dearest(txs) ==
  LET s == SortSeq(txs, LAMBDA t, u : t.cost > u.cost \/ (t.cost = u.cost /\ Before(t, u)))
  IN SubSeq(s, 1, Min({Kernel.top, Len(s)}))

\* counterparty_concentration: the dealings with the busiest counterparty, the
\* first by name if several are.
Dealings(txs, peer) == SelectSeq(txs, LAMBDA t : t.peer = peer)
BusyRun(txs) ==
  LET peers == {txs[i].peer : i \in DOMAIN txs} \ {0}
      busiest == {p \in peers : \A q \in peers : Len(Dealings(txs, p)) >= Len(Dealings(txs, q))}
  IN IF peers = {} THEN <<>> ELSE Dealings(txs, Min(busiest))

\* excessive_agency: what differs from the declared domain's dominant action.
Action == {"swap", "transfer", "other"}
PrimaryAction(t) ==
  LET known == SelectSeq(t.programs, LAMBDA p : ActionOf[p] # "other")
  IN IF known = <<>> THEN "other" ELSE ActionOf[Head(known)]
Distance(txs, profile) ==
  LET gap(a) == 100 * Len(SelectSeq(txs, LAMBDA t : PrimaryAction(t) = a)) - profile[a] * Len(txs)
  IN FoldSet(LAMBDA a, n : n + Max({gap(a), -gap(a)}), 0, Action)
Foreign(txs, profile) ==
  SelectSeq(txs, LAMBDA t : \E a \in Action : profile[PrimaryAction(t)] < profile[a])

Finding(id, label, evidence) == [id |-> id, label |-> label, evidence |-> {evidence[i].sig : i \in DOMAIN evidence}]

\* run_kernel; the findings' labels are or-ed into failure_mode_bitmask.
Findings(all, domain, allowed) ==
  LET txs == Canonical(all)
      failed == SelectSeq(txs, LAMBDA t : ~t.ok)
      typed == SelectSeq(txs, LAMBDA t : t.peer # 0)
      strayed == SelectSeq(txs, LAMBDA t : ToSet(t.programs) \ allowed # {})
  IN {f \in {Finding("tool_loop", "TOOL_LOOP", LoopRun(txs))} : Len(LoopRun(txs)) >= Kernel.loop}
     \cup {f \in {Finding("rapid_drain", "DATA_LEAKAGE", DrainRun(txs))} :
             Outflow(DrainRun(txs)) >= Kernel.drain}
     \cup {f \in {Finding("timing_anomaly", "LATENCY_DEGRADATION", FastRun(txs))} :
             FastRun(txs) # <<>> /\ MedianGap(FastRun(txs)) < 2 * Kernel.gap}
     \cup {f \in {Finding("cost_blowup", "COST_BLOWUP", Dearest(txs))} : CostOf(txs) >= Kernel.cost}
     \cup {f \in {Finding("arg_validation", "TOOL_MISUSE", failed)} :
             Len(failed) >= Kernel.failed /\ 100 * Len(failed) >= Kernel.failedShare * Len(txs)}
     \cup {f \in {Finding("unauthorized_program", "TOOL_MISUSE", strayed)} : allowed # {} /\ strayed # <<>>}
     \cup {f \in {Finding("counterparty_concentration", "IDENTITY_PRIVILEGE_ABUSE", BusyRun(txs))} :
             Len(typed) >= Kernel.typed /\ 100 * Len(BusyRun(txs)) >= Kernel.peerShare * Len(typed)}
     \cup {f \in {Finding("excessive_agency", "EXCESSIVE_AGENCY", Foreign(txs, Profiles[d])) : d \in {domain} \cap DOMAIN Profiles} :
             txs # <<>> /\ f.evidence # {} /\ Distance(txs, Profiles[domain]) >= Kernel.distance * Len(txs)}

FailureModes(findings) == {f.label : f \in findings}

-----------------------------------------------------------------------------
(* detection/security_scan: the attack patterns.  Transactions carry neither *)
(* memos nor logs, so only the declared text is searched, and the memo and   *)
(* authority patterns never apply.                                           *)

Signal(pattern, confidence) == [pattern |-> pattern, confidence |-> confidence]
Worth(t) == Max({t.flow, -t.flow})
Using(txs, p) == SelectSeq(txs, LAMBDA t : p \in ToSet(t.programs))
Programs(txs) == UNION {ToSet(txs[i].programs) : i \in DOMAIN txs}

\* Mutant: rarely seen so far, counting while passing over the window.
MutRarely(txs, p, i) == Len(Using(SubSeq(txs, 1, i), p)) <= Scanner.seen
Rarely(txs, p, i) == Len(Using(txs, p)) <= Scanner.seen

Structural(txs) ==
  LET off == SelectSeq(txs, LAMBDA t : ToSet(t.programs) \ Scanner.manifest # {})
      drains == SelectSeq(txs, LAMBDA t : t.cost >= Scanner.fee /\ Worth(t) <= Scanner.idle)
      dust == SelectSeq(txs, LAMBDA t : Worth(t) \in 1..Scanner.dust)
      inflow == SumOf(SelectSeq(txs, LAMBDA t : t.flow > 0), LAMBDA t : t.flow)
      outflow == Outflow(SelectSeq(txs, LAMBDA t : t.flow < 0))
  IN {s \in {Signal("off_manifest", Min({95, 50 + Percent(Len(off), Len(txs))}))} :
        Scanner.manifest # {} /\ Len(off) * 10 >= Len(txs)}
     \cup {s \in {Signal("denylisted", 98)} : Programs(txs) \cap Scanner.denied # {}}
     \cup {s \in {Signal("fee_drain", Min({90, 50 + 5 * Len(drains)}))} : Len(drains) >= Scanner.drains}
     \cup {s \in {Signal("dust_storm", Min({85, 50 + 2 * Len(dust)}))} : Len(dust) >= Scanner.storm}
     \cup {s \in {Signal("rapid_drain", Min({90, Percent(outflow, Max({inflow, 1}))}))} :
             inflow > 0 /\ 10 * outflow >= 9 * inflow /\ outflow >= Scanner.outflow}
     \cup {s \in {Signal("new_program", 60)} :
             \E i \in DOMAIN txs : Worth(txs[i]) >= Scanner.value /\ \E p \in ToSet(txs[i].programs) : Rarely(txs, p, i)}
     \cup {s \in {Signal("variety", 55)} : Cardinality(Programs(txs)) > Scanner.variety}

Scan(txs, text) ==
  {Signal(p, text[p]) : p \in DOMAIN text} \cup (IF txs = <<>> THEN {} ELSE Structural(txs))

AttackHealth(signals) ==
  100 - Max({0} \cup {Library[s.pattern] * s.confidence : s \in signals}) \div 5
Critical == 5
HasCritical(signals) == \E s \in signals : Library[s.pattern] = Critical

-----------------------------------------------------------------------------
(* detection/_sybil_graph.                                                  *)

LinkStrength(ties, a, b) ==
  LET shared == Cardinality(DealtWith[a] \cap DealtWith[b])
      overlap == IF shared = 0 THEN 0 ELSE Percent(shared, Cardinality(DealtWith[a] \cup DealtWith[b]))
  IN Max({0} \cup {s \in {90} : FunderOf[a] # 0 /\ FunderOf[a] = FunderOf[b]}
             \cup {s \in {overlap} : shared >= 3 /\ overlap >= 60}
             \cup {s \in {80} : ties \cap {<<a, b>>, <<b, a>>} # {}})

\* The pairs of sorted(wallets) with an edge, in the order they are joined.
Edges(ties) == {e \in Cohort \X Cohort : e[1] < e[2] /\ LinkStrength(ties, e[1], e[2]) >= 50}
EdgeOrder(ties) == SetToSortSeq(Edges(ties), LAMBDA e, f : e[1] < f[1] \/ (e[1] = f[1] /\ e[2] < f[2]))

Root(parent, w) ==
  LET up[x \in Cohort] == IF parent[x] = x THEN x ELSE up[parent[x]]
  IN up[w]
\* Mutant: hangs the wallet itself, not its root, below the other.
MutUnion(parent, e) == [parent EXCEPT ![e[2]] = Root(parent, e[1])]
Union(parent, e) ==
  LET ra == Root(parent, e[1])
      rb == Root(parent, e[2])
  IN [parent EXCEPT ![Max({ra, rb})] = Min({ra, rb})]

Forest(ties) == FoldLeft(Union, [w \in Cohort |-> w], EdgeOrder(ties))
Component(ties, w) ==
  LET forest == Forest(ties)
  IN {v \in Cohort : Root(forest, v) = Root(forest, w)}

\* SybilGraph.assess.
Assess(ties, w) ==
  LET mine == {e \in Edges(ties) : w \in {e[1], e[2]}}
      size == Cardinality(Component(ties, w))
      mean == FoldSet(LAMBDA e, n : n + LinkStrength(ties, e[1], e[2]), 0, mine) \div Max({1, Cardinality(mine)})
  IN IF w \notin Cohort THEN [cluster |-> FALSE, threat |-> 0]
     ELSE [cluster |-> size >= ClusterFrom,
           threat |-> IF size >= ClusterFrom THEN (Min({100, 20 * (size - 1)}) + mean) \div 2 ELSE 0]

-----------------------------------------------------------------------------
(* detection/_drift_math: change points of the daily success rate.          *)

\* cusum_two_sided, doubled: slack one deviation, threshold ten; the sums
\* restart at the first alarm only.  Mutant: a sum is never reset to zero.
MutClimb(sum, x) == sum + x
Climb(sum, x) == Max({0, sum + x})
Cusum(series, mean, sigma) ==
  LET sd == Max({1, sigma})
      Step(s, x) ==
        LET up == Climb(s.up, 2 * (x - mean) - sd)
            down == Climb(s.down, 2 * (mean - x) - sd)
            fires == ~s.fired /\ Max({up, down}) >= 10 * sd
        IN [up |-> IF fires THEN 0 ELSE up, down |-> IF fires THEN 0 ELSE down,
            top |-> Max({s.top, up, down}), fired |-> s.fired \/ fires]
      end == FoldLeft(Step, [up |-> 0, down |-> 0, top |-> 0, fired |-> FALSE], series)
  IN [fired |-> end.fired, health |-> Clamp(100 - (10 * end.top) \div sd, 0, 100)]

\* adwin_detect: the first split whose sides differ by more than the bound.
SplitDiffers(w, j, range) ==
  LET n0 == j
      n1 == Len(w) - j
      gap == n1 * SumOf(SubSeq(w, 1, j), LAMBDA x : x) - n0 * SumOf(SubSeq(w, j + 1, Len(w)), LAMBDA x : x)
  IN 100 * Max({gap, -gap}) > CutMargin(n0, n1) * range * n0 * n1
Splits(w, range) == {j \in 1..(Len(w) - 1) : SplitDiffers(w, j, range)}

\* Mutant: one cut a day at most.
MutShrunk(w, range) == IF Splits(w, range) = {} THEN w ELSE SubSeq(w, Min(Splits(w, range)) + 1, Len(w))
Shrunk(w, range) ==
  LET tail[from \in 1..Len(w)] ==
        LET rest == SubSeq(w, from, Len(w))
        IN IF Splits(rest, range) = {} THEN rest ELSE tail[from + Min(Splits(rest, range))]
  IN tail[1]
Adwin(series) ==
  LET range == Max(ToSet(series)) - Min(ToSet(series))
      Step(w, x) == Shrunk(Append(w, x), range)
  IN FoldLeft(Step, <<>>, series)

\* ddm_detect on the failure rates: how far the last day is above the warning
\* level, in units of the least deviation.
DdmHealth(series) ==
  LET p(i) == 100 - series[i]
      s(i) == Deviation(p(i), i)
      level(i) == p(i) + s(i)
      best == CHOOSE i \in DOMAIN series :
                (\A j \in DOMAIN series : level(i) <= level(j)) /\ \A j \in 1..(i - 1) : level(i) < level(j)
      excess == Max({0, level(Len(series)) - (p(best) + 2 * s(best))})
  IN IF Len(series) < DdmDays \/ s(best) = 0 THEN 100
     ELSE Clamp(100 - (100 * excess) \div s(best), 0, 100)

-----------------------------------------------------------------------------
(* The detectors' results: points of two hundred and the universal flags.   *)

\* magnitude_to_health, divergence_to_health, fading_health.
Health(magnitude, saturation) == Clamp(100 - (100 * magnitude) \div saturation, 0, 100)

Weighted(parts) == Rounded(SumOf(parts, LAMBDA p : p[1] * p[2]), 100)
Result(points, flags) == [works |-> TRUE, points |-> points, flags |-> flags]
Provisional(e) == {f \in {"DEGRADED_BASELINE"} : e.provisional}

Drift(e) ==
  LET series == e.days
      thin == Len(series) < 2
      outlying == IF e.active >= 5 THEN Percent(e.outliers, e.active) ELSE 0
  IN Result(Weighted(<< <<Clamp(100 - 4 * e.psi, 0, 100), 40>>, <<100 - outlying, 40>>,
                        <<IF thin THEN 100 ELSE Cusum(series, e.mean, e.sigma).health, 40>>,
                        <<IF thin THEN 100 ELSE Percent(Len(Adwin(series)), Len(series)), 40>>,
                        <<IF series = <<>> THEN 100 ELSE DdmHealth(series), 40>> >>),
            Provisional(e) \cup {f \in {"DEGRADED_BASELINE"} : thin \/ e.active < 5})

\* Each method is a magnitude with its saturation; the isolation forest's score
\* is healthy up to one half.
Anomaly(e) ==
  LET healths == [m \in 1..5 |-> Health(e.magnitudes[m], <<9, 40, 8, 6, 40>>[m])]
      forest == Clamp(100 - 2 * (e.isolation - 50), 0, 100)
      worst == Min({forest} \cup ToSet(healths))
  IN Result(Weighted([m \in 1..6 |-> IF m = 6 THEN <<forest, 33>> ELSE <<healths[m], <<34, 33, 33, 34, 33>>[m]>>]),
            Provisional(e) \cup {f \in {"IMMEDIATE_RED"} : worst < 5})

\* profit_quality: luck or skill, by the market's direction and strength.
ProfitQuality(claimed, market, exposure) ==
  LET strength == Min({100, 10 * Max({market, -market})})
  IN IF market * exposure * claimed = 0 THEN 50
     ELSE IF (claimed > 0) = (market * exposure > 0) THEN 50 + strength \div 2 ELSE 50 - strength \div 2

Performance(e) ==
  Result(Weighted(<< <<ProfitQuality(e.claimed, e.market, e.exposure), 90>>,
                     <<Clamp(100 + (100 * e.returnZ) \div 6, 0, 100), 60>>,
                     <<IF Len(e.days) < 2 THEN 100 ELSE Health(e.fading, 30), 50>> >>),
         Provisional(e) \cup {f \in {"DEGRADED_BASELINE"} : Len(e.days) < 2})

\* A domain without a profile is in keeping with everything.
Consistency(e) ==
  Result(Weighted(<< <<IF e.domain \in DOMAIN Profiles THEN Health(e.strayed, 60) ELSE 100, 70>>,
                     <<Health(e.tooling, 60), 50>>, <<Health(e.rhythm, 5), 45>>,
                     <<100 - (e.repeats * Min({100, 2 * e.volatility})) \div 100, 35>> >>),
         Provisional(e))

\* check_integrity: a changed hash, or behaviour that left under the same one.
Mismatch(e) == e.declared # 0 /\ e.recorded # 0 /\ e.declared # e.recorded
Integrity(e) ==
  CASE Mismatch(e) -> 0
    [] e.declared # 0 /\ e.declared = e.recorded /\ e.shifted >= 35 -> 100 - e.shifted
    [] OTHER -> 100

\* Out of a hundred and fifty points; a critical pattern, a changed code hash
\* and a cluster take the fast path.
Security(e) ==
  LET signals == Scan(e.txs, e.text)
      kin == Assess(e.ties, e.wallet)
      points == Weighted(<< <<AttackHealth(signals), 60>>, <<Integrity(e), 40>>,
                            <<100 - (e.leaving * e.churn) \div 100, 25>>, <<100 - kin.threat, 25>> >>)
  IN Result(Rounded(points * 200, 150),
            Provisional(e) \cup {f \in {"IMMEDIATE_RED"} : HasCritical(signals) \/ Mismatch(e) \/ kin.cluster})

\* Every detector refuses a baseline of another engine.
ReadingOf(e) ==
  [d \in {"drift", "anomaly", "performance", "consistency", "security"} |->
     IF ~e.compatible THEN [works |-> FALSE]
     ELSE CASE d = "drift" -> Drift(e) [] d = "anomaly" -> Anomaly(e) [] d = "performance" -> Performance(e)
            [] d = "consistency" -> Consistency(e) [] d = "security" -> Security(e)]

-----------------------------------------------------------------------------
(* How evidence accumulates.                                                *)

EvidenceInit == arrived = <<>> /\ days = <<>> /\ links = {}

\* The indexer stores a transaction, not always in the order of the chain.
Arrives(t) ==
  /\ t \notin ToSet(arrived) /\ Len(arrived) < Observed
  /\ arrived' = Append(arrived, t)
  /\ UNCHANGED <<days, links>>

\* A day with transactions ends.
DayEnds(rate) ==
  /\ Len(days) < Days
  /\ days' = Append(days, rate)
  /\ UNCHANGED <<arrived, links>>

Deal(a, b) ==
  /\ a # b /\ Cardinality(links) < Ties
  /\ links' = links \cup {<<a, b>>}
  /\ UNCHANGED <<arrived, days>>

EvidenceNext ==
  \/ \E t \in Transaction : Arrives(t)
  \/ \E rate \in Rates : DayEnds(rate)
  \/ \E a, b \in Cohort : Deal(a, b)

-----------------------------------------------------------------------------
(* Properties.                                                              *)

\* Same inputs, same verdict: what the kernel labels and the scan signals
\* does not depend on the order in which a node came by the transactions
\* (kernel.py, security_scan.py).
OrderIsImmaterial ==
  LET sorted == SortSeq(arrived, LAMBDA t, u : t.sig < u.sig)
  IN /\ Findings(arrived, "trading", {1}) = Findings(sorted, "trading", {1})
     /\ Scan(arrived, <<>>) = Scan(sorted, <<>>)

\* A drain is found exactly when some span of drainSpan seconds lost the
\* threshold (rapid_drain.py); what is called a loop or a burst is one, and
\* the transactions named in evidence are enough to find it again.
BurstsAreReal ==
  LET lost(from) == Outflow(SelectSeq(Canonical(arrived), LAMBDA t : t.flow < 0 /\ t.at \in from..(from + Kernel.drainSpan)))
      found == Findings(arrived, "trading", {})
      only(f) == SelectSeq(arrived, LAMBDA t : t.sig \in f.evidence)
  IN /\ "DATA_LEAKAGE" \in FailureModes(found) <=> \E from \in Kernel.from..Kernel.to : lost(from) >= Kernel.drain
     /\ \A f \in found :
          f.id \in {"tool_loop", "rapid_drain", "timing_anomaly"} =>
            /\ f \in Findings(only(f), "trading", {})
            /\ f.id = "tool_loop" => \A t, u \in ToSet(only(f)) :
                 t.at - u.at <= Kernel.loopSpan /\ Head(t.programs) = Head(u.programs)

\* The components are those of the graph, whatever the order of joining: two
\* wallets share one unless some set of wallets separates them without cutting
\* an edge; so all members of a cluster take its consequences, or none.
ClustersAreComponents ==
  \A v, w \in Cohort :
    (v \in Component(links, w)) <=>
      \A S \in SUBSET Cohort : (v \in S /\ w \notin S) => \E e \in Edges(links) : (e[1] \in S) # (e[2] \in S)

\* The cumulative sums alarm exactly if some run of days is off the mean by
\* the threshold beyond its slack, up or down; and the window ADWIN keeps is a
\* tail of the series with nothing left to cut (_drift_math.py).
ShiftsAreFound(means, sigmas) ==
  /\ \A mean \in means, sigma \in sigmas :
       LET off(i, j, sign) == SumOf(SubSeq(days, i, j), LAMBDA x : 2 * sign * (x - mean) - sigma)
       IN Cusum(days, mean, sigma).fired <=>
            \E i, j \in DOMAIN days : i <= j /\ \E sign \in {-1, 1} : off(i, j, sign) >= 10 * sigma
  /\ days # <<>> =>
       /\ IsSuffix(Adwin(days), days)
       /\ Splits(Adwin(days), Max(ToSet(days)) - Min(ToSet(days))) = {}
=============================================================================
