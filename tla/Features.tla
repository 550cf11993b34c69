------------------------------ MODULE Features ------------------------------
(***************************************************************************)
(* From stored transactions to features and baselines (features/extractor, *)
(* features/_stats, baseline/engine, baseline/repository, db).  One table   *)
(* holds every agent's rows; a backfill copies the agents' old rows into   *)
(* it while the indexer stores others; jobs compute an agent's baseline    *)
(* from its rows when they read them and save it later, in any order.      *)
(* Fractions are in percent.  Features that need a                         *)
(* logarithm or a root, those of priority fees and compute units, and      *)
(* those that repeat another are left out.                                 *)
(***************************************************************************)
EXTENDS Detectors

CONSTANTS
  Scale,        \* [day, recent, month, night, business, weekend, rapid, idle]
  MinDays, MinCount,    \* MIN_DAYS_WITH_ACTIVITY, MIN_TRANSACTION_COUNT
  Ends,         \* window ends jobs run with
  WindowLength,
  Jobs,         \* BOUND: baselines computed
  Rated,        \* the agent whose baselines are followed
  LiveRows,     \* rows the indexer may store: [agent, tx]
  OldTable      \* BackfillSource: its rows, agent by agent

\* A signature names one transaction of one time, which may be of several
\* agents and changes each one's balance by another amount.
StoreAssumption ==
  /\ OldTable \in Seq(ToSet(OldTable))
  /\ \A r, s \in LiveRows \cup ToSet(OldTable) : r.tx.sig = s.tx.sig =>
       r.tx.at = s.tx.at /\ (r.agent = s.agent => r = s)
ASSUME StoreAssumption

VARIABLES
  table,        \* agent_transactions: rows in the order they were inserted
  pending,      \* baselines computed and not yet saved
  history,      \* agent_baseline_history
  latest,       \* agent_baselines: {} or the one row
  backfill      \* run_backfill: [step, next, before, written, added]

savedVars == <<pending, history, latest>>
baselineVars == <<table, pending, history, latest, backfill>>

-----------------------------------------------------------------------------
(* features/_stats.                                                        *)

Fraction(n, d) == IF d = 0 THEN 0 ELSE Clamp((100 * n) \div d, 0, 100)
Ratio(n, d) == IF d = 0 THEN 0 ELSE n \div d
Mean(s) == Ratio(SumOf(s, LAMBDA x : x), Len(s))
Highest(s) == Max({0} \cup ToSet(s))
Lowest(s) == IF s = <<>> THEN 0 ELSE Min(ToSet(s))
Median(s) == IF s = <<>> THEN 0 ELSE TwiceMedian(s) \div 2
Deviations(s) == [i \in DOMAIN s |-> Max({s[i] - Median(s), Median(s) - s[i]})]
\* In tenths of a rank, interpolated.
Percentile(s, tenths) ==
  IF s = <<>> THEN 0
  ELSE LET sorted == SortSeq(s, <)
           rank == tenths * (Len(s) - 1)
           low == rank \div 10
           high == Min({low + 2, Len(s)})
       IN (sorted[low + 1] * (10 - (rank % 10)) + sorted[high] * (rank % 10)) \div 10
Slope(s) ==
  LET n == Len(s)
      cross == SumOf([i \in 1..n |-> (2 * i - n - 1) * (n * s[i] - SumOf(s, LAMBDA x : x))], LAMBDA x : x)
      square == SumOf([i \in 1..n |-> (2 * i - n - 1) * (2 * i - n - 1)], LAMBDA x : x)
  IN IF n < 2 THEN 0 ELSE (2 * cross) \div (n * square)

Times(s, v) == Len(SelectSeq(s, LAMBDA x : x = v))
TopOf(s, k) ==
  LET counts == SortSeq([i \in 1..Cardinality(ToSet(s)) |-> Times(s, SetToSeq(ToSet(s))[i])], >)
  IN Fraction(SumOf(SubSeq(counts, 1, Min({k, Len(counts)})), LAMBDA x : x), Len(s))
Herfindahl(s) == FoldSet(LAMBDA v, n : n + Times(s, v) * Times(s, v) * 100, 0, ToSet(s)) \div Max({1, Len(s) * Len(s)})

-----------------------------------------------------------------------------
(* features/extractor over the transactions of a window.                   *)

Sooner(t, u) ==
  \/ t.at < u.at
  \/ t.at = u.at /\ t.slot < u.slot
  \/ t.at = u.at /\ t.slot = u.slot /\ t.sig < u.sig
InWindow(all, from, to) == SortSeq(SelectSeq(all, LAMBDA t : t.at \in from..to), Sooner)
DayOf(t) == t.at \div Scale.day
HourOf(t) == t.at % Scale.day
ActiveDays(txs) == {DayOf(txs[i]) : i \in DOMAIN txs}
OfDay(txs, d) == SelectSeq(txs, LAMBDA t : DayOf(t) = d)
RateOf(txs) == Fraction(Len(SelectSeq(txs, LAMBDA t : t.ok)), Len(txs))
DayList(txs) == SetToSortSeq(ActiveDays(txs), <)
DailyRates(txs) == [i \in DOMAIN DayList(txs) |-> RateOf(OfDay(txs, DayList(txs)[i]))]

\* Mutant: a success does not end a streak.
MutStreaks(txs) ==
  FoldLeft(LAMBDA s, t : IF t.ok THEN s ELSE [now |-> s.now + 1, top |-> Max({s.top, s.now + 1})],
           [now |-> 0, top |-> 0], txs)
Streaks(txs) ==
  FoldLeft(LAMBDA s, t : IF t.ok THEN [s EXCEPT !.now = 0] ELSE [now |-> s.now + 1, top |-> Max({s.top, s.now + 1})],
           [now |-> 0, top |-> 0], txs)

Success(txs, end) ==
  LET last(n) == SelectSeq(txs, LAMBDA t : t.at >= end - n * Scale.day)
      rates == DailyRates(txs)
      successes(s) == Len(SelectSeq(s, LAMBDA t : t.ok))
  IN <<RateOf(last(1)), RateOf(last(Scale.recent)), RateOf(txs),
       successes(last(1)), successes(last(Scale.recent)), successes(txs),
       Slope(SubSeq(rates, Max({1, Len(rates) - Scale.recent + 1}), Len(rates))), Slope(rates),
       Streaks(txs).top, Streaks(txs).now>>

Counterparty(txs, end) ==
  LET with == SelectSeq(txs, LAMBDA t : t.peer # 0)
      who == [i \in DOMAIN with |-> with[i].peer]
      before == {t.peer : t \in {u \in ToSet(with) : u.at < end - Scale.recent * Scale.day}}
      volume(p) == SumOf(Dealings(with, p), Worth)
      repeats == FoldLeft(LAMBDA s, p : [seen |-> s.seen \cup {p}, n |-> IF p \in s.seen THEN s.n + 1 ELSE s.n],
                          [seen |-> {}, n |-> 0], who).n
  IN <<Cardinality(ToSet(who)), Fraction(Cardinality(ToSet(who)), Len(with)), TopOf(who, 1), TopOf(who, 3), TopOf(who, 5), Herfindahl(who),
       Fraction(repeats, Len(with)), Fraction(Cardinality(ToSet(who) \ before), Len(with)), Fraction(Len(with), Len(txs)),
       Fraction(Max({0} \cup {volume(p) : p \in ToSet(who)}), SumOf(with, Worth))>>

Fees(txs) ==
  LET fees == [i \in DOMAIN txs |-> txs[i].cost]
  IN <<Mean(fees), Median(fees), Percentile(fees, 9), Highest(fees), Lowest(fees)>>

Rhythm(txs, length) ==
  LET hours == [i \in DOMAIN txs |-> HourOf(txs[i])]
      weekdays == [i \in DOMAIN txs |-> DayOf(txs[i]) % 7]
      n == Len(txs)
      busy == {h \in ToSet(hours) : Times(hours, h) * Cardinality(ToSet(hours)) > 2 * n}
      peak == {h \in ToSet(hours) : \A g \in ToSet(hours) : Times(hours, g) <= Times(hours, h)}
      within(s, set) == Fraction(Len(SelectSeq(s, LAMBDA x : x \in set)), n)
  IN <<TopOf(hours, 1), Min(peak), TopOf(weekdays, 1), within(weekdays, Scale.weekend), within(hours, Scale.business),
       within(hours, Scale.night), Cardinality(ToSet(hours)), Cardinality(ActiveDays(txs)),
       Fraction(Cardinality(ActiveDays(txs)), Max({1, length})), within(hours, busy)>>

Timing(txs) ==
  LET gaps == [i \in 1..(Len(txs) - 1) |-> txs[i + 1].at - txs[i].at]
      share(P(_)) == Fraction(Len(SelectSeq(gaps, P)), Len(gaps))
  IN IF Len(txs) < 2 THEN <<0, 0, 0, 0, 0, 0, Len(txs)>>
     ELSE <<Mean(gaps), Median(gaps), Lowest(gaps), Highest(gaps), share(LAMBDA g : g < Scale.rapid),
            share(LAMBDA g : g > Scale.idle), Ratio(Len(txs), Cardinality(ActiveDays(txs)))>>

Flow(txs) ==
  LET changes == [i \in DOMAIN txs |-> txs[i].flow]
      inflows == SelectSeq(changes, LAMBDA c : c > 0)
      outflows == SelectSeq(changes, LAMBDA c : c < 0)
      sizes == [i \in DOMAIN txs |-> Worth(txs[i])]
      sum(s) == SumOf(s, LAMBDA x : x)
  IN <<sum(inflows), -sum(outflows), sum(changes), Ratio(100 * sum(inflows), 1 - sum(outflows)), Mean(changes),
       Median(Deviations(changes)), Ratio(100 * Median(Deviations(changes)), Mean(sizes)), Highest(inflows), -Lowest(outflows), Fraction(Len(inflows), Len(txs)),
       Fraction(Times(changes, 0), Len(txs))>>

LongestRun(actions) ==
  FoldLeft(LAMBDA s, a : LET n == IF s.of = a THEN s.n + 1 ELSE 1 IN [of |-> a, n |-> n, top |-> Max({s.top, n})],
           [of |-> "none", n |-> 0, top |-> 0], actions).top

SequenceOf(txs) ==
  LET actions == [i \in DOMAIN txs |-> PrimaryAction(txs[i])]
      grams(k) == [i \in 1..(Len(txs) - k + 1) |-> SubSeq(actions, i, i + k - 1)]
      programs == [i \in DOMAIN txs |-> Len(txs[i].programs)]
  IN <<Cardinality(ToSet(grams(2))), Cardinality(ToSet(grams(3))), TopOf(grams(2), 1), TopOf(grams(3), 1),
       Fraction(Len(SelectSeq(grams(2), LAMBDA g : g[1] = g[2])), Len(grams(2))), TopOf(actions, 1), Mean(programs),
       Highest(programs), Fraction(Len(SelectSeq(programs, LAMBDA c : c > 1)), Len(txs)), LongestRun(actions)>>

ProgramUse(txs, end) ==
  LET used == FoldLeft(LAMBDA s, t : s \o t.programs, <<>>, txs)
      before == Programs(SelectSeq(txs, LAMBDA t : t.at < end - Scale.recent * Scale.day))
      known == SelectSeq(used, LAMBDA p : ActionOf[p] # "other")
  IN <<Cardinality(ToSet(used)), Fraction(Cardinality(ToSet(used)), Len(used)), TopOf(used, 1), TopOf(used, 3),
       Herfindahl(used), Fraction(Len(known), Len(used)), Ratio(Len(used), Len(txs)),
       Fraction(Cardinality(Programs(txs) \ before), Cardinality(Programs(txs)))>>

ActionShares(txs) ==
  LET actions == [i \in DOMAIN txs |-> PrimaryAction(txs[i])]
  IN <<Fraction(Times(actions, "swap"), Len(txs)), Fraction(Times(actions, "transfer"), Len(txs)),
       Fraction(Times(actions, "other"), Len(txs))>>

\* extract: of an empty window all features are zero.
Zeros == [i \in 1..74 |-> 0]
Extract(all, from, to) ==
  LET txs == InWindow(all, from, to)
  IN IF txs = <<>> THEN Zeros
     ELSE ActionShares(txs) \o Success(txs, to) \o Counterparty(txs, to) \o Fees(txs) \o Rhythm(txs, (to - from) \div Scale.day)
          \o Timing(txs) \o Flow(txs) \o SequenceOf(txs) \o ProgramUse(txs, to)
-----------------------------------------------------------------------------
(* baseline/engine.                                                        *)

\* _daily_feature_vectors: every active day is its own window.
\* Mutant: a day runs to the next one's first instant.
MutDailyVectors(txs) ==
  [i \in DOMAIN DayList(txs) |-> Extract(txs, DayList(txs)[i] * Scale.day, (DayList(txs)[i] + 1) * Scale.day)]
DailyVectors(txs) ==
  [i \in DOMAIN DayList(txs) |-> Extract(txs, DayList(txs)[i] * Scale.day, (DayList(txs)[i] + 1) * Scale.day - 1)]
MeansOf(vectors) == [f \in DOMAIN Zeros |-> Mean([d \in DOMAIN vectors |-> vectors[d][f]])]

\* compute_baseline; what the hash covers and what it leaves out.
Hashed(txs) ==
  [means |-> MeansOf(DailyVectors(txs)), types |-> ActionShares(txs), rate |-> RateOf(txs), series |-> DailyRates(txs)]
Stats(txs, end) ==
  [hash |-> Hashed(txs), end |-> end, count |-> Len(txs),
   provisional |-> Cardinality(ActiveDays(txs)) < MinDays \/ Len(txs) < MinCount]
Computed(all, end) == Stats(InWindow(all, end - WindowLength, end), end)

-----------------------------------------------------------------------------
(* db: what is stored, and the copy of the old table.                      *)

\* ON CONFLICT (signature, block_time): whichever agent the row is of.
\* Mutant: the rows are keyed by their time alone.
MutStored(t) == \E i \in DOMAIN table : table[i].tx.at = t.at
Stored(t) == \E i \in DOMAIN table : table[i].tx.sig = t.sig /\ table[i].tx.at = t.at

RowsOf(agent) ==
  LET rows == SelectSeq(table, LAMBDA r : r.agent = agent) IN [i \in DOMAIN rows |-> rows[i].tx]

\* fetch_transactions reads [start, end), where the extractor's window holds
\* its end.
Fetched(agent, from, to) ==
  SortSeq(SelectSeq(RowsOf(agent), LAMBDA t : t.at \in from..(to - 1)),
          LAMBDA t, u : t.at < u.at \/ (t.at = u.at /\ t.sig < u.sig))

\* The indexer stores a row; one that is stored already changes nothing.
Insert(row) ==
  /\ ~ Stored(row.tx) /\ Len(table) < Observed
  /\ table' = Append(table, row)
  /\ UNCHANGED <<savedVars, backfill>>

RowCount(agent) == Cardinality({i \in DOMAIN table : table[i].agent = agent})

\* run_backfill, agent by agent and row by row: count the agent's rows, insert
\* if not there, count again.
BackfillNext ==
  /\ backfill.next <= Len(OldTable)
  /\ LET row == OldTable[backfill.next]
     IN CASE backfill.step = "count" ->
               backfill' = [backfill EXCEPT !.step = "insert", !.before = RowCount(row.agent)] /\ UNCHANGED table
          [] backfill.step = "insert" ->
               /\ table' = IF Stored(row.tx) THEN table ELSE Append(table, row)
               /\ backfill' = [backfill EXCEPT !.step = "recount", !.added = IF Stored(row.tx) THEN @ ELSE @ + 1]
          [] backfill.step = "recount" ->
               /\ backfill' = [backfill EXCEPT !.step = "count", !.next = @ + 1,
                                               !.written = IF RowCount(row.agent) > backfill.before THEN @ + 1 ELSE @]
               /\ UNCHANGED table
  /\ UNCHANGED savedVars

-----------------------------------------------------------------------------
(* baseline/repository.                                                    *)

BaselineInit ==
  /\ table = <<>> /\ pending = {} /\ history = {} /\ latest = {}
  /\ backfill = [step |-> "count", next |-> 1, before |-> 0, written |-> 0, added |-> 0]

\* compute_baseline_from_repository: refused without transactions.
Compute(end) ==
  LET txs == Fetched(Rated, end - WindowLength, end)
  IN /\ txs # <<>>
     /\ Cardinality(pending) + Cardinality(history) < Jobs
     /\ pending' = pending \cup {Computed(txs, end)}
     /\ UNCHANGED <<table, history, latest, backfill>>

\* save_baseline: one transaction; the history ignores a row of the same hash
\* and window end, the latest row is replaced by whatever is saved.
\* Mutant: the history is keyed by the hash alone.
MutKept(b) == \E h \in history : h.hash = b.hash
Kept(b) == \E h \in history : h.hash = b.hash /\ h.end = b.end
Save(b) ==
  /\ pending' = pending \ {b}
  /\ history' = IF Kept(b) THEN history ELSE history \cup {b}
  /\ latest' = {b} /\ UNCHANGED <<table, backfill>>

StoreNext == (\E row \in LiveRows : Insert(row)) \/ BackfillNext

BaselineNext == (\E end \in Ends : Compute(end)) \/ (\E b \in pending : Save(b))

-----------------------------------------------------------------------------
(* Properties.                                                             *)

\* A baseline is a function of the set of stored transactions; each of them
\* counts in exactly one day, and one that comes late changes no day but its
\* own, so that two nodes differ by what they miss and no more (engine.py).
DaysAreDisjoint ==
  LET rows == RowsOf(Rated)
      sorted == SortSeq(rows, LAMBDA t, u : t.sig < u.sig)
      vectors == DailyVectors(rows)
  IN /\ \A end \in Ends : Computed(rows, end) = Computed(sorted, end)
     /\ \A t \in Transaction \ ToSet(rows) :
          LET more == Append(rows, t)
              after == DailyVectors(more)
          IN \A i \in DOMAIN vectors, j \in DOMAIN after :
               DayList(more)[j] = DayList(rows)[i] /\ DayList(more)[j] # DayOf(t) => after[j] = vectors[i]

\* The streak reported is one that happened, none is longer, and the current
\* one reaches the window's end (extractor.py).
StreaksAreReal ==
  LET txs == InWindow(RowsOf(Rated), 0, Max(Ends))
      failed(i, j) == \A k \in i..j : ~txs[k].ok
      lengths == {0} \cup {r[2] - r[1] + 1 : r \in {q \in (DOMAIN txs) \X (DOMAIN txs) : q[1] <= q[2] /\ failed(q[1], q[2])}}
  IN /\ Streaks(txs).top = Max(lengths)
     /\ failed(Len(txs) - Streaks(txs).now + 1, Len(txs))

\* The statistics the scoring engine reads were recorded for their window,
\* whichever job saved last (repository.py).  The row kept may be an earlier
\* one: the hash leaves the counts out, and "provisional" with them.
BaselinesAreOnRecord ==
  \A b \in latest : \E h \in history : h.hash = b.hash /\ h.end = b.end

Accounted(row) ==
  \/ row \in ToSet(table)
  \/ \E j \in DOMAIN table : table[j].tx.sig = row.tx.sig /\ table[j].agent # row.agent

\* However many rows are stored meanwhile: nothing is stored twice, every old
\* row the copy passed is there for its agent or kept out by another agent's
\* row of the same transaction, which is all that stands in its way, and no row
\* it added is reported as skipped.  What is skipped need not be "already
\* present" for its agent (backfill_transactions.py).
BackfillIsComplete ==
  /\ \A i, j \in DOMAIN table : table[i].tx.sig = table[j].tx.sig => i = j
  /\ \A i \in 1..(backfill.next - 1) : Accounted(OldTable[i])
  /\ backfill.step = "count" => backfill.written >= backfill.added

\* The scoring engine reads recorded baselines only, and a backfill beside the
\* indexer loses no row but to another agent's of the same transaction, in
\* whatever order jobs save and rows are stored (repository.py,
\* backfill_transactions.py).
BaselinesAreSound == BaselinesAreOnRecord /\ BackfillIsComplete
=============================================================================
