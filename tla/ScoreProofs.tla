----------------------------- MODULE ScoreProofs -----------------------------
(***************************************************************************)
(* Proofs about a score on its way to a consumer: what a scoring epoch     *)
(* publishes and decides (ScoreEpoch), how far a score may climb under the *)
(* guards (ScoreDefences), and what a backfill leaves (Features).          *)
(***************************************************************************)
EXTENDS ScoreEpoch, ScoreDefences, Features, FiniteSetTheorems, SequenceTheorems,
        WellFoundedInduction, TLAPS

-----------------------------------------------------------------------------
(* Extremes of sets of naturals.                                           *)

LEMMA MaxOfBounded ==
  ASSUME NEW S \in SUBSET Nat, S # {}, NEW n \in Nat, \A s \in S : s <= n
  PROVE  Max(S) \in S /\ \A s \in S : s <= Max(S)
<1> DEFINE From(x) == x..n
           T == {From(x) : x \in S}
<1>1. T \subseteq FiniteSubsetsOf(Nat)
  <2>1. \A x \in Nat : x..n \in SUBSET Nat /\ IsFiniteSet(x..n)
    BY FS_Interval
  <2> QED
    BY <2>1 DEF FiniteSubsetsOf
<1>2. PICK t \in T : \A u \in T : <<u, t>> \notin StrictSubsetOrdering(Nat)
  <2>1. T # {}
    OBVIOUS
  <2> HIDE DEF T
  <2> QED
    BY <1>1, <2>1, WFMin, FS_StrictSubsetOrderingWellFounded
<1>3. PICK x \in S : t = From(x)
  BY <1>2
<1>4. ASSUME NEW y \in S
      PROVE  x >= y
  <2> SUFFICES ASSUME y > x
               PROVE  FALSE
    OBVIOUS
  <2>1. x \in Nat /\ y \in Nat /\ x <= n
    OBVIOUS
  <2>2. From(y) \subseteq From(x) /\ x \in From(x) /\ x \notin From(y)
    BY <2>1
  <2>3. From(y) \in SUBSET Nat /\ From(x) \in SUBSET Nat
    BY <2>1
  <2>4. <<From(y), From(x)>> \in StrictSubsetOrdering(Nat)
    BY <2>2, <2>3 DEF StrictSubsetOrdering
  <2> QED
    BY <1>2, <1>3, <2>4
<1>5. Max(S) \in S /\ \A y \in S : Max(S) >= y
  BY <1>4 DEF Max
<1> QED
  BY <1>5

LEMMA MinOfBounded ==
  ASSUME NEW S \in SUBSET Nat, S # {}, NEW n \in Nat, \A s \in S : s <= n
  PROVE  Min(S) \in S /\ \A s \in S : Min(S) <= s
<1> DEFINE T == {n - s : s \in S}
<1>1. T \in SUBSET Nat /\ T # {} /\ \A t \in T : t <= n
  <2>1. ASSUME NEW s \in S
        PROVE  n - s \in Nat /\ n - s <= n
    <3>1. s \in Nat /\ s <= n
      OBVIOUS
    <3> QED
      BY <3>1
  <2> QED
    BY <2>1
<1>2. Max(T) \in T /\ \A t \in T : t <= Max(T)
  <2> HIDE DEF T
  <2> QED
    BY <1>1, MaxOfBounded
<1>3. PICK x \in S : Max(T) = n - x
  BY <1>2
<1>4. \A s \in S : x <= s
  <2> SUFFICES ASSUME NEW s \in S
               PROVE  x <= s
    OBVIOUS
  <2>1. n - s <= n - x
    BY <1>2, <1>3
  <2>2. s \in Nat /\ x \in Nat
    OBVIOUS
  <2> QED
    BY <2>1, <2>2
<1>5. \E y \in S : \A s \in S : y <= s
  BY <1>4
<1> QED
  BY <1>5 DEF Min

LEMMA MinOfTwo ==
  ASSUME NEW a \in Int, NEW b \in Int
  PROVE  Min({a, b}) = IF a <= b THEN a ELSE b
<1>1. \A x : (x \in {a, b} /\ \A y \in {a, b} : x <= y) <=> x = (IF a <= b THEN a ELSE b)
  OBVIOUS
<1> QED
  BY <1>1 DEF Min

LEMMA MaxOfTwo ==
  ASSUME NEW a \in Int, NEW b \in Int
  PROVE  Max({a, b}) = IF a >= b THEN a ELSE b
<1>1. \A x : (x \in {a, b} /\ \A y \in {a, b} : x >= y) <=> x = (IF a >= b THEN a ELSE b)
  OBVIOUS
<1> QED
  BY <1>1 DEF Max

LEMMA LeastOfNaturals ==
  ASSUME NEW S \in SUBSET Nat, S # {}
  PROVE  Min(S) \in S /\ \A s \in S : Min(S) <= s
<1>1. PICK m \in S : TRUE
  OBVIOUS
<1> DEFINE T == {s \in S : s <= m}
<1>2. T \in SUBSET Nat /\ T # {} /\ \A t \in T : t <= m
  <2>1. m \in Nat
    OBVIOUS
  <2>2. m <= m
    BY <2>1
  <2> QED
    BY <2>2
<1>3. Min(T) \in T /\ \A t \in T : Min(T) <= t
  <2> HIDE DEF T
  <2> QED
    BY <1>2, MinOfBounded
<1>4. Min(T) \in S /\ Min(T) <= m
  BY <1>3
<1>5. ASSUME NEW s \in S
      PROVE  Min(T) <= s
  <2>1. CASE s <= m
    BY <1>3, <2>1
  <2>2. CASE ~ (s <= m)
    <3>1. s \in Nat /\ m \in Nat /\ Min(T) \in Nat
      BY <1>4
    <3> HIDE DEF T
    <3> QED
      BY <1>4, <2>2, <3>1
  <2> QED
    BY <2>1, <2>2
<1> HIDE DEF T
<1>6. \E y \in S : \A s \in S : y <= s
  BY <1>4, <1>5
<1> QED
  BY <1>6 DEF Min

-----------------------------------------------------------------------------
(* The verdict of most nodes.                                              *)

\* A rank that the votes H reach and the others do not is a score between
\* those of H.
LEMMA RankIsBetween ==
  ASSUME NEW votes, IsFiniteSet(votes), \A v \in votes : v.score \in Nat,
         NEW H \in SUBSET votes, NEW lo \in Nat, NEW hi \in Nat, \A v \in H : v.score \in lo..hi,
         NEW k \in Nat, k <= Cardinality(H), Cardinality(votes \ H) < k
  PROVE  ScoreAt(votes, k) \in lo..hi
<1> DEFINE Below(w) == {u \in votes : u.score <= w.score}
           Reached == {w \in votes : Cardinality(Below(w)) >= k}
           S == {v.score : v \in Reached}
           T == {v.score : v \in H}
<1>1. /\ IsFiniteSet(H) /\ IsFiniteSet(votes \ H)
      /\ Cardinality(H) \in Nat /\ Cardinality(votes \ H) \in Nat
  BY FS_Subset, FS_Difference, FS_CardinalityType
<1>2. H # {}
  BY <1>1, FS_EmptySet
<1>3. PICK h \in H : \A v \in H : v.score <= h.score
  <2>1. T \in SUBSET Nat /\ T # {} /\ \A t \in T : t <= hi
    BY <1>2
  <2>2. Max(T) \in T /\ \A t \in T : t <= Max(T)
    <3> HIDE DEF T
    <3> QED
      BY <2>1, MaxOfBounded
  <2> QED
    BY <2>2
<1>4. \A w \in votes : IsFiniteSet(Below(w)) /\ Cardinality(Below(w)) \in Nat
  BY FS_Subset, FS_CardinalityType
<1>5. h \in Reached
  <2>1. H \subseteq Below(h)
    BY <1>3
  <2>2. Cardinality(H) <= Cardinality(Below(h))
    <3>1. IsFiniteSet(Below(h))
      BY <1>4
    <3> HIDE DEF Below
    <3> QED
      BY <2>1, <3>1, FS_Subset
  <2>3. Cardinality(Below(h)) \in Nat
    BY <1>4
  <2> HIDE DEF Below
  <2> QED
    BY <1>1, <2>2, <2>3
<1>6. Min(S) \in S /\ \A s \in S : Min(S) <= s
  <2>1. S \in SUBSET Nat /\ S # {}
    <3> HIDE DEF Below
    <3> QED
      BY <1>5
  <2> HIDE DEF S
  <2> QED
    BY <2>1, LeastOfNaturals
<1>7. ScoreAt(votes, k) = Min(S)
  BY DEF ScoreAt
<1>8. PICK w \in votes : Cardinality(Below(w)) >= k /\ w.score = Min(S)
  <2> HIDE DEF Below
  <2> QED
    BY <1>6
<1>9. Min(S) <= h.score /\ h.score \in lo..hi
  <2>1. h.score \in S
    <3> HIDE DEF Below
    <3> QED
      BY <1>5
  <2> QED
    BY <1>6, <2>1
<1>10. w.score >= lo
  <2> SUFFICES ASSUME w.score < lo
               PROVE  FALSE
    OBVIOUS
  <2>1. Below(w) \subseteq votes \ H
    <3> SUFFICES ASSUME NEW u \in votes, u.score <= w.score, u \in H
                 PROVE  FALSE
      OBVIOUS
    <3>1. u.score \in lo..hi /\ w.score \in Nat
      OBVIOUS
    <3> QED
      BY <3>1
  <2>2. Cardinality(Below(w)) <= Cardinality(votes \ H)
    <3> HIDE DEF Below
    <3> QED
      BY <1>1, <2>1, FS_Subset
  <2>3. Cardinality(Below(w)) \in Nat
    BY <1>4
  <2> HIDE DEF Below
  <2> QED
    BY <1>1, <1>8, <2>2, <2>3
<1>11. w.score \in Nat
  OBVIOUS
<1> HIDE DEF S, Below, Reached, T
<1> QED
  BY <1>7, <1>8, <1>9, <1>10, <1>11

LEMMA HalvesAgree ==
  ASSUME NEW a \in Nat, NEW b \in Nat, NEW lo \in Nat, NEW hi \in Nat, a \in lo..hi, b \in lo..hi
  PROVE  ((a + b) \div 2) \in lo..hi
OBVIOUS

LEMMA MajorityCounts ==
  ASSUME NEW n \in Nat, NEW h \in Nat, NEW l \in Nat, n = h + l, 2 * l < n
  PROVE  /\ n \div 2 \in Nat /\ n \div 2 + 1 \in Nat
         /\ n \div 2 + 1 <= h /\ l < n \div 2 + 1 /\ l <= n \div 2
         /\ n % 2 # 1 => l < n \div 2
OBVIOUS

\* Where those of H are more than half, the median is between their scores.
LEMMA MedianIsBetween ==
  ASSUME NEW votes, IsFiniteSet(votes), \A v \in votes : v.score \in Nat,
         NEW H \in SUBSET votes, NEW lo \in Nat, NEW hi \in Nat, \A v \in H : v.score \in lo..hi,
         2 * Cardinality(votes \ H) < Cardinality(votes)
  PROVE  ConsensusScore(votes) \in lo..hi
<1> PICK n, h, l : n = Cardinality(votes) /\ h = Cardinality(H) /\ l = Cardinality(votes \ H)
  OBVIOUS
<1>1. n \in Nat /\ h \in Nat /\ l \in Nat /\ n = h + l
  <2>1. IsFiniteSet(H) /\ IsFiniteSet(votes \ H)
    BY FS_Subset, FS_Difference
  <2>2. H \cup (votes \ H) = votes /\ H \cap (votes \ H) = {}
    OBVIOUS
  <2> QED
    <3>1. n = h + l - Cardinality({})
      BY <2>1, <2>2, FS_Union
    <3>2. n \in Nat /\ h \in Nat /\ l \in Nat
      BY <2>1, FS_CardinalityType
    <3> QED
      BY <3>1, <3>2, FS_EmptySet
<1>2. /\ n \div 2 \in Nat /\ n \div 2 + 1 \in Nat
      /\ n \div 2 + 1 <= h /\ l < n \div 2 + 1 /\ l <= n \div 2
      /\ n % 2 # 1 => l < n \div 2
  BY <1>1, MajorityCounts
<1>3. ScoreAt(votes, n \div 2 + 1) \in lo..hi
  BY <1>1, <1>2, RankIsBetween
<1>4. CASE n % 2 = 1
  BY <1>3, <1>4 DEF ConsensusScore
<1>5. CASE n % 2 # 1
  <2>1. n \div 2 <= h
    BY <1>1, <1>2
  <2>2. ScoreAt(votes, n \div 2) \in lo..hi
    BY <1>1, <1>2, <1>5, <2>1, RankIsBetween
  <2> PICK a, b : a = ScoreAt(votes, n \div 2) /\ b = ScoreAt(votes, n \div 2 + 1)
    OBVIOUS
  <2>3. ((a + b) \div 2) \in lo..hi
    BY <1>3, <2>2, HalvesAgree
  <2> QED
    BY <1>5, <2>3 DEF ConsensusScore
<1> QED
  BY <1>4, <1>5

Honest(votes) == {v \in votes : v.node \notin Liars}

\* What the verdicts on a result are, whoever gave them.
VotesOn(votes, res) ==
  /\ IsFiniteSet(votes)
  /\ \A v \in votes : v.score \in Nat /\ v.red \in BOOLEAN
  /\ \A v \in Honest(votes) : v.score \in res.score..(res.score + Spread) /\ v.red = res.red

LEMMA MajorityIsRed ==
  ASSUME NEW votes, NEW res, VotesOn(votes, res), res.red \in BOOLEAN,
         2 * Cardinality(votes \ Honest(votes)) < Cardinality(votes)
  PROVE  ConsensusRed(votes) = res.red
<1> DEFINE Red == {v \in votes : v.red}
<1> PICK n, h, l, r : /\ n = Cardinality(votes) /\ h = Cardinality(Honest(votes))
                      /\ l = Cardinality(votes \ Honest(votes)) /\ r = Cardinality(Red)
  OBVIOUS
<1>1. /\ IsFiniteSet(votes) /\ Honest(votes) \in SUBSET votes
      /\ Honest(votes) \cup (votes \ Honest(votes)) = votes
      /\ Honest(votes) \cap (votes \ Honest(votes)) = {}
  BY DEF VotesOn, Honest
<1>2. IsFiniteSet(Honest(votes)) /\ IsFiniteSet(votes \ Honest(votes)) /\ IsFiniteSet(Red)
  BY <1>1, FS_Subset
<1>3. n \in Nat /\ h \in Nat /\ l \in Nat /\ r \in Nat
  <2> HIDE DEF Red
  <2> QED
    BY <1>1, <1>2, FS_CardinalityType
<1>4. n = h + l
  <2>1. n = h + l - Cardinality({})
    BY <1>1, <1>2, FS_Union
  <2> QED
    BY <1>3, <2>1, FS_EmptySet
<1>5. n \div 2 + 1 <= h /\ l <= n \div 2 /\ n \div 2 \in Nat
  BY <1>3, <1>4, MajorityCounts
<1>6. CASE res.red
  <2>1. Honest(votes) \subseteq Red
    BY <1>1, <1>6 DEF VotesOn
  <2>2. h <= r
    <3> HIDE DEF Red
    <3> QED
      BY <1>2, <2>1, FS_Subset
  <2>3. r > n \div 2
    BY <1>3, <1>5, <2>2
  <2> QED
    BY <1>6, <2>3 DEF ConsensusRed
<1>7. CASE ~ res.red
  <2>1. Red \subseteq votes \ Honest(votes)
    BY <1>1, <1>7 DEF VotesOn
  <2>2. r <= l
    <3> HIDE DEF Red
    <3> QED
      BY <1>2, <2>1, FS_Subset
  <2>3. ~ (r > n \div 2)
    BY <1>3, <1>5, <2>2
  <2> QED
    BY <1>7, <2>3 DEF ConsensusRed
<1> QED
  BY <1>6, <1>7

\* Liars in a minority neither have an honest node reported nor hide.
LEMMA MinorityIsReported ==
  ASSUME NEW votes, NEW res, VotesOn(votes, res), res.score \in Nat, res.red \in BOOLEAN,
         2 * Cardinality(votes \ Honest(votes)) < Cardinality(votes)
  PROVE  /\ Divergent(votes) \subseteq Liars
         /\ \A v \in votes :
              (v.score - res.score \notin (-2 * Spread)..(2 * Spread) \/ v.red # res.red)
                => v.node \in Divergent(votes)
<1> PICK median, base : median = ConsensusScore(votes) /\ base = res.score
  OBVIOUS
<1>1. Spread \in Nat /\ base \in Nat /\ base + Spread \in Nat
  BY ScoringAssumption DEF ScoringAssumption
<1>2. median \in base..(base + Spread)
  <2>1. IsFiniteSet(votes) /\ Honest(votes) \in SUBSET votes
    BY DEF VotesOn, Honest
  <2>2. /\ \A v \in votes : v.score \in Nat
        /\ \A v \in Honest(votes) : v.score \in base..(base + Spread)
    BY DEF VotesOn
  <2> QED
    BY <1>1, <2>1, <2>2, MedianIsBetween
<1>3. ConsensusRed(votes) = res.red
  BY MajorityIsRed
<1>4. ASSUME NEW v \in votes, v.node \notin Liars
      PROVE  v.score - median \in (-Spread)..Spread /\ v.red = ConsensusRed(votes)
  <2>1. v.score \in base..(base + Spread) /\ v.red = res.red
    BY <1>4 DEF VotesOn, Honest
  <2> QED
    BY <1>1, <1>2, <1>3, <2>1
<1>5. ASSUME NEW v \in votes, v.score - base \notin (-2 * Spread)..(2 * Spread)
      PROVE  v.score - median \notin (-Spread)..Spread
  <2>1. v.score \in Nat
    BY DEF VotesOn
  <2> QED
    BY <1>1, <1>2, <1>5, <2>1
<1> QED
  BY <1>3, <1>4, <1>5 DEF Divergent

-----------------------------------------------------------------------------
(* A result.                                                               *)

Reading == UNION {Readings[a] : a \in ToSet(Roster)}

\* What the rail does to a score in range.
LEMMA RailIsExact ==
  ASSUME NEW top \in Nat, NEW raw \in 0..top, NEW previous \in (0..top) \cup {None}
  PROVE  /\ Rail(raw, previous) \in 0..top
         /\ previous # None => Rail(raw, previous) - previous \in (-MaxStepUp)..MaxStepUp
<1>1. MaxStepUp \in Nat
  BY ScoringAssumption DEF ScoringAssumption
<1>2. CASE previous = None
  BY <1>2 DEF Rail
<1>3. CASE previous # None
  <2>1. previous \in 0..top
    BY <1>3
  <2> PICK x : x = Rail(raw, previous)
    OBVIOUS
  <2>2. CASE raw > previous + MaxStepUp
    <3>1. ~ (raw < previous - MaxStepUp)
      BY <1>1, <2>1, <2>2
    <3>2. x = previous + MaxStepUp
      BY <1>3, <2>2, <3>1 DEF Rail
    <3> QED
      BY <1>1, <2>1, <2>2, <3>2
  <2>3. CASE raw < previous - MaxStepUp
    <3>1. ~ (raw > previous + MaxStepUp)
      BY <1>1, <2>1, <2>3
    <3>2. x = previous - MaxStepUp
      BY <1>3, <2>3, <3>1 DEF Rail
    <3> QED
      BY <1>1, <2>1, <2>3, <3>2
  <2>4. CASE ~ (raw > previous + MaxStepUp) /\ ~ (raw < previous - MaxStepUp)
    <3>1. x = raw
      BY <1>3, <2>4 DEF Rail
    <3> QED
      BY <1>1, <2>1, <2>4, <3>1
  <2> QED
    BY <2>2, <2>3, <2>4
<1> QED
  BY <1>2, <1>3

\* A dimension contributes at most its weight, whatever its detector does.
LEMMA ContributionsAreBounded ==
  ASSUME NEW r \in Reading
  PROVE  Contributions(r) \in [Dimension -> 0..Whole]
<1>1. ASSUME NEW d \in Dimension
      PROVE  Safe(r[d]).points \in 0..Whole
  <2>1. r[d].works => r[d].points \in 0..Whole
    BY ScoringAssumption DEF ScoringAssumption, Reading
  <2>2. 0 \in 0..Whole
    BY DEF Whole
  <2> QED
    BY <2>1, <2>2 DEF Safe
<1> QED
  BY <1>1 DEF Contributions

LEMMA RawScoreIsBounded ==
  ASSUME NEW c \in [Dimension -> 0..Whole]
  PROVE  RawScore(c) \in 0..(5 * Whole)
<1>1. Whole \in Nat
  BY DEF Whole
<1>2. /\ c["drift"] \in 0..Whole /\ c["anomaly"] \in 0..Whole /\ c["performance"] \in 0..Whole
      /\ c["consistency"] \in 0..Whole /\ c["security"] \in 0..Whole
  BY DEF Dimension
<1> HIDE DEF Whole
<1> QED
  BY <1>1, <1>2 DEF RawScore

\* Whatever the detectors find and whatever previous score is handed in, a
\* result is a score of a thousand and red or not.
LEMMA CompositeIsTyped ==
  ASSUME NEW r \in Reading, NEW previous \in Earlier
  PROVE  LET res == Composite(r, previous)
         IN res.score \in 0..(5 * Whole) /\ res.red \in BOOLEAN
<1> PICK res : res = Composite(r, previous)
  OBVIOUS
<1> PICK top : top = 5 * Whole
  OBVIOUS
<1>1. top \in Nat
  BY DEF Whole
<1>2. Contributions(r) \in [Dimension -> 0..Whole]
  BY ContributionsAreBounded
<1> PICK raw : raw = RawScore(Contributions(r))
  OBVIOUS
<1>3. raw \in 0..top
  BY <1>2, RawScoreIsBounded
<1>4. Max({0, Min({5 * Whole, RawScore(Contributions(r))})}) = raw
  <2>1. Min({top, raw}) = raw
    BY <1>1, <1>3, MinOfTwo
  <2>2. Max({0, raw}) = raw
    BY <1>3, MaxOfTwo
  <2> QED
    BY <2>1, <2>2
<1>5. Rail(raw, previous) \in 0..top
  BY <1>1, <1>3, RailIsExact, ScoringAssumption DEF ScoringAssumption
<1>6. res.score = Rail(raw, previous)
  BY <1>4 DEF Composite
<1>7. res.red \in BOOLEAN
  <2> PICK fast : fast = ("IMMEDIATE_RED" \in UNION {Safe(r[d]).flags : d \in Dimension})
    OBVIOUS
  <2>1. res.red = fast
    BY DEF Composite
  <2> QED
    BY <2>1
<1> QED
  BY <1>5, <1>6, <1>7

-----------------------------------------------------------------------------
(* A scoring epoch.                                                        *)

AgentOutcome == [agent : Agents, submitted : BOOLEAN, error : {"", "scoring", "submission", "evaluation", "slash"}, slashed : BOOLEAN]

LandedNow == {a \in Agents : Landed(a)}

\* The report answers for the agents before the one at hand.
ReportInv ==
  /\ outcomes \in Seq(AgentOutcome)
  /\ \A i \in 1..Len(outcomes) : i <= Len(Roster) /\ outcomes[i].agent = Roster[i]
  /\ stage # "idle" => turn \in 1..Len(Roster) /\ Len(outcomes) = turn - 1
  /\ stage = "idle" /\ run > 0 => Len(outcomes) = Len(Roster)
  /\ SlashIsDeserved

\* The verdicts at hand are verdicts on the result at hand.
ResultInv ==
  /\ stage \in {"submit", "slash"} => result.score \in Nat /\ result.score <= 5 * Whole /\ result.red \in BOOLEAN
  /\ stage = "slash" => VotesOn(verdicts, result)
  /\ stage # "slash" => verdicts = {}

EpochInv ==
  /\ run \in Nat /\ stage \in {"idle", "score", "submit", "slash"} /\ submission \in BOOLEAN
  /\ stage = "slash" /\ submission => Landed(Current)
  /\ ReportInv /\ ResultInv

LEMMA NoVerdictIsReported == EpochInv => OnlyLiarsDiverge
<1> SUFFICES ASSUME EpochInv, verdicts # {},
                    2 * Cardinality({v \in verdicts : v.node \in Liars}) < Cardinality(verdicts)
             PROVE  /\ Divergent(verdicts) \subseteq Liars
                    /\ \A v \in verdicts :
                         (v.score - result.score \notin (-2 * Spread)..(2 * Spread) \/ v.red # result.red)
                           => v.node \in Divergent(verdicts)
  BY DEF OnlyLiarsDiverge
<1>1. stage = "slash"
  BY DEF EpochInv, ResultInv
<1>2. VotesOn(verdicts, result) /\ result.score \in Nat /\ result.red \in BOOLEAN
  BY <1>1 DEF EpochInv, ResultInv
<1>3. {v \in verdicts : v.node \in Liars} = verdicts \ Honest(verdicts)
  BY DEF Honest
<1> QED
  BY <1>2, <1>3, MinorityIsReported

LEMMA CurrentIsOnTheRoster ==
  ASSUME EpochInv, stage # "idle"
  PROVE  turn \in 1..Len(Roster) /\ Current \in Agents /\ Len(outcomes) = turn - 1
<1>1. turn \in 1..Len(Roster) /\ Len(outcomes) = turn - 1
  BY DEF EpochInv, ReportInv
<1> QED
  BY <1>1, ScoringAssumption DEF Current, Agents, ScoringAssumption, ToSet

\* Concluding an agent adds its answer to the report, and goes on to the next.
LEMMA ConcludeKeepsReport ==
  ASSUME EpochInv, stage # "idle", run' = run,
         NEW o \in AgentOutcome, o.agent = Current, Conclude(o),
         LandedNow \subseteq LandedNow',
         burned \subseteq burned', \A b \in burned' : b.tripped,
         o.submitted => Current \in LandedNow,
         o.slashed => \E b \in burned' : b.agent = o.agent /\ b.run = run
  PROVE  ReportInv' /\ ResultInv' /\ run' \in Nat /\ stage' \in {"idle", "score"}
<1> PICK a, n, m : a = Current /\ n = Len(outcomes) /\ m = Len(Roster)
  OBVIOUS
<1>1. turn \in 1..m /\ a \in Agents /\ n = turn - 1 /\ n \in Nat /\ m \in Nat
  BY CurrentIsOnTheRoster, ScoringAssumption DEF ScoringAssumption
<1>2. outcomes \in Seq(AgentOutcome) /\ \A i \in 1..n : i <= m /\ outcomes[i].agent = Roster[i]
  BY DEF EpochInv, ReportInv
<1>3. outcomes' = Append(outcomes, o)
  BY DEF Conclude
<1>4. /\ outcomes' \in Seq(AgentOutcome) /\ Len(outcomes') = turn /\ outcomes'[turn] = o
      /\ \A i \in 1..n : outcomes'[i] = outcomes[i]
  <2>1. n + 1 = turn
    BY <1>1
  <2> QED
    BY <1>2, <1>3, <2>1, AppendProperties
<1>5. \A i \in 1..Len(outcomes') : i <= m /\ outcomes'[i].agent = Roster[i]
  <2> SUFFICES ASSUME NEW i \in 1..turn
               PROVE  i <= m /\ outcomes'[i].agent = Roster[i]
    BY <1>4
  <2>1. CASE i = turn
    BY <1>1, <1>4, <2>1 DEF Current
  <2>2. CASE i # turn
    <3>1. i \in 1..n
      BY <1>1, <2>2
    <3> QED
      BY <1>2, <1>4, <3>1
  <2> QED
    BY <2>1, <2>2
<1>6. \/ turn < m /\ turn' = turn + 1 /\ stage' = "score"
      \/ turn = m /\ turn' = turn /\ stage' = "idle"
  BY <1>1 DEF Conclude
<1>7. stage' # "idle" => turn' \in 1..m /\ Len(outcomes') = turn' - 1
  BY <1>1, <1>4, <1>6
<1>8. stage' = "idle" => Len(outcomes') = m
  BY <1>4, <1>6
<1>9. ASSUME NEW i \in DOMAIN outcomes'
      PROVE  /\ outcomes'[i].submitted => outcomes'[i].agent \in LandedNow'
             /\ outcomes'[i].slashed => \E b \in burned' : b.agent = outcomes'[i].agent /\ b.run = run'
  <2>1. i \in 1..turn
    BY <1>1, <1>4
  <2>2. CASE i = turn
    <3>1. outcomes'[i] = o
      BY <1>4, <2>2
    <3> QED
      BY <3>1
  <2>3. CASE i # turn
    <3>1. i \in 1..n
      BY <1>1, <2>1, <2>3
    <3>2. i \in DOMAIN outcomes
      BY <1>2, <3>1
    <3>3. outcomes'[i] = outcomes[i] /\ outcomes[i] \in AgentOutcome
      BY <1>2, <1>4, <3>1
    <3>4. outcomes[i].agent \in Agents
      BY <3>3 DEF AgentOutcome
    <3>5. /\ outcomes[i].submitted => outcomes[i].agent \in LandedNow
          /\ outcomes[i].slashed => \E b \in burned : b.agent = outcomes[i].agent /\ b.run = run
      BY <3>2, <3>4 DEF EpochInv, ReportInv, SlashIsDeserved, LandedNow
    <3> QED
      BY <3>3, <3>5
  <2> QED
    BY <2>2, <2>3
<1>10. stage' = "idle" => [i \in DOMAIN outcomes' |-> outcomes'[i].agent] = Roster
  <2> SUFFICES ASSUME stage' = "idle"
               PROVE  [i \in DOMAIN outcomes' |-> outcomes'[i].agent] = Roster
    OBVIOUS
  <2>1. DOMAIN outcomes' = 1..m /\ \A i \in 1..m : outcomes'[i].agent = Roster[i]
    BY <1>4, <1>5, <1>8
  <2>2. Roster = [i \in 1..m |-> Roster[i]]
    BY ScoringAssumption DEF ScoringAssumption
  <2> QED
    BY <2>1, <2>2
<1>11. SlashIsDeserved'
  BY <1>9, <1>10 DEF SlashIsDeserved, LandedNow, Landed
<1>12. ReportInv'
  BY <1>4, <1>5, <1>7, <1>8, <1>11 DEF ReportInv
<1>13. ResultInv'
  BY <1>6 DEF Conclude, ResultInv
<1> QED
  BY <1>6, <1>12, <1>13 DEF EpochInv

\* A score that lands adds to those that did.
LEMMA LandingKeepsLanded ==
  ASSUME Lands \/ landed' = landed, run' = run
  PROVE  LandedNow \subseteq LandedNow'
BY DEF Lands, LandedNow, Landed

LEMMA ReportIsKept ==
  ASSUME ReportInv, LandedNow \subseteq LandedNow', run' = run, turn' = turn,
         outcomes' = outcomes, burned' = burned, stage # "idle", stage' # "idle"
  PROVE  ReportInv'
<1>1. ASSUME NEW i \in DOMAIN outcomes'
      PROVE  /\ outcomes'[i].submitted => outcomes'[i].agent \in LandedNow'
             /\ outcomes'[i].slashed => \E b \in burned' : b.agent = outcomes'[i].agent /\ b.run = run'
  <2>1. i \in DOMAIN outcomes /\ i \in 1..Len(outcomes) /\ outcomes[i] \in AgentOutcome
    BY DEF ReportInv
  <2>2. outcomes[i].agent \in Agents
    BY <2>1 DEF AgentOutcome
  <2> QED
    BY <2>1, <2>2 DEF ReportInv, SlashIsDeserved, LandedNow
<1>2. SlashIsDeserved'
  <2>1. \A b \in burned' : b.tripped
    BY DEF ReportInv, SlashIsDeserved
  <2> QED
    BY <1>1, <2>1 DEF SlashIsDeserved, LandedNow
<1> QED
  BY <1>2 DEF ReportInv

LEMMA StartKeepsEpoch ==
  ASSUME EpochInv, StartEpoch
  PROVE  EpochInv'
<1>1. /\ stage = "idle" /\ run' = run + 1 /\ turn' = 1 /\ outcomes' = <<>>
      /\ stage' = IF Roster = <<>> THEN "idle" ELSE "score"
      /\ result' = result /\ submission' = submission /\ verdicts' = verdicts /\ burned' = burned
  BY DEF StartEpoch
<1>2. run' \in Nat /\ stage' \in {"idle", "score"} /\ submission' \in BOOLEAN
  BY <1>1 DEF EpochInv
<1>3. Len(outcomes') = 0 /\ DOMAIN outcomes' = {} /\ outcomes' \in Seq(AgentOutcome)
  BY <1>1
<1>4. Roster \in Seq(Agents) /\ (Roster = <<>> <=> Len(Roster) = 0) /\ Len(Roster) \in Nat
  BY ScoringAssumption, EmptySeq DEF ScoringAssumption, Agents
<1>5. stage' = "idle" => Roster = <<>>
  BY <1>1
<1>6. SlashIsDeserved'
  <2>1. \A b \in burned' : b.tripped
    BY <1>1 DEF EpochInv, ReportInv, SlashIsDeserved
  <2>2. [i \in DOMAIN outcomes' |-> outcomes'[i].agent] = <<>>
    BY <1>3
  <2> QED
    BY <1>3, <1>5, <2>1, <2>2 DEF SlashIsDeserved
<1>7. ReportInv'
  BY <1>1, <1>3, <1>4, <1>5, <1>6 DEF ReportInv
<1>8. ResultInv'
  BY <1>1 DEF EpochInv, ResultInv
<1> QED
  BY <1>2, <1>7, <1>8 DEF EpochInv

LEMMA ScoresKeepsEpoch ==
  ASSUME EpochInv, Scores
  PROVE  EpochInv'
<1> PICK a : a = Current
  OBVIOUS
<1>1. /\ stage = "score" /\ stage' = "submit" /\ run' = run /\ turn' = turn /\ landed' = landed
      /\ submission' = submission /\ outcomes' = outcomes /\ verdicts' = verdicts /\ burned' = burned
  BY DEF Scores
<1>2. PICK r \in Readings[a], previous \in Earlier : result' = Composite(r, previous)
  BY DEF Scores
<1>3. a \in Agents
  BY <1>1, CurrentIsOnTheRoster
<1>4. result'.score \in Nat /\ result'.score <= 5 * Whole /\ result'.red \in BOOLEAN
  <2>1. r \in Reading
    BY <1>3 DEF Reading, Agents
  <2> QED
    BY <1>2, <2>1, CompositeIsTyped DEF Whole
<1>5. LandedNow' = LandedNow
  BY <1>1 DEF LandedNow, Landed
<1>6. ReportInv'
  BY <1>1, <1>5, ReportIsKept DEF EpochInv
<1>7. ResultInv'
  BY <1>1, <1>4 DEF EpochInv, ResultInv
<1> QED
  BY <1>1, <1>6, <1>7 DEF EpochInv

LEMMA ScoringFailureKeepsEpoch ==
  ASSUME EpochInv, ScoringFails
  PROVE  EpochInv'
<1> PICK o : o = [agent |-> Current, submitted |-> FALSE, error |-> "scoring", slashed |-> FALSE]
  OBVIOUS
<1>1. /\ stage = "score" /\ Conclude(o) /\ run' = run /\ submission' = submission
      /\ landed' = landed /\ burned' = burned
  BY DEF ScoringFails
<1>2. o \in AgentOutcome /\ o.agent = Current /\ o.submitted = FALSE /\ o.slashed = FALSE
  BY <1>1, CurrentIsOnTheRoster DEF AgentOutcome
<1>3. LandedNow \subseteq LandedNow'
  BY <1>1, LandingKeepsLanded
<1>4. \A b \in burned' : b.tripped
  BY <1>1 DEF EpochInv, ReportInv, SlashIsDeserved
<1>5. ReportInv' /\ ResultInv' /\ run' \in Nat /\ stage' \in {"idle", "score"}
  BY <1>1, <1>2, <1>3, <1>4, ConcludeKeepsReport
<1> QED
  BY <1>1, <1>5 DEF EpochInv

LEMMA SubmissionFailureKeepsEpoch ==
  ASSUME EpochInv, SubmissionFails
  PROVE  EpochInv'
<1> PICK o : o = [agent |-> Current, submitted |-> FALSE, error |-> "submission", slashed |-> FALSE]
  OBVIOUS
<1>1. /\ stage = "submit" /\ Conclude(o) /\ run' = run /\ submission' = submission /\ burned' = burned
      /\ Lands \/ landed' = landed
  BY DEF SubmissionFails
<1>2. o \in AgentOutcome /\ o.agent = Current /\ o.submitted = FALSE /\ o.slashed = FALSE
  BY <1>1, CurrentIsOnTheRoster DEF AgentOutcome
<1>3. LandedNow \subseteq LandedNow'
  BY <1>1, LandingKeepsLanded
<1>4. \A b \in burned' : b.tripped
  BY <1>1 DEF EpochInv, ReportInv, SlashIsDeserved
<1>5. ReportInv' /\ ResultInv' /\ run' \in Nat /\ stage' \in {"idle", "score"}
  BY <1>1, <1>2, <1>3, <1>4, ConcludeKeepsReport
<1> QED
  BY <1>1, <1>5 DEF EpochInv

LEMMA SubmissionKeepsEpoch ==
  ASSUME EpochInv, Submits
  PROVE  EpochInv'
<1> PICK v : v = VerdictFrom(Self, result)
  OBVIOUS
<1>1. /\ stage = "submit" /\ stage' = "slash" /\ run' = run /\ turn' = turn /\ verdicts' = {v}
      /\ result' = result /\ outcomes' = outcomes /\ burned' = burned
      /\ submission' \in BOOLEAN /\ (submission' => Lands)
      /\ Lands \/ landed' = landed
  BY DEF Submits
<1>2. LandedNow \subseteq LandedNow'
  BY <1>1, LandingKeepsLanded
<1>3. ReportInv'
  BY <1>1, <1>2, ReportIsKept DEF EpochInv
<1>4. result.score \in Nat /\ result.score <= 5 * Whole /\ result.red \in BOOLEAN
  BY <1>1 DEF EpochInv, ResultInv
<1>5. VotesOn(verdicts, result)'
  <2>1. Spread \in Nat
    BY ScoringAssumption DEF ScoringAssumption
  <2>2. v.score = result.score /\ v.red = result.red
    BY DEF VerdictFrom
  <2>3. v.score \in result.score..(result.score + Spread)
    BY <1>4, <2>1, <2>2
  <2>4. IsFiniteSet({v})
    BY FS_Singleton
  <2> QED
    BY <1>1, <1>4, <2>2, <2>3, <2>4 DEF VotesOn, Honest
<1>6. ResultInv'
  BY <1>1, <1>4, <1>5 DEF ResultInv
<1>7. submission' => Landed(Current)'
  BY <1>1 DEF Lands, Landed, Current
<1> QED
  BY <1>1, <1>3, <1>6, <1>7 DEF EpochInv

\* A vote raised by at most the spread, and capped, is within the spread.
LEMMA CappedIsBetween ==
  ASSUME NEW base \in Nat, NEW spread \in Nat, NEW drift \in Nat, NEW top \in Nat, drift <= spread, base <= top
  PROVE  (IF base + drift <= top THEN base + drift ELSE top) \in Nat \cap (base..(base + spread))
<1>1. CASE base + drift <= top
  BY <1>1
<1>2. CASE ~ (base + drift <= top)
  BY <1>2
<1> QED
  BY <1>1, <1>2

\* One more verdict: a liar's is anything, an honest one is on this result.
LEMMA VoteKeepsEpoch ==
  ASSUME EpochInv, PeerVotes
  PROVE  EpochInv'
<1>1. /\ stage = "slash" /\ stage' = stage /\ run' = run /\ turn' = turn /\ result' = result
      /\ submission' = submission /\ landed' = landed /\ outcomes' = outcomes /\ burned' = burned
  BY DEF PeerVotes
<1>2. /\ VotesOn(verdicts, result) /\ result.score \in Nat /\ result.red \in BOOLEAN
      /\ result.score <= 5 * Whole /\ 5 * Whole \in Nat /\ Spread \in Nat
  BY <1>1, ScoringAssumption DEF EpochInv, ResultInv, ScoringAssumption, Whole
<1>3. PICK n \in Peers \ {v.node : v \in verdicts} :
        IF n \in Liars
        THEN \E score \in {0, YellowFrom, 5 * Whole}, red \in BOOLEAN :
               verdicts' = verdicts \cup {[node |-> n, confirms |-> red, score |-> score, red |-> red]}
        ELSE \E drift \in {0, Spread} :
               verdicts' = verdicts \cup {[VerdictFrom(n, result) EXCEPT !.score = Min({@ + drift, 5 * Whole})]}
  BY DEF PeerVotes
<1>4. PICK w : /\ verdicts' = verdicts \cup {w}
               /\ w.score \in Nat /\ w.red \in BOOLEAN
               /\ w.node \notin Liars => w.score \in result.score..(result.score + Spread) /\ w.red = result.red
  <2>1. CASE n \in Liars
    <3>1. PICK score \in {0, YellowFrom, 5 * Whole}, red \in BOOLEAN :
            verdicts' = verdicts \cup {[node |-> n, confirms |-> red, score |-> score, red |-> red]}
      BY <1>3, <2>1
    <3>2. score \in Nat
      BY <1>2, ScoringAssumption DEF ScoringAssumption
    <3> PICK w : w = [node |-> n, confirms |-> red, score |-> score, red |-> red]
      OBVIOUS
    <3>3. w.score = score /\ w.red = red /\ w.node \in Liars /\ verdicts' = verdicts \cup {w}
      BY <2>1, <3>1
    <3> QED
      BY <3>2, <3>3
  <2>2. CASE n \notin Liars
    <3>1. PICK drift \in {0, Spread} :
            verdicts' = verdicts \cup {[VerdictFrom(n, result) EXCEPT !.score = Min({@ + drift, 5 * Whole})]}
      BY <1>3, <2>2
    <3> PICK top, most : top = 5 * Whole /\ most = Min({result.score + drift, top})
      OBVIOUS
    <3>2. most \in Nat /\ most \in result.score..(result.score + Spread)
      <4>1. drift \in Nat /\ drift <= Spread /\ top \in Nat /\ result.score <= top
        BY <1>2
      <4>2. most = IF result.score + drift <= top THEN result.score + drift ELSE top
        BY <1>2, <4>1, MinOfTwo
      <4>3. result.score \in Nat /\ Spread \in Nat
        BY <1>2
      <4>4. (IF result.score + drift <= top THEN result.score + drift ELSE top)
              \in Nat \cap (result.score..(result.score + Spread))
        BY <4>1, <4>3, CappedIsBetween, Zenon
      <4>5. most \in Nat \cap (result.score..(result.score + Spread))
        BY <4>2, <4>4, Zenon
      <4> QED
        BY <4>5, Zenon
    <3> PICK w : w = [VerdictFrom(n, result) EXCEPT !.score = Min({@ + drift, 5 * Whole})]
      OBVIOUS
    <3>3. w.score = most /\ w.red = result.red
      BY DEF VerdictFrom
    <3> QED
      BY <1>2, <3>1, <3>2, <3>3
  <2> QED
    BY <2>1, <2>2
<1>5. VotesOn(verdicts, result)'
  <2>1. IsFiniteSet(verdicts')
    BY <1>2, <1>4, FS_AddElement DEF VotesOn
  <2> QED
    BY <1>1, <1>2, <1>4, <2>1 DEF VotesOn, Honest
<1>6. LandedNow' = LandedNow /\ Landed(Current)' = Landed(Current)
  BY <1>1 DEF LandedNow, Landed, Current
<1>7. ReportInv'
  BY <1>1, <1>6, ReportIsKept DEF EpochInv
<1>8. ResultInv'
  BY <1>1, <1>2, <1>5 DEF ResultInv
<1> QED
  BY <1>1, <1>6, <1>7, <1>8 DEF EpochInv

LEMMA DecisionKeepsEpoch ==
  ASSUME EpochInv, Decides
  PROVE  EpochInv'
<1>1. PICK burns \in BOOLEAN, slashed \in BOOLEAN, error \in {"", "evaluation", "slash"} :
        /\ burns \/ error = "slash" => ShouldSlash(result, {VerdictFrom(Self, result)}) /\ error # "evaluation"
        /\ slashed => burns /\ error = ""
        /\ Conclude([agent |-> Current, submitted |-> submission, error |-> error, slashed |-> slashed])
        /\ burned' = burned \cup {[agent |-> Current, run |-> run, tripped |-> "IMMEDIATE_RED" \in result.security]
                                  : b \in {burns} \ {FALSE}}
  BY DEF Decides
<1> PICK o, b : /\ o = [agent |-> Current, submitted |-> submission, error |-> error, slashed |-> slashed]
                /\ b = [agent |-> Current, run |-> run, tripped |-> "IMMEDIATE_RED" \in result.security]
  OBVIOUS
<1>2. stage = "slash" /\ run' = run /\ submission' = submission /\ landed' = landed
  BY DEF Decides
<1>3. Current \in Agents
  BY <1>2, CurrentIsOnTheRoster
<1>4. submission \in BOOLEAN /\ (submission => Current \in LandedNow)
  BY <1>2, <1>3 DEF EpochInv, LandedNow
<1>5. o.agent = Current /\ o.submitted = submission /\ o.slashed = slashed
  OBVIOUS
<1>6. o \in AgentOutcome
  BY <1>3, <1>4 DEF AgentOutcome
<1>7. burns => b.tripped /\ b \in burned'
  <2>1. burns => "IMMEDIATE_RED" \in result.security
    BY <1>1 DEF ShouldSlash, SecurityTripped
  <2>2. burns => b \in burned'
    BY <1>1
  <2> QED
    BY <2>1, <2>2
<1>8. burned \subseteq burned' /\ \A c \in burned' : c.tripped
  <2>1. \A c \in burned : c.tripped
    BY DEF EpochInv, ReportInv, SlashIsDeserved
  <2>2. burned' = IF burns THEN burned \cup {b} ELSE burned
    BY <1>1
  <2> QED
    BY <1>7, <2>1, <2>2
<1>9. o.slashed => \E c \in burned' : c.agent = o.agent /\ c.run = run
  <2>1. b.agent = Current /\ b.run = run
    OBVIOUS
  <2> QED
    BY <1>1, <1>5, <1>7, <2>1
<1>10. LandedNow \subseteq LandedNow'
  BY <1>2, LandingKeepsLanded
<1>11. ReportInv' /\ ResultInv' /\ run' \in Nat /\ stage' \in {"idle", "score"}
  BY <1>1, <1>2, <1>4, <1>5, <1>6, <1>8, <1>9, <1>10, ConcludeKeepsReport
<1> QED
  BY <1>2, <1>4, <1>11 DEF EpochInv

\* However the detectors find, whatever previous scores are handed in, the
\* submissions and the slashes fail or land and the liars vote, for any roster
\* and readings: nobody is slashed but for its own security finding, the report
\* answers for every agent and claims only what landed, and liars in a minority
\* are the only ones reported (epoch_runner.py, evaluator.py, divergence.py).
THEOREM ScoresAreSound == EpochInit /\ [][EpochNext]_epochVars => []ScoringIsSound
<1>1. EpochInit => EpochInv
  <2> SUFFICES ASSUME EpochInit
               PROVE  EpochInv
    OBVIOUS
  <2>1. SlashIsDeserved
    BY DEF EpochInit, SlashIsDeserved
  <2>2. ReportInv
    BY <2>1 DEF EpochInit, ReportInv
  <2> QED
    BY <2>2 DEF EpochInit, EpochInv, ResultInv
<1>2. EpochInv /\ [EpochNext]_epochVars => EpochInv'
  <2> SUFFICES ASSUME EpochInv, [EpochNext]_epochVars
               PROVE  EpochInv'
    OBVIOUS
  <2>1. CASE UNCHANGED epochVars
    <3>1. /\ run' = run /\ stage' = stage /\ turn' = turn /\ result' = result /\ landed' = landed
          /\ submission' = submission /\ outcomes' = outcomes /\ verdicts' = verdicts /\ burned' = burned
      BY <2>1 DEF epochVars
    <3>2. SlashIsDeserved'
      BY <3>1 DEF EpochInv, ReportInv, SlashIsDeserved, Landed
    <3>3. ReportInv'
      BY <3>1, <3>2 DEF EpochInv, ReportInv
    <3>4. ResultInv'
      BY <3>1 DEF EpochInv, ResultInv, VotesOn, Honest
    <3>5. Landed(Current)' = Landed(Current)
      BY <3>1 DEF Landed, Current
    <3> QED
      BY <3>1, <3>3, <3>4, <3>5 DEF EpochInv
  <2> QED
    BY <2>1, StartKeepsEpoch, ScoresKeepsEpoch, ScoringFailureKeepsEpoch, SubmissionKeepsEpoch,
       SubmissionFailureKeepsEpoch, VoteKeepsEpoch, DecisionKeepsEpoch DEF EpochNext
<1>3. EpochInv => ScoringIsSound
  <2>1. EpochInv => SlashIsDeserved
    BY DEF EpochInv, ReportInv
  <2> QED
    BY <2>1, NoVerdictIsReported DEF ScoringIsSound
<1> QED
  BY <1>1, <1>2, <1>3, PTL

-----------------------------------------------------------------------------
(* How far a certified score may have climbed.                             *)

LEMMA TimesIsMonotone ==
  ASSUME NEW a \in Int, NEW b \in Int, NEW n \in Nat, a <= b
  PROVE  a * n <= b * n
<1>1. PICK d \in Nat : b = a + d
  <2>1. b - a \in Nat /\ b = a + (b - a)
    OBVIOUS
  <2> QED
    BY <2>1
<1>2. b * n = a * n + d * n
  BY <1>1
<1>3. d * n \in Nat /\ a * n \in Int
  OBVIOUS
<1> QED
  BY <1>2, <1>3

LEMMA QuotientBounds ==
  ASSUME NEW x \in Int, NEW n \in Nat, n > 0
  PROVE  /\ x \div n \in Int
         /\ (x \div n) * n <= x
         /\ x < (x \div n + 1) * n
OBVIOUS

LEMMA QuotientIsMonotone ==
  ASSUME NEW x \in Int, NEW y \in Int, NEW n \in Nat, n > 0, x <= y
  PROVE  x \div n <= y \div n
<1> PICK p, q \in Int : p = x \div n /\ q = y \div n
  BY QuotientBounds
<1>1. p * n <= x /\ y < (q + 1) * n
  BY QuotientBounds
<1> SUFFICES ASSUME q + 1 <= p
             PROVE  FALSE
  OBVIOUS
<1>2. (q + 1) * n <= p * n
  BY TimesIsMonotone
<1>3. (q + 1) * n \in Int /\ p * n \in Int
  OBVIOUS
<1> QED
  BY <1>1, <1>2, <1>3

\* A quotient is found by its bounds.
LEMMA QuotientIs ==
  ASSUME NEW x \in Int, NEW n \in Nat, NEW q \in Int, n > 0, q * n <= x, x < (q + 1) * n
  PROVE  x \div n = q
<1> PICK p \in Int : p = x \div n
  BY QuotientBounds
<1>1. p * n <= x /\ x < (p + 1) * n
  BY QuotientBounds
<1>2. q * n \in Int /\ p * n \in Int /\ (q + 1) * n \in Int /\ (p + 1) * n \in Int
  OBVIOUS
<1>3. ~ (q + 1 <= p)
  BY <1>1, <1>2, TimesIsMonotone
<1>4. ~ (p + 1 <= q)
  BY <1>1, <1>2, TimesIsMonotone
<1> QED
  BY <1>3, <1>4

\* The periods begun: none at epoch 1, one at epoch 2, one more after each
\* MIN_EPOCHS_BETWEEN_BASELINE_ROTATIONS, and never as many as the epochs.
LEMMA PeriodsAreCounted ==
  /\ \A e \in Nat : PeriodsBegun(e) \in Int
  /\ \A e, f \in Nat : e <= f => PeriodsBegun(e) <= PeriodsBegun(f)
  /\ \A e \in Nat : PeriodsBegun(e + MinRotation) = PeriodsBegun(e) + 1
  /\ PeriodsBegun(0) \in {-1, 0} /\ PeriodsBegun(1) = 0 /\ PeriodsBegun(2) = 1
  /\ \A e \in Nat \ {0} : PeriodsBegun(e) \in 0..(e - 1)
<1> PICK n \in Nat \ {0} : n = MinRotation
  BY ScoreAssumption DEF ScoreAssumption
<1>0. \A e : PeriodsBegun(e) = (e + n - 2) \div n
  BY DEF PeriodsBegun
<1>1. \A e \in Nat : PeriodsBegun(e) \in Int
  <2> TAKE e \in Nat
  <2>1. e + n - 2 \in Int
    OBVIOUS
  <2> QED
    BY <1>0, <2>1, QuotientBounds
<1>2. \A e, f \in Nat : e <= f => PeriodsBegun(e) <= PeriodsBegun(f)
  <2> TAKE e, f \in Nat
  <2> HAVE e <= f
  <2>1. e + n - 2 \in Int /\ f + n - 2 \in Int /\ e + n - 2 <= f + n - 2
    OBVIOUS
  <2> QED
    BY <1>0, <2>1, QuotientIsMonotone
<1>3. \A e \in Nat : PeriodsBegun(e + n) = PeriodsBegun(e) + 1
  <2> TAKE e \in Nat
  <2> PICK x \in Int : x = e + n - 2
    OBVIOUS
  <2> PICK q \in Int : q = x \div n
    BY QuotientBounds
  <2>1. q * n <= x /\ x < (q + 1) * n
    BY QuotientBounds
  <2>2. (q + 1) * n = q * n + n /\ (q + 1 + 1) * n = (q + 1) * n + n /\ q * n \in Int /\ (q + 1) * n \in Int
    OBVIOUS
  <2>3. (q + 1) * n <= x + n /\ x + n < (q + 1 + 1) * n
    BY <2>1, <2>2
  <2>4. (x + n) \div n = q + 1
    BY <2>3, QuotientIs
  <2>5. e + n + n - 2 = x + n
    OBVIOUS
  <2> QED
    BY <1>0, <2>4, <2>5
<1>4. PeriodsBegun(1) = 0
  <2>1. 0 * n <= n - 1 /\ n - 1 < (0 + 1) * n /\ n - 1 \in Int /\ 1 + n - 2 = n - 1
    OBVIOUS
  <2> PICK zero \in Int : zero = 0
    OBVIOUS
  <2>2. zero * n <= n - 1 /\ n - 1 < (zero + 1) * n
    BY <2>1
  <2>3. (n - 1) \div n = zero
    BY <2>1, <2>2, QuotientIs
  <2> QED
    BY <1>0, <2>1, <2>3
<1>5. PeriodsBegun(2) = 1
  <2> PICK one \in Int : one = 1
    OBVIOUS
  <2>1. one * n <= n /\ n < (one + 1) * n /\ 2 + n - 2 = n
    OBVIOUS
  <2>2. n \div n = one
    BY <2>1, QuotientIs
  <2> QED
    BY <1>0, <2>1, <2>2
<1>6. PeriodsBegun(0) \in {-1, 0}
  <2>1. CASE n = 1
    <3>1. (-1) \div 1 = -1
      OBVIOUS
    <3>2. 0 + n - 2 = -1
      BY <2>1
    <3> QED
      BY <1>0, <2>1, <3>1, <3>2
  <2>2. CASE n # 1
    <3> PICK zero \in Int : zero = 0
      OBVIOUS
    <3>1. zero * n <= n - 2 /\ n - 2 < (zero + 1) * n /\ n - 2 \in Int /\ 0 + n - 2 = n - 2
      BY <2>2
    <3>2. (n - 2) \div n = zero
      BY <3>1, QuotientIs
    <3> QED
      BY <1>0, <3>1, <3>2
  <2> QED
    BY <2>1, <2>2
<1>7. \A e \in Nat \ {0} : PeriodsBegun(e) \in 0..(e - 1)
  <2> TAKE e \in Nat \ {0}
  <2>1. 0 <= PeriodsBegun(e) /\ PeriodsBegun(e) \in Int
    BY <1>1, <1>2, <1>4
  <2> PICK x, q \in Int : x = e + n - 2 /\ q = PeriodsBegun(e)
    BY <2>1
  <2>2. q * n <= x
    BY <1>0, QuotientBounds
  <2>3. ASSUME e <= q
        PROVE  FALSE
    <3>1. e * n <= q * n /\ q * n \in Int /\ e * n \in Int
      BY <2>3, TimesIsMonotone
    <3>2. (e - 1) * 1 <= (e - 1) * n
      <4>1. 1 * (e - 1) <= n * (e - 1)
        <5> PICK one \in Int : one = 1
          OBVIOUS
        <5>1. e - 1 \in Nat /\ one <= n
          OBVIOUS
        <5>2. one * (e - 1) <= n * (e - 1)
          BY <5>1, TimesIsMonotone
        <5> QED
          BY <5>2
      <4> QED
        BY <4>1
    <3>3. (e - 1) * n = e * n - n /\ (e - 1) * 1 = e - 1
      OBVIOUS
    <3>4. e * n <= e + n - 2
      BY <2>2, <3>1
    <3>5. e - 1 <= e * n - n
      BY <3>2, <3>3
    <3> QED
      BY <3>1, <3>4, <3>5
  <2> QED
    BY <2>1, <2>3
<1> QED
  BY <1>1, <1>2, <1>3, <1>4, <1>5, <1>6, <1>7

\* The ceilings of an agent are defined, from its genesis score on.
LEMMA CeilingsExist ==
  ASSUME NEW a \in Agent
  PROVE  Ceilings(a) = [k \in 0..MaxEpoch |->
           IF k = 0 THEN Genesis[a] ELSE ((10 + MaxDrift) * Ceilings(a)[k - 1]) \div 10]
<1> DEFINE Next(c) == ((10 + MaxDrift) * c) \div 10
           UpTo(n, f) == f = [i \in 0..n |-> IF i = 0 THEN Genesis[a] ELSE Next(f[i - 1])]
           Missing == {n \in 0..MaxEpoch : ~ \E f : UpTo(n, f)}
<1> HIDE DEF Next
<1>0. MaxEpoch \in Nat
  BY ScoreAssumption DEF ScoreAssumption
<1>1. ASSUME Missing # {}
      PROVE  FALSE
  <2> DEFINE k == Min(Missing)
  <2>1. k \in Missing /\ \A y \in Missing : k =< y
    <3>1. Missing \in SUBSET Nat
      BY <1>0
    <3> HIDE DEF Missing
    <3> QED
      BY <1>1, <3>1, LeastOfNaturals
  <2>2. k \in 0..MaxEpoch /\ ~ \E f : UpTo(k, f)
    BY <2>1
  <2>3. CASE k = 0
    <3> DEFINE f == [i \in 0..0 |-> Genesis[a]]
    <3>1. f = [i \in 0..0 |-> IF i = 0 THEN Genesis[a] ELSE Next(f[i - 1])]
      OBVIOUS
    <3>2. UpTo(0, f)
      BY <3>1
    <3> HIDE DEF f, UpTo
    <3> QED
      BY <2>2, <2>3, <3>2
  <2>4. CASE k # 0
    <3>1. k - 1 \in 0..MaxEpoch /\ k - 1 \notin Missing
      <4> HIDE DEF Missing
      <4> QED
        BY <1>0, <2>1, <2>2, <2>4
    <3>2. PICK g : UpTo(k - 1, g)
      BY <3>1
    <3> DEFINE f == [i \in 0..k |-> IF i = k THEN Next(g[k - 1]) ELSE g[i]]
    <3>3. ASSUME NEW i \in 0..k
          PROVE  f[i] = IF i = 0 THEN Genesis[a] ELSE Next(f[i - 1])
      <4> HIDE DEF k
      <4>1. CASE i = k
        BY <1>0, <2>2, <2>4, <4>1
      <4>2. CASE i # k
        <5>1. i \in 0..(k - 1) /\ f[i] = g[i]
          BY <1>0, <2>2, <4>2
        <5>2. g[i] = IF i = 0 THEN Genesis[a] ELSE Next(g[i - 1])
          BY <3>2, <5>1
        <5>3. i # 0 => f[i - 1] = g[i - 1]
          BY <1>0, <2>2, <5>1
        <5> HIDE DEF f
        <5> QED
          BY <5>1, <5>2, <5>3
      <4> QED
        BY <4>1, <4>2
    <3>4. f = [i \in 0..k |-> f[i]]
      OBVIOUS
    <3> HIDE DEF f, k
    <3>5. UpTo(k, f)
      BY <3>3, <3>4
    <3> QED
      BY <2>2, <3>5
  <2> QED
    BY <2>3, <2>4
<1>2. MaxEpoch \in 0..MaxEpoch /\ MaxEpoch \notin Missing
  <2> HIDE DEF Missing
  <2> QED
    BY <1>0, <1>1
<1>3. \E f : UpTo(MaxEpoch, f)
  BY <1>2
<1>4. Ceilings(a) = CHOOSE f : UpTo(MaxEpoch, f)
  BY DEF Ceilings, Next
<1>5. UpTo(MaxEpoch, Ceilings(a))
  <2> HIDE DEF UpTo
  <2> QED
    BY <1>3, <1>4
<1> QED
  BY <1>5 DEF Next

\* A tenth more of a natural, or several, is a natural and no less.
LEMMA CeilingRises ==
  ASSUME NEW c \in Nat, NEW d \in Nat
  PROVE  /\ ((10 + MaxDrift) * c) \div 10 \in Nat
         /\ c <= ((10 + MaxDrift) * c) \div 10
         /\ c <= d => ((10 + MaxDrift) * c) \div 10 <= ((10 + MaxDrift) * d) \div 10
         /\ 10 * d <= (10 + MaxDrift) * c => d <= ((10 + MaxDrift) * c) \div 10
<1> PICK m \in Nat : m = MaxDrift
  BY ScoreAssumption DEF ScoreAssumption
<1>1. (10 + m) * c = 10 * c + m * c /\ m * c \in Nat /\ (10 + m) * c \in Nat /\ (10 + m) * d \in Nat
  OBVIOUS
<1>2. c <= d => (10 + m) * c <= (10 + m) * d
  <2> SUFFICES ASSUME c <= d
               PROVE  (10 + m) * c <= (10 + m) * d
    OBVIOUS
  <2>1. c * (10 + m) <= d * (10 + m)
    BY TimesIsMonotone
  <2> QED
    BY <2>1
<1> PICK x, y \in Nat : x = (10 + m) * c /\ y = (10 + m) * d
  BY <1>1
<1>3. 10 * c <= x /\ (c <= d => x <= y)
  BY <1>1, <1>2
<1>4. x \div 10 \in Nat /\ c <= x \div 10 /\ (c <= d => x \div 10 <= y \div 10) /\ (10 * d <= x => d <= x \div 10)
  BY <1>3
<1> QED
  BY <1>4

\* They are naturals, and rise.
LEMMA CeilingsRise ==
  ASSUME NEW a \in Agent
  PROVE  /\ Ceilings(a)[0] = Genesis[a]
         /\ \A k \in 0..MaxEpoch : Ceilings(a)[k] \in Nat
         /\ \A k \in 1..MaxEpoch : Ceilings(a)[k] = ((10 + MaxDrift) * Ceilings(a)[k - 1]) \div 10
         /\ \A k, l \in 0..MaxEpoch : k <= l => Ceilings(a)[k] <= Ceilings(a)[l]
<1> PICK c : c = Ceilings(a)
  OBVIOUS
<1> PICK n \in Nat : n = MaxEpoch
  BY ScoreAssumption DEF ScoreAssumption
<1>1. c[0] = Genesis[a] /\ \A k \in 1..n : c[k] = ((10 + MaxDrift) * c[k - 1]) \div 10
  <2>1. \A k \in 0..n : c[k] = IF k = 0 THEN Genesis[a] ELSE ((10 + MaxDrift) * c[k - 1]) \div 10
    BY CeilingsExist
  <2> QED
    BY <2>1
<1>2. Genesis[a] \in Nat
  BY ScoreAssumption DEF ScoreAssumption
<1>3. \A k \in 0..n : c[k] \in Nat
  <2> DEFINE Off == {k \in 0..n : c[k] \notin Nat}
  <2> SUFFICES ASSUME Off # {}
               PROVE  FALSE
    OBVIOUS
  <2>1. PICK k \in Off : \A y \in Off : k <= y
    <3>1. Off \in SUBSET Nat
      OBVIOUS
    <3> HIDE DEF Off
    <3> QED
      BY <3>1, LeastOfNaturals
  <2>2. k \in 0..n /\ c[k] \notin Nat
    OBVIOUS
  <2>3. k # 0
    BY <1>1, <1>2, <2>2
  <2>4. k - 1 \in 0..n /\ k \in 1..n /\ ~ (k <= k - 1)
    BY <2>2, <2>3
  <2>5. c[k - 1] \in Nat
    BY <2>1, <2>4
  <2> QED
    BY <1>1, <2>2, <2>4, <2>5, CeilingRises
<1>4. \A k, l \in 0..n : k <= l => c[k] <= c[l]
  <2> SUFFICES ASSUME NEW k \in 0..n
               PROVE  \A l \in 0..n : k <= l => c[k] <= c[l]
    OBVIOUS
  <2> DEFINE Off == {l \in 0..n : k <= l /\ ~ (c[k] <= c[l])}
  <2> SUFFICES ASSUME Off # {}
               PROVE  FALSE
    OBVIOUS
  <2>1. PICK l \in Off : \A y \in Off : l <= y
    <3>1. Off \in SUBSET Nat
      OBVIOUS
    <3> HIDE DEF Off
    <3> QED
      BY <3>1, LeastOfNaturals
  <2>2. l \in 0..n /\ k <= l /\ ~ (c[k] <= c[l])
    OBVIOUS
  <2>3. l # k
    BY <1>3, <2>2
  <2>4. l - 1 \in 0..n /\ l \in 1..n /\ k <= l - 1 /\ ~ (l <= l - 1)
    BY <2>2, <2>3
  <2>5. c[k] <= c[l - 1]
    BY <2>1, <2>4
  <2>6. c[k] \in Nat /\ c[l - 1] \in Nat /\ c[l] \in Nat
    BY <1>3, <2>2, <2>4
  <2>7. c[l - 1] <= c[l]
    BY <1>1, <2>4, <2>6, CeilingRises
  <2> QED
    BY <2>2, <2>5, <2>6, <2>7
<1> QED
  BY <1>1, <1>3, <1>4

LEMMA GrowthIsBounded ==
  ASSUME NEW new \in Nat, NEW old \in Nat, 10 * (new - old) <= MaxDrift * old
  PROVE  10 * new <= (10 + MaxDrift) * old
<1> PICK m \in Nat : m = MaxDrift
  BY ScoreAssumption DEF ScoreAssumption
<1>1. (10 + m) * old = 10 * old + m * old /\ m * old \in Nat
  OBVIOUS
<1> PICK grown \in Nat : grown = m * old
  BY <1>1
<1>2. 10 * (new - old) <= grown
  OBVIOUS
<1>3. 10 * new <= 10 * old + grown
  BY <1>2
<1> QED
  BY <1>1, <1>3

\* One ceiling after k moves, of the p there was time for.
LEMMA CeilingOfMove ==
  ASSUME NEW a \in Agent, NEW k \in Nat, NEW p \in Nat, k <= p, p + 1 <= MaxEpoch
  PROVE  /\ Ceilings(a)[k] \in Nat /\ Ceilings(a)[k + 1] \in Nat /\ Ceilings(a)[1 + p] \in Nat
         /\ Ceilings(a)[k + 1] = ((10 + MaxDrift) * Ceilings(a)[k]) \div 10
         /\ Ceilings(a)[k + 1] <= Ceilings(a)[1 + p]
<1> PICK c : c = Ceilings(a)
  OBVIOUS
<1> PICK n \in Nat : n = MaxEpoch
  BY ScoreAssumption DEF ScoreAssumption
<1>1. /\ k \in 0..n /\ k + 1 \in 1..n /\ k + 1 \in 0..n /\ 1 + p \in 0..n
      /\ (k + 1) - 1 = k /\ k + 1 <= 1 + p
  OBVIOUS
<1>2. c[k] \in Nat /\ c[k + 1] \in Nat /\ c[1 + p] \in Nat /\ c[k + 1] <= c[1 + p]
  BY <1>1, CeilingsRise
<1>3. c[k + 1] = ((10 + MaxDrift) * c[k]) \div 10
  BY <1>1, CeilingsRise
<1> QED
  BY <1>2, <1>3

\* A score within the drift of a baseline is within a ceiling more.
LEMMA CeilingIsNotPassed ==
  ASSUME NEW a \in Agent, NEW k \in Nat, NEW p \in Nat, k <= p, p + 1 <= MaxEpoch,
         NEW new \in Nat, NEW old \in Nat, old <= Ceilings(a)[k], 10 * (new - old) <= MaxDrift * old
  PROVE  new <= Ceilings(a)[k + 1] /\ new <= Ceilings(a)[1 + p]
<1>1. /\ Ceilings(a)[k] \in Nat /\ Ceilings(a)[k + 1] \in Nat /\ Ceilings(a)[1 + p] \in Nat
      /\ Ceilings(a)[k + 1] = ((10 + MaxDrift) * Ceilings(a)[k]) \div 10
      /\ Ceilings(a)[k + 1] <= Ceilings(a)[1 + p]
  BY CeilingOfMove
<1>2. 10 * new <= (10 + MaxDrift) * old
  BY GrowthIsBounded
<1> PICK c \in Nat : c = Ceilings(a)[k]
  BY <1>1
<1>3. old <= c
  OBVIOUS
<1>4. /\ ((10 + MaxDrift) * old) \div 10 \in Nat
      /\ new <= ((10 + MaxDrift) * old) \div 10
      /\ ((10 + MaxDrift) * old) \div 10 <= ((10 + MaxDrift) * c) \div 10
  BY <1>2, <1>3, CeilingRises
<1>5. \A x, y, z \in Nat : new <= z /\ z <= x /\ x <= y => new <= x /\ new <= y
  OBVIOUS
<1> QED
  BY <1>1, <1>4, <1>5

\* The last of a sequence one has been added to.
LEMMA TopOfAppend ==
  ASSUME NEW S, NEW s \in Seq(S), NEW x
  PROVE  /\ Append(s, x) \in Seq(S \cup {x}) /\ Append(s, x) # <<>>
         /\ Top(Append(s, x)) = x
<1>1. s \in Seq(S \cup {x}) /\ x \in S \cup {x}
  BY SeqMonotonic
<1> DEFINE T == S \cup {x}
<1> HIDE DEF T
<1>2. s \in Seq(T) /\ x \in T
  BY <1>1 DEF T
<1>3. Append(s, x) \in Seq(T) /\ Append(s, x) # <<>> /\ Top(Append(s, x)) = x
  BY <1>2, AppendProperties DEF Top
<1> QED
  BY <1>3 DEF T

LEMMA TopOfConcatenation ==
  ASSUME NEW S, NEW s \in Seq(S), NEW x \in S
  PROVE  Top(s \o <<x>>) = x
<1>1. <<x>> \in Seq(S) /\ Len(<<x>>) = 1 /\ <<x>>[1] = x
  OBVIOUS
<1> PICK t : t = <<x>>
  OBVIOUS
<1>2. Len(s) \in Nat /\ Len(s \o t) = Len(s) + 1 /\ (s \o t)[Len(s) + 1] = t[1]
  BY <1>1, ConcatProperties, LenProperties
<1> QED
  BY <1>1, <1>2 DEF Top

\* A history ends with the proposal.
LEMMA HistoryEndsNow ==
  ASSUME NEW S, signed \in Seq(S), NEW a, NEW s, NEW epoch
  PROVE  Top(History(a, s, epoch)).score = s[a]
<1> DEFINE since == {i \in DOMAIN signed : a \in DOMAIN signed[i].scores}
           length == Cardinality(since)
           seen(i) == signed[Len(signed) - length + i]
           Entry(i) == [epoch |-> seen(i).epoch, score |-> seen(i).scores[a]]
           past == [i \in 1..length |-> Entry(i)]
           now == [epoch |-> epoch, score |-> s[a]]
           All == {Entry(i) : i \in 1..length} \cup {now}
<1>1. length \in Nat
  <2>1. Len(signed) \in Nat /\ DOMAIN signed = 1..Len(signed)
    BY LenProperties
  <2>2. IsFiniteSet(DOMAIN signed)
    BY <2>1, FS_Interval
  <2>3. since \subseteq DOMAIN signed
    OBVIOUS
  <2> HIDE DEF since
  <2> QED
    BY <2>2, <2>3, FS_Subset, FS_CardinalityType
<1>2. History(a, s, epoch) = past \o <<now>>
  BY DEF History
<1>3. now.score = s[a]
  OBVIOUS
<1> HIDE DEF length, now, Entry
<1>4. past \in Seq(All) /\ now \in All
  <2>1. \A i \in 1..length : Entry(i) \in All
    OBVIOUS
  <2> HIDE DEF All
  <2> QED
    BY <1>1, <2>1 DEF All
<1> HIDE DEF past, All
<1>5. Top(past \o <<now>>) = now
  BY <1>4, TopOfConcatenation
<1> QED
  BY <1>2, <1>3, <1>5

-----------------------------------------------------------------------------
(* The epochs are signed one by one; a baseline is as old as its last move *)
(* and no higher than the ceilings of the moves there was time for; and a  *)
(* score signed since is at most one ceiling above it.                     *)

MovesOf(a) == IF baseline[a].epoch = 0 THEN 0 ELSE PeriodsBegun(baseline[a].epoch)

SignedInv ==
  /\ \E S : signed \in Seq(S)
  /\ signed # <<>>
  /\ Now.epoch \in 1..MaxEpoch
  /\ DOMAIN Now.scores \subseteq Agent
  /\ \A a \in DOMAIN Now.scores : Now.scores[a] \in Nat

BaselineInv ==
  /\ DOMAIN baseline = Agent
  /\ \A a \in Agent : /\ baseline[a].score \in Nat /\ baseline[a].epoch \in 0..Now.epoch
                       /\ baseline[a].score <= Ceilings(a)[MovesOf(a)]

ClimbInv ==
  \A a \in DOMAIN Now.scores :
    /\ Now.epoch = 1 => Now.scores[a] <= Ceilings(a)[0]
    /\ Now.epoch > 1 /\ baseline[a].epoch < Now.epoch => Now.scores[a] <= Ceilings(a)[MovesOf(a) + 1]

ScoreInv == SignedInv /\ BaselineInv /\ ClimbInv /\ InflationIsBounded

\* There was time for fewer moves than epochs, so each has its ceiling.
LEMMA MovesAreInTime ==
  ASSUME SignedInv, BaselineInv, NEW a \in Agent
  PROVE  /\ MovesOf(a) \in Nat /\ MovesOf(a) <= PeriodsBegun(Now.epoch)
         /\ PeriodsBegun(Now.epoch) \in 0..(Now.epoch - 1)
<1> PICK e, b \in Nat : e = Now.epoch /\ b = baseline[a].epoch
  BY DEF SignedInv, BaselineInv
<1>1. e # 0 /\ b <= e
  BY DEF SignedInv, BaselineInv
<1>2. PeriodsBegun(e) \in 0..(e - 1)
  BY <1>1, PeriodsAreCounted
<1>3. b # 0 => PeriodsBegun(b) \in Nat /\ PeriodsBegun(b) <= PeriodsBegun(e)
  BY <1>1, PeriodsAreCounted
<1>4. MovesOf(a) = IF b = 0 THEN 0 ELSE PeriodsBegun(b)
  BY DEF MovesOf
<1> QED
  BY <1>2, <1>3, <1>4

LEMMA ScoreInitially ==
  ASSUME ScoreInit
  PROVE  ScoreInv
<1> PICK first : first = [epoch |-> 1, at |-> 0, scores |-> [a \in Present(1) |-> Genesis[a]], green |-> {}]
  OBVIOUS
<1>1. signed = <<first>> /\ baseline = [a \in Agent |-> [score |-> Genesis[a], epoch |-> 0]]
  BY DEF ScoreInit
<1>2. /\ first.epoch = 1 /\ DOMAIN first.scores \subseteq Agent
      /\ \A a \in DOMAIN first.scores : first.scores[a] = Genesis[a]
  BY DEF Present
<1>3. Now = first /\ signed \in Seq({first}) /\ signed # <<>>
  BY <1>1 DEF Now, Top
<1>4. \A a \in Agent : Genesis[a] \in Nat
  BY ScoreAssumption DEF ScoreAssumption
<1> PICK n \in Nat \ {0} : n = MaxEpoch
  BY ScoreAssumption DEF ScoreAssumption
<1>5. SignedInv
  <2>1. \E S : signed \in Seq(S)
    BY <1>3
  <2> QED
    BY <1>2, <1>3, <1>4, <2>1 DEF SignedInv
<1>6. BaselineInv
  <2>1. ASSUME NEW a \in Agent
        PROVE  /\ baseline[a].score = Genesis[a] /\ baseline[a].epoch = 0 /\ MovesOf(a) = 0
               /\ Ceilings(a)[0] = Genesis[a]
    BY <1>1, CeilingsRise DEF MovesOf
  <2> QED
    BY <1>1, <1>2, <1>3, <1>4, <2>1 DEF BaselineInv
<1>7. ASSUME NEW a \in DOMAIN Now.scores
      PROVE  Now.scores[a] <= Ceilings(a)[0] /\ Now.scores[a] <= Ceilings(a)[1 + PeriodsBegun(Now.epoch - 1)]
  <2> PICK g \in Nat : g = Genesis[a] /\ Now.scores[a] = g
    BY <1>2, <1>3, <1>4
  <2> PICK m : m = 1 + PeriodsBegun(Now.epoch - 1)
    OBVIOUS
  <2>1. m \in 0..n
    <3>1. Now.epoch - 1 = 0
      BY <1>2, <1>3
    <3> QED
      BY <3>1, PeriodsAreCounted
  <2>2. a \in Agent
    BY <1>2, <1>3
  <2> PICK c : c = Ceilings(a)
    OBVIOUS
  <2>3. c[0] = g /\ c[0] <= c[m]
    BY <2>1, <2>2, CeilingsRise
  <2> QED
    BY <2>3
<1>8. ClimbInv
  BY <1>2, <1>3, <1>7 DEF ClimbInv
<1> QED
  BY <1>5, <1>6, <1>7, <1>8 DEF ScoreInv, InflationIsBounded

\* Signing: every score is at most a ceiling above its baseline.
LEMMA SigningKeepsScores ==
  ASSUME ScoreInv, NEW elapsed, NEW s \in [Present(Now.epoch + 1) -> Score], SignEpoch(s, elapsed)
  PROVE  ScoreInv'
<1> PICK next : next = [epoch |-> Now.epoch + 1, at |-> Now.at + elapsed, scores |-> s,
                        green |-> {a \in High(s) : AgeAllows(a, "GREEN", Now.at + elapsed, Now.epoch + 1)}]
  OBVIOUS
<1>1. /\ signed' = Append(signed, next) /\ baseline' = baseline /\ Now.epoch + 1 <= MaxEpoch
      /\ \A a \in DOMAIN s : DriftAllowed(baseline[a].score, History(a, s, Now.epoch + 1), Now.epoch + 1)
  BY DEF SignEpoch
<1> PICK S : signed \in Seq(S)
  BY DEF ScoreInv, SignedInv
<1> PICK e \in Nat : e = Now.epoch
  BY DEF ScoreInv, SignedInv
<1> PICK n \in Nat : n = MaxEpoch
  BY ScoreAssumption DEF ScoreAssumption
<1>2. next.epoch = e + 1 /\ next.scores = s /\ e # 0 /\ e + 1 <= n
  BY <1>1 DEF ScoreInv, SignedInv
<1>3. signed' \in Seq(S \cup {next}) /\ signed' # <<>> /\ Now' = next
  BY <1>1, TopOfAppend DEF Now, Top
<1>4. DOMAIN s \subseteq Agent /\ \A a \in DOMAIN s : s[a] \in Nat
  BY ScoreAssumption DEF ScoreAssumption, Present
<1>5. SignedInv'
  <2>1. (\E T : signed \in Seq(T))'
    BY <1>3
  <2> QED
    BY <1>2, <1>3, <1>4, <2>1 DEF SignedInv
<1>6. BaselineInv'
  BY <1>1, <1>2, <1>3 DEF ScoreInv, BaselineInv, MovesOf
<1>7. ASSUME NEW a \in DOMAIN s
      PROVE  s[a] <= Ceilings(a)[MovesOf(a) + 1] /\ s[a] <= Ceilings(a)[1 + PeriodsBegun(e)]
  <2> PICK new, old \in Nat : new = s[a] /\ old = baseline[a].score
    BY <1>4 DEF ScoreInv, BaselineInv
  <2> PICK k, p \in Nat : k = MovesOf(a) /\ p = PeriodsBegun(e) /\ k <= p /\ p <= e - 1
    BY <1>4, MovesAreInTime DEF ScoreInv
  <2>1. 10 * (new - old) <= MaxDrift * old
    <3>1. 10 * (Top(History(a, s, Now.epoch + 1)).score - old) <= MaxDrift * old
      BY <1>1 DEF DriftAllowed
    <3>2. Top(History(a, s, Now.epoch + 1)).score = new
      BY HistoryEndsNow
    <3> QED
      BY <3>1, <3>2
  <2>2. k <= p /\ p + 1 <= MaxEpoch /\ a \in Agent
    BY <1>2, <1>4
  <2>3. old <= Ceilings(a)[k]
    BY <1>4 DEF ScoreInv, BaselineInv
  <2> QED
    BY <2>1, <2>2, <2>3, CeilingIsNotPassed
<1>8. ClimbInv'
  <2>1. \A a : MovesOf(a)' = MovesOf(a)
    BY <1>1 DEF MovesOf
  <2> QED
    BY <1>2, <1>3, <1>7, <2>1 DEF ClimbInv
<1>9. InflationIsBounded'
  <2>1. next.epoch - 1 = e
    BY <1>2
  <2> QED
    BY <1>2, <1>3, <1>7, <2>1 DEF InflationIsBounded
<1> QED
  BY <1>5, <1>6, <1>8, <1>9 DEF ScoreInv

\* A rotation: a period has begun since the last, and made room for a ceiling.
LEMMA RotatingKeepsScores ==
  ASSUME ScoreInv, NEW a \in Agent, NEW cosigners, RotateBaseline(a, cosigners)
  PROVE  ScoreInv'
<1>1. /\ a \in DOMAIN Now.scores /\ signed' = signed
      /\ RotationAllowed(a, Now.epoch, baseline[a].epoch, Now.epoch, cosigners)
      /\ baseline' = [baseline EXCEPT ![a] = [score |-> Now.scores[a], epoch |-> Now.epoch]]
  BY DEF RotateBaseline
<1>2. Now' = Now
  BY <1>1 DEF Now
<1>3. DOMAIN baseline = Agent
  BY DEF ScoreInv, BaselineInv
<1> PICK e, b, new \in Nat : e = Now.epoch /\ b = baseline[a].epoch /\ new = Now.scores[a]
  BY <1>1 DEF ScoreInv, SignedInv, BaselineInv
<1> PICK period, n \in Nat : period = MinRotation /\ period # 0 /\ n = MaxEpoch
  BY ScoreAssumption DEF ScoreAssumption
<1>4. e # 0 /\ b <= e /\ e <= n
  BY DEF ScoreInv, SignedInv, BaselineInv
<1>5. b >= 1 => e >= b + period
  BY <1>1 DEF RotationAllowed
<1>6. baseline'[a].score = new /\ baseline'[a].epoch = e
  BY <1>1, <1>3
<1>7. \A x \in Agent : x # a => baseline'[x] = baseline[x]
  BY <1>1, <1>3
<1>8. new <= Ceilings(a)[PeriodsBegun(e)]
  <2> PICK c : c = Ceilings(a)
    OBVIOUS
  <2> PICK k, p \in Nat : k = MovesOf(a) /\ p = PeriodsBegun(e) /\ p <= e - 1
    BY <1>4, MovesAreInTime DEF ScoreInv
  <2>1. CASE e = 1
    <3>1. p = 0
      BY <2>1, PeriodsAreCounted
    <3>2. new <= c[0]
      BY <1>1, <2>1 DEF ScoreInv, ClimbInv
    <3> QED
      BY <3>1, <3>2
  <2>2. CASE e # 1
    <3>1. b < e /\ e > 1
      BY <1>4, <1>5, <2>2
    <3>2. new <= c[k + 1]
      BY <1>1, <3>1 DEF ScoreInv, ClimbInv
    <3>3. k + 1 <= p
      <4>1. CASE b = 0
        <5>1. k = 0
          BY <4>1 DEF MovesOf
        <5>2. PeriodsBegun(2) = 1 /\ PeriodsBegun(2) <= PeriodsBegun(e)
          <6> PICK two \in Nat : two = 2
            OBVIOUS
          <6>1. two <= e
            BY <3>1
          <6>2. PeriodsBegun(two) <= PeriodsBegun(e)
            BY <6>1, PeriodsAreCounted
          <6> QED
            BY <6>2, PeriodsAreCounted
        <5> QED
          BY <5>1, <5>2
      <4>2. CASE b # 0
        <5>1. k = PeriodsBegun(b)
          BY <4>2 DEF MovesOf
        <5>2. b + period \in Nat /\ b + period <= e
          BY <1>5, <4>2
        <5>3. PeriodsBegun(b + period) = k + 1 /\ PeriodsBegun(b + period) <= p
          BY <5>1, <5>2, PeriodsAreCounted
        <5> QED
          BY <5>3
      <4> QED
        BY <4>1, <4>2
    <3>4. k + 1 \in 0..n /\ p \in 0..n
      BY <1>4, <3>3
    <3>5. c[k + 1] \in Nat /\ c[p] \in Nat /\ c[k + 1] <= c[p]
      BY <3>3, <3>4, CeilingsRise
    <3> QED
      BY <3>2, <3>5
  <2> QED
    BY <2>1, <2>2
<1>9. MovesOf(a)' = PeriodsBegun(e) /\ \A x \in Agent : x # a => MovesOf(x)' = MovesOf(x)
  BY <1>4, <1>6, <1>7 DEF MovesOf
<1>10. SignedInv'
  BY <1>1, <1>2 DEF ScoreInv, SignedInv
<1>11. BaselineInv'
  <2>1. DOMAIN baseline' = Agent
    BY <1>1, <1>3
  <2>2. ASSUME NEW x \in Agent
        PROVE  /\ baseline'[x].score \in Nat /\ baseline'[x].epoch \in 0..e
               /\ baseline'[x].score <= Ceilings(x)[MovesOf(x)']
    <3>1. CASE x = a
      <4>1. e \in 0..e
        OBVIOUS
      <4> QED
        BY <1>6, <1>8, <1>9, <3>1, <4>1
    <3>2. CASE x # a
      BY <1>7, <1>9, <3>2 DEF ScoreInv, BaselineInv
    <3> QED
      BY <3>1, <3>2
  <2>3. e = Now.epoch'
    BY <1>2
  <2> QED
    BY <2>1, <2>2, <2>3 DEF BaselineInv
<1>12. ClimbInv'
  <2>1. ASSUME NEW x \in DOMAIN Now.scores
        PROVE  /\ e = 1 => Now.scores[x] <= Ceilings(x)[0]
               /\ e > 1 /\ baseline'[x].epoch < e => Now.scores[x] <= Ceilings(x)[MovesOf(x)' + 1]
    <3>1. x \in Agent
      BY DEF ScoreInv, SignedInv
    <3>2. CASE x = a
      BY <1>6, <3>2 DEF ScoreInv, ClimbInv
    <3>3. CASE x # a
      BY <1>7, <1>9, <3>1, <3>3 DEF ScoreInv, ClimbInv
    <3> QED
      BY <3>2, <3>3
  <2> QED
    BY <1>2, <2>1 DEF ClimbInv
<1>13. InflationIsBounded'
  BY <1>2 DEF ScoreInv, InflationIsBounded
<1> QED
  BY <1>10, <1>11, <1>12, <1>13 DEF ScoreInv

\* However small the steps, whoever co-signs, and whatever scores a faulty
\* input proposes, a certified score is within one ceiling for each period of
\* MIN_EPOCHS_BETWEEN_BASELINE_ROTATIONS begun before it, and one, of its
\* genesis score.
THEOREM InflationStaysBounded == ScoreInit /\ [][ScoreNext]_scoreVars => []InflationIsBounded
<1>1. ScoreInit => ScoreInv
  BY ScoreInitially
<1>2. ScoreInv /\ [ScoreNext]_scoreVars => ScoreInv'
  <2> SUFFICES ASSUME ScoreInv, [ScoreNext]_scoreVars
               PROVE  ScoreInv'
    OBVIOUS
  <2>1. CASE signed' = signed /\ baseline' = baseline
    <3>1. Now' = Now
      BY <2>1 DEF Now
    <3> QED
      BY <2>1, <3>1 DEF ScoreInv, SignedInv, BaselineInv, ClimbInv, InflationIsBounded, MovesOf
  <2>2. CASE \E e \in Elapsed : \E s \in [Present(Now.epoch + 1) -> Score] : SignEpoch(s, e)
    BY <2>2, SigningKeepsScores
  <2>3. CASE \E a \in Agent, x, y \in Agent \cup Fleet : RotateBaseline(a, <<x, y>>)
    BY <2>3, RotatingKeepsScores
  <2>4. CASE \E a \in Agent : ActOn(a)
    BY <2>1, <2>4 DEF ActOn
  <2> QED
    BY <2>1, <2>2, <2>3, <2>4 DEF ScoreNext, scoreVars
<1>3. ScoreInv => InflationIsBounded
  BY DEF ScoreInv
<1> QED
  BY <1>1, <1>2, <1>3, PTL

-----------------------------------------------------------------------------
(* What is stored while a table is copied.  Between a row's insertion and  *)
(* the second count the copy's tally may be one behind; then the count has *)
(* grown since the first, by that row at least.                            *)

Rows == LiveRows \cup ToSet(OldTable)

RowsInv ==
  /\ table \in Seq(Rows)
  /\ \A i, j \in DOMAIN table : table[i].tx.sig = table[j].tx.sig => i = j

TallyInv ==
  /\ backfill.step \in {"count", "insert", "recount"}
  /\ backfill.next \in Nat \ {0} /\ backfill.before \in Nat /\ backfill.written \in Nat /\ backfill.added \in Nat
  /\ backfill = [step |-> backfill.step, next |-> backfill.next, before |-> backfill.before,
                 written |-> backfill.written, added |-> backfill.added]
  /\ \A i \in 1..(backfill.next - 1) : Accounted(OldTable[i])
  /\ backfill.step # "recount" => backfill.written >= backfill.added
  /\ backfill.step # "count" => backfill.before <= RowCount(OldTable[backfill.next].agent)
  /\ backfill.step = "recount" =>
       /\ Accounted(OldTable[backfill.next])
       /\ \/ backfill.written >= backfill.added
          \/ backfill.written + 1 >= backfill.added /\ backfill.before < RowCount(OldTable[backfill.next].agent)

StoreInv == RowsInv /\ TallyInv /\ BaselinesAreOnRecord

LEMMA OldRowsAreRows ==
  ASSUME NEW i \in Nat \ {0}, i <= Len(OldTable)
  PROVE  OldTable[i] \in Rows
<1>1. OldTable \in Seq(ToSet(OldTable))
  BY StoreAssumption DEF StoreAssumption
<1>2. DOMAIN OldTable = 1..Len(OldTable) /\ Len(OldTable) \in Nat
  BY <1>1, LenProperties
<1>3. i \in DOMAIN OldTable
  BY <1>2
<1> QED
  BY <1>3 DEF Rows, ToSet

LEMMA RowsAreCounted ==
  ASSUME RowsInv, NEW a
  PROVE  /\ {i \in DOMAIN table : table[i].agent = a} \subseteq 1..Len(table) /\ Len(table) \in Nat
         /\ IsFiniteSet({i \in DOMAIN table : table[i].agent = a})
         /\ RowCount(a) \in Nat
<1>1. DOMAIN table = 1..Len(table) /\ Len(table) \in Nat
  BY LenProperties DEF RowsInv
<1>2. IsFiniteSet(1..Len(table))
  BY <1>1, FS_Interval
<1>3. {i \in DOMAIN table : table[i].agent = a} \subseteq 1..Len(table)
  BY <1>1
<1>4. IsFiniteSet({i \in DOMAIN table : table[i].agent = a})
  BY <1>2, <1>3, FS_Subset
<1> QED
  BY <1>1, <1>3, <1>4, FS_CardinalityType DEF RowCount

\* One row more, of a transaction that is not there yet: its agent has one more
\* and no other has fewer.
LEMMA RowIsAdded ==
  ASSUME RowsInv, NEW row \in Rows, ~ Stored(row.tx), table' = Append(table, row)
  PROVE  /\ RowsInv'
         /\ \A r : Accounted(r) => Accounted(r)'
         /\ Accounted(row)'
         /\ RowCount(row.agent)' = RowCount(row.agent) + 1
         /\ \A a : a # row.agent => RowCount(a)' = RowCount(a)
<1> PICK n \in Nat : n = Len(table)
  BY LenProperties DEF RowsInv
<1> PICK more : more = Append(table, row)
  OBVIOUS
<1>1. /\ table \in Seq(Rows) /\ more \in Seq(Rows) /\ Len(more) = n + 1
      /\ \A i \in 1..n : more[i] = table[i]
      /\ more[n + 1] = row
  BY AppendProperties DEF RowsInv
<1>2. DOMAIN table = 1..n /\ DOMAIN more = 1..(n + 1)
  BY <1>1, LenProperties
<1>3. \A i \in 1..n : table[i] \in Rows
  BY <1>1, ElementOfSeq
<1>4. \A i \in 1..n : table[i].tx.sig # row.tx.sig
  BY <1>2, <1>3, StoreAssumption DEF StoreAssumption, Rows, Stored
<1>5. ASSUME NEW i \in 1..(n + 1), NEW j \in 1..(n + 1), more[i].tx.sig = more[j].tx.sig
      PROVE  i = j
  <2>1. CASE i \in 1..n /\ j \in 1..n
    BY <1>1, <1>2, <1>5, <2>1 DEF RowsInv
  <2>2. CASE i = n + 1 /\ j \in 1..n
    BY <1>1, <1>4, <1>5, <2>2
  <2>3. CASE i \in 1..n /\ j = n + 1
    BY <1>1, <1>4, <1>5, <2>3
  <2>4. i \in 1..n \/ i = n + 1
    OBVIOUS
  <2>5. j \in 1..n \/ j = n + 1
    OBVIOUS
  <2> QED
    BY <2>1, <2>2, <2>3, <2>4, <2>5
<1>6. table' = more
  OBVIOUS
<1>7. /\ \A i \in 1..n : i \in 1..(n + 1)
      /\ n + 1 \in 1..(n + 1) /\ n + 1 \notin 1..n
  OBVIOUS
<1>8. \A r : Accounted(r) => Accounted(r)'
  BY <1>1, <1>2, <1>6, <1>7 DEF Accounted, ToSet
<1>9. Accounted(row)'
  BY <1>1, <1>2, <1>6, <1>7 DEF Accounted, ToSet
<1>10. RowsInv'
  BY <1>1, <1>2, <1>5, <1>6 DEF RowsInv
<1>11. RowCount(row.agent)' = RowCount(row.agent) + 1
  <2> PICK old : old = {i \in DOMAIN table : table[i].agent = row.agent}
    OBVIOUS
  <2>1. {i \in DOMAIN more : more[i].agent = row.agent} = old \cup {n + 1}
    <3>1. \A i \in 1..(n + 1) : i \in 1..n \/ i = n + 1
      OBVIOUS
    <3> QED
      BY <1>1, <1>2, <1>7, <3>1
  <2>2. IsFiniteSet(old) /\ n + 1 \notin old
    BY <1>2, <1>7, RowsAreCounted
  <2>3. Cardinality(old \cup {n + 1}) = Cardinality(old) + 1
    BY <2>2, FS_AddElement
  <2> QED
    BY <1>6, <2>1, <2>3 DEF RowCount
<1>12. ASSUME NEW a, a # row.agent PROVE RowCount(a)' = RowCount(a)
  <2>1. {i \in DOMAIN more : more[i].agent = a} = {i \in DOMAIN table : table[i].agent = a}
    <3>1. \A i \in 1..(n + 1) : i \in 1..n \/ i = n + 1
      OBVIOUS
    <3> QED
      BY <1>1, <1>2, <1>7, <1>12, <3>1
  <2> QED
    BY <1>6, <2>1 DEF RowCount
<1> QED
  BY <1>8, <1>9, <1>10, <1>11, <1>12

\* The indexer stores a row beside the copy.
LEMMA InsertKeepsStore ==
  ASSUME StoreInv, NEW row \in LiveRows, Insert(row)
  PROVE  StoreInv'
<1>1. /\ ~ Stored(row.tx) /\ table' = Append(table, row) /\ row \in Rows
      /\ backfill' = backfill /\ latest' = latest /\ history' = history
  BY DEF Insert, savedVars, Rows
<1>2. /\ RowsInv' /\ \A r : Accounted(r) => Accounted(r)'
      /\ RowCount(row.agent)' = RowCount(row.agent) + 1
      /\ \A a : a # row.agent => RowCount(a)' = RowCount(a)
  BY <1>1, RowIsAdded DEF StoreInv
<1>3. TallyInv'
  <2> PICK old, a : old = OldTable[backfill.next] /\ a = old.agent
    OBVIOUS
  <2> PICK n, m, b \in Nat : n = RowCount(a) /\ m = RowCount(a)' /\ b = backfill.before /\ n <= m
    <3>1. RowCount(a) \in Nat /\ RowCount(row.agent) \in Nat
      BY RowsAreCounted DEF StoreInv
    <3> QED
      BY <1>2, <3>1 DEF StoreInv, TallyInv
  <2>1. (b <= n => b <= m) /\ (b < n => b < m)
    OBVIOUS
  <2> QED
    BY <1>1, <1>2, <2>1 DEF StoreInv, TallyInv
<1>4. BaselinesAreOnRecord'
  BY <1>1 DEF StoreInv, BaselinesAreOnRecord
<1> QED
  BY <1>2, <1>3, <1>4 DEF StoreInv

LEMMA CountKeepsStore ==
  ASSUME StoreInv, table' = table, latest' = latest, history' = history, backfill.step = "count",
         backfill' = [backfill EXCEPT !.step = "insert", !.before = RowCount(OldTable[backfill.next].agent)]
  PROVE  StoreInv'
<1> PICK n : n = RowCount(OldTable[backfill.next].agent)
  OBVIOUS
<1>1. /\ backfill'.step = "insert" /\ backfill'.before = n /\ backfill'.next = backfill.next
      /\ backfill'.written = backfill.written /\ backfill'.added = backfill.added
      /\ backfill' = [step |-> backfill'.step, next |-> backfill'.next, before |-> backfill'.before,
                      written |-> backfill'.written, added |-> backfill'.added]
  BY DEF StoreInv, TallyInv
<1>2. n \in Nat /\ n <= n
  <2>1. n \in Nat
    BY RowsAreCounted DEF StoreInv
  <2> QED
    BY <2>1
<1>3. /\ \A r : Accounted(r)' <=> Accounted(r)
      /\ \A a : RowCount(a)' = RowCount(a)
  BY DEF Accounted, RowCount
<1>4. /\ backfill.next \in Nat \ {0} /\ backfill.written \in Nat /\ backfill.added \in Nat
      /\ backfill.written >= backfill.added
  BY DEF StoreInv, TallyInv
<1>5. (\A i \in 1..(backfill.next - 1) : Accounted(OldTable[i]))'
  BY <1>1, <1>3 DEF StoreInv, TallyInv
<1>6. (RowCount(OldTable[backfill.next].agent))' = n
  BY <1>1 DEF RowCount
<1>7. TallyInv'
  BY <1>1, <1>2, <1>4, <1>5, <1>6 DEF TallyInv
<1> QED
  BY <1>7 DEF StoreInv, RowsInv, BaselinesAreOnRecord

\* The copy inserts a row, unless its transaction is there: then it is the row
\* itself or another agent's.
LEMMA CopyKeepsStore ==
  ASSUME StoreInv, latest' = latest, history' = history, backfill.step = "insert", backfill.next <= Len(OldTable),
         NEW row, row = OldTable[backfill.next],
         table' = IF Stored(row.tx) THEN table ELSE Append(table, row),
         backfill' = [backfill EXCEPT !.step = "recount", !.added = IF Stored(row.tx) THEN @ ELSE @ + 1]
  PROVE  StoreInv'
<1> PICK w, d, b, n \in Nat : w = backfill.written /\ d = backfill.added /\ b = backfill.before /\ n = RowCount(row.agent)
  BY RowsAreCounted DEF StoreInv, TallyInv
<1>0. row \in Rows /\ w >= d /\ b <= n
  BY OldRowsAreRows DEF StoreInv, TallyInv
<1>1. /\ backfill'.step = "recount" /\ backfill'.before = b /\ backfill'.next = backfill.next
      /\ backfill'.written = w /\ backfill'.added = (IF Stored(row.tx) THEN d ELSE d + 1)
      /\ backfill' = [step |-> backfill'.step, next |-> backfill'.next, before |-> backfill'.before,
                      written |-> backfill'.written, added |-> backfill'.added]
  BY DEF StoreInv, TallyInv
<1>2. CASE Stored(row.tx)
  <2>1. Accounted(row)
    <3>1. PICK i \in DOMAIN table : table[i].tx.sig = row.tx.sig
      BY <1>2 DEF Stored
    <3>2. table[i] \in Rows
      <4>1. DOMAIN table = 1..Len(table) /\ table \in Seq(Rows)
        BY LenProperties DEF StoreInv, RowsInv
      <4> QED
        BY <4>1, ElementOfSeq
    <3>3. table[i] = row \/ table[i].agent # row.agent
      BY <1>0, <3>1, <3>2, StoreAssumption DEF StoreAssumption, Rows
    <3> QED
      BY <3>1, <3>3 DEF Accounted, ToSet
  <2>2. table' = table /\ backfill'.added = d
    BY <1>1, <1>2
  <2>3. /\ \A r : Accounted(r)' <=> Accounted(r)
        /\ \A a : RowCount(a)' = RowCount(a)
    BY <2>2 DEF Accounted, RowCount
  <2>4. TallyInv'
    BY <1>0, <1>1, <2>1, <2>2, <2>3 DEF StoreInv, TallyInv
  <2> QED
    BY <2>2, <2>4 DEF StoreInv, RowsInv, BaselinesAreOnRecord
<1>3. CASE ~ Stored(row.tx)
  <2>1. table' = Append(table, row) /\ backfill'.added = d + 1
    BY <1>1, <1>3
  <2>2. RowsInv' /\ RowCount(row.agent)' = n + 1 /\ Accounted(row)' /\ \A r : Accounted(r) => Accounted(r)'
    BY <1>0, <1>3, <2>1, RowIsAdded DEF StoreInv
  <2>3. b < n + 1 /\ b <= n + 1 /\ w + 1 >= d + 1 /\ d + 1 \in Nat
    BY <1>0
  <2>4. TallyInv'
    BY <1>1, <2>1, <2>2, <2>3 DEF StoreInv, TallyInv
  <2> QED
    BY <2>2, <2>4 DEF StoreInv, BaselinesAreOnRecord
<1> QED
  BY <1>2, <1>3

LEMMA RecountKeepsStore ==
  ASSUME StoreInv, table' = table, latest' = latest, history' = history, backfill.step = "recount",
         backfill' = [backfill EXCEPT !.step = "count", !.next = @ + 1,
                                      !.written = IF RowCount(OldTable[backfill.next].agent) > backfill.before THEN @ + 1 ELSE @]
  PROVE  StoreInv'
<1> PICK w, d, b, n, x \in Nat : w = backfill.written /\ d = backfill.added /\ b = backfill.before
                              /\ n = RowCount(OldTable[backfill.next].agent) /\ x = backfill.next /\ x # 0
  BY RowsAreCounted DEF StoreInv, TallyInv
<1>1. /\ backfill'.step = "count" /\ backfill'.before = b /\ backfill'.next = x + 1
      /\ backfill'.written = (IF n > b THEN w + 1 ELSE w) /\ backfill'.added = d
      /\ backfill' = [step |-> backfill'.step, next |-> backfill'.next, before |-> backfill'.before,
                      written |-> backfill'.written, added |-> backfill'.added]
  BY DEF StoreInv, TallyInv
<1>2. w >= d \/ (w + 1 >= d /\ b < n)
  BY DEF StoreInv, TallyInv
<1>3. (IF n > b THEN w + 1 ELSE w) >= d /\ (IF n > b THEN w + 1 ELSE w) \in Nat
  BY <1>2
<1>4. \A r : Accounted(r)' <=> Accounted(r)
  BY DEF Accounted
<1>5. \A i \in 1..(x + 1 - 1) : Accounted(OldTable[i])'
  <2>1. \A i \in 1..(x + 1 - 1) : i \in 1..(x - 1) \/ i = x
    OBVIOUS
  <2> QED
    BY <1>4, <2>1 DEF StoreInv, TallyInv
<1>6. TallyInv'
  BY <1>1, <1>3, <1>5 DEF TallyInv
<1> QED
  BY <1>6 DEF StoreInv, RowsInv, BaselinesAreOnRecord

\* The baselines the scoring engine reads are on record, whichever job saved
\* last; and a backfill of several agents beside the indexer stores nothing
\* twice, loses no old row except to another agent's of the same transaction,
\* and reports no row it added as skipped (repository.py,
\* backfill_transactions.py).
THEOREM BaselinesStaySound ==
  BaselineInit /\ [][StoreNext \/ BaselineNext]_baselineVars => []BaselinesAreSound
<1>1. BaselineInit => StoreInv
  <2> SUFFICES ASSUME BaselineInit
               PROVE  StoreInv
    OBVIOUS
  <2>1. table = <<>> /\ latest = {} /\ backfill = [step |-> "count", next |-> 1, before |-> 0, written |-> 0, added |-> 0]
    BY DEF BaselineInit
  <2>2. RowsInv
    BY <2>1 DEF RowsInv
  <2>3. TallyInv
    BY <2>1 DEF TallyInv
  <2> QED
    BY <2>1, <2>2, <2>3 DEF StoreInv, BaselinesAreOnRecord
<1>2. StoreInv /\ [StoreNext \/ BaselineNext]_baselineVars => StoreInv'
  <2> SUFFICES ASSUME StoreInv, [StoreNext \/ BaselineNext]_baselineVars
               PROVE  StoreInv'
    OBVIOUS
  <2>1. CASE \E row \in LiveRows : Insert(row)
    BY <2>1, InsertKeepsStore
  <2>2. CASE BackfillNext
    <3> PICK row : row = OldTable[backfill.next]
      OBVIOUS
    <3>1. latest' = latest /\ history' = history /\ backfill.next <= Len(OldTable)
      BY <2>2 DEF BackfillNext, savedVars
    <3>2. backfill.step \in {"count", "insert", "recount"}
      BY DEF StoreInv, TallyInv
    <3>3. CASE backfill.step = "count"
      <4>1. table' = table /\ backfill' = [backfill EXCEPT !.step = "insert", !.before = RowCount(row.agent)]
        BY <2>2, <3>3 DEF BackfillNext
      <4> QED
        BY <3>1, <3>3, <4>1, CountKeepsStore
    <3>4. CASE backfill.step = "insert"
      <4>1. /\ table' = IF Stored(row.tx) THEN table ELSE Append(table, row)
            /\ backfill' = [backfill EXCEPT !.step = "recount", !.added = IF Stored(row.tx) THEN @ ELSE @ + 1]
        BY <2>2, <3>4 DEF BackfillNext
      <4> QED
        BY <3>1, <3>4, <4>1, CopyKeepsStore
    <3>5. CASE backfill.step = "recount"
      <4>1. /\ table' = table
            /\ backfill' = [backfill EXCEPT !.step = "count", !.next = @ + 1,
                                            !.written = IF RowCount(row.agent) > backfill.before THEN @ + 1 ELSE @]
        BY <2>2, <3>5 DEF BackfillNext
      <4> QED
        BY <3>1, <3>5, <4>1, RecountKeepsStore
    <3> QED
      BY <3>2, <3>3, <3>4, <3>5
  <2>3. CASE BaselineNext
    <3>1. table' = table /\ backfill' = backfill /\ BaselinesAreOnRecord'
      <4>1. CASE \E end \in Ends : Compute(end)
        BY <4>1 DEF Compute, StoreInv, BaselinesAreOnRecord
      <4>2. CASE \E b \in pending : Save(b)
        <5>1. PICK b \in pending : Save(b)
          BY <4>2
        <5>2. latest' = {b} /\ \E h \in history' : h.hash = b.hash /\ h.end = b.end
          BY <5>1 DEF Save, Kept
        <5>3. table' = table /\ backfill' = backfill
          BY <5>1 DEF Save
        <5> QED
          BY <5>2, <5>3 DEF BaselinesAreOnRecord
      <4> QED
        BY <2>3, <4>1, <4>2 DEF BaselineNext
    <3> QED
      BY <3>1 DEF StoreInv, RowsInv, TallyInv, Accounted, RowCount
  <2>4. CASE UNCHANGED baselineVars
    BY <2>4 DEF StoreInv, RowsInv, TallyInv, BaselinesAreOnRecord, Accounted, RowCount, baselineVars
  <2> QED
    BY <2>1, <2>2, <2>3, <2>4 DEF StoreNext
<1>3. StoreInv => BaselinesAreSound
  BY DEF StoreInv, RowsInv, TallyInv, BaselinesAreSound, BackfillIsComplete
<1> QED
  BY <1>1, <1>2, <1>3, PTL
=============================================================================
