------------------------- MODULE ClusterEpochProofs -------------------------
(***************************************************************************)
(* What holds of the parts of a cluster epoch that run beside or after its *)
(* commit-reveal round: the watchdog for any cluster, tracks, thresholds   *)
(* and codes, the aggregator where most contributors agree, the epoch they *)
(* are composed into, the exchange without commitments, the evidence store *)
(* and the agent set.                                                      *)
(***************************************************************************)
EXTENDS ByzantineEpoch, PeerExchange, AgentSet, EvidenceStore,
        FiniteSetTheorems, WellFoundedInduction, TLAPS

Less == {p \in Nat \X Nat : p[1] < p[2]}

\* The sorted loop always has a next node: a non-empty set of node numbers
\* has a least one (n |-> 1..n carries < to the well-founded inclusion).
LEMMA LeastOfNaturals ==
    ASSUME NEW S \in SUBSET Nat, S # {}
    PROVE  Min(S) \in S /\ \A y \in S : Min(S) =< y
<1>1. ASSUME NEW i \in Nat, NEW j \in Nat, i < j
      PROVE  1..i \subseteq 1..j /\ 1..i # 1..j
  <2>1. j \in 1..j /\ j \notin 1..i
    BY <1>1
  <2> QED BY <1>1, <2>1
<1>2. IsWellFoundedOn(Less, Nat)
  <2> SUFFICES ASSUME NEW g \in [Nat -> Nat], \A n \in Nat : <<g[n+1], g[n]>> \in Less
               PROVE  FALSE
    BY DEF IsWellFoundedOn
  <2> DEFINE h == [n \in Nat |-> 1..g[n]]
  <2>1. h \in [Nat -> FiniteSubsetsOf(Nat)]
    <3>1. \A a \in Nat : 1..a \subseteq Nat /\ IsFiniteSet(1..a)
      BY FS_Interval
    <3> QED BY <3>1 DEF FiniteSubsetsOf
  <2>2. ASSUME NEW n \in Nat
        PROVE  <<h[n+1], h[n]>> \in StrictSubsetOrdering(Nat)
    <3>1. n+1 \in Nat
      OBVIOUS
    <3>2. g[n+1] \in Nat /\ g[n] \in Nat /\ g[n+1] < g[n]
      BY <3>1 DEF Less
    <3>3. h[n+1] = 1..g[n+1] /\ h[n] = 1..g[n]
      BY <3>1
    <3> HIDE DEF h
    <3>4. 1..g[n+1] \subseteq 1..g[n] /\ 1..g[n+1] # 1..g[n]
      BY <1>1, <3>2
    <3>5. 1..g[n+1] \in SUBSET Nat /\ 1..g[n] \in SUBSET Nat
      BY <3>2
    <3> QED BY <3>3, <3>4, <3>5 DEF StrictSubsetOrdering
  <2> HIDE DEF h
  <2> QED
    BY <2>1, <2>2, FS_StrictSubsetOrderingWellFounded DEF IsWellFoundedOn
<1>3. PICK x \in S : \A y \in S : ~ (<<y, x>> \in Less)
  BY <1>2, WFMin
<1>4. ASSUME NEW y \in S
      PROVE  x =< y
  <2>1. x \in Nat /\ y \in Nat
    OBVIOUS
  <2>2. ~ (y < x)
    BY <1>3, <2>1 DEF Less
  <2> QED BY <2>1, <2>2
<1> QED
  BY <1>4 DEF Min

-----------------------------------------------------------------------------
\* A counted epoch is one strike more.
LEMMA OneEpochMore ==
    ASSUME NEW E \in SUBSET Epoch, NEW e \in Epoch
    PROVE  /\ Cardinality(E) \in Nat
           /\ e \notin E => Cardinality(E \cup {e}) = Cardinality(E) + 1
<1>1. IsFiniteSet(Epoch)
  BY WatchdogAssumption, FS_Interval DEF Epoch
<1>2. IsFiniteSet(E)
  BY <1>1, FS_Subset
<1> QED
  BY <1>2, FS_CardinalityType, FS_AddElement

\* The loop's next node is one of the flagged, and what is left is a call
\* again or the end of it.
LEMMA NextOfCall ==
    ASSUME call \in Call
    PROVE  /\ NextFlagged \in Node
           /\ AfterNext \in Call \cup {Idle}
<1>1. call.flagged \in (SUBSET Node) \ {{}}
  BY DEF Call
<1>2. call.flagged \in SUBSET Nat /\ call.flagged # {} /\ call.flagged \subseteq Node
  BY <1>1, WatchdogAssumption
<1>3. NextFlagged \in call.flagged
  BY <1>2, LeastOfNaturals DEF NextFlagged
<1>4. ASSUME call.flagged # {NextFlagged}
      PROVE  WithoutNext \in Call
  <2> DEFINE rest == call.flagged \ {NextFlagged}
  <2>1. rest \subseteq Node
    BY <1>2
  <2>2. rest # {}
    BY <1>3, <1>4
  <2> HIDE DEF rest
  <2>3. [call EXCEPT !.flagged = rest] \in Call
    BY <2>1, <2>2 DEF Call
  <2> QED BY <2>3 DEF WithoutNext, rest
<1> QED
  BY <1>2, <1>3, <1>4 DEF AfterNext

\* A strike keeps the count and the epochs of a record together.
LEMMA StruckRecord ==
    ASSUME NEW r \in StrikeRecord, NEW e \in Epoch, e \notin r.epochs,
           r.strikes = Cardinality(r.epochs)
    PROVE  LET q == Struck(r, e) IN
           /\ q \in StrikeRecord
           /\ [q EXCEPT !.challenged = TRUE] \in StrikeRecord
           /\ q.strikes = Cardinality(q.epochs)
           /\ q.challenged = r.challenged
           /\ r.epochs \subseteq q.epochs
           /\ q.epochs \in SUBSET Epoch
<1> DEFINE E == r.epochs \cup {e}
           c == r.strikes + 1
<1>1. E \in SUBSET Epoch /\ c \in Nat /\ c = Cardinality(E)
  BY OneEpochMore DEF StrikeRecord
<1>2. r.epochs \subseteq E
  OBVIOUS
<1>3. Struck(r, e) = [r EXCEPT !.strikes = c, !.epochs = E]
  BY DEF Struck
<1> HIDE DEF E, c
<1> QED
  BY <1>1, <1>2, <1>3 DEF StrikeRecord

LEMMA InitInv == WatchInit => WatchdogInv
<1> SUFFICES ASSUME WatchInit PROVE WatchdogInv
  OBVIOUS
<1>1. Cardinality({}) = 0
  BY FS_EmptySet
<1> QED
  BY <1>1 DEF WatchInit, WatchdogInv, WatchTypeOK, StrikesAreEpochs, ChallengedOnce,
     ChallengeIsDeserved, FilingIsDeserved, StrikeRecord, Call, Filing

LEMMA StrikeInv == WatchdogInv /\ Strike => WatchdogInv'
<1> SUFFICES ASSUME WatchdogInv, Strike PROVE WatchdogInv'
  OBVIOUS
<1> USE DEF WatchdogInv
<1> DEFINE n == NextFlagged
           t == call.track
           e == call.epoch
           r == record[n][t]
           q == Struck(r, e)
<1>1. call \in Call /\ filing = NoFiling /\ call # Idle
  BY DEF WatchTypeOK, Strike
<1>2. t \in Track /\ e \in Epoch /\ e \notin r.epochs
  BY <1>1 DEF Strike, Call
<1>3. n \in Node /\ AfterNext \in Call \cup {Idle}
  BY <1>1, NextOfCall
<1>4. r \in StrikeRecord /\ r.strikes = Cardinality(r.epochs)
  BY <1>2, <1>3 DEF WatchTypeOK, StrikesAreEpochs
<1>5. /\ q \in StrikeRecord
      /\ [q EXCEPT !.challenged = TRUE] \in StrikeRecord
      /\ q.strikes = Cardinality(q.epochs)
      /\ q.challenged = r.challenged
      /\ r.epochs \subseteq q.epochs
      /\ q.epochs \in SUBSET Epoch
  BY <1>2, <1>4, StruckRecord
<1>6. UNCHANGED <<counter, landed>>
  BY DEF Strike
<1>7. ASSUME NEW p \in StrikeRecord, record' = [record EXCEPT ![n][t] = p],
             p.strikes = q.strikes, p.epochs = q.epochs
      PROVE  /\ record' \in [Node -> [Track -> StrikeRecord]]
             /\ record'[n][t] = p
             /\ \A m \in Node, u \in Track :
                   (m # n \/ u # t) => record'[m][u] = record[m][u]
             /\ StrikesAreEpochs'
             /\ ChallengeIsDeserved'
  <2> HIDE DEF n, t, e, q
  <2>1. /\ record' \in [Node -> [Track -> StrikeRecord]]
        /\ record'[n][t] = p
        /\ \A m \in Node, u \in Track :
              (m # n \/ u # t) => record'[m][u] = record[m][u]
    BY <1>2, <1>3, <1>7 DEF WatchTypeOK
  <2>2. StrikesAreEpochs'
    BY <1>5, <1>7, <2>1 DEF StrikesAreEpochs
  <2>3. \A m \in Node, u \in Track : record[m][u].epochs \subseteq record'[m][u].epochs
    BY <1>5, <1>7, <2>1
  <2>4. ChallengeIsDeserved'
    BY <1>6, <2>3 DEF ChallengeIsDeserved, WatchTypeOK, Challenge
  <2> QED BY <2>1, <2>2, <2>4
<1>8. CASE MustChallenge(q, t)
  <2> DEFINE p == [q EXCEPT !.challenged = TRUE]
  <2>1. /\ record' = [record EXCEPT ![n][t] = p]
        /\ filing' = [node |-> n, track |-> t, strikes |-> q.strikes,
                      epochs |-> q.epochs, index |-> counter[n]]
        /\ attempts' = [attempts EXCEPT ![n][t] = attempts[n][t] + 1]
        /\ call' = call
    BY <1>8 DEF Strike
  <2>2. /\ p \in StrikeRecord /\ p.challenged = TRUE
        /\ p.strikes = q.strikes /\ p.epochs = q.epochs /\ q.strikes \in Nat
    BY <1>5 DEF StrikeRecord
  <2>3. q.challenged = FALSE /\ q.strikes >= Threshold[t]
    BY <1>5, <1>8 DEF MustChallenge, StrikeRecord
  <2>4. attempts[n][t] = 0
    BY <1>2, <1>3, <1>5, <2>3 DEF ChallengedOnce
  <2> HIDE DEF n, t, e, r, q, p
  <2>5. /\ record' \in [Node -> [Track -> StrikeRecord]]
        /\ record'[n][t] = p
        /\ \A m \in Node, u \in Track :
              (m # n \/ u # t) => record'[m][u] = record[m][u]
        /\ StrikesAreEpochs'
        /\ ChallengeIsDeserved'
    BY <1>7, <2>1, <2>2
  <2>6. filing' \in Filing
    BY <1>2, <1>3, <1>5, <2>1, <2>2 DEF Filing, WatchTypeOK
  <2>7. WatchTypeOK'
    BY <1>1, <1>2, <1>3, <1>6, <2>1, <2>4, <2>5, <2>6 DEF WatchTypeOK
  <2>8. ChallengedOnce'
    BY <1>2, <1>3, <2>1, <2>2, <2>4, <2>5 DEF ChallengedOnce, WatchTypeOK
  <2>9. FilingIsDeserved'
    BY <1>1, <1>5, <2>1, <2>2, <2>3, <2>5 DEF FilingIsDeserved
  <2> QED BY <2>5, <2>7, <2>8, <2>9
<1>9. CASE ~MustChallenge(q, t)
  <2>1. /\ record' = [record EXCEPT ![n][t] = q]
        /\ call' = AfterNext
        /\ UNCHANGED <<filing, attempts>>
    BY <1>9 DEF Strike
  <2> HIDE DEF n, t, e, r, q
  <2>2. /\ record' \in [Node -> [Track -> StrikeRecord]]
        /\ record'[n][t] = q
        /\ \A m \in Node, u \in Track :
              (m # n \/ u # t) => record'[m][u] = record[m][u]
        /\ StrikesAreEpochs'
        /\ ChallengeIsDeserved'
    BY <1>5, <1>7, <2>1
  <2>3. WatchTypeOK'
    BY <1>3, <1>6, <2>1, <2>2 DEF WatchTypeOK
  <2>4. ChallengedOnce'
    BY <1>5, <2>1, <2>2 DEF ChallengedOnce, r
  <2>5. FilingIsDeserved'
    BY <1>1, <2>1 DEF FilingIsDeserved
  <2> QED BY <2>2, <2>3, <2>4, <2>5
<1> QED
  BY <1>8, <1>9

LEMMA SkipCountedInv == WatchdogInv /\ SkipCounted => WatchdogInv'
<1> SUFFICES ASSUME WatchdogInv, SkipCounted PROVE WatchdogInv'
  OBVIOUS
<1>1. call \in Call /\ call' = AfterNext /\ filing = NoFiling
      /\ UNCHANGED <<record, filing, attempts, counter, landed>>
  BY DEF WatchdogInv, WatchTypeOK, SkipCounted
<1>2. call' \in Call \cup {Idle}
  BY <1>1, NextOfCall
<1> QED
  BY <1>1, <1>2 DEF WatchdogInv, WatchTypeOK, StrikesAreEpochs, ChallengedOnce,
     ChallengeIsDeserved, FilingIsDeserved

\* What a challenge that lands adds to the chain.
LEMMA LandingKeeps ==
    ASSUME WatchdogInv, filing \in Filing, filing # NoFiling, OnChain(filing),
           UNCHANGED <<record, attempts>>
    PROVE  /\ counter' \in [Node -> Nat]
           /\ landed' \subseteq Challenge
           /\ ChallengeIsDeserved'
<1> DEFINE c == [node |-> filing.node, track |-> filing.track,
                 strikes |-> filing.strikes, epochs |-> filing.epochs]
<1>1. c \in Challenge /\ filing.node \in Node
  BY DEF Filing, Challenge
<1>2. counter' = [counter EXCEPT ![filing.node] = counter[filing.node] + 1]
      /\ landed' = landed \cup {c}
  BY DEF OnChain
<1>3. /\ Cardinality(c.epochs) >= Threshold[c.track]
      /\ c.strikes = Cardinality(c.epochs)
      /\ c.epochs \subseteq record[c.node][c.track].epochs
  BY DEF WatchdogInv, FilingIsDeserved
<1> HIDE DEF c
<1> QED
  BY <1>1, <1>2, <1>3 DEF WatchdogInv, WatchTypeOK, ChallengeIsDeserved

LEMMA FilingReturnsInv == WatchdogInv /\ FilingReturns => WatchdogInv'
<1> SUFFICES ASSUME WatchdogInv, FilingReturns PROVE WatchdogInv'
  OBVIOUS
<1>1. /\ filing \in Filing /\ filing # NoFiling /\ OnChain(filing)
      /\ filing' = NoFiling /\ call' = AfterNext /\ UNCHANGED <<record, attempts>>
      /\ call \in Call
  BY DEF WatchdogInv, WatchTypeOK, FilingReturns, FilingIsDeserved
<1>2. call' \in Call \cup {Idle}
  BY <1>1, NextOfCall
<1>3. counter' \in [Node -> Nat] /\ landed' \subseteq Challenge /\ ChallengeIsDeserved'
  BY <1>1, LandingKeeps
<1> QED
  BY <1>1, <1>2, <1>3 DEF WatchdogInv, WatchTypeOK, StrikesAreEpochs, ChallengedOnce,
     FilingIsDeserved

LEMMA FilingRaisesInv == WatchdogInv /\ FilingRaises => WatchdogInv'
<1> SUFFICES ASSUME WatchdogInv, FilingRaises PROVE WatchdogInv'
  OBVIOUS
<1>1. /\ filing \in Filing /\ filing # NoFiling
      /\ OnChain(filing) \/ UNCHANGED <<counter, landed>>
      /\ filing' = NoFiling /\ call' = Idle /\ UNCHANGED <<record, attempts>>
  BY DEF WatchdogInv, WatchTypeOK, FilingRaises
<1>2. counter' \in [Node -> Nat] /\ landed' \subseteq Challenge /\ ChallengeIsDeserved'
  <2>1. CASE OnChain(filing)
    BY <1>1, <2>1, LandingKeeps
  <2>2. CASE UNCHANGED <<counter, landed>>
    BY <1>1, <2>2 DEF WatchdogInv, WatchTypeOK, ChallengeIsDeserved
  <2> QED BY <1>1, <2>1, <2>2
<1> QED
  BY <1>1, <1>2 DEF WatchdogInv, WatchTypeOK, StrikesAreEpochs, ChallengedOnce,
     FilingIsDeserved

LEMMA OtherStepInv ==
    ASSUME WatchdogInv,
           \/ \E t \in Track, e \in Epoch, flagged \in (SUBSET Node) \ {{}} :
                 StartCall(t, e, flagged)
           \/ \E n \in Node : OthersChallenge(n)
           \/ UNCHANGED watchVars
    PROVE  WatchdogInv'
<1>1. ASSUME NEW t \in Track, NEW e \in Epoch, NEW flagged \in (SUBSET Node) \ {{}},
             StartCall(t, e, flagged)
      PROVE  WatchdogInv'
  <2>1. call' \in Call /\ filing = NoFiling
    BY <1>1 DEF StartCall, Call, WatchdogInv, FilingIsDeserved
  <2> QED
    BY <1>1, <2>1 DEF StartCall, WatchdogInv, WatchTypeOK, StrikesAreEpochs,
       ChallengedOnce, ChallengeIsDeserved, FilingIsDeserved
<1>2. ASSUME NEW n \in Node, OthersChallenge(n)
      PROVE  WatchdogInv'
  BY <1>2 DEF OthersChallenge, WatchdogInv, WatchTypeOK, StrikesAreEpochs,
     ChallengedOnce, ChallengeIsDeserved, FilingIsDeserved
<1>3. ASSUME UNCHANGED watchVars
      PROVE  WatchdogInv'
  BY <1>3 DEF watchVars, WatchdogInv, WatchTypeOK, StrikesAreEpochs, ChallengedOnce,
     ChallengeIsDeserved, FilingIsDeserved
<1> QED
  BY <1>1, <1>2, <1>3

\* The inductive invariant holds in every reachable state: in every order of
\* epochs, calls, repeated calls, filings, failures and others' challenges.
THEOREM WatchdogInvariant == WatchSpec => []WatchdogInv
<1>1. WatchdogInv /\ [WatchNext]_watchVars => WatchdogInv'
  BY StrikeInv, SkipCountedInv, FilingReturnsInv, FilingRaisesInv, OtherStepInv DEF WatchNext
<1> QED
  BY InitInv, <1>1, PTL DEF WatchSpec

\* A node is challenged once per track: as many challenges were handed to the
\* chain as its record is marked with, never a second one.
THEOREM OneChallenge == WatchSpec => []ChallengedOnce
<1>1. WatchdogInv => ChallengedOnce
  BY DEF WatchdogInv
<1> QED
  BY WatchdogInvariant, <1>1, PTL

\* Every challenge that lands on chain cites as many distinct flagged epochs
\* as its track's threshold, however calls were cut short or repeated.
THEOREM DeservedChallenge == WatchSpec => []ChallengeIsDeserved
<1>1. WatchdogInv => ChallengeIsDeserved
  BY DEF WatchdogInv
<1> QED
  BY WatchdogInvariant, <1>1, PTL

-----------------------------------------------------------------------------
(* The aggregator.                                                         *)

\* Who is more than half of a set outvotes whoever is left.
LEMMA MajorityCounts ==
  ASSUME NEW D, IsFiniteSet(D), NEW E \in SUBSET D, MoreThanHalf(E, D), NEW A \in SUBSET D
  PROVE  /\ Cardinality(D) \in Nat /\ Cardinality(A) \in Nat
         /\ E \subseteq A => /\ MoreThanHalf(A, D)
                             /\ (Cardinality(D) - 1) \div 2 < Cardinality(A)
         /\ A \cap E = {} => /\ ~ MoreThanHalf(A, D)
                             /\ Cardinality(A) <= (Cardinality(D) - 1) \div 2
<1>1. IsFiniteSet(E) /\ IsFiniteSet(A)
  BY FS_Subset
<1>2. Cardinality(D) \in Nat /\ Cardinality(E) \in Nat /\ Cardinality(A) \in Nat
  BY <1>1, FS_CardinalityType
<1>3. 2 * Cardinality(E) > Cardinality(D)
  BY DEF MoreThanHalf
<1>4. ASSUME E \subseteq A
      PROVE  Cardinality(E) <= Cardinality(A)
  BY <1>1, <1>4, FS_Subset
<1>5. ASSUME A \cap E = {}
      PROVE  Cardinality(A) + Cardinality(E) <= Cardinality(D)
  <2>1. Cardinality(A \cup E) = Cardinality(A) + Cardinality(E)
    <3>1. Cardinality(A \cap E) = 0
      BY <1>5, FS_EmptySet
    <3>2. Cardinality(A \cup E) = Cardinality(A) + Cardinality(E) - Cardinality(A \cap E)
      BY <1>1, FS_Union
    <3> QED
      BY <1>2, <3>1, <3>2
  <2>2. Cardinality(A \cup E) <= Cardinality(D)
    BY FS_Subset
  <2> QED
    BY <2>1, <2>2
<1> QED
  BY <1>2, <1>3, <1>4, <1>5 DEF MoreThanHalf

\* The lower median of a function most of whose values are v is v: no
\* minority moves it, however far out its values are.
LEMMA MedianOfMajority ==
  ASSUME NEW D, IsFiniteSet(D), NEW f \in [D -> Int], NEW v \in Int,
         MoreThanHalf({n \in D : f[n] = v}, D)
  PROVE  LowerMedian(f) = v
<1> DEFINE E == {n \in D : f[n] = v}
           rank == (Cardinality(D) - 1) \div 2
           Below(w) == {n \in D : f[n] < w}
           UpTo(w) == {n \in D : f[n] <= w}
<1>1. /\ \A A \in SUBSET D : E \subseteq A => rank < Cardinality(A)
      /\ \A A \in SUBSET D : A \cap E = {} => Cardinality(A) <= rank
  BY MajorityCounts
<1>2. \A w \in Int : RanksAt(f, w, rank) <=>
        Cardinality(Below(w)) <= rank /\ rank < Cardinality(UpTo(w))
  BY DEF RanksAt
<1>3. Cardinality(D) \in Nat /\ rank \in Int
  BY FS_CardinalityType
<1>4. \A w \in Int : Cardinality(Below(w)) \in Nat /\ Cardinality(UpTo(w)) \in Nat
  <2>1. TAKE w \in Int
  <2>2. IsFiniteSet(Below(w)) /\ IsFiniteSet(UpTo(w))
    BY FS_Subset
  <2> QED
    BY <2>2, FS_CardinalityType
<1>5. RanksAt(f, v, rank)
  <2>1. E \subseteq UpTo(v) /\ Below(v) \cap E = {} /\ UpTo(v) \in SUBSET D /\ Below(v) \in SUBSET D
    OBVIOUS
  <2> HIDE DEF E, UpTo, Below, rank
  <2> QED
    BY <1>1, <1>2, <2>1
<1>6. ASSUME NEW w \in Int, RanksAt(f, w, rank)
      PROVE  w = v
  <2>1. CASE w < v
    <3>1. UpTo(w) \cap E = {} /\ UpTo(w) \in SUBSET D
      BY <2>1
    <3> HIDE DEF E, UpTo, Below, rank
    <3>2. Cardinality(UpTo(w)) <= rank
      BY <1>1, <3>1
    <3> QED
      BY <1>2, <1>3, <1>4, <1>6, <3>2
  <2>2. CASE w > v
    <3>1. E \subseteq Below(w) /\ Below(w) \in SUBSET D
      BY <2>2
    <3> HIDE DEF E, UpTo, Below, rank
    <3>2. rank < Cardinality(Below(w))
      BY <1>1, <3>1
    <3> QED
      BY <1>2, <1>3, <1>4, <1>6, <3>2
  <2> QED
    BY <2>1, <2>2
<1>7. v \in Range(f)
  <2>1. E # {}
    <3>1. CASE E = {}
      <4>1. Cardinality(E) = 0
        BY <3>1, FS_EmptySet
      <4> HIDE DEF E
      <4> QED
        BY <1>3, <4>1 DEF MoreThanHalf, E
    <3> QED
      BY <3>1
  <2> QED
    BY <2>1 DEF Range
<1>8. MedianRank(f) = rank
  BY DEF MedianRank
<1>9. Range(f) \subseteq Int
  BY DEF Range
<1> HIDE DEF rank
<1> QED
  BY <1>5, <1>6, <1>7, <1>8, <1>9 DEF LowerMedian

\* What is aggregated comes from a quorum.
LEMMA AggregateHasQuorum ==
  ASSUME NEW reports, NEW size \in Nat, IsFiniteSet(DOMAIN reports),
         Aggregate(reports, size) # NoScore
  PROVE  /\ Aggregate(reports, size).contributors = DOMAIN reports
         /\ Cardinality(DOMAIN reports) >= QuorumFor(size)
<1>1. ~ (Cardinality(DOMAIN reports) < QuorumFor(size))
  BY DEF Aggregate
<1>2. Aggregate(reports, size).contributors = DOMAIN reports
  BY <1>1 DEF Aggregate
<1>3. QuorumFor(size) \in Int /\ Cardinality(DOMAIN reports) \in Nat
  BY FS_CardinalityType DEF QuorumFor
<1> QED
  BY <1>1, <1>2, <1>3

\* Where more than half of the contributors report r, the aggregate carries
\* r's verdict in every field (aggregate_scores).
LEMMA AggregateOfMajority ==
  ASSUME NEW reports, NEW size \in Nat, NEW r, IsFiniteSet(DOMAIN reports),
         NEW E \in SUBSET DOMAIN reports, MoreThanHalf(E, DOMAIN reports),
         \A n \in E : reports[n] = r,
         \A n \in DOMAIN reports : reports[n].score \in Int /\ reports[n].tier \in Int,
         r.red \in BOOLEAN, Aggregate(reports, size) # NoScore
  PROVE  LET a == Aggregate(reports, size) IN
         /\ a.score = r.score /\ a.tier = r.tier /\ a.red = r.red /\ a.flags = r.flags
         /\ a.payload = r.payload
<1> DEFINE N == DOMAIN reports
           scores == [n \in N |-> reports[n].score]
           tiers == [n \in N |-> reports[n].tier]
           flags == [n \in N |-> reports[n].flags]
           payloads == [n \in N |-> reports[n].payload]
           payload == PayloadConsensus(payloads)
<1>0. PICK n0 \in E : TRUE
  <2>1. CASE E = {}
    <3>1. Cardinality(E) = 0 /\ Cardinality(N) \in Nat
      BY <2>1, FS_EmptySet, FS_CardinalityType
    <3> QED
      BY <3>1 DEF MoreThanHalf
  <2> QED
    BY <2>1
<1>1. ~ (Cardinality(N) < QuorumFor(size))
  BY DEF Aggregate
<1>2. Aggregate(reports, size) =
        [score |-> LowerMedian(scores), tier |-> LowerMedian(tiers),
         red |-> MoreThanHalf({n \in N : reports[n].red}, N),
         flags |-> MajorityBits(flags), payload |-> payload,
         payloadSigners |-> {n \in N : payload # NoPayload /\ reports[n].payload = payload},
         contributors |-> N]
  BY <1>1 DEF Aggregate
<1>3. \A A \in SUBSET N : /\ E \subseteq A => MoreThanHalf(A, N)
                          /\ A \cap E = {} => ~ MoreThanHalf(A, N)
  BY MajorityCounts
<1>4. LowerMedian(scores) = r.score
  <2>1. scores \in [N -> Int] /\ r.score \in Int
    BY <1>0
  <2>2. E \subseteq {n \in N : scores[n] = r.score}
    OBVIOUS
  <2>3. MoreThanHalf({n \in N : scores[n] = r.score}, N)
    BY <1>3, <2>2
  <2> HIDE DEF scores
  <2> QED
    BY <2>1, <2>3, MedianOfMajority
<1>5. LowerMedian(tiers) = r.tier
  <2>1. tiers \in [N -> Int] /\ r.tier \in Int
    BY <1>0
  <2>2. E \subseteq {n \in N : tiers[n] = r.tier}
    OBVIOUS
  <2>3. MoreThanHalf({n \in N : tiers[n] = r.tier}, N)
    BY <1>3, <2>2
  <2> HIDE DEF tiers
  <2> QED
    BY <2>1, <2>3, MedianOfMajority
<1>6. MoreThanHalf({n \in N : reports[n].red}, N) = r.red
  <2> DEFINE R == {n \in N : reports[n].red}
             more == MoreThanHalf(R, N)
  <2>0. more \in BOOLEAN
    BY DEF MoreThanHalf
  <2>1. CASE r.red = TRUE
    <3>1. E \subseteq R /\ R \in SUBSET N
      BY <2>1
    <3> HIDE DEF R, N
    <3>2. MoreThanHalf(R, N)
      BY <1>3, <3>1
    <3> HIDE DEF more
    <3>3. more
      BY <3>2 DEF more
    <3>4. more = TRUE
      BY <2>0, <3>3
    <3>5. more = r.red
      BY <2>1, <3>4
    <3> QED
      BY <3>5 DEF more, R
  <2>2. CASE r.red = FALSE
    <3>1. R \cap E = {} /\ R \in SUBSET N
      BY <2>2
    <3> HIDE DEF R, N
    <3>2. ~ MoreThanHalf(R, N)
      BY <1>3, <3>1
    <3> HIDE DEF more
    <3>3. ~ more
      BY <3>2 DEF more
    <3>4. more = FALSE
      BY <2>0, <3>3
    <3>5. more = r.red
      BY <2>2, <3>4
    <3> QED
      BY <3>5 DEF more, R
  <2> QED
    BY <2>1, <2>2
<1>7. MajorityBits(flags) = r.flags
  <2>1. ASSUME NEW b
        PROVE  MoreThanHalf({n \in N : b \in flags[n]}, N) <=> b \in r.flags
    <3> DEFINE B == {n \in N : b \in flags[n]}
    <3>1. CASE b \in r.flags
      <4>1. E \subseteq B /\ B \in SUBSET N
        BY <3>1
      <4> HIDE DEF B, N, flags
      <4> QED
        BY <1>3, <3>1, <4>1 DEF B
    <3>2. CASE b \notin r.flags
      <4>1. B \cap E = {} /\ B \in SUBSET N
        BY <3>2
      <4> HIDE DEF B, N, flags
      <4> QED
        BY <1>3, <3>2, <4>1 DEF B
    <3> QED
      BY <3>1, <3>2
  <2>2. MajorityBits(flags) = {b \in UNION Range(flags) : b \in r.flags}
    <3>1. DOMAIN flags = N
      OBVIOUS
    <3> HIDE DEF flags, N
    <3> QED
      BY <2>1, <3>1 DEF MajorityBits
  <2>3. r.flags \in Range(flags)
    BY <1>0 DEF Range
  <2> HIDE DEF flags
  <2> QED
    BY <2>2, <2>3
<1>8. payload = r.payload
  <2> DEFINE Holders(h) == {n \in N : payloads[n] = h}
             agreed == {h \in Range(payloads) \ {NoPayload} : MoreThanHalf(Holders(h), N)}
  <2>1. MoreThanHalf(Holders(r.payload), N)
    <3>1. E \subseteq Holders(r.payload) /\ Holders(r.payload) \in SUBSET N
      OBVIOUS
    <3> HIDE DEF Holders, N
    <3> QED
      BY <1>3, <3>1
  <2>2. ASSUME NEW h, h # r.payload
        PROVE  ~ MoreThanHalf(Holders(h), N)
    <3>1. Holders(h) \cap E = {} /\ Holders(h) \in SUBSET N
      BY <2>2
    <3> HIDE DEF Holders, N
    <3> QED
      BY <1>3, <3>1
  <2>3. r.payload \in Range(payloads) /\ DOMAIN payloads = N
    BY <1>0 DEF Range
  <2>4. payload = IF agreed = {} THEN NoPayload ELSE CHOOSE h \in agreed : TRUE
    BY <2>3 DEF PayloadConsensus
  <2> HIDE DEF Holders, payloads, payload, N
  <2>5. CASE r.payload = NoPayload
    <3>1. agreed = {}
      BY <2>2, <2>5
    <3> QED
      BY <2>4, <2>5, <3>1
  <2>6. CASE r.payload # NoPayload
    <3>1. agreed = {r.payload}
      BY <2>1, <2>2, <2>3, <2>6
    <3> QED
      BY <2>4, <3>1
  <2> QED
    BY <2>5, <2>6
<1> HIDE DEF scores, tiers, flags, payload
<1> QED
  BY <1>2, <1>4, <1>5, <1>6, <1>7, <1>8

-----------------------------------------------------------------------------
(* A Byzantine epoch.                                                      *)

\* The running sum of a node's deviations is defined, from the first on: the
\* first position without one would follow a position with one.
LEMMA SumsExist ==
  ASSUME NEW s \in Seq(OnMedian)
  PROVE  \E f : f = [k \in 0..Len(s) |-> IF k = 0 THEN <<0, 1>> ELSE AddDeviation(s[k], f[k - 1])]
<1> DEFINE UpTo(k, f) ==
             f = [i \in 0..k |-> IF i = 0 THEN <<0, 1>> ELSE AddDeviation(s[i], f[i - 1])]
           Missing == {k \in 0..Len(s) : ~ \E f : UpTo(k, f)}
<1>1. ASSUME Missing # {}
      PROVE  FALSE
  <2> DEFINE k == Min(Missing)
  <2>1. k \in Missing /\ \A y \in Missing : k =< y
    <3>1. Missing \in SUBSET Nat
      OBVIOUS
    <3> HIDE DEF Missing
    <3> QED
      BY <1>1, <3>1, LeastOfNaturals
  <2>2. k \in 0..Len(s) /\ ~ \E f : UpTo(k, f)
    BY <2>1
  <2>3. CASE k = 0
    <3> DEFINE f == [i \in 0..0 |-> <<0, 1>>]
    <3>1. f = [i \in 0..0 |-> IF i = 0 THEN <<0, 1>> ELSE AddDeviation(s[i], f[i - 1])]
      OBVIOUS
    <3>2. UpTo(0, f)
      BY <3>1
    <3> HIDE DEF f, UpTo
    <3> QED
      BY <2>2, <2>3, <3>2
  <2>4. CASE k # 0
    <3>1. k - 1 \in 0..Len(s) /\ k - 1 \notin Missing
      <4> HIDE DEF Missing
      <4> QED
        BY <2>1, <2>2, <2>4
    <3>2. PICK g : UpTo(k - 1, g)
      BY <3>1
    <3> DEFINE f == [i \in 0..k |-> IF i = k THEN AddDeviation(s[k], g[k - 1]) ELSE g[i]]
    <3>3. ASSUME NEW i \in 0..k
          PROVE  f[i] = IF i = 0 THEN <<0, 1>> ELSE AddDeviation(s[i], f[i - 1])
      <4> HIDE DEF k
      <4>1. CASE i = k
        BY <2>2, <2>4, <4>1
      <4>2. CASE i # k
        <5>1. i \in 0..(k - 1) /\ f[i] = g[i]
          BY <2>2, <4>2
        <5>2. g[i] = IF i = 0 THEN <<0, 1>> ELSE AddDeviation(s[i], g[i - 1])
          BY <3>2, <5>1
        <5>3. i # 0 => f[i - 1] = g[i - 1]
          BY <2>2, <5>1
        <5> HIDE DEF f
        <5> QED
          BY <5>1, <5>2, <5>3
      <4> QED
        BY <4>1, <4>2
    <3>4. f = [i \in 0..k |-> f[i]]
      OBVIOUS
    <3> HIDE DEF f, k
    <3>5. UpTo(k, f)
      BY <3>3, <3>4
    <3> QED
      BY <2>2, <3>5
  <2> QED
    BY <2>3, <2>4
<1>2. Len(s) \in 0..Len(s) /\ Len(s) \notin Missing
  BY <1>1
<1> QED
  BY <1>2

LEMMA ProductIsNatural ==
  ASSUME NEW a \in Nat, NEW b \in Nat
  PROVE  a * b \in Nat
OBVIOUS

\* Scores that are all on the median add up to no deviation, and a node of
\* which only those were seen does not drift.
LEMMA OnMedianDoesNotDrift ==
  ASSUME NEW s \in Seq(OnMedian)
  PROVE  ~ DriftsBeyond(s)
<1> DEFINE sum == CHOOSE f : f = [k \in 0..Len(s) |->
                                   IF k = 0 THEN <<0, 1>> ELSE AddDeviation(s[k], f[k - 1])]
           Off == {k \in 0..Len(s) : ~ (sum[k][1] = 0 /\ sum[k][2] \in Nat)}
<1>1. sum = [k \in 0..Len(s) |-> IF k = 0 THEN <<0, 1>> ELSE AddDeviation(s[k], sum[k - 1])]
  BY SumsExist
<1>2. SumOfDeviations(s) = sum[Len(s)]
  BY DEF SumOfDeviations
<1> HIDE DEF sum
<1>3. ASSUME Off # {}
      PROVE  FALSE
  <2> DEFINE k == Min(Off)
  <2>1. k \in Off /\ \A y \in Off : k =< y
    <3>1. Off \in SUBSET Nat
      OBVIOUS
    <3> HIDE DEF Off
    <3> QED
      BY <1>3, <3>1, LeastOfNaturals
  <2>2. k \in 0..Len(s) /\ ~ (sum[k][1] = 0 /\ sum[k][2] \in Nat)
    BY <2>1
  <2>3. k # 0
    <3>1. 0 \in 0..Len(s)
      OBVIOUS
    <3>2. sum[0] = <<0, 1>>
      BY <1>1, <3>1
    <3> HIDE DEF k
    <3> QED
      BY <2>2, <3>2
  <2>4. k - 1 \in 0..Len(s) /\ k - 1 \notin Off
    <3> HIDE DEF Off
    <3> QED
      BY <2>1, <2>2, <2>3
  <2>5. sum[k - 1][1] = 0 /\ sum[k - 1][2] \in Nat
    BY <2>4
  <2>6. sum[k] = AddDeviation(s[k], sum[k - 1])
    BY <1>1, <2>2, <2>3
  <2> HIDE DEF k, Off
  <2>7. s[k] \in OnMedian
    <3>1. k \in 1..Len(s)
      BY <2>2, <2>3
    <3> QED
      BY <3>1
  <2>8. /\ s[k][1] \in Int /\ s[k][2] \in Int /\ s[k][1] = s[k][2]
        /\ Reference(s[k][2]) \in Nat
    BY <2>7 DEF OnMedian, Reference
  <2>9. sum[k][1] = 0 * Reference(s[k][2]) + (s[k][1] - s[k][2]) * sum[k - 1][2]
        /\ sum[k][2] = sum[k - 1][2] * Reference(s[k][2])
    BY <2>5, <2>6 DEF AddDeviation
  <2>10. s[k][1] - s[k][2] = 0
    BY <2>8
  <2>11. sum[k][1] = 0
    BY <2>5, <2>8, <2>9, <2>10
  <2>12. sum[k][2] \in Nat
    BY <2>5, <2>8, <2>9, ProductIsNatural
  <2> QED
    BY <2>2, <2>11, <2>12
<1>4. sum[Len(s)][1] = 0 /\ sum[Len(s)][2] \in Nat
  <2>1. Len(s) \in 0..Len(s)
    OBVIOUS
  <2> HIDE DEF Off
  <2>2. Len(s) \notin Off
    BY <1>3
  <2> QED
    BY <2>1, <2>2 DEF Off
<1>5. Magnitude(sum[Len(s)][1]) = 0
  BY <1>4 DEF Magnitude
<1>6. 8 * Len(s) \in Nat
  OBVIOUS
<1>7. 8 * Len(s) * sum[Len(s)][2] \in Nat
  BY <1>4, <1>6, ProductIsNatural
<1>8. ~ (100 * Magnitude(sum[Len(s)][1]) > 8 * Len(s) * sum[Len(s)][2])
  BY <1>5, <1>7
<1> QED
  BY <1>2, <1>8 DEF DriftsBeyond

\* Where the honest are most of those who revealed, the median is their
\* score, none of them deviates from it, and what is aggregated without the
\* deviating ones is their report.
LEMMA MajorityVerdict ==
  ASSUME NEW e \in Epoch, NEW reports, DOMAIN reports \subseteq Node,
         \A n \in DOMAIN reports : reports[n] \in Lies \cup {Truth[e]},
         \A n \in DOMAIN reports \ Faulty : reports[n] = Truth[e],
         MoreThanHalf(DOMAIN reports \ Faulty, DOMAIN reports)
  PROVE  LET trusted == Restrict(reports, DOMAIN reports \ Deviating(ScoresOf(reports)))
             a == Aggregate(trusted, Cardinality(Node))
         IN  /\ LowerMedian(ScoresOf(reports)) = Truth[e].score
             /\ Deviating(ScoresOf(reports)) \cap Honest = {}
             /\ a # NoScore =>
                  /\ a.score = Truth[e].score /\ a.tier = Truth[e].tier /\ a.red = Truth[e].red
                  /\ a.flags = Truth[e].flags /\ a.payload = Truth[e].payload
<1> DEFINE N == DOMAIN reports
           E == N \ Faulty
           r == Truth[e]
           scores == ScoresOf(reports)
           kept == N \ Deviating(scores)
           trusted == Restrict(reports, kept)
<1>1. IsFiniteSet(N) /\ IsFiniteSet(kept)
  BY FS_Subset, ByzantineAssumption
<1>2. \A n \in N : reports[n].score \in Int /\ reports[n].tier \in Int
  BY ByzantineAssumption
<1>3. r.score \in Int /\ r.red \in BOOLEAN
  BY ByzantineAssumption
<1>4. scores \in [N -> Int] /\ DOMAIN scores = N /\ \A n \in N : scores[n] = reports[n].score
  BY <1>2 DEF ScoresOf
<1>5. LowerMedian(scores) = r.score
  <2> DEFINE H == {n \in N : scores[n] = r.score}
  <2>1. E \subseteq H /\ H \in SUBSET N /\ E \in SUBSET N
    BY <1>4
  <2> HIDE DEF H, scores, E, N, r
  <2>2. MoreThanHalf(H, N)
    BY <1>1, <2>1, MajorityCounts DEF E, N
  <2> QED
    BY <1>1, <1>3, <1>4, <2>2, MedianOfMajority DEF H
<1>6. \A n \in E : n \notin Deviating(scores)
  <2> TAKE n \in E
  <2>1. scores[n] = r.score
    BY <1>4
  <2>2. ~ Deviates(r.score, r.score)
    <3>1. r.score - r.score = 0
      BY <1>3
    <3>2. Magnitude(r.score - r.score) = 0
      BY <3>1 DEF Magnitude
    <3>3. Reference(r.score) \in Nat
      BY <1>3 DEF Reference
    <3> QED
      BY <3>2, <3>3 DEF Deviates
  <2> QED
    BY <1>5, <2>1, <2>2 DEF Deviating
<1>7. Deviating(scores) \cap Honest = {}
  <2>1. Deviating(scores) \subseteq N
    BY <1>4 DEF Deviating
  <2> QED
    BY <1>6, <2>1 DEF Honest
<1>8. ASSUME Aggregate(trusted, Cardinality(Node)) # NoScore
      PROVE  LET a == Aggregate(trusted, Cardinality(Node)) IN
             /\ a.score = r.score /\ a.tier = r.tier /\ a.red = r.red
             /\ a.flags = r.flags /\ a.payload = r.payload
  <2>1. /\ DOMAIN trusted = kept
        /\ \A n \in kept : trusted[n] = reports[n]
    BY DEF Restrict
  <2>2. E \in SUBSET kept /\ kept \in SUBSET N /\ E \in SUBSET N
    BY <1>6
  <2>3. \A n \in E : trusted[n] = r
    BY <2>1, <2>2
  <2>4. \A n \in kept : trusted[n].score \in Int /\ trusted[n].tier \in Int
    BY <1>2, <2>1
  <2>5. Cardinality(Node) \in Nat
    BY FS_CardinalityType, ByzantineAssumption
  <2> HIDE DEF trusted, kept, r, E, N
  <2>6. MoreThanHalf(E, kept)
    <3>1. Cardinality(kept) <= Cardinality(N) /\ Cardinality(kept) \in Nat
          /\ Cardinality(N) \in Nat /\ Cardinality(E) \in Nat
      BY <1>1, <2>2, FS_Subset, FS_CardinalityType
    <3>2. 2 * Cardinality(E) > Cardinality(N)
      BY DEF MoreThanHalf, E, N
    <3> QED
      BY <3>1, <3>2 DEF MoreThanHalf
  <2> QED
    BY <1>1, <1>3, <1>8, <2>1, <2>2, <2>3, <2>4, <2>5, <2>6, AggregateOfMajority
<1> QED
  BY <1>5, <1>7, <1>8

\* The inputs a quorum of the nodes holds are the honest ones then.
LEMMA InputsOfMajority ==
  ASSUME NEW e \in Epoch, NEW reports, DOMAIN reports \subseteq Node,
         \A n \in DOMAIN reports \ Faulty : reports[n] = Truth[e],
         MoreThanHalf(DOMAIN reports \ Faulty, DOMAIN reports)
  PROVE  AgreedInputs([n \in DOMAIN reports |-> reports[n].input], QuorumFor(Cardinality(Node)))
           \subseteq {Truth[e].input}
<1> DEFINE N == DOMAIN reports
           E == N \ Faulty
           inputs == [n \in N |-> reports[n].input]
           q == QuorumFor(Cardinality(Node))
<1> SUFFICES ASSUME NEW c \in AgreedInputs(inputs, q)
             PROVE  c = Truth[e].input
  OBVIOUS
<1> DEFINE S == {n \in N : inputs[n] = c}
<1>1. IsFiniteSet(N) /\ Cardinality(N) <= Cardinality(Node) /\ Cardinality(N) \in Nat /\ Cardinality(Node) \in Nat
  BY FS_Subset, FS_CardinalityType, ByzantineAssumption
<1>2. Cardinality(S) >= q /\ S \in SUBSET N /\ E \in SUBSET N
  BY DEF AgreedInputs
<1>3. 2 * Cardinality(E) > Cardinality(N)
  BY DEF MoreThanHalf
<1>4. \A n \in E : inputs[n] = Truth[e].input
  OBVIOUS
<1> HIDE DEF N, E, S, inputs
<1>5. Cardinality(S) \in Nat /\ Cardinality(E) \in Nat
  BY <1>1, <1>2, FS_Subset, FS_CardinalityType
<1>6. Cardinality(S) + Cardinality(E) > Cardinality(N)
  <2> PICK n, k, s, h \in Nat : n = Cardinality(N) /\ k = Cardinality(Node) /\ s = Cardinality(S) /\ h = Cardinality(E)
    BY <1>1, <1>5
  <2>1. n <= k /\ 2 * h > n /\ s >= k \div 2 + 1
    BY <1>1, <1>2, <1>3 DEF QuorumFor
  <2>2. s + h > n
    BY <2>1
  <2> QED
    BY <2>2
<1>7. S \cap E # {}
  BY <1>1, <1>2, <1>6, FS_MajoritiesIntersect
<1> QED
  BY <1>4, <1>7 DEF S

\* The flag of divergent inputs disturbs no other field or flag.
LEMMA FlagIsAdded ==
  ASSUME NEW trusted, NEW size, NEW reports, NEW inputs,
         WithInputFlag(Aggregate(trusted, size), reports, inputs) # NoScore
  PROVE  LET a == Aggregate(trusted, size)
             b == WithInputFlag(a, reports, inputs)
         IN  /\ a # NoScore
             /\ b.score = a.score /\ b.tier = a.tier /\ b.red = a.red
             /\ b.payload = a.payload /\ b.contributors = a.contributors
             /\ b.flags = a.flags \cup {f \in {InputDivergence} : \E n \in DOMAIN reports : reports[n].input \notin inputs}
<1> PICK a : a = Aggregate(trusted, size)
  OBVIOUS
<1>1. a # NoScore
  BY DEF WithInputFlag
<1>2. \E score, tier, red, flags, payload, payloadSigners, contributors :
        a = [score |-> score, tier |-> tier, red |-> red, flags |-> flags, payload |-> payload,
             payloadSigners |-> payloadSigners, contributors |-> contributors]
  BY <1>1 DEF Aggregate
<1>3. LET b == WithInputFlag(a, reports, inputs) IN
      /\ b.score = a.score /\ b.tier = a.tier /\ b.red = a.red
      /\ b.payload = a.payload /\ b.contributors = a.contributors
      /\ b.flags = a.flags \cup {f \in {InputDivergence} : \E n \in DOMAIN reports : reports[n].input \notin inputs}
  <2>1. CASE \E n \in DOMAIN reports : reports[n].input \notin inputs
    <3>1. WithInputFlag(a, reports, inputs) = [a EXCEPT !.flags = @ \cup {InputDivergence}]
      BY <1>1, <2>1 DEF WithInputFlag
    <3>2. {f \in {InputDivergence} : \E n \in DOMAIN reports : reports[n].input \notin inputs} = {InputDivergence}
      BY <2>1
    <3> QED
      BY <1>2, <3>1, <3>2
  <2>2. CASE ~ \E n \in DOMAIN reports : reports[n].input \notin inputs
    <3>1. WithInputFlag(a, reports, inputs) = a
      BY <2>2 DEF WithInputFlag
    <3>2. {f \in {InputDivergence} : \E n \in DOMAIN reports : reports[n].input \notin inputs} = {}
      BY <2>2
    <3>3. a.flags \cup {} = a.flags
      OBVIOUS
    <3> QED
      BY <3>1, <3>2, <3>3
  <2> QED
    BY <2>1, <2>2
<1> QED
  BY <1>1, <1>3

-----------------------------------------------------------------------------
LEMMA ByzStart == ByzInit => ByzInv
<1> SUFFICES ASSUME ByzInit PROVE ByzInv
  OBVIOUS
<1>1. WatchdogInv /\ call = Idle
  BY InitInv DEF ByzInit, WatchInit
<1>2. CallsAreFounded
  BY <1>1 DEF ByzInit, CallsAreFounded
<1>3. HistoryIsHonest
  <2>1. \A n \in Node : signedDevs[n] = <<>>
    BY DEF ByzInit
  <2>2. \A n \in Honest : signedDevs[n] \in Seq(OnMedian)
    <3>1. <<>> \in Seq(OnMedian)
      OBVIOUS
    <3> QED
      BY <2>1, <3>1 DEF Honest
  <2>3. result = NoResult /\ epoch \in Nat /\ outvoted = {} /\ mute \in [Node -> SUBSET Epoch]
        /\ DOMAIN signedDevs = Node
    BY DEF ByzInit
  <2> QED
    BY <2>2, <2>3 DEF HistoryIsHonest
<1>4. HonestIsNotFramed
  BY ByzantineAssumption DEF ByzInit, WatchInit, HonestIsNotFramed, Honest
<1>5. CertificateIsHonest
  BY DEF ByzInit, CertificateIsHonest
<1> QED
  BY <1>1, <1>2, <1>3, <1>4, <1>5 DEF ByzInv

\* What is on record stays founded, and is joined by one founded flag.
LEMMA StruckIsFounded ==
  ASSUME HonestIsNotFramed, NEW n \in Node, NEW t \in Track, NEW p,
         WatchTypeOK, p.epochs = record[n][t].epochs \cup {epoch},
         record' = [record EXCEPT ![n][t] = p],
         FlagIsFounded(t, epoch, n), UNCHANGED <<outvoted, mute>>
  PROVE  HonestIsNotFramed'
<1>1. \A m \in Node, u \in Track :
        record'[m][u] = IF m = n /\ u = t THEN p ELSE record[m][u]
  BY DEF WatchTypeOK
<1>2. conflicting \in Track /\ drift \in Track /\ nonReveal \in Track
  BY ByzantineAssumption
<1>3. Honest \subseteq Node
  BY DEF Honest
<1>4. ASSUME NEW m \in Honest
      PROVE  record'[m][conflicting].epochs \subseteq outvoted'
  BY <1>1, <1>2, <1>3 DEF HonestIsNotFramed, FlagIsFounded
<1>5. ASSUME NEW m \in Honest, outvoted' = {}
      PROVE  record'[m][drift].epochs = {}
  BY <1>1, <1>2, <1>3, <1>5 DEF HonestIsNotFramed, FlagIsFounded
<1>6. ASSUME NEW m \in Honest
      PROVE  record'[m][nonReveal].epochs \subseteq mute'[m]
  BY <1>1, <1>2, <1>3 DEF HonestIsNotFramed, FlagIsFounded
<1> QED
  BY <1>4, <1>5, <1>6 DEF HonestIsNotFramed

\* The watchdog's own variables aside, its steps leave the invariant alone.
LEMMA WatchdogKeeps ==
  ASSUME ByzInv, UNCHANGED epochStepVars, WatchdogInv', HonestIsNotFramed',
         call' # Idle => /\ call'.epoch = call.epoch /\ call'.track = call.track
                         /\ call'.flagged \subseteq call.flagged /\ call # Idle
  PROVE  ByzInv'
<1>1. CallsAreFounded'
  BY DEF ByzInv, epochStepVars, CallsAreFounded, FlagIsFounded
<1>2. HistoryIsHonest'
  BY DEF ByzInv, epochStepVars, HistoryIsHonest, AggregateIsHonest
<1>3. CertificateIsHonest'
  BY DEF ByzInv, epochStepVars, CertificateIsHonest
<1> QED
  BY <1>1, <1>2, <1>3 DEF ByzInv

\* The loop's next call is what is left of it.
LEMMA AfterNextShrinks ==
  ASSUME call \in Call, AfterNext # Idle
  PROVE  /\ AfterNext.epoch = call.epoch /\ AfterNext.track = call.track
         /\ AfterNext.flagged \subseteq call.flagged /\ call # Idle
BY DEF AfterNext, WithoutNext, Call, Idle

LEMMA WatchdogStepInv == ByzInv /\ WatchdogStep => ByzInv'
<1> SUFFICES ASSUME ByzInv, WatchdogStep PROVE ByzInv'
  OBVIOUS
<1> USE DEF ByzInv
<1>0. UNCHANGED epochStepVars /\ UNCHANGED <<epoch, outvoted, mute>>
  BY DEF WatchdogStep, epochStepVars
<1>1. CASE SkipCounted
  <2>1. WatchdogInv' /\ call' = AfterNext /\ call \in Call /\ UNCHANGED record
    BY <1>1, SkipCountedInv DEF SkipCounted, WatchdogInv, WatchTypeOK
  <2>2. HonestIsNotFramed'
    BY <1>0, <2>1 DEF HonestIsNotFramed
  <2> QED
    BY <1>0, <2>1, <2>2, AfterNextShrinks, WatchdogKeeps
<1>2. CASE FilingReturns
  <2>1. WatchdogInv' /\ call' = AfterNext /\ call \in Call /\ UNCHANGED record
    BY <1>2, FilingReturnsInv DEF FilingReturns, WatchdogInv, WatchTypeOK, FilingIsDeserved
  <2>2. HonestIsNotFramed'
    BY <1>0, <2>1 DEF HonestIsNotFramed
  <2> QED
    BY <1>0, <2>1, <2>2, AfterNextShrinks, WatchdogKeeps
<1>3. CASE filing # NoFiling /\ OthersChallenge(filing.node)
  <2>1. filing.node \in Node /\ UNCHANGED <<record, call>>
    BY <1>3 DEF WatchdogInv, WatchTypeOK, Filing, OthersChallenge
  <2>2. WatchdogInv'
    BY <1>3, <2>1, OtherStepInv
  <2>3. HonestIsNotFramed'
    BY <1>0, <2>1 DEF HonestIsNotFramed
  <2> QED
    BY <1>0, <2>1, <2>2, <2>3, WatchdogKeeps
<1>4. CASE Strike
  <2> DEFINE n == NextFlagged
             t == call.track
             q == Struck(record[n][t], call.epoch)
  <2>1. call \in Call /\ call # Idle
    BY <1>4 DEF Strike, WatchdogInv, WatchTypeOK
  <2>2. n \in call.flagged /\ t \in Track /\ n \in Node
    <3>1. call.flagged \in SUBSET Nat /\ call.flagged # {} /\ call.flagged \subseteq Node
      BY <2>1, WatchdogAssumption DEF Call
    <3> QED
      BY <2>1, <3>1, LeastOfNaturals DEF NextFlagged, Call
  <2>3. call.epoch = epoch /\ FlagIsFounded(t, epoch, n)
    BY <2>1, <2>2 DEF CallsAreFounded
  <2>4. record[n][t] \in StrikeRecord
    BY <2>2 DEF WatchdogInv, WatchTypeOK
  <2>5. /\ q.epochs = record[n][t].epochs \cup {epoch}
        /\ [q EXCEPT !.challenged = TRUE].epochs = record[n][t].epochs \cup {epoch}
    BY <2>3, <2>4 DEF Struck, StrikeRecord
  <2>6. WatchdogInv'
    BY <1>4, StrikeInv
  <2>7. /\ \/ record' = [record EXCEPT ![n][t] = [q EXCEPT !.challenged = TRUE]]
           \/ record' = [record EXCEPT ![n][t] = q]
        /\ call' = call \/ call' = AfterNext
    BY <1>4 DEF Strike
  <2> HIDE DEF n, t, q
  <2>8. HonestIsNotFramed'
    BY <1>0, <2>2, <2>3, <2>5, <2>7, StruckIsFounded DEF WatchdogInv
  <2> QED
    BY <1>0, <2>1, <2>6, <2>7, <2>8, AfterNextShrinks, WatchdogKeeps
<1> QED
  BY <1>1, <1>2, <1>3, <1>4 DEF WatchdogStep

LEMMA ChallengeRaisesInv == ByzInv /\ ChallengeRaises => ByzInv'
<1> SUFFICES ASSUME ByzInv, ChallengeRaises PROVE ByzInv'
  OBVIOUS
<1>1. WatchdogInv'
  BY FilingRaisesInv DEF ByzInv, ChallengeRaises
<1>2. call' = Idle /\ unfiled' = <<>> /\ result' = NoResult /\ UNCHANGED record
      /\ UNCHANGED <<epoch, outvoted, mute, certificates, signedDevs>>
  BY DEF ChallengeRaises, FilingRaises
<1> QED
  BY <1>1, <1>2 DEF ByzInv, CallsAreFounded, HistoryIsHonest, HonestIsNotFramed, CertificateIsHonest

LEMMA RecordTrackInv == ByzInv /\ RecordTrack => ByzInv'
<1> SUFFICES ASSUME ByzInv, RecordTrack PROVE ByzInv'
  OBVIOUS
<1> USE DEF ByzInv
<1> DEFINE c == Head(unfiled)
<1>1. /\ unfiled # <<>> /\ unfiled' = Tail(unfiled) /\ StartCall(c.track, epoch, c.flagged)
      /\ UNCHANGED <<epoch, result, signedDevs, certificates, outvoted, mute>>
  BY DEF RecordTrack
<1>2. unfiled \in Seq(Recording) /\ epoch \in Epoch
  BY <1>1 DEF CallsAreFounded
<1>3. c \in Recording /\ c = unfiled[1] /\ 1 \in 1..Len(unfiled)
  BY <1>1, <1>2
<1>4. \A n \in c.flagged : FlagIsFounded(c.track, epoch, n)
  BY <1>3 DEF CallsAreFounded
<1>5. unfiled' \in Seq(Recording)
      /\ \A k \in 1..Len(unfiled') : k + 1 \in 1..Len(unfiled) /\ unfiled'[k] = unfiled[k + 1]
  BY <1>1, <1>2
<1>6. c.track \in Track /\ c.flagged \in (SUBSET Node) \ {{}}
  BY <1>3 DEF Recording
<1>7. UNCHANGED record /\ call' = [track |-> c.track, epoch |-> epoch, flagged |-> c.flagged]
  BY <1>1 DEF StartCall
<1> HIDE DEF c
<1>8. WatchdogInv'
  BY <1>1, <1>2, <1>6, OtherStepInv
<1>9. CallsAreFounded'
  <2>1. call'.track = c.track /\ call'.epoch = epoch /\ call'.flagged = c.flagged
    BY <1>7
  <2>2. \A n \in call'.flagged : FlagIsFounded(call.track, epoch, n)'
    BY <1>1, <1>4, <2>1 DEF FlagIsFounded
  <2>3. \A k \in 1..Len(unfiled') : \A n \in unfiled'[k].flagged :
          FlagIsFounded(unfiled[k].track, epoch, n)'
    BY <1>1, <1>5 DEF FlagIsFounded, CallsAreFounded
  <2> QED
    BY <1>1, <1>2, <1>5, <2>1, <2>2, <2>3 DEF CallsAreFounded
<1>10. HistoryIsHonest'
  BY <1>1 DEF HistoryIsHonest, AggregateIsHonest
<1>11. HonestIsNotFramed' /\ CertificateIsHonest'
  BY <1>1, <1>7 DEF HonestIsNotFramed, CertificateIsHonest
<1> QED
  BY <1>8, <1>9, <1>10, <1>11

LEMMA SignAndSubmitInv == ByzInv /\ (\E anchored \in BOOLEAN : SignAndSubmit(anchored)) => ByzInv'
<1> SUFFICES ASSUME ByzInv, NEW anchored \in BOOLEAN, SignAndSubmit(anchored) PROVE ByzInv'
  OBVIOUS
<1> USE DEF ByzInv
<1> DEFINE c == [epoch |-> epoch, score |-> result.aggregated, signers |-> Signers,
                 inputs |-> result.inputs, truth |-> result.truth,
                 byzantine |-> result.byzantine, dissent |-> result.dissent]
<1>1. /\ result # NoResult /\ call = Idle /\ unfiled = <<>> /\ result' = NoResult
      /\ UNCHANGED <<watchVars, epoch, unfiled, signedDevs, outvoted, mute>>
      /\ certificates' = certificates \cup IF MaySubmit(anchored) THEN {c} ELSE {}
  BY DEF SignAndSubmit
<1>2. WatchdogInv'
  BY <1>1, OtherStepInv
<1>3. CallsAreFounded' /\ HistoryIsHonest' /\ HonestIsNotFramed'
  <2>1. UNCHANGED <<record, call>>
    BY <1>1 DEF watchVars
  <2> QED
    BY <1>1, <2>1 DEF CallsAreFounded, HistoryIsHonest, HonestIsNotFramed
<1>4. CertificateIsHonest'
  <2>1. CASE MaySubmit(anchored)
    <3>1. AggregateIsHonest(epoch, result.aggregated, result.truth, result.inputs, result.dissent)
          /\ result.inputs # {} /\ Cardinality(Signers) >= SigThreshold /\ Signers \cap result.byzantine = {}
      BY <1>1, <2>1 DEF MaySubmit, HistoryIsHonest, Signers
    <3>2. /\ c.epoch = epoch /\ c.score = result.aggregated /\ c.signers = Signers
          /\ c.truth = result.truth /\ c.byzantine = result.byzantine
          /\ c.inputs = result.inputs /\ c.dissent = result.dissent
      OBVIOUS
    <3>3. certificates' = certificates \cup {c}
      BY <1>1, <2>1
    <3> HIDE DEF c
    <3>4. outvoted' = outvoted
      BY <1>1
    <3> QED
      BY <3>1, <3>2, <3>3, <3>4 DEF CertificateIsHonest, AggregateIsHonest
  <2>2. CASE ~ MaySubmit(anchored)
    <3>1. certificates' = certificates /\ outvoted' = outvoted
      BY <1>1, <2>2
    <3> QED
      BY <3>1 DEF CertificateIsHonest
  <2> QED
    BY <2>1, <2>2
<1> QED
  BY <1>2, <1>3, <1>4

LEMMA DueIsCall ==
  ASSUME NEW S, NEW t, NEW F, F # {} => [track |-> t, flagged |-> F] \in S
  PROVE  Due(t, F) \in Seq(S)
<1>1. <<>> \in Seq(S)
  OBVIOUS
<1>2. ASSUME NEW c \in S
      PROVE  <<c>> \in Seq(S)
  OBVIOUS
<1>3. CASE F = {}
  BY <1>1, <1>3 DEF Due
<1>4. CASE F # {}
  BY <1>2, <1>4 DEF Due
<1> QED
  BY <1>3, <1>4

\* What an epoch flags is recorded in order, and only what was flagged.
LEMMA DueIsFlagged ==
  ASSUME NEW A \in SUBSET Node, NEW B \in SUBSET Node, NEW C \in SUBSET Node
  PROVE  LET due == Due(conflicting, A) \o Due(drift, B) \o Due(nonReveal, C) IN
         /\ due \in Seq(Recording)
         /\ \A k \in 1..Len(due) :
              \/ due[k].track = conflicting /\ due[k].flagged = A
              \/ due[k].track = drift /\ due[k].flagged = B
              \/ due[k].track = nonReveal /\ due[k].flagged = C
<1> DEFINE One == {c \in Recording : c.track = conflicting /\ c.flagged = A}
           Two == {c \in Recording : c.track = drift /\ c.flagged = B}
           Three == {c \in Recording : c.track = nonReveal /\ c.flagged = C}
           All == One \cup Two \cup Three
<1>1. Due(conflicting, A) \in Seq(All)
  <2>1. A # {} => [track |-> conflicting, flagged |-> A] \in One
    BY ByzantineAssumption DEF Recording
  <2>2. One \subseteq All
    OBVIOUS
  <2> HIDE DEF One, All
  <2> QED
    BY <2>1, <2>2, DueIsCall
<1>2. Due(drift, B) \in Seq(All)
  <2>1. B # {} => [track |-> drift, flagged |-> B] \in Two
    BY ByzantineAssumption DEF Recording
  <2>2. Two \subseteq All
    OBVIOUS
  <2> HIDE DEF Two, All
  <2> QED
    BY <2>1, <2>2, DueIsCall
<1>3. Due(nonReveal, C) \in Seq(All)
  <2>1. C # {} => [track |-> nonReveal, flagged |-> C] \in Three
    BY ByzantineAssumption DEF Recording
  <2>2. Three \subseteq All
    OBVIOUS
  <2> HIDE DEF Three, All
  <2> QED
    BY <2>1, <2>2, DueIsCall
<1> DEFINE due == Due(conflicting, A) \o Due(drift, B) \o Due(nonReveal, C)
<1> HIDE DEF All
<1>4. due \in Seq(All)
  BY <1>1, <1>2, <1>3
<1> HIDE DEF due
<1>5. \A k \in 1..Len(due) : due[k] \in All
  BY <1>4
<1>6. due \in Seq(Recording)
  <2>1. All \subseteq Recording
    BY DEF All
  <2> QED
    BY <1>4, <2>1
<1> QED
  BY <1>5, <1>6 DEF All, due

\* A reveal more on the median leaves all of them there.
LEMMA ObservedOnMedian ==
  ASSUME NEW s \in Seq(OnMedian), NEW d \in OnMedian
  PROVE  Bounded(Append(s, d)) \in Seq(OnMedian)
<1> DEFINE t == Append(s, d)
<1>1. t \in Seq(OnMedian) /\ t # <<>>
  <2>1. t \in Seq(OnMedian) /\ Len(t) = Len(s) + 1 /\ Len(s) \in Nat
    OBVIOUS
  <2> HIDE DEF t
  <2>2. Len(t) # 0
    BY <2>1
  <2> QED
    BY <2>1, <2>2
<1> HIDE DEF t
<1>2. Tail(t) \in Seq(OnMedian)
  BY <1>1
<1> QED
  BY <1>1, <1>2 DEF Bounded, t

LEMMA RunEpochInv ==
  ASSUME ByzInv, NEW e \in Epoch, NEW lies \in [Faulty -> Lies],
         NEW absent \in SUBSET Node, NEW silent \in SUBSET Node,
         RunEpoch(e, lies, absent, silent)
  PROVE  ByzInv'
<1> USE DEF ByzInv
<1> DEFINE verified == Node \ (absent \cup silent)
           reports == [n \in verified |-> IF n \in Faulty THEN lies[n] ELSE Truth[e]]
           byzantine == Deviating(ScoresOf(reports))
           trusted == Restrict(reports, verified \ byzantine)
           inputs == AgreedInputs([n \in verified |-> reports[n].input], QuorumFor(Cardinality(Node)))
           dissent == {n \in verified : reports[n].input # Truth[e].input}
           raw == Aggregate(trusted, Cardinality(Node))
           aggregated == IF verified = {} THEN NoScore ELSE WithInputFlag(raw, reports, inputs)
           median == LowerMedian(ScoresOf(reports))
           devs == Observed(trusted, median)
           attackers == {n \in Node : DriftsBeyond(devs[n])}
           drifters == IF aggregated = NoScore THEN {} ELSE attackers
           honestMost == MoreThanHalf(verified \ Faulty, verified)
<1>1. call = Idle /\ UNCHANGED <<watchVars, certificates>> /\ epoch' = e
  BY DEF RunEpoch
<1>2. unfiled' = Due(conflicting, byzantine) \o Due(drift, drifters) \o Due(nonReveal, silent)
  BY Zenon DEF RunEpoch
<1>3. /\ result'.aggregated = aggregated /\ result'.truth = Truth[e]
      /\ result'.inputs = inputs /\ result'.dissent = dissent
  BY DEF RunEpoch
<1>4. IF aggregated = NoScore THEN UNCHANGED signedDevs ELSE signedDevs' = devs
  BY DEF RunEpoch
<1>5. outvoted' = outvoted \cup (IF honestMost THEN {} ELSE {e})
  BY DEF RunEpoch
<1>6. mute' = [n \in Node |-> mute[n] \cup IF n \in silent THEN {e} ELSE {}]
  BY DEF RunEpoch
<1>7. /\ DOMAIN reports = verified /\ verified \subseteq Node
      /\ \A n \in verified : reports[n] \in Lies \cup {Truth[e]}
      /\ \A n \in verified \ Faulty : reports[n] = Truth[e]
  OBVIOUS
<1>8. byzantine \subseteq Node
  <2>1. DOMAIN ScoresOf(reports) = verified
    BY DEF ScoresOf
  <2> QED
    BY <2>1 DEF Deviating
<1>9. /\ DOMAIN trusted \subseteq verified
      /\ \A n \in DOMAIN trusted : trusted[n] = reports[n]
      /\ IsFiniteSet(DOMAIN trusted)
  <2>1. DOMAIN trusted = verified \ byzantine
    BY DEF Restrict
  <2>2. IsFiniteSet(verified \ byzantine)
    BY FS_Subset, ByzantineAssumption
  <2> QED
    BY <2>1, <2>2 DEF Restrict
<1>10. ASSUME honestMost
       PROVE  /\ median = Truth[e].score /\ byzantine \cap Honest = {}
              /\ aggregated # NoScore =>
                   VerdictIsHonest(aggregated, Truth[e]) /\ InputsAreHonest(aggregated, Truth[e], inputs, dissent)
  <2>0. aggregated # NoScore => aggregated = WithInputFlag(raw, reports, inputs)
    OBVIOUS
  <2>1. inputs \subseteq {Truth[e].input}
    <3> HIDE DEF reports, verified
    <3> QED
      BY <1>7, <1>10, InputsOfMajority
  <2> HIDE DEF reports, verified, aggregated, inputs
  <2> USE <1>7, <1>10
  <2>2. LET kept == Restrict(reports, verified \ Deviating(ScoresOf(reports)))
            a == Aggregate(kept, Cardinality(Node))
        IN  /\ LowerMedian(ScoresOf(reports)) = Truth[e].score
            /\ Deviating(ScoresOf(reports)) \cap Honest = {}
            /\ a # NoScore =>
                 /\ a.score = Truth[e].score /\ a.tier = Truth[e].tier /\ a.red = Truth[e].red
                 /\ a.flags = Truth[e].flags /\ a.payload = Truth[e].payload
    BY MajorityVerdict
  <2>3. ASSUME aggregated # NoScore
        PROVE  VerdictIsHonest(aggregated, Truth[e]) /\ InputsAreHonest(aggregated, Truth[e], inputs, dissent)
    <3> DEFINE set == {f \in {InputDivergence} : \E n \in verified : reports[n].input \notin inputs}
    <3>1. /\ raw # NoScore /\ aggregated.score = raw.score /\ aggregated.tier = raw.tier
          /\ aggregated.red = raw.red /\ aggregated.payload = raw.payload
          /\ aggregated.flags = raw.flags \cup set
      <4> HIDE DEF trusted
      <4> QED
        BY <2>0, <2>3, FlagIsAdded
    <3>2. /\ raw.score = Truth[e].score /\ raw.tier = Truth[e].tier /\ raw.red = Truth[e].red
          /\ raw.flags = Truth[e].flags /\ raw.payload = Truth[e].payload
      BY <2>2, <3>1
    <3>3. inputs # {} => (set # {} <=> dissent # {})
      BY <2>1
    <3>4. set \subseteq {InputDivergence} /\ (set # {} => InputDivergence \in set)
      OBVIOUS
    <3> HIDE DEF set, raw, dissent
    <3> QED
      BY <2>1, <3>1, <3>2, <3>3, <3>4 DEF VerdictIsHonest, InputsAreHonest
  <2> QED
    BY <2>2, <2>3
<1>11. aggregated # NoScore => Cardinality(aggregated.contributors) >= QuorumFor(Cardinality(Node))
  <2> SUFFICES ASSUME aggregated # NoScore
               PROVE  Cardinality(aggregated.contributors) >= QuorumFor(Cardinality(Node))
    OBVIOUS
  <2>1. Cardinality(Node) \in Nat
    BY FS_CardinalityType, ByzantineAssumption
  <2>2. aggregated = WithInputFlag(raw, reports, inputs)
    OBVIOUS
  <2> HIDE DEF trusted, aggregated, reports, inputs
  <2>3. raw # NoScore /\ aggregated.contributors = raw.contributors
    BY <2>2, FlagIsAdded
  <2> QED
    BY <1>9, <2>1, <2>3, AggregateHasQuorum
<1>12. outvoted \subseteq outvoted' /\ (~ honestMost => e \in outvoted')
       /\ outvoted' \subseteq Epoch
  BY <1>5 DEF HistoryIsHonest
<1>13. /\ mute' \in [Node -> SUBSET Epoch]
       /\ \A n \in Node : mute[n] \subseteq mute'[n]
       /\ \A n \in silent : e \in mute'[n]
  BY <1>6 DEF HistoryIsHonest
<1>14. DOMAIN devs = Node
  BY DEF Observed
<1>15. ASSUME outvoted' = {}
       PROVE  \A n \in Honest : signedDevs'[n] \in Seq(OnMedian) /\ n \notin drifters
  <2>1. honestMost /\ outvoted = {}
    BY <1>12, <1>15
  <2>2. TAKE n \in Honest
  <2>3. signedDevs[n] \in Seq(OnMedian) /\ n \in Node /\ n \notin Faulty
    BY <2>1 DEF HistoryIsHonest, Honest
  <2>4. devs[n] \in Seq(OnMedian)
    <3>1. CASE n \in DOMAIN trusted
      <4>1. trusted[n].score = Truth[e].score
        BY <1>7, <1>9, <2>3, <3>1
      <4>2. Truth[e].score \in Int
        BY ByzantineAssumption
      <4>3. <<trusted[n].score, median>> \in OnMedian
        BY <1>10, <2>1, <4>1, <4>2 DEF OnMedian
      <4>4. devs[n] = Bounded(Append(signedDevs[n], <<trusted[n].score, median>>))
        BY <2>3, <3>1 DEF Observed
      <4> HIDE DEF devs, trusted, median
      <4> QED
        BY <2>3, <4>3, <4>4, ObservedOnMedian
    <3>2. CASE n \notin DOMAIN trusted
      BY <2>3, <3>2 DEF Observed
    <3> QED
      BY <3>1, <3>2
  <2> HIDE DEF devs, aggregated
  <2>5. n \notin attackers
    BY <2>4, OnMedianDoesNotDrift
  <2>6. signedDevs'[n] \in Seq(OnMedian)
    BY <1>4, <2>3, <2>4
  <2> QED
    BY <2>5, <2>6
<1> HIDE DEF verified, reports, byzantine, trusted, inputs, dissent, raw, aggregated, median, devs, drifters, honestMost
<1>16. WatchdogInv' /\ call' = Idle /\ record' = record
  <2>1. WatchdogInv'
    BY <1>1, OtherStepInv
  <2> QED
    BY <1>1, <2>1 DEF watchVars
<1>17. drifters \subseteq Node
  BY DEF drifters
<1>18. CallsAreFounded'
  <2>1. /\ unfiled' \in Seq(Recording)
        /\ \A k \in 1..Len(unfiled') :
             \/ unfiled'[k].track = conflicting /\ unfiled'[k].flagged = byzantine
             \/ unfiled'[k].track = drift /\ unfiled'[k].flagged = drifters
             \/ unfiled'[k].track = nonReveal /\ unfiled'[k].flagged = silent
    <3>1. silent \in SUBSET Node /\ byzantine \in SUBSET Node /\ drifters \in SUBSET Node
      BY <1>8, <1>17
    <3>2. LET due == Due(conflicting, byzantine) \o Due(drift, drifters) \o Due(nonReveal, silent)
          IN  /\ due \in Seq(Recording)
              /\ \A k \in 1..Len(due) :
                   \/ due[k].track = conflicting /\ due[k].flagged = byzantine
                   \/ due[k].track = drift /\ due[k].flagged = drifters
                   \/ due[k].track = nonReveal /\ due[k].flagged = silent
      BY <3>1, DueIsFlagged
    <3> QED
      BY <1>2, <3>2
  <2>2. ASSUME NEW k \in 1..Len(unfiled'), NEW n \in unfiled'[k].flagged
        PROVE  FlagIsFounded(unfiled[k].track, epoch, n)'
    <3> USE DEF FlagIsFounded
    <3>1. CASE unfiled'[k].track = conflicting /\ unfiled'[k].flagged = byzantine
      BY <1>1, <1>10, <1>12, <2>2, <3>1, ByzantineAssumption
    <3>2. CASE unfiled'[k].track = drift /\ unfiled'[k].flagged = drifters
      BY <1>15, <2>2, <3>2, ByzantineAssumption
    <3>3. CASE unfiled'[k].track = nonReveal /\ unfiled'[k].flagged = silent
      BY <1>1, <1>13, <2>2, <3>3, ByzantineAssumption
    <3> QED
      BY <2>1, <3>1, <3>2, <3>3
  <2> QED
    BY <1>1, <1>16, <2>1, <2>2 DEF CallsAreFounded
<1>19. HistoryIsHonest'
  <2>1. epoch' \in Nat
    BY <1>1, WatchdogAssumption DEF Epoch
  <2>2. DOMAIN signedDevs' = Node
    BY <1>4, <1>14 DEF HistoryIsHonest
  <2>3. result'.aggregated # NoScore =>
          AggregateIsHonest(epoch, result.aggregated, result.truth, result.inputs, result.dissent)'
    BY <1>1, <1>3, <1>10, <1>11, <1>12 DEF AggregateIsHonest
  <2> QED
    BY <1>12, <1>13, <1>15, <2>1, <2>2, <2>3 DEF HistoryIsHonest
<1>20. HonestIsNotFramed'
  <2>1. Honest \subseteq Node
    BY DEF Honest
  <2> QED
    BY <1>12, <1>13, <1>16, <2>1 DEF HonestIsNotFramed
<1>21. CertificateIsHonest'
  BY <1>1, <1>12 DEF CertificateIsHonest
<1> QED
  BY <1>16, <1>18, <1>19, <1>20, <1>21

-----------------------------------------------------------------------------
\* The inductive invariant of an epoch after its reveals holds in every
\* reachable state, however epochs are repeated and filings fail.
THEOREM ByzantineInvariant == ByzSpec => []ByzInv
<1>1. ASSUME ByzInv, [ByzNext]_byzVars
      PROVE  ByzInv'
  <2>1. CASE UNCHANGED byzVars
    <3>1. UNCHANGED watchVars /\ UNCHANGED epochStepVars
      BY <2>1 DEF byzVars
    <3>2. WatchdogInv'
      BY <1>1, <3>1, OtherStepInv DEF ByzInv
    <3>3. UNCHANGED <<record, call>> /\ UNCHANGED <<outvoted, mute>>
      BY <3>1 DEF watchVars, epochStepVars
    <3>4. HonestIsNotFramed'
      BY <1>1, <3>3 DEF ByzInv, HonestIsNotFramed
    <3> QED
      BY <1>1, <3>1, <3>2, <3>3, <3>4, WatchdogKeeps
  <2>2. ASSUME NEW e \in {epoch, epoch + 1} \cap Epoch, NEW lies \in [Faulty -> Lies],
               NEW absent \in SilentSets, NEW silent \in SilentSets,
               RunEpoch(e, lies, absent, silent)
        PROVE  ByzInv'
    BY <1>1, <2>2, RunEpochInv DEF SilentSets
  <2> QED
    BY <1>1, <2>1, <2>2, RecordTrackInv, WatchdogStepInv, ChallengeRaisesInv, SignAndSubmitInv
       DEF ByzNext
<1> QED
  BY ByzStart, <1>1, PTL DEF ByzSpec

\* While those who revealed were mostly honest no honest node gains a strike
\* it did not earn, whatever the liars reveal (analyse_deviation, the drift
\* detector, CommitRevealRound.non_revealers).
THEOREM HonestNodesAreNotFramed == ByzSpec => []HonestIsNotFramed
<1>1. ByzInv => HonestIsNotFramed
  BY DEF ByzInv
<1> QED
  BY ByzantineInvariant, <1>1, PTL

\* Unless its epoch was outvoted, a certificate handed to the chain carries the
\* honest verdict over the honest inputs, with INPUT_DIVERGENCE set just when a
\* node that revealed had others; it is a quorum's, and no flagged node signed
\* it (byzantine_runner.py, pipeline.py).
THEOREM CertificatesAreHonest == ByzSpec => []CertificateIsHonest
<1>1. ByzInv => CertificateIsHonest
  BY DEF ByzInv
<1> QED
  BY ByzantineInvariant, <1>1, PTL

-----------------------------------------------------------------------------
(* The exchange without commitments.                                       *)

\* A quorum of answers has an honest majority.
LEMMA HonestMajority ==
  ASSUME HonestQuorum, NEW D \in SUBSET Member,
         Cardinality(D) >= QuorumFor(Cardinality(Member))
  PROVE  IsFiniteSet(D) /\ MoreThanHalf(D \ Liars, D)
<1> DEFINE q == QuorumFor(Cardinality(Member))
<1>1. IsFiniteSet(Member) /\ Cardinality(Member) \in Nat /\ q \in Int
  BY FS_CardinalityType DEF HonestQuorum, QuorumFor
<1>2. IsFiniteSet(D) /\ IsFiniteSet(Liars) /\ IsFiniteSet(D \cap Liars)
  BY <1>1, FS_Subset, ExchangeAssumption
<1>3. Cardinality(D) \in Nat /\ Cardinality(Liars) \in Nat /\ Cardinality(D \cap Liars) \in Nat
  BY <1>2, FS_CardinalityType
<1>4. Cardinality(D \cap Liars) <= Cardinality(Liars)
  <2> D \cap Liars \subseteq Liars
    OBVIOUS
  <2> QED
    BY <1>2, FS_Subset
<1>5. Cardinality(D \ Liars) = Cardinality(D) - Cardinality(D \cap Liars)
  BY <1>2, FS_Difference
<1>6. 2 * Cardinality(Liars) < q
  BY DEF HonestQuorum
<1> HIDE DEF q
<1>7. Cardinality(D) >= q
  BY DEF q
<1>8. 2 * Cardinality(D \ Liars) > Cardinality(D)
  BY <1>1, <1>3, <1>4, <1>5, <1>6, <1>7
<1> QED
  BY <1>2, <1>8 DEF MoreThanHalf

LEMMA ExchangeStart == ExchangeInit => ExchangeInv
BY DEF ExchangeInit, ExchangeInv

\* One more answer, an honest one if an honest member gave it.
LEMMA AnswersAreTrue ==
  ASSUME NEW m \in Member, NEW r \in Answers(m)
  PROVE  r \in Answered /\ (m \notin Liars => r = HonestScore)
BY DEF Answers, Answered

LEMMA AskPeerInv ==
  ASSUME ExchangeInv, NEW n \in Member, AskPeer(n)
  PROVE  ExchangeInv'
<1> DEFINE run == exchange[n]
           m == Min(run.asking)
           rest == run.asking \ {m}
           left == [asking |-> rest, got |-> run.got]
<1>1. RunOK(run) /\ run.asking # {}
  <2>1. run.asking # {}
    BY DEF AskPeer
  <2>2. run # NotRunning
    <3>1. CASE run = NotRunning
      <4>1. run.asking = {}
        BY <3>1 DEF NotRunning
      <4> QED
        BY <2>1, <4>1
    <3> QED
      BY <3>1
  <2> QED
    BY <2>1, <2>2 DEF ExchangeInv
<1>2. m \in run.asking /\ m \in Member
  <2>1. run.asking \subseteq Nat
    BY <1>1, ExchangeAssumption DEF RunOK
  <2> QED
    BY <1>1, <2>1, LeastOfNaturals DEF RunOK
<1>3. [run EXCEPT !.asking = @ \ {m}] = left
  BY <1>1 DEF RunOK
<1>4. /\ left.asking = rest /\ left.got = run.got
      /\ rest \subseteq Member /\ DOMAIN run.got \subseteq Member
  BY <1>1 DEF RunOK
<1>5. UNCHANGED submitted
  BY DEF AskPeer
<1>6. ASSUME NEW next, RunOK(next), exchange' = [exchange EXCEPT ![n] = next]
      PROVE  ExchangeInv'
  <2>1. DOMAIN exchange' = Member /\ exchange'[n] = next
        /\ \A k \in Member \ {n} : exchange'[k] = exchange[k]
    BY <1>6 DEF ExchangeInv
  <2>2. \A k \in Member : exchange'[k] = NotRunning \/ RunOK(exchange'[k])
    BY <1>6, <2>1 DEF ExchangeInv
  <2> QED
    BY <1>5, <2>1, <2>2 DEF ExchangeInv
<1>7. RunOK(left)
  BY <1>1, <1>4 DEF RunOK
<1>8. CASE exchange' = [exchange EXCEPT ![n] = left]
  BY <1>6, <1>7, <1>8
<1>9. ASSUME NEW r \in Answers(m),
             exchange' = [exchange EXCEPT ![n] =
               [left EXCEPT !.got = [k \in DOMAIN left.got \cup {m} |->
                                       IF k = m THEN r ELSE left.got[k]]]]
      PROVE  ExchangeInv'
  <2> DEFINE more == [k \in DOMAIN run.got \cup {m} |-> IF k = m THEN r ELSE run.got[k]]
             next == [asking |-> rest, got |-> more]
  <2>1. r \in Answered /\ (m \notin Liars => r = HonestScore)
    BY <1>2, <1>9, AnswersAreTrue
  <2>2. [left EXCEPT !.got = [k \in DOMAIN left.got \cup {m} |->
                                IF k = m THEN r ELSE left.got[k]]] = next
    BY <1>4
  <2>3. /\ DOMAIN more \subseteq Member
        /\ \A k \in DOMAIN more : more[k] \in Answered /\ (k \notin Liars => more[k] = HonestScore)
    BY <1>1, <1>2, <2>1 DEF RunOK
  <2>4. next.asking = rest /\ next.got = more
    OBVIOUS
  <2>5. exchange' = [exchange EXCEPT ![n] = next]
    BY <1>9, <2>2
  <2> HIDE DEF more, rest
  <2>6. RunOK(next)
    BY <1>4, <2>3, <2>4 DEF RunOK
  <2> HIDE DEF next
  <2> QED
    BY <1>6, <2>5, <2>6
<1> QED
  <2>1. \/ exchange' = [exchange EXCEPT ![n] = left]
        \/ \E r \in Answers(m) :
             exchange' = [exchange EXCEPT ![n] =
               [left EXCEPT !.got = [k \in DOMAIN left.got \cup {m} |->
                                       IF k = m THEN r ELSE left.got[k]]]]
    <3> DEFINE asked == [run EXCEPT !.asking = @ \ {m}]
               told(a, r) == [a EXCEPT !.got = [k \in DOMAIN a.got \cup {m} |->
                                                 IF k = m THEN r ELSE a.got[k]]]
    <3>1. \/ exchange' = [exchange EXCEPT ![n] = asked]
          \/ \E r \in Answers(m) : exchange' = [exchange EXCEPT ![n] = told(asked, r)]
      BY Zenon DEF AskPeer
    <3>2. asked = left
      BY <1>3
    <3> HIDE DEF asked, told
    <3>3. \/ exchange' = [exchange EXCEPT ![n] = left]
          \/ \E r \in Answers(m) : exchange' = [exchange EXCEPT ![n] = told(left, r)]
      BY <3>1, <3>2
    <3> QED
      BY <3>3, Zenon DEF told
  <2> QED
    BY <1>8, <1>9, <2>1

LEMMA SubmitMedianInv ==
  ASSUME HonestQuorum, ExchangeInv, NEW n \in Member, SubmitMedian(n)
  PROVE  ExchangeInv'
<1> DEFINE got == exchange[n].got
           size == Cardinality(Member)
           agreed == Aggregate(got, size)
<1>1. RunOK(exchange[n])
  BY DEF SubmitMedian, ExchangeInv
<1>2. \A k \in Member : exchange'[k] = NotRunning \/ exchange'[k] = exchange[k]
  BY DEF SubmitMedian, ExchangeInv
<1>3. DOMAIN exchange' = Member
  BY DEF SubmitMedian, ExchangeInv
<1>4. \A k \in Member : exchange'[k] = NotRunning \/ RunOK(exchange'[k])
  BY <1>2 DEF ExchangeInv
<1>5. ASSUME agreed # NoScore
      PROVE  /\ agreed.score = HonestScore.score /\ agreed.tier = HonestScore.tier
             /\ agreed.red = HonestScore.red /\ agreed.flags = HonestScore.flags
  <2> DEFINE D == DOMAIN got
             E == D \ Liars
  <2>1. D \subseteq Member /\ size \in Nat
    BY <1>1, FS_CardinalityType DEF RunOK, HonestQuorum
  <2>2. ~ (Cardinality(D) < QuorumFor(size))
    BY <1>5 DEF Aggregate
  <2>3. Cardinality(D) >= QuorumFor(size)
    <3>1. IsFiniteSet(D)
      BY <2>1, FS_Subset DEF HonestQuorum
    <3>2. Cardinality(D) \in Nat /\ QuorumFor(size) \in Int
      BY <2>1, <3>1, FS_CardinalityType DEF QuorumFor
    <3> QED
      BY <2>2, <3>2
  <2>4. IsFiniteSet(D) /\ MoreThanHalf(E, D)
    BY <2>1, <2>3, HonestMajority
  <2>5. /\ \A k \in E : got[k] = HonestScore
        /\ \A k \in D : got[k] \in Answered
    BY <1>1 DEF RunOK
  <2>6. /\ \A k \in D : got[k].score \in Int /\ got[k].tier \in Int
        /\ HonestScore.red \in BOOLEAN
    BY <2>5, ExchangeAssumption DEF Answered
  <2>7. E \in SUBSET D
    OBVIOUS
  <2> HIDE DEF got, size, agreed, E
  <2> QED
    BY <1>5, <2>1, <2>4, <2>5, <2>6, <2>7, AggregateOfMajority DEF agreed
<1>6. submitted' = submitted \/
      (agreed # NoScore /\ submitted' = submitted \cup {[by |-> n, result |-> agreed]})
  BY DEF SubmitMedian
<1>7. \A s \in submitted' : s \in submitted \/ (agreed # NoScore /\ s.result = agreed)
  BY <1>6
<1> HIDE DEF agreed
<1> QED
  BY <1>3, <1>4, <1>5, <1>7 DEF ExchangeInv

\* With the liars a minority of every quorum, two runners submit one verdict,
\* whatever the members answer and whoever is up (simulate_cluster_epoch).
THEOREM MediansAgree == ASSUME HonestQuorum PROVE ExchangeSpec => []SubmittedMediansAgree
<1>1. ASSUME ExchangeInv, [ExchangeNext]_exchangeVars
      PROVE  ExchangeInv'
  <2>1. CASE UNCHANGED exchangeVars
    BY <1>1, <2>1 DEF exchangeVars, ExchangeInv
  <2>2. ASSUME NEW n \in Member, ScoreAhead(n) \/ Toggle(n)
        PROVE  ExchangeInv'
    BY <1>1, <2>2 DEF ScoreAhead, Toggle, ExchangeInv
  <2>3. ASSUME NEW n \in Member, n \in Runners, StartExchange(n)
        PROVE  ExchangeInv'
    <3> DEFINE run == [asking |-> Member \ {n}, got |-> [m \in {n} |-> HonestScore]]
    <3>1. run.asking = Member \ {n} /\ run.got = [m \in {n} |-> HonestScore]
      OBVIOUS
    <3>2. RunOK(run)
      BY <3>1 DEF RunOK, Answered
    <3>3. exchange' = [exchange EXCEPT ![n] = run] /\ UNCHANGED submitted
      BY <2>3 DEF StartExchange
    <3> HIDE DEF run
    <3> QED
      BY <1>1, <3>2, <3>3 DEF ExchangeInv
  <2> QED
    BY <1>1, <2>1, <2>2, <2>3, AskPeerInv, SubmitMedianInv DEF ExchangeNext
<1>2. ExchangeInv => SubmittedMediansAgree
  BY DEF ExchangeInv, SubmittedMediansAgree
<1> QED
  BY ExchangeStart, <1>1, <1>2, PTL DEF ExchangeSpec

-----------------------------------------------------------------------------
(* The evidence store.                                                     *)

LEMMA EvidenceInitInv == EvidenceInit => EvidenceInv
BY EvidenceAssumption DEF EvidenceInit, EvidenceInv, EvidenceTypeOK

LEMMA OneSlot ==
  ASSUME NEW s \in Slot, NEW t \in Slot, NEW h \in Possible[s], h \in Possible[t]
  PROVE  s = t
BY EvidenceAssumption

\* What is served for a slot stays, while nothing is stored or observed.
LEMMA EvidenceKept ==
  ASSUME EvidenceInv, UNCHANGED <<byHash, bySlot>>,
         agreedHashes' \in [Slot -> SUBSET Payload],
         \A s \in Slot : agreedHashes'[s] \subseteq Possible[s],
         certHash' \in [Slot -> Payload \cup {NoRecord}],
         \A s \in Slot : certHash[s] = NoRecord \/ certHash'[s] = certHash[s],
         inFlight' \subseteq [slot: Slot, payload: Payload],
         \A ev \in inFlight' : ev.payload \in Possible[ev.slot]
  PROVE  EvidenceInv'
<1>1. ASSUME NEW h, NEW r, Faithful(h, r)
      PROVE  Faithful(h, r)'
  BY <1>1 DEF Faithful, Record
<1>2. EvidenceTypeOK'
  BY DEF EvidenceInv, EvidenceTypeOK
<1>3. \A h \in Payload : byHash'[h] # NoRecord => Faithful(h, byHash[h])'
  BY <1>1 DEF EvidenceInv
<1>4. \A s \in Slot : bySlot'[s] # NoRecord =>
        /\ bySlot'[s] \in Possible[s]
        /\ Faithful(bySlot[s], byHash[bySlot[s]])' /\ byHash'[bySlot'[s]].slot = s
  BY <1>1 DEF EvidenceInv
<1> QED
  BY <1>2, <1>3, <1>4 DEF EvidenceInv

LEMMA IngestInv ==
  ASSUME EvidenceInv, NEW ev \in inFlight, Ingest(ev)
  PROVE  EvidenceInv'
<1> DEFINE s == ev.slot
           h == ev.payload
           r == [slot |-> s, seen |-> NoRecord]
<1>1. s \in Slot /\ h \in Payload /\ h \in Possible[s]
  BY DEF EvidenceInv, EvidenceTypeOK
<1>2. r \in Record /\ Faithful(h, r) /\ r.slot = s
  BY <1>1 DEF Record, Faithful
<1> HIDE DEF r
<1>3. /\ UNCHANGED <<agreedHashes, certHash, inFlight>>
      /\ bySlot' = [bySlot EXCEPT ![s] = h]
      /\ byHash' = IF byHash[h] = NoRecord THEN [byHash EXCEPT ![h] = r] ELSE byHash
  BY DEF Ingest, r
<1> HIDE DEF s, h
<1>4. EvidenceTypeOK'
  BY <1>1, <1>2, <1>3 DEF EvidenceInv, EvidenceTypeOK
<1>5. \A k \in Payload : k # h => byHash'[k] = byHash[k]
  BY <1>3 DEF EvidenceInv, EvidenceTypeOK
<1>6. Faithful(h, byHash'[h]) /\ byHash'[h].slot = s
  <2>1. CASE byHash[h] = NoRecord
    BY <1>1, <1>2, <1>3, <2>1 DEF EvidenceInv, EvidenceTypeOK
  <2>2. CASE byHash[h] # NoRecord
    <3>1. Faithful(h, byHash[h]) /\ byHash'[h] = byHash[h]
      BY <1>1, <1>3, <2>2 DEF EvidenceInv
    <3> QED
      BY <1>1, <3>1, OneSlot DEF Faithful, Record
  <2> QED
    BY <2>1, <2>2
<1>7. \A k, q : Faithful(k, q)' <=> Faithful(k, q)
  BY <1>3 DEF Faithful
<1>8. \A k \in Payload : byHash'[k] # NoRecord => Faithful(k, byHash'[k])
  BY <1>5, <1>6 DEF EvidenceInv
<1>9. \A t \in Slot : bySlot'[t] # NoRecord =>
        /\ bySlot'[t] \in Possible[t]
        /\ Faithful(bySlot'[t], byHash'[bySlot'[t]]) /\ byHash'[bySlot'[t]].slot = t
  <2>1. TAKE t \in Slot
  <2>2. CASE t = s
    BY <1>1, <1>3, <1>6, <2>2 DEF EvidenceInv, EvidenceTypeOK
  <2>3. CASE t # s
    <3>1. bySlot'[t] = bySlot[t]
      BY <1>3, <2>3 DEF EvidenceInv, EvidenceTypeOK
    <3>2. CASE bySlot[t] = NoRecord
      BY <3>1, <3>2
    <3>3. CASE bySlot[t] # NoRecord
      <4>1. bySlot[t] \in Possible[t] /\ bySlot[t] \in Payload
        BY <3>3 DEF EvidenceInv, EvidenceTypeOK
      <4>2. bySlot[t] # h
        BY <1>1, <2>3, <4>1, OneSlot
      <4> QED
        BY <1>5, <3>1, <3>3, <4>1, <4>2 DEF EvidenceInv
    <3> QED
      BY <3>2, <3>3
  <2> QED
    BY <2>2, <2>3
<1> QED
  BY <1>3, <1>4, <1>7, <1>8, <1>9 DEF EvidenceInv

LEMMA ObservationInv ==
  ASSUME EvidenceInv, NEW s \in Slot, RecordOnChainHash(s)
  PROVE  EvidenceInv'
<1>1. CASE bySlot[s] = NoRecord
  BY <1>1, EvidenceKept DEF RecordOnChainHash, EvidenceInv, EvidenceTypeOK
<1>2. CASE bySlot[s] # NoRecord
  <2> DEFINE h == bySlot[s]
             r == [byHash[h] EXCEPT !.seen = certHash[s]]
  <2>1. /\ UNCHANGED <<agreedHashes, certHash, inFlight, bySlot>>
        /\ byHash' = [byHash EXCEPT ![h] = r]
    BY <1>2 DEF RecordOnChainHash
  <2>2. /\ h \in Payload /\ byHash[h] \in Record /\ h \in Possible[s] /\ byHash[h].slot = s
        /\ certHash[s] \in Payload \cup {NoRecord}
    BY <1>2 DEF EvidenceInv, EvidenceTypeOK, Faithful
  <2>3. r \in Record /\ r.slot = s /\ r.seen = certHash[s]
    BY <2>2 DEF Record
  <2> HIDE DEF r
  <2>4. Faithful(h, r)
    BY <2>2, <2>3 DEF Faithful
  <2> HIDE DEF h
  <2>5. EvidenceTypeOK'
    BY <2>1, <2>2, <2>3 DEF EvidenceInv, EvidenceTypeOK
  <2>6. byHash'[h] = r /\ \A k \in Payload : k # h => byHash'[k] = byHash[k]
    BY <2>1, <2>2 DEF EvidenceInv, EvidenceTypeOK
  <2>7. \A k, q : Faithful(k, q)' <=> Faithful(k, q)
    BY <2>1 DEF Faithful
  <2>8. \A k \in Payload : byHash'[k] # NoRecord => Faithful(k, byHash'[k])
    BY <2>4, <2>6 DEF EvidenceInv
  <2>9. \A t \in Slot : bySlot'[t] # NoRecord =>
          /\ bySlot'[t] \in Possible[t]
          /\ Faithful(bySlot'[t], byHash'[bySlot'[t]]) /\ byHash'[bySlot'[t]].slot = t
    <3>1. TAKE t \in Slot
    <3>2. CASE bySlot[t] = NoRecord
      BY <2>1, <3>2
    <3>3. CASE bySlot[t] # NoRecord /\ bySlot[t] = h
      <4>1. t = s
        BY <2>2, <3>3, OneSlot DEF EvidenceInv
      <4> QED
        BY <2>1, <2>2, <2>3, <2>4, <2>6, <3>3, <4>1
    <3>4. CASE bySlot[t] # NoRecord /\ bySlot[t] # h
      BY <2>1, <2>6, <3>4 DEF EvidenceInv, EvidenceTypeOK
    <3> QED
      BY <3>2, <3>3, <3>4
  <2> QED
    BY <2>1, <2>5, <2>7, <2>8, <2>9 DEF EvidenceInv
<1> QED
  BY <1>1, <1>2

LEMMA EvidenceNextInv ==
  ASSUME EvidenceInv, [EvidenceNext]_evidenceVars
  PROVE  EvidenceInv'
<1>1. ASSUME NEW s \in Slot, NEW h \in Payload, Consensus(s, h)
      PROVE  EvidenceInv'
  BY <1>1, EvidenceKept DEF Consensus, EvidenceInv, EvidenceTypeOK
<1>2. ASSUME NEW s \in Slot, NEW h \in Payload, CertificateLands(s, h)
      PROVE  EvidenceInv'
  BY <1>2, EvidenceKept DEF CertificateLands, EvidenceInv, EvidenceTypeOK
<1>3. ASSUME NEW s \in Slot, NEW h \in Payload, Emit(s, h)
      PROVE  EvidenceInv'
  BY <1>3, EvidenceKept DEF Emit, MayEmit, EvidenceInv, EvidenceTypeOK
<1>4. CASE UNCHANGED evidenceVars
  BY <1>4, EvidenceKept DEF evidenceVars, EvidenceInv, EvidenceTypeOK
<1> QED
  BY <1>1, <1>2, <1>3, <1>4, IngestInv, ObservationInv DEF EvidenceNext

\* What a node serves for a slot never changes once it is stored, and is
\* called attested only if the certificate of that very slot commits to it,
\* for any slots and payloads and any order of runs, duplicates and
\* observations (evidence_repo.py, diagnosis_payload_ingest.py).
THEOREM EvidenceIsTrue == EvidenceSpec => ServedEvidenceIsTrue
<1>1. EvidenceSpec => []EvidenceInv
  BY EvidenceInitInv, EvidenceNextInv, PTL DEF EvidenceSpec
<1>2. ASSUME EvidenceInv, EvidenceInv', EvidenceNext
      PROVE  /\ \A s \in Slot : AttestedAt(s)' =>
                  byHash'[bySlot'[s]].slot = s /\ certHash'[s] = bySlot'[s]
             /\ \A s \in Slot : bySlot[s] # NoRecord => bySlot'[s] = bySlot[s]
  <2>1. ASSUME NEW s \in Slot, AttestedAt(s)'
        PROVE  byHash'[bySlot'[s]].slot = s /\ certHash'[s] = bySlot'[s]
    BY <1>2, <2>1 DEF AttestedAt, EvidenceInv, Faithful
  <2>2. ASSUME NEW s \in Slot, bySlot[s] # NoRecord
        PROVE  bySlot'[s] = bySlot[s]
    BY <1>2, <2>2 DEF EvidenceNext, Consensus, CertificateLands, Emit, Ingest, Stores,
                      RecordOnChainHash, EvidenceInv, EvidenceTypeOK
  <2> QED
    BY <2>1, <2>2
<1>3. EvidenceSpec =>
        [][/\ \A s \in Slot : AttestedAt(s)' =>
                byHash'[bySlot'[s]].slot = s /\ certHash'[s] = bySlot'[s]
           /\ \A s \in Slot : bySlot[s] # NoRecord => bySlot'[s] = bySlot[s]]_evidenceVars
  BY <1>1, <1>2, PTL DEF EvidenceSpec
<1> QED
  BY <1>3 DEF ServedEvidenceIsTrue

-----------------------------------------------------------------------------
(* The agent set.                                                          *)

LEMMA AgentSetInitInv == AgentSetInit => AgentSetInv
<1> SUFFICES ASSUME AgentSetInit
             PROVE  AgentSetInv
  OBVIOUS
<1>1. AgentSetTypeOK
  BY AgentSetAssumption DEF AgentSetInit, AgentSetTypeOK, NoChange
<1>2. SetAfter(0) = Genesis
  BY AgentSetAssumption DEF SetAfter, Joins
<1>3. \A n \in Peer : Applied(Genesis, NoChange) = Genesis /\ Len(snapshots[n]) = 0
  BY AgentSetAssumption DEF AgentSetInit, Applied, NoChange
<1>5. \A n \in Peer : \A e \in 1..Len(snapshots[n]) : FALSE
  BY <1>3
<1>4. SnapshotsFollowTheChain
  <2> USE DEF SnapshotsFollowTheChain
  <2>1. TAKE n \in Peer
  <2>2. /\ currentSet[n] = Genesis /\ pendingSet[n] = NoChange /\ read[n] = 0
    BY DEF AgentSetInit
  <2> QED
    BY <1>2, <1>3, <1>5, <2>2
<1> QED
  BY <1>1, <1>4, <1>5 DEF AgentSetInv

\* One more event decides about its own wallet and leaves the others.
LEMMA OneEventMore ==
  ASSUME chain \in Seq(Change), NEW k \in Nat, k < Len(chain),
         NEW w \in Wallet
  PROVE  w \in SetAfter(k + 1) <=>
           IF chain[k + 1].wallet = w THEN chain[k + 1].kind = "register" ELSE w \in SetAfter(k)
<1> DEFINE c == chain[k + 1]
<1>1. c \in Change
  <2>1. k + 1 \in 1..Len(chain)
    OBVIOUS
  <2> QED
    BY <2>1
<1>2. CASE c = [kind |-> "register", wallet |-> w]
  <2>1. k + 1 \in 0..(k + 1) /\ Joins(w, k + 1)
    BY <1>2 DEF Joins
  <2>2. \A j \in (k + 1 + 1)..(k + 1) : FALSE
    OBVIOUS
  <2>3. w \in SetAfter(k + 1)
    BY <2>1, <2>2 DEF SetAfter
  <2> QED
    BY <1>2, <2>3
<1>3. CASE c = [kind |-> "deregister", wallet |-> w]
  <2>1. ASSUME NEW i \in 0..(k + 1), Joins(w, i),
               \A j \in (i + 1)..(k + 1) : chain[j] # [kind |-> "deregister", wallet |-> w]
        PROVE  FALSE
    <3>1. CASE i = k + 1
      BY <1>3, <2>1, <3>1 DEF Joins
    <3>2. CASE i < k + 1
      BY <1>3, <2>1, <3>2
    <3> QED
      BY <3>1, <3>2
  <2>2. w \notin SetAfter(k + 1)
    BY <2>1 DEF SetAfter
  <2> QED
    BY <1>3, <2>2
<1>4. CASE c.wallet # w
  <2>0. c # [kind |-> "deregister", wallet |-> w] /\ c # [kind |-> "register", wallet |-> w]
    BY <1>4
  <2>1. ASSUME NEW i \in 0..k, Joins(w, i),
               \A j \in (i + 1)..k : chain[j] # [kind |-> "deregister", wallet |-> w]
        PROVE  w \in SetAfter(k + 1)
    <3>1. \A j \in (i + 1)..(k + 1) : j \in (i + 1)..k \/ j = k + 1
      OBVIOUS
    <3>2. i \in 0..(k + 1)
      OBVIOUS
    <3> QED
      BY <2>0, <2>1, <3>1, <3>2 DEF SetAfter
  <2>2. ASSUME NEW i \in 0..(k + 1), Joins(w, i),
               \A j \in (i + 1)..(k + 1) : chain[j] # [kind |-> "deregister", wallet |-> w]
        PROVE  w \in SetAfter(k)
    <3>1. i # k + 1
      BY <2>0, <2>2 DEF Joins
    <3>2. i \in 0..k /\ \A j \in (i + 1)..k : j \in (i + 1)..(k + 1)
      BY <3>1
    <3> QED
      BY <2>2, <3>2 DEF SetAfter
  <2> QED
    BY <1>4, <2>1, <2>2 DEF SetAfter
<1>5. c.wallet = w => c = [kind |-> "register", wallet |-> w] \/ c = [kind |-> "deregister", wallet |-> w]
  <2> HIDE DEF c
  <2> QED
    BY <1>1 DEF Change, ChangeKind
<1> QED
  BY <1>2, <1>3, <1>4, <1>5

\* What was appended later does not change what the earlier events say.
LEMMA ChainGrows ==
  ASSUME AgentSetInv, NEW kind \in ChangeKind, NEW v \in Wallet, ChainEvent(kind, v)
  PROVE  AgentSetInv'
<1> DEFINE c == [kind |-> kind, wallet |-> v]
<1>1. c \in Change
  BY DEF Change
<1>2. chain' = Append(chain, c) /\ UNCHANGED <<read, currentSet, pendingSet, snapshots>>
  BY DEF ChainEvent
<1> HIDE DEF c
<1>3. chain \in Seq(Change)
  BY DEF AgentSetInv, AgentSetTypeOK
<1>4. /\ chain' \in Seq(Change) /\ Len(chain') = Len(chain) + 1
      /\ \A i \in 1..Len(chain) : chain'[i] = chain[i]
  BY <1>1, <1>2, <1>3
<1>5. 0..Len(chain) \subseteq 0..Len(chain')
  BY <1>3, <1>4
<1>6. /\ AgentSetTypeOK'
      /\ \A n \in Peer : \A e \in 1..Len(snapshots'[n]) : snapshots'[n][e].read <= Len(chain')
  <2>1. read' \in [Peer -> 0..Len(chain')]
    BY <1>2, <1>5 DEF AgentSetInv, AgentSetTypeOK
  <2>2. ASSUME NEW n \in Peer, NEW e \in 1..Len(snapshots[n])
        PROVE  snapshots[n][e].read <= Len(chain')
    <3>1. snapshots[n][e] \in Snapshot /\ snapshots[n][e].read <= Len(chain)
      BY DEF AgentSetInv, AgentSetTypeOK
    <3> QED
      BY <1>3, <1>4, <3>1 DEF Snapshot
  <2> QED
    BY <1>2, <1>4, <2>1, <2>2 DEF AgentSetInv, AgentSetTypeOK
<1>7. \A k \in 0..Len(chain) : SetAfter(k)' = SetAfter(k)
  <2>1. TAKE k \in 0..Len(chain)
  <2>2. ASSUME NEW i \in 1..k
        PROVE  chain'[i] = chain[i]
    BY <1>3, <1>4
  <2>3. ASSUME NEW w \in Wallet, NEW i \in 0..k
        PROVE  /\ Joins(w, i)' <=> Joins(w, i)
               /\ \A j \in (i + 1)..k : chain'[j] = chain[j]
    BY <1>3, <2>2 DEF Joins
  <2> QED
    BY <2>3 DEF SetAfter
<1>8. SnapshotsFollowTheChain'
  <2>1. SUFFICES ASSUME NEW n \in Peer
                 PROVE  /\ Applied(currentSet[n], pendingSet[n]) = SetAfter(read[n])'
                        /\ \A e \in 1..Len(snapshots[n]) :
                             snapshots[n][e].hash = HashOf(e, SetAfter(snapshots[n][e].read)')
    BY <1>2 DEF SnapshotsFollowTheChain, Applied, HashOf
  <2>2. read[n] \in 0..Len(chain) /\ read' = read
    BY <1>2 DEF AgentSetInv, AgentSetTypeOK
  <2>3. ASSUME NEW e \in 1..Len(snapshots[n])
        PROVE  snapshots[n][e].read \in 0..Len(chain) /\ snapshots' = snapshots
    <3>1. snapshots[n][e] \in Snapshot /\ snapshots[n][e].read <= Len(chain)
      BY DEF AgentSetInv, AgentSetTypeOK
    <3> QED
      BY <1>2, <1>3, <3>1 DEF Snapshot
  <2> QED
    BY <1>7, <2>2, <2>3 DEF AgentSetInv, SnapshotsFollowTheChain
<1> QED
  BY <1>6, <1>8 DEF AgentSetInv

LEMMA EnqueueInv ==
  ASSUME AgentSetInv, NEW n \in Peer, Enqueue(n)
  PROVE  AgentSetInv'
<1> DEFINE k == read[n]
           c == chain[k + 1]
           q == Queued(pendingSet[n], c)
<1>1. /\ read' = [read EXCEPT ![n] = k + 1] /\ pendingSet' = [pendingSet EXCEPT ![n] = q]
      /\ UNCHANGED <<chain, currentSet, snapshots>> /\ k < Len(chain)
  BY DEF Enqueue
<1>2. /\ chain \in Seq(Change) /\ k \in 0..Len(chain)
      /\ pendingSet[n] \in [Wallet -> ChangeKind \cup {"none"}]
      /\ currentSet[n] \in SUBSET Wallet
  BY DEF AgentSetInv, AgentSetTypeOK
<1>3. c \in Change /\ k + 1 \in 0..Len(chain) /\ k \in Nat
  <2>1. k + 1 \in 1..Len(chain)
    BY <1>1, <1>2
  <2> QED
    BY <1>2, <2>1
<1>4. q \in [Wallet -> ChangeKind \cup {"none"}] /\ q = [pendingSet[n] EXCEPT ![c.wallet] = c.kind]
  BY <1>2, <1>3 DEF Queued, Change
<1>5. \A w \in Wallet : w \in SetAfter(k + 1) <=>
        IF c.wallet = w THEN c.kind = "register" ELSE w \in SetAfter(k)
  BY <1>1, <1>2, <1>3, OneEventMore
<1> HIDE DEF q, c
<1>6. Applied(currentSet[n], q) = SetAfter(k + 1)
  <2>1. Applied(currentSet[n], pendingSet[n]) = SetAfter(k)
    BY DEF AgentSetInv, SnapshotsFollowTheChain
  <2>2. \A w \in Wallet : w \in SetAfter(k) <=>
          pendingSet[n][w] = "register" \/ (w \in currentSet[n] /\ pendingSet[n][w] # "deregister")
    BY <2>1 DEF Applied
  <2>3. c.kind = "register" \/ c.kind = "deregister"
    BY <1>3 DEF Change, ChangeKind
  <2>4. \A w \in Wallet : q[w] = IF w = c.wallet THEN c.kind ELSE pendingSet[n][w]
    BY <1>2, <1>4
  <2>5. \A w \in Wallet : w \in SetAfter(k + 1) <=>
          q[w] = "register" \/ (w \in currentSet[n] /\ q[w] # "deregister")
    BY <1>5, <2>2, <2>3, <2>4
  <2>6. SetAfter(k + 1) \subseteq Wallet
    BY DEF SetAfter
  <2> QED
    BY <2>5, <2>6 DEF Applied
<1> HIDE DEF k
<1>7. AgentSetTypeOK'
  BY <1>1, <1>3, <1>4 DEF AgentSetInv, AgentSetTypeOK
<1>8. \A m : SetAfter(m)' = SetAfter(m)
  BY <1>1 DEF SetAfter, Joins
<1>9. /\ read'[n] = k + 1 /\ pendingSet'[n] = q
      /\ \A m \in Peer : m # n => read'[m] = read[m] /\ pendingSet'[m] = pendingSet[m]
  BY <1>1 DEF AgentSetInv, AgentSetTypeOK
<1>10. SnapshotsFollowTheChain'
  <2>1. SUFFICES ASSUME NEW m \in Peer
                 PROVE  /\ Applied(currentSet'[m], pendingSet'[m]) = SetAfter(read'[m])
                        /\ \A e \in 1..Len(snapshots'[m]) :
                             snapshots'[m][e].hash = HashOf(e, SetAfter(snapshots'[m][e].read))
    BY <1>8 DEF SnapshotsFollowTheChain, Applied, HashOf
  <2> QED
    BY <1>1, <1>6, <1>9 DEF AgentSetInv, SnapshotsFollowTheChain
<1> QED
  BY <1>1, <1>7, <1>10 DEF AgentSetInv

LEMMA ApplyPendingInv ==
  ASSUME AgentSetInv, NEW n \in Peer, ApplyPending(n)
  PROVE  AgentSetInv'
<1> DEFINE e == Len(snapshots[n]) + 1
           set == Applied(currentSet[n], pendingSet[n])
           s == [hash |-> HashOf(e, set), read |-> read[n]]
<1>1. /\ currentSet' = [currentSet EXCEPT ![n] = set]
      /\ pendingSet' = [pendingSet EXCEPT ![n] = NoChange]
      /\ snapshots' = [snapshots EXCEPT ![n] = Append(snapshots[n], s)]
      /\ UNCHANGED <<chain, read>>
  BY DEF ApplyPending
<1>2. /\ snapshots[n] \in Seq(Snapshot) /\ read[n] \in 0..Len(chain)
      /\ set = SetAfter(read[n]) /\ set \subseteq Wallet
  BY DEF AgentSetInv, AgentSetTypeOK, SnapshotsFollowTheChain, Applied
<1>3. s \in Snapshot /\ s.hash = HashOf(e, set) /\ s.read = read[n]
  <2>1. e \in Nat
    BY <1>2
  <2> HIDE DEF e, set
  <2> QED
    BY <1>2, <2>1 DEF HashOf, Snapshot
<1> HIDE DEF s, set
<1>4. Append(snapshots[n], s) \in Seq(Snapshot)
  BY <1>2, <1>3
<1>5. AgentSetTypeOK'
  <2>1. NoChange \in [Wallet -> ChangeKind \cup {"none"}]
    BY DEF NoChange
  <2> QED
    BY <1>1, <1>2, <1>4, <2>1 DEF AgentSetInv, AgentSetTypeOK
<1>6. \A m : SetAfter(m)' = SetAfter(m)
  BY <1>1 DEF SetAfter, Joins
<1>7. SnapshotsFollowTheChain'
  <2>1. SUFFICES ASSUME NEW m \in Peer
                 PROVE  /\ Applied(currentSet'[m], pendingSet'[m]) = SetAfter(read[m])
                        /\ \A i \in 1..Len(snapshots'[m]) :
                             snapshots'[m][i].hash = HashOf(i, SetAfter(snapshots'[m][i].read))
    BY <1>1, <1>6 DEF SnapshotsFollowTheChain, Applied, HashOf
  <2>2. CASE m # n
    BY <1>1, <2>2 DEF AgentSetInv, AgentSetTypeOK, SnapshotsFollowTheChain
  <2>3. CASE m = n
    <3>1. Applied(set, NoChange) = set
      BY <1>2 DEF Applied, NoChange
    <3>2. currentSet'[n] = set /\ pendingSet'[n] = NoChange
      BY <1>1 DEF AgentSetInv, AgentSetTypeOK
    <3>3. snapshots'[n] = Append(snapshots[n], s)
      <4>1. n \in DOMAIN snapshots
        BY DEF AgentSetInv, AgentSetTypeOK
      <4> QED
        BY <1>1, <4>1
    <3>4. ASSUME NEW i \in 1..Len(snapshots'[n])
          PROVE  snapshots'[n][i].hash = HashOf(i, SetAfter(snapshots'[n][i].read))
      <4>1. CASE i = e
        BY <1>2, <1>3, <3>3, <4>1
      <4>2. CASE i # e
        <5>1. i \in 1..Len(snapshots[n]) /\ snapshots'[n][i] = snapshots[n][i]
          BY <1>2, <3>3, <3>4, <4>2
        <5> QED
          BY <5>1 DEF AgentSetInv, SnapshotsFollowTheChain
      <4> QED
        BY <4>1, <4>2
    <3> QED
      BY <1>2, <2>3, <3>1, <3>2, <3>4
  <2> QED
    BY <2>2, <2>3
<1>8. ASSUME NEW m \in Peer, NEW i \in 1..Len(snapshots'[m])
      PROVE  snapshots'[m][i].read <= Len(chain')
  <2>1. CASE m = n /\ i = e
    <3>1. snapshots'[m][i] = s
      BY <1>1, <1>2, <2>1 DEF AgentSetInv, AgentSetTypeOK
    <3> QED
      BY <1>1, <1>2, <1>3, <3>1
  <2>2. CASE ~ (m = n /\ i = e)
    <3>1. i \in 1..Len(snapshots[m]) /\ snapshots'[m][i] = snapshots[m][i]
      BY <1>1, <1>2, <1>8, <2>2 DEF AgentSetInv, AgentSetTypeOK
    <3> QED
      BY <1>1, <3>1 DEF AgentSetInv
  <2> QED
    BY <2>1, <2>2
<1> QED
  BY <1>5, <1>7, <1>8 DEF AgentSetInv

\* Whatever a node has read, buffered and netted out, its set is that of the
\* events it had read: two nodes that read as far bind the same snapshot, for
\* any nodes, wallets and length of the chain (agent_set_buffer.py,
\* agent_snapshot.py).
THEOREM SnapshotsFollow == AgentSetSpec => []SnapshotsFollowTheChain
<1>1. ASSUME AgentSetInv, UNCHANGED agentVars
      PROVE  AgentSetInv'
  <2>1. \A k : SetAfter(k)' = SetAfter(k)
    BY <1>1 DEF SetAfter, Joins, agentVars
  <2>2. SnapshotsFollowTheChain'
    BY <1>1, <2>1 DEF AgentSetInv, SnapshotsFollowTheChain, Applied, HashOf, agentVars
  <2> QED
    BY <1>1, <2>2 DEF AgentSetInv, agentVars, AgentSetTypeOK
<1>2. AgentSetInv /\ [AgentSetNext]_agentVars => AgentSetInv'
  BY <1>1, ChainGrows, EnqueueInv, ApplyPendingInv DEF AgentSetNext
<1>3. AgentSetInv => SnapshotsFollowTheChain
  BY DEF AgentSetInv
<1> QED
  BY <1>2, <1>3, AgentSetInitInv, PTL DEF AgentSetSpec

-----------------------------------------------------------------------------
(* The agreement functions.                                                *)

LEMMA MajorityWins ==
  ASSUME NEW D, IsFiniteSet(D), NEW f, DOMAIN f = D, NEW v, MoreThanHalf({n \in D : f[n] = v}, D)
  PROVE  MajorityValue(f) = v
<1> DEFINE Holders(u) == {n \in D : f[n] = u}
           winners == {u \in Range(f) : MoreThanHalf(Holders(u), D)}
<1>1. v \in Range(f)
  <2>1. Holders(v) # {}
    <3> SUFFICES ASSUME Holders(v) = {}
                 PROVE  FALSE
      OBVIOUS
    <3>1. Cardinality(Holders(v)) = 0 /\ Cardinality(D) \in Nat
      BY FS_EmptySet, FS_CardinalityType
    <3> HIDE DEF Holders
    <3>2. 2 * Cardinality(Holders(v)) > Cardinality(D)
      BY DEF MoreThanHalf, Holders
    <3> QED
      BY <3>1, <3>2
  <2> QED
    BY <2>1 DEF Range
<1>2. ASSUME NEW u \in winners, u # v
      PROVE  FALSE
  <2>1. Holders(u) \cap Holders(v) = {} /\ Holders(u) \in SUBSET D /\ Holders(v) \in SUBSET D
    BY <1>2
  <2>2. MoreThanHalf(Holders(u), D) /\ MoreThanHalf(Holders(v), D)
    OBVIOUS
  <2> HIDE DEF Holders
  <2> QED
    BY <2>1, <2>2, MajorityCounts
<1>3. winners = {v}
  BY <1>1, <1>2
<1>4. MajorityValue(f) = IF winners = {} THEN LowerMedian(f) ELSE CHOOSE u \in winners : TRUE
  BY DEF MajorityValue
<1> HIDE DEF winners
<1> QED
  BY <1>3, <1>4

\* OM(1) among four nodes or more, one of them lying: the commander, whose word
\* every lieutenant relays to all, or a lieutenant, who is outvoted.
LEMMA OneLiarIsOutvoted ==
  ASSUME NEW L, IsFiniteSet(L), Cardinality(L) >= 3, NEW V
  PROVE  OneLiarAgreement(L, V)
<1> DEFINE P == {p \in L \X L : p[1] # p[2]}
           Heard(told, relayed, l) == [m \in DOMAIN told |-> IF m = l THEN told[l] ELSE relayed[<<m, l>>]]
<1>1. ASSUME NEW told \in [L -> V], NEW l \in L
      PROVE  Heard(told, [p \in P |-> told[p[1]]], l) = told
  <2>1. \A m \in L : m # l => [p \in P |-> told[p[1]]][<<m, l>>] = told[m]
    OBVIOUS
  <2> QED
    BY <2>1
<1>2. ASSUME NEW v \in V, NEW liar \in L, NEW lies \in [L -> V], NEW l \in L \ {liar}
      PROVE  MajorityValue(Heard([m \in L |-> v], [p \in P |-> IF p[1] = liar THEN lies[p[2]] ELSE v], l)) = v
  <2> PICK heard : heard = Heard([m \in L |-> v], [p \in P |-> IF p[1] = liar THEN lies[p[2]] ELSE v], l)
    OBVIOUS
  <2>1. DOMAIN heard = L /\ \A m \in L \ {liar} : heard[m] = v
    <3>1. \A m \in L : m # l /\ m # liar => [p \in P |-> IF p[1] = liar THEN lies[p[2]] ELSE v][<<m, l>>] = v
      OBVIOUS
    <3> QED
      BY <3>1
  <2> HIDE DEF Heard, P
  <2> DEFINE Loyal == {n \in L : heard[n] = v}
  <2>2. L \ {liar} \in SUBSET Loyal /\ Loyal \in SUBSET L
    BY <2>1
  <2>3. Cardinality(L \ {liar}) = Cardinality(L) - 1 /\ Cardinality(L) \in Nat
    BY FS_RemoveElement, FS_CardinalityType
  <2>4. IsFiniteSet(Loyal) /\ Cardinality(L \ {liar}) <= Cardinality(Loyal) /\ Cardinality(Loyal) \in Nat
    <3> HIDE DEF Loyal
    <3>1. IsFiniteSet(Loyal)
      BY <2>2, FS_Subset
    <3> QED
      BY <2>2, <3>1, FS_Subset, FS_CardinalityType
  <2>5. MoreThanHalf(Loyal, L)
    <3> HIDE DEF Loyal
    <3> QED
      BY <2>3, <2>4 DEF MoreThanHalf
  <2> QED
    BY <2>1, <2>5, MajorityWins
<1>3. \A told \in [L -> V] : \A l, m \in L :
        Decision(told, [p \in P |-> told[p[1]]], l) = Decision(told, [p \in P |-> told[p[1]]], m)
  <2> TAKE told \in [L -> V]
  <2> TAKE l, m \in L
  <2> DEFINE relayed == [p \in P |-> told[p[1]]]
  <2>1. \A k : Decision(told, relayed, k) = MajorityValue(Heard(told, relayed, k))
    BY DEF Decision
  <2>2. Heard(told, relayed, l) = told /\ Heard(told, relayed, m) = told
    BY <1>1
  <2> HIDE DEF Heard, relayed
  <2>3. Decision(told, relayed, l) = Decision(told, relayed, m)
    BY <2>1, <2>2
  <2> QED
    BY <2>3 DEF relayed
<1>4. \A v \in V, liar \in L : \A lies \in [L -> V] : \A l \in L \ {liar} :
        Decision([m \in L |-> v], [p \in P |-> IF p[1] = liar THEN lies[p[2]] ELSE v], l) = v
  BY <1>2 DEF Decision
<1> QED
  BY <1>3, <1>4 DEF OneLiarAgreement

LEMMA SupportIsCounted ==
  ASSUME NEW S, IsFiniteSet(S), NEW D, NEW seen \in [S -> D], NEW d
  PROVE  Support(seen, d) \in Nat /\ Support(seen, d) <= Cardinality(S) /\ Cardinality(S) \in Nat
<1> DEFINE T == {s \in S : seen[s] = d}
<1>1. Support(seen, d) = Cardinality(T)
  BY DEF Support
<1>2. T \in SUBSET S
  OBVIOUS
<1> HIDE DEF T
<1> QED
  BY <1>1, <1>2, FS_Subset, FS_CardinalityType

\* No digest was returned by more sources than the plurality's.
LEMMA PluralityLeads ==
  ASSUME NEW S, IsFiniteSet(S), S # {}, NEW D \in SUBSET Nat, NEW seen \in [S -> D]
  PROVE  \A d \in Range(seen) : Support(seen, d) <= Support(seen, Plurality(seen))
<1> DEFINE R == Range(seen)
           Sup(d) == Support(seen, d)
           Short == {Cardinality(S) - Sup(d) : d \in R}
<1>1. R \in SUBSET Nat /\ R # {}
  BY DEF Range
<1>2. \A d : Sup(d) \in Nat /\ Sup(d) <= Cardinality(S) /\ Cardinality(S) \in Nat
  BY SupportIsCounted
<1> HIDE DEF Sup, R
<1>3. Short \in SUBSET Nat /\ Short # {}
  <2>1. ASSUME NEW d \in R
        PROVE  Cardinality(S) - Sup(d) \in Nat
    <3> PICK x, n \in Nat : x = Sup(d) /\ n = Cardinality(S)
      BY <1>2
    <3>1. x <= n
      BY <1>2
    <3>2. n - x \in Nat
      BY <3>1
    <3> QED
      BY <3>2
  <2>2. \A d \in R : Cardinality(S) - Sup(d) \in Nat
    BY <2>1
  <2> QED
    BY <1>1, <2>2
<1>4. Min(Short) \in Short /\ \A y \in Short : Min(Short) =< y
  <2> HIDE DEF Short
  <2> QED
    BY <1>3, LeastOfNaturals
<1>5. PICK b \in R : Min(Short) = Cardinality(S) - Sup(b)
  BY <1>4
<1>6. \A d \in R : Sup(d) <= Sup(b)
  <2> TAKE d \in R
  <2> PICK x, y, n \in Nat : x = Sup(d) /\ y = Sup(b) /\ n = Cardinality(S)
    BY <1>2
  <2>1. Cardinality(S) - Sup(d) \in Short
    OBVIOUS
  <2> HIDE DEF Short
  <2>2. n - y <= n - x
    BY <1>4, <1>5, <2>1
  <2>3. x <= y
    BY <2>2
  <2> QED
    BY <2>3
<1> DEFINE Best == {d \in R : Sup(d) = Sup(b)}
<1>7. PICK least \in Best : \A d \in Best : least <= d
  <2>1. Best \in SUBSET Nat /\ Best # {}
    BY <1>1
  <2> HIDE DEF Best
  <2> QED
    BY <2>1, LeastOfNaturals
<1>8. \A e \in R \ {least} : Sup(e) < Sup(least) \/ (Sup(e) = Sup(least) /\ least < e)
  <2> TAKE e \in R \ {least}
  <2>1. CASE Sup(e) = Sup(b)
    <3>1. e \in Best /\ Sup(e) = Sup(least)
      BY <2>1
    <3>2. least <= e /\ e # least /\ e \in Nat /\ least \in Nat
      BY <1>1, <1>7, <3>1
    <3> QED
      BY <3>1, <3>2
  <2>2. CASE Sup(e) # Sup(b)
    <3>1. Sup(e) <= Sup(b) /\ Sup(least) = Sup(b) /\ Sup(e) \in Nat /\ Sup(b) \in Nat
      BY <1>2, <1>6
    <3> QED
      BY <2>2, <3>1
  <2> QED
    BY <2>1, <2>2
<1> DEFINE Leads(d) == \A e \in R \ {d} : Sup(e) < Sup(d) \/ (Sup(e) = Sup(d) /\ d < e)
<1>9. Plurality(seen) = CHOOSE d \in R : Leads(d)
  BY DEF Plurality, R, Sup
<1>10. \E d \in R : Leads(d)
  BY <1>8
<1> PICK p : p = Plurality(seen)
  OBVIOUS
<1>11. p \in R /\ Leads(p)
  <2> HIDE DEF Leads
  <2> QED
    BY <1>9, <1>10
<1>12. \A d \in R : Sup(d) <= Sup(p)
  <2> TAKE d \in R
  <2>1. d = p \/ Sup(d) <= Sup(p)
    BY <1>2, <1>11
  <2> QED
    BY <1>2, <2>1
<1> QED
  BY <1>12 DEF R, Sup

\* What is accepted outright was returned by an honest source, and two honest
\* ones are never refused.
LEMMA HonestSourcesPrevail ==
  ASSUME NEW S, IsFiniteSet(S), NEW D \in SUBSET Nat
  PROVE  AttestationIsHonest(S, D)
<1> SUFFICES ASSUME NEW seen \in [S -> D], NEW minimum \in 1..Cardinality(S), NEW liars \in SUBSET S, NEW true \in D,
                    Cardinality(liars) < minimum, \A s \in S \ liars : seen[s] = true
             PROVE  /\ Attested(seen, minimum) = "agree" => Plurality(seen) = true
                    /\ Cardinality(S \ liars) >= 2 => Attested(seen, minimum) # "refuse"
  BY DEF AttestationIsHonest
<1> PICK p, n : p = Plurality(seen) /\ n = Support(seen, p)
  OBVIOUS
<1>1. /\ Cardinality(S) \in Nat /\ IsFiniteSet(liars) /\ Cardinality(liars) \in Nat /\ n \in Nat
      /\ IsFiniteSet(S \ liars) /\ Cardinality(S \ liars) \in Nat
  BY SupportIsCounted, FS_Subset, FS_CardinalityType, FS_Difference
<1>2. Attested(seen, minimum) = IF n >= minimum THEN "agree" ELSE IF n >= 2 THEN "degraded" ELSE "refuse"
  BY DEF Attested
<1>3. ASSUME n >= minimum
      PROVE  p = true
  <2> DEFINE T == {s \in S : seen[s] = p}
  <2>1. Cardinality(T) = n /\ T \in SUBSET S
    BY DEF Support
  <2>2. PICK s \in T : s \notin liars
    <3> SUFFICES ASSUME T \in SUBSET liars
                 PROVE  FALSE
      OBVIOUS
    <3> HIDE DEF T
    <3>1. Cardinality(T) <= Cardinality(liars)
      BY <1>1, FS_Subset
    <3>2. minimum \in Nat
      BY <1>1
    <3> QED
      BY <1>1, <1>3, <2>1, <3>1, <3>2
  <2> QED
    BY <2>2
<1>4. ASSUME Cardinality(S \ liars) >= 2
      PROVE  n >= 2
  <2> DEFINE T == {s \in S : seen[s] = true}
  <2>1. S \ liars \in SUBSET T /\ T \in SUBSET S /\ Support(seen, true) = Cardinality(T)
    BY DEF Support
  <2>2. Cardinality(S \ liars) <= Support(seen, true) /\ Support(seen, true) \in Nat
    <3> HIDE DEF T
    <3>1. IsFiniteSet(T)
      BY <2>1, FS_Subset
    <3> QED
      BY <2>1, <3>1, FS_Subset, FS_CardinalityType
  <2>3. S \ liars # {}
    BY <1>4, FS_EmptySet
  <2>4. true \in Range(seen) /\ S # {}
    <3>1. PICK s \in S \ liars : TRUE
      BY <2>3
    <3> QED
      BY <3>1 DEF Range
  <2>5. Support(seen, true) <= n
    BY <2>4, PluralityLeads
  <2> QED
    BY <1>1, <1>4, <2>2, <2>5
<1> QED
  BY <1>2, <1>3, <1>4

\* Among the members of any cluster, however many, and for whatever values and
\* digests: OM(1) survives any one liar, and attestation the liars it is meant
\* for (byzantine.py, source_attestation.py).
THEOREM AgreementHolds == ASSUME IsFiniteSet(Member) PROVE FunctionsAgree
<1>1. ASSUME Cardinality(Member) >= 4, NEW c \in Member
      PROVE  OneLiarAgreement(Member \ {c}, Value)
  <2>1. IsFiniteSet(Member \ {c}) /\ Cardinality(Member \ {c}) = Cardinality(Member) - 1 /\ Cardinality(Member) \in Nat
    BY FS_RemoveElement, FS_CardinalityType
  <2>2. Cardinality(Member \ {c}) >= 3
    BY <1>1, <2>1
  <2> QED
    BY <2>1, <2>2, OneLiarIsOutvoted
<1>2. AttestationIsHonest(Member, Value)
  BY HonestSourcesPrevail, ExchangeAssumption
<1> QED
  BY <1>1, <1>2 DEF FunctionsAgree

\* With the liars a minority of every quorum, the members of a cluster come to
\* one result (simulate_cluster_epoch, byzantine.py, source_attestation.py).
THEOREM MembersComeToOneResult == ASSUME HonestQuorum PROVE ExchangeSpec => []MembersAgree
<1>1. FunctionsAgree
  BY AgreementHolds DEF HonestQuorum
<1>2. SubmittedMediansAgree => MembersAgree
  BY <1>1 DEF MembersAgree
<1> QED
  BY <1>2, MediansAgree, PTL
=============================================================================
