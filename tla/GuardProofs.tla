----------------------------- MODULE GuardProofs -----------------------------
(***************************************************************************)
(* Proofs about the policies around the cluster, each of which is composed *)
(* of pure guards: a loan does not outlive a stalled chain                 *)
(* (CertFreshness), an erasure that says so has erased (DataSubject), the  *)
(* cluster cannot be taken over quickly nor be of one domain (FleetPolicy),*)
(* and a host's services start safely (StartUp).  At the end the read API: *)
(* its guarded scores are safe and its limits hold (Gateway).              *)
(***************************************************************************)
EXTENDS CertFreshness, DataSubject, FleetPolicy, StartUp, Gateway, FiniteSetTheorems,
        SequenceTheorems, WellFoundedInduction, TLAPS

-----------------------------------------------------------------------------
(* A frozen chain.                                                         *)

\* A certificate is minted within a stall floor of the last advance, and from
\* then on both age alike, until the ages stop counting.
FreshInv ==
  /\ sinceAdvance \in 0..Forever
  /\ cert \in [Wallet -> [age : 0..Never, tier : Tiers]]
  /\ \A w \in Wallet : cert[w].age = Never \/ sinceAdvance <= cert[w].age + Stall

LEMMA FreshStarts == FreshInit => FreshInv
BY FreshAssumption DEF FreshInit, FreshInv, Never, Tiers

LEMMA RoundsKeepFresh ==
  ASSUME FreshInv, NEW n, NEW v, CloseRound(n, v)
  PROVE  FreshInv'
<1>1. sinceAdvance' = sinceAdvance
  BY DEF CloseRound
<1>2. CASE cert' = cert
  BY <1>1, <1>2 DEF FreshInv
<1>3. CASE cert' # cert
  <2>1. /\ sinceAdvance <= Stall
        /\ cert' = [w \in Wallet |-> IF w \in Issued(v) THEN [age |-> 0, tier |-> v[w]] ELSE cert[w]]
    BY <1>3 DEF CloseRound, AdvanceAllowed
  <2> QED
    BY <1>1, <2>1, FreshAssumption DEF FreshInv, Never, Issued
<1> QED
  BY <1>2, <1>3

LEMMA HoursKeepFresh ==
  ASSUME FreshInv, HourPassesBy
  PROVE  FreshInv'
<1> DEFINE older(age) == IF age < Forever THEN age + 1 ELSE age
<1>1. /\ sinceAdvance' = older(sinceAdvance)
      /\ cert' = [w \in Wallet |-> [cert[w] EXCEPT !.age = older(@)]]
  BY DEF HourPassesBy
<1>2. sinceAdvance' \in 0..Forever
  BY <1>1, FreshAssumption DEF FreshInv
<1>3. ASSUME NEW w \in Wallet
      PROVE  /\ cert'[w] \in [age : 0..Never, tier : Tiers]
             /\ cert'[w].age = Never \/ sinceAdvance' <= cert'[w].age + Stall
  <2>1. cert[w] \in [age : 0..Never, tier : Tiers] /\ cert'[w] = [cert[w] EXCEPT !.age = older(@)]
    BY <1>1 DEF FreshInv
  <2>2. cert'[w].age = older(cert[w].age) /\ cert'[w].tier = cert[w].tier
        /\ cert'[w] = [age |-> older(cert[w].age), tier |-> cert[w].tier]
    BY <2>1
  <2> QED
    BY <1>1, <2>1, <2>2, FreshAssumption DEF FreshInv, Never
<1> QED
  BY <1>1, <1>2, <1>3 DEF FreshInv

LEMMA FreshStep == FreshInv /\ [FreshNext]_freshVars => FreshInv'
<1> SUFFICES ASSUME FreshInv, [FreshNext]_freshVars
             PROVE  FreshInv'
  OBVIOUS
<1>1. CASE \E n \in Quorum..Nodes, v \in Verdicts : CloseRound(n, v)
  BY <1>1, RoundsKeepFresh
<1>2. CASE AdvanceChainEpoch
  BY <1>2, FreshAssumption DEF AdvanceChainEpoch, FreshInv, Never
<1>3. CASE HourPassesBy
  BY <1>3, HoursKeepFresh
<1>4. CASE \E n \in {Quorum - 1, Nodes} : NodesChange(n)
  BY <1>4 DEF NodesChange, FreshInv
<1>5. CASE UNCHANGED freshVars
  BY <1>5 DEF freshVars, FreshInv
<1> QED
  BY <1>1, <1>2, <1>3, <1>4, <1>5 DEF FreshNext

\* Whatever rounds close and whichever nodes come and go, however late the
\* consumer's clock, no loan is opened later than a stall floor and a loan age
\* after the last epoch advance (epoch_advance_liveness.py,
\* operation_freshness.py).
THEOREM NoLoanOutlivesAStall == FreshInit /\ [][FreshNext]_freshVars => []NoLoanOnAFrozenChain
<1>1. ASSUME FreshInv, NEW w \in Wallet, NEW lag \in Lags, MayOperate(w, "LOAN_ISSUE", lag)
      PROVE  sinceAdvance <= Stall + OperationMaxAge["LOAN_ISSUE"] + lag
  <2>1. cert[w].age # Never /\ cert[w].age - lag <= OperationMaxAge["LOAN_ISSUE"]
    BY <1>1 DEF MayOperate, OperationAllowed
  <2>2. /\ lag \in Nat /\ OperationMaxAge["LOAN_ISSUE"] \in Nat /\ Stall \in Nat
        /\ sinceAdvance \in Nat /\ cert[w].age \in Nat
        /\ sinceAdvance <= cert[w].age + Stall
    BY <1>1, <2>1, FreshAssumption DEF FreshInv, Never
  <2> QED
    BY <2>1, <2>2
<1>2. FreshInv => NoLoanOnAFrozenChain
  BY <1>1 DEF NoLoanOnAFrozenChain
<1> QED
  BY <1>2, FreshStarts, FreshStep, PTL

-----------------------------------------------------------------------------
(* An erasure.                                                             *)

Tables == ToSet(Slices)
Record == Delivered \cup Scored

\* One slice of a run: what its delete took covers what was counted, and
\* whatever the table holds came after it.
Erased(count, took, slice) == count <= Cardinality(took) /\ rows[slice] \subseteq since[slice]

SubjectTypeOK ==
  /\ rows \in [Tables -> SUBSET Record] /\ since \in [Tables -> SUBSET Record]
  /\ \A c \in Tables : IsFiniteSet(rows[c])
  /\ refusalLog = Refused
  /\ asked \in {"none", "query", "erase"}
  /\ at \in [slice : Nat, counted : BOOLEAN]
  /\ counts \in Seq(Nat) /\ deleted \in Seq(SUBSET Record)

\* An erasure under way has counted and emptied the slices before the one it
\* is on, and that one's count, once taken, is still within what is stored.
UnderWay ==
  /\ asked # "none" => at.slice \in 1..3 /\ event = NoEvent
  /\ at.counted => at.slice \in 1..2
  /\ asked = "erase" =>
       /\ Len(deleted) = at.slice - 1
       /\ Len(counts) = IF at.counted THEN at.slice ELSE at.slice - 1
       /\ \A i \in 1..(at.slice - 1) : Erased(counts[i], deleted[i], Slices[i])
       /\ at.counted => counts[at.slice] <= Cardinality(rows[Slices[at.slice]])

\* What a printed event says, of an erasure.
EventIsTrue ==
  event.op = "erase" =>
    /\ Len(event.took) = 2
    /\ \A i \in 1..2 : Erased(event.counts[i], event.took[i], Slices[i])
    /\ event.carved = {p \in Policies : CarveOut(p) # "none"}

SubjectInv == SubjectTypeOK /\ UnderWay /\ EventIsTrue

LEMMA TwoSlices ==
  /\ Len(Slices) = 2 /\ Slices[1] = "TRANSACTION_HISTORY" /\ Slices[2] = "SCORE_HISTORY"
  /\ Tables = {"TRANSACTION_HISTORY", "SCORE_HISTORY"}
  /\ \A i \in 1..2 : Slices[i] \in Tables
<1>1. Len(Slices) = 2 /\ Slices[1] = "TRANSACTION_HISTORY" /\ Slices[2] = "SCORE_HISTORY"
  BY DEF Slices
<1>2. DOMAIN Slices = 1..2
  BY DEF Slices
<1>3. 1..2 = {1, 2}
  OBVIOUS
<1> QED
  BY <1>1, <1>2, <1>3 DEF Tables, ToSet

LEMMA SubjectStarts == SubjectInit => SubjectInv
<1> SUFFICES ASSUME SubjectInit PROVE SubjectInv
  OBVIOUS
<1>1. /\ rows = [c \in Tables |-> {}] /\ since = [c \in Tables |-> {}]
      /\ refusalLog = Refused /\ asked = "none" /\ at = [slice |-> 0, counted |-> FALSE]
      /\ counts = <<>> /\ deleted = <<>> /\ event = NoEvent
  BY DEF SubjectInit, Tables
<1>2. SubjectTypeOK
  BY <1>1, FS_EmptySet DEF SubjectTypeOK
<1>3. event.op = "none"
  BY <1>1 DEF NoEvent
<1> QED
  BY <1>1, <1>2, <1>3 DEF SubjectInv, UnderWay, EventIsTrue

LEMMA AskKeepsSubject ==
  ASSUME SubjectInv, NEW op \in {"query", "erase"}, NEW justified, Ask(op, justified)
  PROVE  SubjectInv'
<1>1. /\ asked' = op /\ at' = [slice |-> 1, counted |-> FALSE]
      /\ counts' = <<>> /\ deleted' = <<>> /\ event' = NoEvent
      /\ since' = [c \in Tables |-> {}] /\ rows' = rows /\ refusalLog' = refusalLog
  BY DEF Ask, Tables
<1>2. event'.op = "none"
  BY <1>1 DEF NoEvent
<1>3. SubjectTypeOK'
  BY <1>1 DEF SubjectInv, SubjectTypeOK
<1>4. at'.slice = 1 /\ ~ at'.counted /\ Len(deleted') = 0 /\ Len(counts') = 0
  BY <1>1
<1> QED
  BY <1>1, <1>2, <1>3, <1>4 DEF SubjectInv, UnderWay, EventIsTrue

\* What a run that is under way knows of its place.
LEMMA OnASlice ==
  ASSUME SubjectInv, asked # "none", at.slice <= Len(Slices)
  PROVE  /\ at.slice \in 1..2 /\ Slices[at.slice] \in Tables
         /\ rows[Slices[at.slice]] \in SUBSET Record /\ IsFiniteSet(rows[Slices[at.slice]])
         /\ Cardinality(rows[Slices[at.slice]]) \in Nat
         /\ event.op = "none"
<1>1. at.slice \in 1..2 /\ event = NoEvent
  BY TwoSlices DEF SubjectInv, UnderWay
<1>2. Slices[at.slice] \in Tables
  BY <1>1, TwoSlices
<1> QED
  BY <1>1, <1>2, FS_CardinalityType DEF SubjectInv, SubjectTypeOK, NoEvent

LEMMA CountKeepsSubject ==
  ASSUME SubjectInv, CountSlice
  PROVE  SubjectInv'
<1> PICK k, n : k = at.slice /\ n = Cardinality(rows[Slices[k]])
  OBVIOUS
<1>1. /\ asked # "none" /\ k <= Len(Slices) /\ ~ at.counted /\ counts' = Append(counts, n)
      /\ at' = IF asked = "erase" THEN [at EXCEPT !.counted = TRUE] ELSE [slice |-> k + 1, counted |-> FALSE]
      /\ rows' = rows /\ refusalLog' = refusalLog /\ asked' = asked
      /\ event' = event /\ deleted' = deleted /\ since' = since
  BY DEF CountSlice
<1>2. k \in 1..2 /\ n \in Nat /\ event.op = "none"
  BY <1>1, OnASlice
<1>3. /\ counts \in Seq(Nat) /\ at \in [slice : Nat, counted : BOOLEAN]
      /\ Len(counts') = Len(counts) + 1 /\ counts'[Len(counts) + 1] = n
      /\ \A i \in 1..Len(counts) : counts'[i] = counts[i]
  BY <1>1, <1>2 DEF SubjectInv, SubjectTypeOK
<1>4. SubjectTypeOK'
  <2>1. at' \in [slice : Nat, counted : BOOLEAN]
    <3>1. k \in Nat /\ k + 1 \in Nat
      BY <1>2
    <3>2. CASE asked = "erase"
      BY <1>1, <1>3, <3>2
    <3>3. CASE asked # "erase"
      BY <1>1, <3>1, <3>3
    <3> QED
      BY <3>2, <3>3
  <2>2. counts' \in Seq(Nat)
    BY <1>1, <1>2, <1>3
  <2> QED
    BY <1>1, <2>1, <2>2 DEF SubjectInv, SubjectTypeOK
<1>5. CASE asked = "erase"
  <2>1. at'.slice = k /\ at'.counted /\ Len(counts) = k - 1 /\ Len(deleted) = k - 1
    BY <1>1, <1>2, <1>3, <1>5 DEF SubjectInv, UnderWay
  <2>2. \A i \in 1..(k - 1) : Erased(counts[i], deleted[i], Slices[i])
    BY <1>5 DEF SubjectInv, UnderWay
  <2>3. \A i \in 1..(k - 1) : Erased(counts[i], deleted[i], Slices[i])'
    BY <1>1, <1>2, <1>3, <2>1, <2>2 DEF Erased
  <2>4. counts'[k] <= Cardinality(rows'[Slices[k]])
    BY <1>1, <1>2, <1>3, <2>1
  <2>5. UnderWay'
    BY <1>1, <1>2, <1>3, <1>5, <2>1, <2>3, <2>4 DEF SubjectInv, UnderWay
  <2> QED
    BY <1>1, <1>2, <1>4, <2>5 DEF SubjectInv, EventIsTrue
<1>6. CASE asked # "erase"
  <2>1. at'.slice = k + 1 /\ ~ at'.counted
    BY <1>1, <1>6
  <2> QED
    BY <1>1, <1>2, <1>4, <1>6, <2>1 DEF SubjectInv, UnderWay, EventIsTrue
<1> QED
  BY <1>5, <1>6

LEMMA DeleteKeepsSubject ==
  ASSUME SubjectInv, DeleteSlice
  PROVE  SubjectInv'
<1> PICK k, c : k = at.slice /\ c = Slices[k]
  OBVIOUS
<1>1. /\ asked = "erase" /\ k <= Len(Slices) /\ at.counted
      /\ rows' = [rows EXCEPT ![c] = {}] /\ since' = [since EXCEPT ![c] = {}]
      /\ deleted' = Append(deleted, rows[c])
      /\ at' = [slice |-> k + 1, counted |-> FALSE]
      /\ refusalLog' = refusalLog /\ asked' = asked /\ counts' = counts /\ event' = event
  BY DEF DeleteSlice
<1>2. k \in 1..2 /\ c \in Tables /\ rows[c] \in SUBSET Record /\ event.op = "none" /\ event = NoEvent
  BY <1>1, OnASlice DEF SubjectInv, UnderWay
<1>3. /\ deleted \in Seq(SUBSET Record) /\ Len(deleted) = k - 1 /\ Len(counts) = k
      /\ Len(deleted') = k /\ deleted'[k] = rows[c]
      /\ \A i \in 1..(k - 1) : deleted'[i] = deleted[i]
  BY <1>1, <1>2 DEF SubjectInv, SubjectTypeOK, UnderWay
<1>4. SubjectTypeOK'
  BY <1>1, <1>2, FS_EmptySet DEF SubjectInv, SubjectTypeOK
<1>5. \A d \in Tables : rows[d] \subseteq since[d] \/ d = c => rows'[d] \subseteq since'[d]
  BY <1>1 DEF SubjectInv, SubjectTypeOK
<1>6. ASSUME NEW i \in 1..k
      PROVE  Erased(counts[i], deleted[i], Slices[i])'
  <2>1. CASE i = k
    <3>1. counts[k] <= Cardinality(rows[c]) /\ Slices[k] = c
      BY <1>1 DEF SubjectInv, UnderWay
    <3> QED
      BY <1>1, <1>2, <1>3, <1>5, <2>1, <3>1 DEF Erased
  <2>2. CASE i # k
    <3>1. i \in 1..(k - 1) /\ Slices[i] \in Tables
      BY <1>2, <2>2, TwoSlices
    <3>2. Erased(counts[i], deleted[i], Slices[i])
      BY <1>1, <3>1 DEF SubjectInv, UnderWay
    <3> QED
      BY <1>1, <1>3, <1>5, <3>1, <3>2 DEF Erased
  <2> QED
    BY <2>1, <2>2
<1>7. UnderWay'
  <2>1. at'.slice = k + 1 /\ ~ at'.counted
    BY <1>1
  <2>2. at'.slice \in 1..3 /\ (k + 1) - 1 = k
    BY <1>2, <2>1
  <2> QED
    BY <1>1, <1>2, <1>3, <1>6, <2>1, <2>2 DEF UnderWay
<1> QED
  BY <1>1, <1>2, <1>4, <1>7 DEF SubjectInv, EventIsTrue

LEMMA WriteKeepsSubject ==
  ASSUME SubjectInv, WriteEvent
  PROVE  SubjectInv'
<1>1. /\ asked # "none" /\ at.slice > Len(Slices)
      /\ event' = [op |-> asked, counts |-> counts, took |-> deleted,
                   carved |-> {p \in Policies : CarveOut(p) # "none"}]
      /\ asked' = "none"
      /\ rows' = rows /\ since' = since /\ refusalLog' = refusalLog
      /\ at' = at /\ counts' = counts /\ deleted' = deleted
  BY DEF WriteEvent
<1>2. at.slice = 3 /\ ~ at.counted
  BY <1>1, TwoSlices DEF SubjectInv, UnderWay
<1>3. SubjectTypeOK' /\ UnderWay'
  BY <1>1, <1>2 DEF SubjectInv, SubjectTypeOK, UnderWay
<1>4. EventIsTrue'
  <2> SUFFICES ASSUME event'.op = "erase"
               PROVE  /\ Len(event'.took) = 2
                      /\ \A i \in 1..2 : Erased(event.counts[i], event.took[i], Slices[i])'
                      /\ event'.carved = {p \in Policies : CarveOut(p) # "none"}
    BY DEF EventIsTrue
  <2>1. asked = "erase" /\ event'.took = deleted /\ event'.counts = counts
    BY <1>1
  <2>2. Len(deleted) = 2 /\ \A i \in 1..2 : Erased(counts[i], deleted[i], Slices[i])
    BY <1>2, <2>1 DEF SubjectInv, UnderWay
  <2> QED
    BY <1>1, <2>1, <2>2 DEF Erased
<1> QED
  BY <1>3, <1>4 DEF SubjectInv

\* Storing a row takes nothing from a count and adds it to what came since.
LEMMA StoreKeepsSubject ==
  ASSUME SubjectInv, NEW c \in Tables, NEW r \in Record, Store(c, r)
  PROVE  SubjectInv'
<1>1. /\ rows' = [rows EXCEPT ![c] = @ \cup {r}] /\ since' = [since EXCEPT ![c] = @ \cup {r}]
      /\ refusalLog' = refusalLog /\ asked' = asked /\ at' = at /\ counts' = counts
      /\ event' = event /\ deleted' = deleted
  BY DEF Store
<1>2. ASSUME NEW d \in Tables
      PROVE  /\ IsFiniteSet(rows'[d]) /\ rows[d] \subseteq rows'[d]
             /\ Cardinality(rows[d]) \in Nat /\ Cardinality(rows'[d]) \in Nat
             /\ Cardinality(rows[d]) <= Cardinality(rows'[d])
             /\ rows[d] \subseteq since[d] => rows'[d] \subseteq since'[d]
  <2>1. IsFiniteSet(rows[d])
    BY DEF SubjectInv, SubjectTypeOK
  <2>2. rows'[d] = rows[d] \/ rows'[d] = rows[d] \cup {r}
    BY <1>1 DEF SubjectInv, SubjectTypeOK
  <2>3. IsFiniteSet(rows'[d]) /\ rows[d] \subseteq rows'[d]
    BY <2>1, <2>2, FS_AddElement
  <2>4. rows[d] \subseteq since[d] => rows'[d] \subseteq since'[d]
    BY <1>1 DEF SubjectInv, SubjectTypeOK
  <2> QED
    BY <2>1, <2>3, <2>4, FS_CardinalityType, FS_Subset
<1>3. SubjectTypeOK'
  <2>1. rows' \in [Tables -> SUBSET Record] /\ since' \in [Tables -> SUBSET Record]
    BY <1>1 DEF SubjectInv, SubjectTypeOK
  <2> QED
    BY <1>1, <1>2, <2>1 DEF SubjectInv, SubjectTypeOK
<1>4. ASSUME NEW n, NEW took, NEW i \in 1..2, Erased(n, took, Slices[i])
      PROVE  n <= Cardinality(took) /\ rows'[Slices[i]] \subseteq since'[Slices[i]]
  BY <1>2, <1>4, TwoSlices DEF Erased
<1>5. UnderWay'
  <2>1. asked = "erase" => \A i \in 1..(at.slice - 1) : Erased(counts[i], deleted[i], Slices[i])'
    <3> SUFFICES ASSUME asked = "erase", NEW i \in 1..(at.slice - 1)
                 PROVE  Erased(counts[i], deleted[i], Slices[i])'
      OBVIOUS
    <3>1. i \in 1..2 /\ Erased(counts[i], deleted[i], Slices[i])
      BY DEF SubjectInv, UnderWay
    <3> QED
      BY <1>1, <1>4, <3>1 DEF Erased
  <2>2. asked = "erase" /\ at.counted => counts[at.slice] <= Cardinality(rows'[Slices[at.slice]])
    <3> SUFFICES ASSUME asked = "erase", at.counted
                 PROVE  counts[at.slice] <= Cardinality(rows'[Slices[at.slice]])
      OBVIOUS
    <3>1. /\ at.slice \in 1..2 /\ Len(counts) = at.slice /\ counts \in Seq(Nat)
          /\ counts[at.slice] <= Cardinality(rows[Slices[at.slice]])
      BY DEF SubjectInv, SubjectTypeOK, UnderWay
    <3>2. counts[at.slice] \in Nat /\ Slices[at.slice] \in Tables
      BY <3>1, TwoSlices
    <3> QED
      BY <1>2, <3>1, <3>2
  <2> QED
    BY <1>1, <2>1, <2>2 DEF SubjectInv, UnderWay
<1>6. EventIsTrue'
  BY <1>1, <1>4 DEF SubjectInv, EventIsTrue, Erased
<1> QED
  BY <1>3, <1>5, <1>6 DEF SubjectInv

LEMMA SubjectStep == SubjectInv /\ [SubjectNext]_subjectVars => SubjectInv'
<1> SUFFICES ASSUME SubjectInv, [SubjectNext]_subjectVars
             PROVE  SubjectInv'
  OBVIOUS
<1> USE DEF Record
<1>1. CASE \E op \in {"query", "erase"}, justified \in BOOLEAN : Ask(op, justified)
  BY <1>1, AskKeepsSubject
<1>2. CASE CountSlice
  BY <1>2, CountKeepsSubject
<1>3. CASE DeleteSlice
  BY <1>3, DeleteKeepsSubject
<1>4. CASE WriteEvent
  BY <1>4, WriteKeepsSubject
<1>5. CASE Die
  BY <1>5 DEF Die, SubjectInv, SubjectTypeOK, UnderWay, EventIsTrue, Erased
<1>6. CASE \E r \in Delivered : StoreTransaction(r)
  BY <1>6, StoreKeepsSubject, TwoSlices DEF StoreTransaction
<1>7. CASE \E r \in Delivered : Expire(r)
  BY <1>7 DEF Expire, SubjectInv, SubjectTypeOK, UnderWay, EventIsTrue, Erased
<1>8. CASE \E r \in Scored : AppendScore(r)
  BY <1>8, StoreKeepsSubject, TwoSlices DEF AppendScore
<1>9. CASE UNCHANGED subjectVars
  BY <1>9 DEF subjectVars, SubjectInv, SubjectTypeOK, UnderWay, EventIsTrue, Erased
<1> QED
  BY <1>1, <1>2, <1>3, <1>4, <1>5, <1>6, <1>7, <1>8, <1>9 DEF SubjectNext

\* Whoever stores meanwhile and whichever earlier runs died half way, an
\* erasure that printed its event emptied both tables, counted no row it did
\* not remove, and left what it names as carved out alone
\* (data_subject_request.py).
THEOREM ErasureIsTrue == SubjectInit /\ [][SubjectNext]_subjectVars => []EraseIsTrue
<1>1. ASSUME NEW p \in Policies, CarveOut(p) # "none"
      PROVE  ~ p.erasable \/ p.location \in {"KAFKA", "PROMETHEUS"}
  <2>1. /\ p.location \in {"TIMESCALE", "KAFKA", "SOLANA", "PROMETHEUS"}
        /\ p.location = "TIMESCALE" => p.category # "REFUSAL_LOG"
    BY DEF Policies
  <2>2. p.location # "TIMESCALE"
    BY <1>1, <2>1 DEF CarveOut, HasStatements
  <2>3. p.location = "SOLANA" => ~ p.erasable
    BY PolicyAssumption DEF PoliciesWellFormed, WellFormed
  <2> QED
    BY <2>1, <2>2, <2>3
<1>2. SubjectInv => EraseIsTrue
  BY <1>1, TwoSlices DEF SubjectInv, SubjectTypeOK, EventIsTrue, Erased, EraseIsTrue
<1> QED
  BY <1>2, SubjectStarts, SubjectStep, PTL

-----------------------------------------------------------------------------
(* The cluster's membership.                                               *)

\* A bounded set of naturals has a largest element, and that is its Max.
LEMMA MaxOfBounded ==
  ASSUME NEW S \in SUBSET Nat, S # {}, NEW n \in Nat, \A s \in S : s <= n
  PROVE  Max(S) \in S /\ \A s \in S : s <= Max(S)
<1> DEFINE From(x) == x..n
           T == {From(x) : x \in S}
<1>1. T \subseteq FiniteSubsetsOf(Nat)
  <2>1. \A x \in Nat : x..n \in SUBSET Nat /\ IsFiniteSet(x..n)
    BY FS_Interval
  <2> QED
    BY <2>1 DEF FiniteSubsetsOf
<1>2. PICK t \in T : \A u \in T : <<u, t>> \notin StrictSubsetOrdering(Nat)
  <2>1. T # {}
    OBVIOUS
  <2> HIDE DEF T
  <2> QED
    BY <1>1, <2>1, WFMin, FS_StrictSubsetOrderingWellFounded
<1>3. PICK x \in S : t = From(x)
  BY <1>2
<1>4. ASSUME NEW y \in S
      PROVE  x >= y
  <2> SUFFICES ASSUME y > x
               PROVE  FALSE
    OBVIOUS
  <2>1. x \in Nat /\ y \in Nat /\ x <= n
    OBVIOUS
  <2>2. From(y) \subseteq From(x) /\ x \in From(x) /\ x \notin From(y)
    BY <2>1
  <2>3. From(y) \in SUBSET Nat /\ From(x) \in SUBSET Nat
    BY <2>1
  <2>4. <<From(y), From(x)>> \in StrictSubsetOrdering(Nat)
    BY <2>2, <2>3 DEF StrictSubsetOrdering
  <2> QED
    BY <1>2, <1>3, <2>4
<1>5. Max(S) \in S /\ \A y \in S : Max(S) >= y
  BY <1>4 DEF Max
<1> QED
  BY <1>5

Diverse(keys) == OperatorsDiverse(keys) /\ CloudsDiverse(keys) /\ RegionsDiverse(keys)

FleetInv ==
  /\ cluster \subseteq Key /\ proposal \subseteq Key
  /\ hour \in Nat /\ proposedAt \in 0..hour
  /\ Diverse(cluster) /\ (proposal # {} => Diverse(proposal))
  /\ Cardinality(Founders \ cluster) * Timelock <= hour
  /\ proposal # {} => Cardinality(Founders \ proposal) * Timelock <= proposedAt + Timelock

LEMMA FleetFinite ==
  ASSUME NEW keys \in SUBSET Key
  PROVE  /\ IsFiniteSet(keys) /\ Cardinality(keys) \in Nat
         /\ IsFiniteSet(Founders \ keys) /\ Cardinality(Founders \ keys) \in Nat
<1>1. IsFiniteSet(keys) /\ IsFiniteSet(Founders \ keys)
  BY FleetAssumption, FS_Subset
<1> QED
  BY <1>1, FS_CardinalityType

LEMMA ValuesFinite ==
  ASSUME NEW keys, IsFiniteSet(keys), NEW field
  PROVE  IsFiniteSet(Values(keys, field))
<1> DEFINE f == [x \in keys |-> Declared[x][field]]
<1>1. f \in Surjection(keys, Values(keys, field))
  BY DEF Surjection, Values
<1> QED
  BY <1>1, FS_Surjection

\* No value is shared by more keys than the largest group.
LEMMA LargestBounds ==
  ASSUME NEW keys \in SUBSET Key, NEW field, NEW v \in Values(keys, field)
  PROVE  /\ IsFiniteSet(With(keys, field, v))
         /\ Cardinality(With(keys, field, v)) <= Largest(keys, field)
         /\ Cardinality(With(keys, field, v)) \in Nat /\ Largest(keys, field) \in Nat
<1> DEFINE S == {Cardinality(With(keys, field, u)) : u \in Values(keys, field)}
<1>1. ASSUME NEW u
      PROVE  /\ IsFiniteSet(With(keys, field, u)) /\ Cardinality(With(keys, field, u)) \in Nat
             /\ Cardinality(With(keys, field, u)) <= Cardinality(keys)
  <2>1. With(keys, field, u) \in SUBSET keys
    BY DEF With
  <2> QED
    BY <2>1, FleetFinite, FS_Subset, FS_CardinalityType
<1>2. S \in SUBSET Nat /\ \A s \in S : s <= Cardinality(keys)
  BY <1>1
<1>3. Cardinality(With(keys, field, v)) \in S
  OBVIOUS
<1>4. Max(S) \in S /\ \A s \in S : s <= Max(S)
  <2> HIDE DEF S
  <2> QED
    BY <1>2, <1>3, FleetFinite, MaxOfBounded
<1> QED
  BY <1>1, <1>2, <1>3, <1>4 DEF Largest

LEMMA ThresholdIsMajority ==
  ASSUME NEW keys \in SUBSET Key
  PROVE  /\ ThresholdOf(keys) \in Nat \ {0}
         /\ Cardinality(keys) - ThresholdOf(keys) < ThresholdOf(keys)
<1>1. \A n \in Nat : (n \div 2) + 1 \in Nat \ {0} /\ n - ((n \div 2) + 1) < (n \div 2) + 1
  OBVIOUS
<1>2. Cardinality(keys) \in Nat
  BY FleetFinite
<1> QED
  BY <1>1, <1>2 DEF ThresholdOf

\* Losing a domain that is spread over leaves a quorum, and no quorum is of
\* that domain alone.
LEMMA SpreadLeavesAQuorum ==
  ASSUME NEW keys \in SUBSET Key, NEW field, SpreadOver(keys, field), NEW v \in Values(keys, field)
  PROVE  /\ Cardinality(keys \ With(keys, field, v)) >= ThresholdOf(keys)
         /\ Cardinality(With(keys, field, v)) < ThresholdOf(keys)
<1> DEFINE W == With(keys, field, v)
<1>1. keys \cap W = W
  BY DEF With
<1>2. Cardinality(keys \ W) = Cardinality(keys) - Cardinality(W)
  BY <1>1, FleetFinite, FS_Difference
<1>3. Largest(keys, field) <= Cardinality(keys) - ThresholdOf(keys)
  BY DEF SpreadOver
<1>4. /\ Cardinality(W) <= Largest(keys, field)
      /\ Cardinality(W) \in Nat /\ Largest(keys, field) \in Nat
  BY LargestBounds
<1>5. /\ ThresholdOf(keys) \in Nat /\ Cardinality(keys) \in Nat
      /\ Cardinality(keys) - ThresholdOf(keys) < ThresholdOf(keys)
  BY FleetFinite, ThresholdIsMajority
<1> HIDE DEF W
<1>6. Cardinality(keys \ W) >= ThresholdOf(keys) /\ Cardinality(W) < ThresholdOf(keys)
  BY <1>2, <1>3, <1>4, <1>5
<1> QED
  BY <1>6 DEF W

\* A quorum is larger than the largest group of a field, so it has two values.
LEMMA QuorumHasTwoValues ==
  ASSUME NEW keys \in SUBSET Key, NEW s \in SUBSET keys, NEW field,
         Cardinality(s) >= ThresholdOf(keys),
         \A v \in Values(keys, field) : Cardinality(With(keys, field, v)) < ThresholdOf(keys)
  PROVE  Cardinality(Values(s, field)) >= 2
<1>1. IsFiniteSet(s) /\ Cardinality(s) \in Nat /\ ThresholdOf(keys) \in Nat
  BY FleetFinite, ThresholdIsMajority
<1>2. ThresholdOf(keys) >= 1
  BY ThresholdIsMajority
<1>3. PICK k \in s : TRUE
  BY <1>1, <1>2, FS_EmptySet
<1> DEFINE v == Declared[k][field]
<1>4. v \in Values(keys, field)
  BY DEF Values
<1>5. ~ s \subseteq With(keys, field, v)
  <2> SUFFICES ASSUME s \subseteq With(keys, field, v)
               PROVE  FALSE
    OBVIOUS
  <2>1. IsFiniteSet(With(keys, field, v)) /\ Cardinality(With(keys, field, v)) \in Nat
    BY <1>4, LargestBounds
  <2>2. Cardinality(s) <= Cardinality(With(keys, field, v))
    BY <2>1, FS_Subset
  <2> QED
    BY <1>1, <1>4, <2>1, <2>2
<1>6. PICK l \in s : Declared[l][field] # v
  BY <1>5 DEF With
<1>7. {v, Declared[l][field]} \subseteq Values(s, field)
  BY DEF Values
<1>8. IsFiniteSet(Values(s, field))
  BY <1>1, ValuesFinite
<1>9. Cardinality({v, Declared[l][field]}) = 2
  <2> PICK a, b : a = v /\ b = Declared[l][field]
    OBVIOUS
  <2>1. IsFiniteSet({a}) /\ Cardinality({a}) = 1
    BY FS_Singleton
  <2>2. b \notin {a}
    BY <1>6
  <2>3. Cardinality({a} \cup {b}) = 1 + 1
    BY <2>1, <2>2, FS_AddElement
  <2>4. {a} \cup {b} = {v, Declared[l][field]}
    OBVIOUS
  <2> QED
    BY <2>3, <2>4
<1> QED
  BY <1>7, <1>8, <1>9, FS_Subset, FS_CardinalityType

LEMMA FleetStarts == FleetInit => FleetInv
<1> SUFFICES ASSUME FleetInit PROVE FleetInv
  OBVIOUS
<1>1. cluster = Founders /\ proposal = {} /\ proposedAt = 0 /\ hour = 0
  BY DEF FleetInit
<1>2. Founders \ cluster = {} /\ Cardinality({}) = 0
  BY <1>1, FS_EmptySet
<1>3. Cardinality(Founders \ cluster) * Timelock = 0
  BY <1>2, FleetAssumption
<1> QED
  BY <1>1, <1>3, FleetAssumption, FoundersDiverse DEF FleetInv, Diverse

\* A proposed rotation replaces at most one key, so it leaves at most one
\* founder fewer.
LEMMA ProposeKeepsFleet ==
  ASSUME FleetInv, NEW keys \in SUBSET Key, NEW listed, ProposeRotation(keys, listed)
  PROVE  FleetInv'
<1>1. /\ Diverse(keys) /\ Cardinality(cluster \ keys) <= 1
      /\ proposal' = keys /\ proposedAt' = hour
      /\ cluster' = cluster /\ hour' = hour
  BY DEF ProposeRotation, OverlapAllowed, Diverse
<1> PICK n, m : n = Cardinality(Founders \ cluster) /\ m = Cardinality(Founders \ keys)
  OBVIOUS
<1>2. /\ cluster \in SUBSET Key /\ hour \in Nat /\ n \in Nat /\ m \in Nat
      /\ IsFiniteSet(Founders \ cluster) /\ IsFiniteSet(cluster \ keys)
      /\ Cardinality(cluster \ keys) \in Nat
  <2>1. cluster \in SUBSET Key /\ hour \in Nat
    BY DEF FleetInv
  <2>2. IsFiniteSet(cluster)
    BY <2>1, FleetFinite
  <2>3. IsFiniteSet(cluster \ keys)
    BY <2>2, FS_Difference
  <2> QED
    BY <2>1, <2>3, FleetFinite, FS_CardinalityType
<1>3. m <= n + 1
  <2> DEFINE U == (Founders \ cluster) \cup (cluster \ keys)
  <2>1. /\ IsFiniteSet(U)
        /\ Cardinality(U) = n + Cardinality(cluster \ keys)
                              - Cardinality((Founders \ cluster) \cap (cluster \ keys))
    BY <1>2, FS_Union
  <2>2. (Founders \ cluster) \cap (cluster \ keys) = {} /\ Cardinality({}) = 0
    BY FS_EmptySet
  <2>3. Cardinality(U) <= n + 1
    BY <1>1, <1>2, <2>1, <2>2
  <2>4. Founders \ keys \in SUBSET U
    OBVIOUS
  <2>5. m <= Cardinality(U)
    BY <2>1, <2>4, FS_Subset
  <2> HIDE DEF U
  <2>6. Cardinality(U) \in Nat
    BY <2>1, FS_CardinalityType
  <2> QED
    BY <1>2, <2>3, <2>5, <2>6
<1>4. m * Timelock <= hour + Timelock
  <2>1. n * Timelock <= hour
    BY DEF FleetInv
  <2>2. Timelock \in Nat
    BY FleetAssumption
  <2>3. \A a, b, t \in Nat : a <= b + 1 => a * t <= (b * t) + t
    <3> TAKE a, b, t \in Nat
    <3> HAVE a <= b + 1
    <3>1. a * t <= (b + 1) * t
      BY SMT
    <3>2. (b + 1) * t = (b * t) + t
      BY SMT
    <3> QED
      BY <3>1, <3>2
  <2>4. m * Timelock <= (n * Timelock) + Timelock
    BY <1>2, <1>3, <2>2, <2>3
  <2>5. n * Timelock \in Nat /\ m * Timelock \in Nat
    BY <1>2, <2>2
  <2> QED
    BY <1>2, <2>1, <2>2, <2>4, <2>5
<1>5. Cardinality(Founders \ proposal') * Timelock <= proposedAt' + Timelock
  BY <1>1, <1>4
<1>6. Diverse(cluster)' /\ Diverse(proposal)'
  BY <1>1 DEF FleetInv, Diverse
<1> QED
  BY <1>1, <1>2, <1>5, <1>6 DEF FleetInv

LEMMA EnactKeepsFleet ==
  ASSUME FleetInv, EnactRotation
  PROVE  FleetInv'
<1>1. /\ proposal # {} /\ hour >= proposedAt + Timelock
      /\ cluster' = proposal /\ proposal' = {} /\ proposedAt' = proposedAt /\ hour' = hour
  BY DEF EnactRotation
<1>2. /\ hour \in Nat /\ proposedAt \in Nat /\ proposal \in SUBSET Key /\ Diverse(proposal)
      /\ Cardinality(Founders \ proposal) * Timelock <= proposedAt + Timelock
  BY <1>1 DEF FleetInv
<1>3. Cardinality(Founders \ proposal) * Timelock <= hour
  <2>1. Cardinality(Founders \ proposal) \in Nat /\ Timelock \in Nat
    BY <1>2, FleetFinite, FleetAssumption
  <2>2. Cardinality(Founders \ proposal) * Timelock \in Nat
    BY <2>1
  <2> QED
    BY <1>1, <1>2, <2>1, <2>2
<1>4. Diverse(cluster)' /\ proposal' = {}
  BY <1>1, <1>2 DEF Diverse
<1> QED
  BY <1>1, <1>2, <1>3, <1>4 DEF FleetInv

LEMMA HourKeepsFleet ==
  ASSUME FleetInv, HourPasses
  PROVE  FleetInv'
<1>1. hour' = hour + 1 /\ cluster' = cluster /\ proposal' = proposal /\ proposedAt' = proposedAt
  BY DEF HourPasses
<1>2. /\ hour \in Nat /\ proposedAt \in 0..hour /\ cluster \in SUBSET Key
      /\ Cardinality(Founders \ cluster) * Timelock <= hour
  BY DEF FleetInv
<1>3. Cardinality(Founders \ cluster) * Timelock <= hour'
  <2>1. Cardinality(Founders \ cluster) \in Nat /\ Timelock \in Nat
    BY <1>2, FleetFinite, FleetAssumption
  <2>2. Cardinality(Founders \ cluster) * Timelock \in Nat
    BY <2>1
  <2> QED
    BY <1>1, <1>2, <2>2
<1>4. Diverse(cluster)' /\ (proposal' # {} => Diverse(proposal)')
  BY <1>1 DEF FleetInv, Diverse
<1> QED
  BY <1>1, <1>2, <1>3, <1>4 DEF FleetInv

\* Prompt operators take some of the steps any operators may take.
LEMMA FleetStep == FleetInv /\ [FleetNext \/ PromptNext]_fleetVars => FleetInv'
<1> SUFFICES ASSUME FleetInv, [FleetNext \/ PromptNext]_fleetVars
             PROVE  FleetInv'
  OBVIOUS
<1>1. CASE \E keys \in SUBSET Key, more \in {0, 1} : ProposeRotation(keys, Cardinality(keys) + more)
  BY <1>1, ProposeKeepsFleet
<1>2. CASE EnactRotation
  BY <1>2, EnactKeepsFleet
<1>3. CASE HourPasses
  BY <1>3, HourKeepsFleet
<1>4. CASE \E k \in cluster, new \in Key \ cluster :
             ProposeRotation((cluster \ {k}) \cup {new}, Cardinality(cluster))
  <2>1. PICK k \in cluster, new \in Key \ cluster :
               ProposeRotation((cluster \ {k}) \cup {new}, Cardinality(cluster))
    BY <1>4
  <2>2. (cluster \ {k}) \cup {new} \in SUBSET Key
    BY DEF FleetInv
  <2> QED
    BY <2>1, <2>2, ProposeKeepsFleet
<1>5. CASE UNCHANGED fleetVars
  BY <1>5 DEF fleetVars, FleetInv, Diverse
<1> QED
  BY <1>1, <1>2, <1>3, <1>4, <1>5 DEF FleetNext, PromptNext

\* However the operators rotate, promptly or not, a founder fewer costs a whole
\* review window (rotation_overlap_guard.py with the program's timelock).
THEOREM FoundersTakeReviews == FleetInit /\ [][FleetNext \/ PromptNext]_fleetVars => []FoundersLeaveSlowly
<1>1. FleetInv => FoundersLeaveSlowly
  BY DEF FleetInv, FoundersLeaveSlowly
<1> QED
  BY <1>1, FleetStarts, FleetStep, PTL

\* However the operators rotate, those the checks let sign are never all of one
\* organisation, cloud, region or host, and without any one cloud or region a
\* quorum of the cluster is left (operator_manifest.py, cloud_diversity.py,
\* region_diversity.py, signer_provenance.py).
THEOREM NoDomainSigns == FleetInit /\ [][FleetNext \/ PromptNext]_fleetVars => []NoDomainIsAQuorum
<1>1. ASSUME FleetInv, NEW s \in SUBSET cluster, MayCertify(s), NEW field \in {"org", "cloud", "region"}
      PROVE  Cardinality(Values(s, field)) >= 2
  <2>1. cluster \in SUBSET Key /\ Diverse(cluster) /\ Cardinality(s) >= ThresholdOf(cluster)
    BY <1>1 DEF FleetInv, MayCertify
  <2>2. \A v \in Values(cluster, field) : Cardinality(With(cluster, field, v)) < ThresholdOf(cluster)
    <3>1. CASE field = "org"
      <4> SUFFICES ASSUME NEW v \in Values(cluster, "org")
                   PROVE  Cardinality(With(cluster, "org", v)) < ThresholdOf(cluster)
        BY <3>1
      <4>1. Largest(cluster, "org") < ThresholdOf(cluster)
        BY <2>1 DEF Diverse, OperatorsDiverse
      <4>2. /\ Cardinality(With(cluster, "org", v)) <= Largest(cluster, "org")
            /\ Cardinality(With(cluster, "org", v)) \in Nat /\ Largest(cluster, "org") \in Nat
        BY <2>1, LargestBounds
      <4>3. ThresholdOf(cluster) \in Nat
        BY <2>1, ThresholdIsMajority
      <4> QED
        BY <4>1, <4>2, <4>3
    <3>2. CASE field # "org"
      <4>1. SpreadOver(cluster, field)
        BY <2>1, <3>2 DEF Diverse, CloudsDiverse, RegionsDiverse
      <4> QED
        BY <2>1, <4>1, SpreadLeavesAQuorum
    <3> QED
      BY <3>1, <3>2
  <2> QED
    BY <2>1, <2>2, QuorumHasTwoValues
<1>2. ASSUME FleetInv, NEW s \in SUBSET cluster, MayCertify(s)
      PROVE  Cardinality(Values(s, "host")) >= 2
  <2>1. Cardinality(Values(s, "host")) >= MinHosts
    BY <1>2 DEF MayCertify, ProvenanceAllowed
  <2>2. IsFiniteSet(Values(s, "host"))
    <3>1. IsFiniteSet(s)
      BY <1>2, FleetFinite DEF FleetInv
    <3> QED
      BY <3>1, ValuesFinite
  <2> QED
    BY <2>1, <2>2, FleetAssumption, FS_CardinalityType
<1>3. ASSUME FleetInv, NEW field \in {"cloud", "region"}, NEW v \in Values(cluster, field)
      PROVE  Cardinality(cluster \ With(cluster, field, v)) >= ThresholdOf(cluster)
  <2>1. cluster \in SUBSET Key /\ SpreadOver(cluster, field)
    BY <1>3 DEF FleetInv, Diverse, CloudsDiverse, RegionsDiverse
  <2> QED
    BY <1>3, <2>1, SpreadLeavesAQuorum
<1>4. ASSUME FleetInv, NEW field \in {"org", "cloud", "region", "host"}, NEW v \in Values(cluster, field),
             NEW s \in SUBSET With(cluster, field, v), MayCertify(s)
      PROVE  FALSE
  <2>1. s \in SUBSET cluster
    BY DEF With
  <2>2. Cardinality(Values(s, field)) >= 2
    BY <1>1, <1>2, <1>4, <2>1
  <2>3. Values(s, field) \in SUBSET {v}
    BY DEF Values, With
  <2>4. IsFiniteSet({v}) /\ Cardinality({v}) = 1
    BY FS_Singleton
  <2>5. Cardinality(Values(s, field)) <= 1 /\ Cardinality(Values(s, field)) \in Nat
    BY <2>3, <2>4, FS_Subset, FS_CardinalityType
  <2> QED
    BY <2>2, <2>5
<1>5. FleetInv => NoDomainIsAQuorum
  BY <1>3, <1>4 DEF NoDomainIsAQuorum
<1> QED
  BY <1>5, FleetStarts, FleetStep, PTL

-----------------------------------------------------------------------------
(* Prompt rotations.  The oldest key goes first, so the age a key may reach *)
(* grows with every review in which an older one goes: a key's rank, the    *)
(* number of keys that are no younger, says how many of them are gone.      *)

Seniors(k) == {x \in cluster : birth[x] <= birth[k]}
Size == Cardinality(Founders)
OnReview == IF proposal = {} THEN 0 ELSE hour - proposedAt

\* How old k may be, so long into a review.
AgeCap(k, review) == WarnAge + 1 + (Timelock * (Size - Cardinality(Seniors(k)))) + review

OldestReplaced ==
  \E k \in cluster, new \in Key \ cluster :
    (\A other \in cluster : birth[k] <= birth[other]) /\ proposal = (cluster \ {k}) \cup {new}

PromptInv ==
  /\ FleetInv
  /\ birth \in [Key -> Nat]
  /\ Cardinality(cluster) = Size
  /\ OnReview \in 0..Timelock
  /\ \A k \in cluster : birth[k] <= hour /\ hour - birth[k] <= AgeCap(k, OnReview)
  /\ proposal # {} => OldestReplaced

LEMMA SeniorsCount ==
  ASSUME PromptInv, NEW k \in cluster
  PROVE  /\ k \in Key /\ birth[k] \in Nat /\ hour \in Nat /\ Size \in Nat
         /\ IsFiniteSet(Seniors(k)) /\ Cardinality(Seniors(k)) \in 1..Size
         /\ Timelock * (Size - Cardinality(Seniors(k))) \in Nat
<1>1. /\ cluster \in SUBSET Key /\ k \in Key /\ birth[k] \in Nat /\ hour \in Nat
      /\ Cardinality(cluster) = Size
  BY DEF PromptInv, FleetInv
<1>2. Seniors(k) \in SUBSET cluster /\ {k} \in SUBSET Seniors(k)
  BY <1>1 DEF Seniors
<1>3. IsFiniteSet(cluster) /\ Cardinality(cluster) \in Nat
  BY <1>1, FleetFinite
<1>4. IsFiniteSet(Seniors(k)) /\ Cardinality(Seniors(k)) <= Size
  BY <1>1, <1>2, <1>3, FS_Subset
<1>5. Cardinality({k}) <= Cardinality(Seniors(k)) /\ Cardinality({k}) = 1
  BY <1>2, <1>4, FS_Subset, FS_Singleton
<1>6. Cardinality(Seniors(k)) \in 1..Size /\ Size \in Nat
  BY <1>1, <1>3, <1>4, <1>5, FS_CardinalityType
<1>7. Timelock * (Size - Cardinality(Seniors(k))) \in Nat
  <2>1. Timelock \in Nat /\ Size - Cardinality(Seniors(k)) \in Nat
    BY <1>6, FleetAssumption
  <2> QED
    BY <2>1
<1> QED
  BY <1>1, <1>4, <1>6, <1>7

LEMMA TimesMonotone ==
  ASSUME NEW a \in Nat, NEW b \in Nat, NEW t \in Nat, a + 1 <= b
  PROVE  (t * a) + t <= t * b /\ t * a \in Nat /\ t * b \in Nat
<1>1. t * (a + 1) <= t * b
  BY SMT
<1>2. t * (a + 1) = (t * a) + t
  BY SMT
<1> QED
  BY <1>1, <1>2

LEMMA PromptKeepsUp == WindowIsWide /\ PromptInv => RotationKeepsUp
<1> SUFFICES ASSUME WindowIsWide, PromptInv, NEW k \in cluster
             PROVE  Verdict(birth[k], hour) # "overdue"
  BY DEF RotationKeepsUp
<1> PICK c : c = Cardinality(Seniors(k))
  OBVIOUS
<1>1. /\ birth[k] \in Nat /\ hour \in Nat /\ Size \in Nat /\ c \in 1..Size
      /\ birth[k] <= hour /\ hour - birth[k] <= WarnAge + 1 + (Timelock * (Size - c)) + OnReview
      /\ OnReview \in 0..Timelock
  BY SeniorsCount DEF PromptInv, AgeCap
<1>2. Timelock \in Nat /\ WarnAge \in Nat /\ MaxAge \in Nat
  BY FleetAssumption
<1>3. (Timelock * (Size - c)) + Timelock <= Timelock * Size /\ Timelock * (Size - c) \in Nat
  <2>1. Size - c \in Nat /\ (Size - c) + 1 <= Size
    BY <1>1
  <2> QED
    BY <1>1, <1>2, <2>1, TimesMonotone
<1>4. WarnAge + 1 + (Timelock * Size) <= MaxAge /\ Timelock * Size \in Nat
  <2>1. Size * Timelock = Timelock * Size /\ Timelock * Size \in Nat
    BY <1>1, <1>2
  <2> QED
    BY <2>1 DEF WindowIsWide, Size
<1>5. hour - birth[k] <= MaxAge
  BY <1>1, <1>2, <1>3, <1>4
<1> QED
  BY <1>1, <1>2, <1>5 DEF Verdict

LEMMA PromptStarts == FleetInit => PromptInv
<1> SUFFICES ASSUME FleetInit PROVE PromptInv
  OBVIOUS
<1>1. /\ cluster = Founders /\ birth = [k \in Key |-> 0] /\ proposal = {} /\ hour = 0
      /\ FleetInv /\ WarnAge \in Nat /\ Timelock \in Nat /\ cluster \in SUBSET Key
  BY FleetStarts, FleetAssumption DEF FleetInit
<1>2. OnReview = 0
  BY <1>1 DEF OnReview
<1>3. ASSUME NEW k \in cluster
      PROVE  birth[k] <= hour /\ hour - birth[k] <= AgeCap(k, OnReview)
  <2> PICK c : c = Cardinality(Seniors(k))
    OBVIOUS
  <2>1. Seniors(k) \in SUBSET cluster /\ IsFiniteSet(cluster) /\ Cardinality(cluster) = Size /\ Size \in Nat
    BY <1>1, FleetFinite DEF Seniors, Size
  <2>2. c \in 0..Size
    BY <2>1, FS_Subset, FS_CardinalityType
  <2>3. Timelock * (Size - c) \in Nat
    <3>1. Size - c \in Nat
      BY <2>1, <2>2
    <3> QED
      BY <1>1, <3>1
  <2>4. birth[k] = 0
    BY <1>1
  <2> QED
    BY <1>1, <1>2, <2>3, <2>4 DEF AgeCap
<1>4. birth \in [Key -> Nat]
  BY <1>1
<1>5. 0 \in 0..Timelock
  BY <1>1
<1> QED
  BY <1>1, <1>2, <1>3, <1>4, <1>5 DEF PromptInv, Size

\* A proposal changes nobody's age or rank; it opens the review.
LEMMA ProposeKeepsPrompt ==
  ASSUME PromptInv, NEW k \in cluster, NEW new \in Key \ cluster,
         \A other \in cluster : birth[k] <= birth[other],
         ProposeRotation((cluster \ {k}) \cup {new}, Cardinality(cluster))
  PROVE  PromptInv'
<1>1. /\ proposal = {} /\ proposal' = (cluster \ {k}) \cup {new} /\ proposedAt' = hour
      /\ cluster' = cluster /\ birth' = birth /\ hour' = hour
  BY DEF ProposeRotation
<1>2. FleetInv'
  <2>1. (cluster \ {k}) \cup {new} \in SUBSET Key
    BY DEF PromptInv, FleetInv
  <2> QED
    BY <2>1, ProposeKeepsFleet DEF PromptInv
<1>3. OnReview = 0 /\ OnReview' = 0
  <2>1. hour \in Nat
    BY DEF PromptInv, FleetInv
  <2> QED
    BY <1>1, <2>1 DEF OnReview
<1>4. \A x \in cluster : Seniors(x)' = Seniors(x)
  BY <1>1 DEF Seniors
<1>5. \A x \in cluster : AgeCap(x, OnReview)' = AgeCap(x, OnReview)
  BY <1>3, <1>4 DEF AgeCap
<1>6. OldestReplaced'
  BY <1>1 DEF OldestReplaced
<1> QED
  BY <1>1, <1>2, <1>3, <1>5, <1>6 DEF PromptInv

\* No hour passes while anybody is warned, nor after a review is over.
LEMMA HourKeepsPrompt ==
  ASSUME WindowIsWide, PromptInv, Prompt, HourPasses
  PROVE  PromptInv'
<1>1. /\ hour' = hour + 1 /\ cluster' = cluster /\ birth' = birth
      /\ proposal' = proposal /\ proposedAt' = proposedAt
  BY DEF HourPasses
<1>2. FleetInv'
  BY HourKeepsFleet DEF PromptInv
<1>3. /\ hour \in Nat /\ proposedAt \in 0..hour
      /\ WarnAge \in Nat /\ MaxAge \in Nat /\ Timelock \in Nat /\ OnReview \in 0..Timelock
  BY FleetAssumption DEF PromptInv, FleetInv
<1>4. \A x \in cluster : Seniors(x)' = Seniors(x)
  BY <1>1 DEF Seniors
<1>5. OldestReplaced' <=> OldestReplaced
  BY <1>1 DEF OldestReplaced
<1>6. OnReview' \in 0..Timelock /\ (proposal # {} => OnReview' = OnReview + 1)
  BY <1>1, <1>3 DEF OnReview, Prompt
<1>7. ASSUME NEW x \in cluster
      PROVE  birth[x] <= hour + 1 /\ (hour + 1) - birth[x] <= AgeCap(x, OnReview)'
  <2> PICK c, r : c = Cardinality(Seniors(x)) /\ r = OnReview'
    OBVIOUS
  <2>1. AgeCap(x, OnReview)' = WarnAge + 1 + (Timelock * (Size - c)) + r
    BY <1>4 DEF AgeCap
  <2>2. birth[x] \in Nat /\ birth[x] <= hour /\ Timelock * (Size - c) \in Nat /\ r \in Nat
    BY <1>3, <1>6, SeniorsCount DEF PromptInv
  <2>3. CASE proposal = {}
    <3>1. hour - birth[x] <= WarnAge
      <4>1. Verdict(birth[x], hour) # "overdue" /\ Verdict(birth[x], hour) # "warn"
        BY <2>3, PromptKeepsUp DEF Prompt, RotationKeepsUp
      <4> QED
        BY <1>3, <2>2, <4>1 DEF Verdict
    <3> QED
      BY <1>3, <2>1, <2>2, <3>1
  <2>4. CASE proposal # {}
    <3>1. hour - birth[x] <= WarnAge + 1 + (Timelock * (Size - c)) + OnReview /\ r = OnReview + 1
      BY <1>6, <2>4 DEF PromptInv, AgeCap
    <3> QED
      BY <1>3, <2>1, <2>2, <3>1
  <2> QED
    BY <2>3, <2>4
<1> QED
  BY <1>1, <1>2, <1>5, <1>6, <1>7 DEF PromptInv

\* With the oldest key gone every other has moved up one rank, which is worth
\* the review it took.
LEMMA EnactKeepsPrompt ==
  ASSUME PromptInv, EnactRotation
  PROVE  PromptInv'
<1>1. /\ proposal # {} /\ hour >= proposedAt + Timelock
      /\ cluster' = proposal /\ proposal' = {} /\ proposedAt' = proposedAt /\ hour' = hour
      /\ birth' = [k \in Key |-> IF k \in proposal \ cluster THEN hour ELSE birth[k]]
  BY DEF EnactRotation
<1>2. PICK k \in cluster, new \in Key \ cluster :
         /\ \A other \in cluster : birth[k] <= birth[other]
         /\ proposal = (cluster \ {k}) \cup {new}
  BY <1>1 DEF PromptInv, OldestReplaced
<1>3. FleetInv' /\ birth' \in [Key -> Nat]
  <2>1. hour \in Nat /\ birth \in [Key -> Nat]
    BY DEF PromptInv, FleetInv
  <2> QED
    BY <1>1, <2>1, EnactKeepsFleet DEF PromptInv
<1>4. /\ hour \in Nat /\ proposedAt \in 0..hour /\ Timelock \in Nat /\ WarnAge \in Nat
      /\ OnReview = Timelock /\ OnReview' = 0
      /\ cluster \in SUBSET Key /\ IsFiniteSet(cluster) /\ Cardinality(cluster) = Size /\ Size \in Nat
  <2>1. /\ hour \in Nat /\ proposedAt \in 0..hour /\ Timelock \in Nat /\ WarnAge \in Nat
        /\ OnReview \in 0..Timelock /\ cluster \in SUBSET Key /\ Cardinality(cluster) = Size
    BY FleetAssumption DEF PromptInv, FleetInv
  <2>2. OnReview = Timelock /\ OnReview' = 0
    BY <1>1, <2>1 DEF OnReview
  <2> QED
    BY <2>1, <2>2, FleetFinite
<1>5. /\ \A x \in cluster : x # new /\ birth'[x] = birth[x]
      /\ birth'[new] = hour
      /\ cluster' = (cluster \ {k}) \cup {new}
  BY <1>1, <1>2, <1>4
<1>6. Cardinality(cluster') = Size /\ IsFiniteSet(cluster')
  <2>1. IsFiniteSet(cluster \ {k}) /\ Cardinality(cluster \ {k}) = Size - 1
    BY <1>4, FS_RemoveElement
  <2>2. new \notin cluster \ {k}
    BY <1>2
  <2>3. /\ IsFiniteSet((cluster \ {k}) \cup {new})
        /\ Cardinality((cluster \ {k}) \cup {new}) = (Size - 1) + 1
    BY <2>1, <2>2, FS_AddElement
  <2> QED
    BY <1>4, <1>5, <2>3
<1>7. ASSUME NEW x \in cluster'
      PROVE  birth'[x] <= hour /\ hour - birth'[x] <= AgeCap(x, OnReview)'
  <2> PICK d : d = Cardinality(Seniors(x)')
    OBVIOUS
  <2>1. d \in 0..Size /\ Timelock * (Size - d) \in Nat
    <3>1. Seniors(x)' \in SUBSET cluster'
      BY DEF Seniors
    <3>2. d \in 0..Size
      BY <1>4, <1>6, <3>1, FS_Subset, FS_CardinalityType
    <3>3. Size - d \in Nat
      BY <1>4, <3>2
    <3> QED
      BY <1>4, <3>2, <3>3
  <2>2. AgeCap(x, OnReview)' = WarnAge + 1 + (Timelock * (Size - d))
    BY <1>4, <2>1 DEF AgeCap
  <2>3. CASE birth'[x] = hour
    BY <1>4, <2>2, <2>1, <2>3
  <2>4. CASE birth'[x] # hour
    <3>1. x \in cluster /\ x # k /\ birth'[x] = birth[x]
      BY <1>5, <2>4
    <3> PICK c : c = Cardinality(Seniors(x))
      OBVIOUS
    <3>2. /\ birth[x] \in Nat /\ birth[x] < hour /\ c \in 1..Size /\ IsFiniteSet(Seniors(x))
          /\ hour - birth[x] <= WarnAge + 1 + (Timelock * (Size - c)) + Timelock
      <4>1. birth[x] <= hour /\ hour - birth[x] <= AgeCap(x, OnReview)
        BY <3>1 DEF PromptInv
      <4>2. birth[x] \in Nat /\ c \in 1..Size /\ IsFiniteSet(Seniors(x))
        BY <3>1, SeniorsCount
      <4>3. birth[x] < hour
        BY <1>4, <2>4, <3>1, <4>1, <4>2
      <4>4. hour - birth[x] <= WarnAge + 1 + (Timelock * (Size - c)) + Timelock
        BY <1>4, <4>1 DEF AgeCap
      <4> QED
        BY <4>2, <4>3, <4>4
    <3>3. Seniors(x)' = Seniors(x) \ {k} /\ k \in Seniors(x)
      <4>1. k \in Seniors(x)
        BY <1>2, <3>1 DEF Seniors
      <4>2. ~ birth'[new] <= birth'[x]
        BY <1>4, <1>5, <3>1, <3>2
      <4> QED
        BY <1>5, <3>1, <4>1, <4>2 DEF Seniors
    <3>4. d = c - 1
      BY <3>2, <3>3, FS_RemoveElement
    <3>5. (Timelock * (Size - c)) + Timelock = Timelock * (Size - d)
      <4>1. PICK e \in Nat : e = Size - c
        BY <1>4, <3>2
      <4>2. Size - d = e + 1
        BY <1>4, <3>2, <3>4, <4>1
      <4>3. Timelock * (e + 1) = (Timelock * e) + Timelock
        BY <1>4, <4>1
      <4> QED
        BY <4>1, <4>2, <4>3
    <3>6. Timelock * (Size - c) \in Nat
      <4>1. Size - c \in Nat
        BY <1>4, <3>2
      <4> QED
        BY <1>4, <4>1
    <3> QED
      BY <1>4, <2>2, <2>1, <3>1, <3>2, <3>5, <3>6
  <2> QED
    BY <2>3, <2>4
<1>8. OnReview' \in 0..Timelock
  BY <1>4
<1> QED
  BY <1>1, <1>3, <1>6, <1>7, <1>8 DEF PromptInv

\* Replaced one at a time and one review each, as soon as the warning asks for
\* it, no key of the cluster is ever overdue, if the warning leaves a review
\* for every key (key_rotation_cadence.py: 30 days for five of 48 hours).
THEOREM RotationOutrunsAge ==
  ASSUME WindowIsWide
  PROVE  FleetInit /\ [][PromptNext]_fleetVars => []RotationKeepsUp
<1>1. PromptInv /\ [PromptNext]_fleetVars => PromptInv'
  <2> SUFFICES ASSUME PromptInv, [PromptNext]_fleetVars
               PROVE  PromptInv'
    OBVIOUS
  <2>1. CASE \E k \in cluster, new \in Key \ cluster :
               /\ \A other \in cluster : birth[k] <= birth[other]
               /\ ProposeRotation((cluster \ {k}) \cup {new}, Cardinality(cluster))
    BY <2>1, ProposeKeepsPrompt
  <2>2. CASE EnactRotation
    BY <2>2, EnactKeepsPrompt
  <2>3. CASE Prompt /\ HourPasses
    BY <2>3, HourKeepsPrompt
  <2>4. CASE UNCHANGED fleetVars
    <3>1. /\ cluster' = cluster /\ birth' = birth /\ proposal' = proposal
          /\ proposedAt' = proposedAt /\ hour' = hour
      BY <2>4 DEF fleetVars
    <3>2. FleetInv'
      BY <3>1 DEF PromptInv, FleetInv, Diverse
    <3>3. OnReview' = OnReview /\ (OldestReplaced' <=> OldestReplaced)
      BY <3>1 DEF OnReview, OldestReplaced
    <3>4. \A x \in cluster : AgeCap(x, OnReview)' = AgeCap(x, OnReview)
      BY <3>1, <3>3 DEF AgeCap, Seniors
    <3> QED
      BY <3>1, <3>2, <3>3, <3>4 DEF PromptInv
  <2> QED
    BY <2>1, <2>2, <2>3, <2>4 DEF PromptNext
<1>2. PromptInv => RotationKeepsUp
  BY PromptKeepsUp
<1> QED
  BY <1>1, <1>2, PromptStarts, PTL

\* Whoever proposes whatever the checks let through, founders leave one a
\* review and no domain signs alone; and a cluster whose operators act on the
\* warning is besides never of an overdue key (rotation_overlap_guard.py, the
\* diversity checks, key_rotation_cadence.py).
THEOREM RotationsAreSafe ==
  ASSUME WindowIsWide
  PROVE  /\ FleetInit /\ [][FleetNext \/ PromptNext]_fleetVars => [](FoundersLeaveSlowly /\ NoDomainIsAQuorum)
         /\ FleetInit /\ [][PromptNext]_fleetVars => []RotationIsSafe
<1>1. [PromptNext]_fleetVars => [FleetNext \/ PromptNext]_fleetVars
  OBVIOUS
<1>2. FoundersLeaveSlowly /\ NoDomainIsAQuorum /\ RotationKeepsUp => RotationIsSafe
  BY DEF RotationIsSafe
<1> QED
  BY <1>1, <1>2, FoundersTakeReviews, NoDomainSigns, RotationOutrunsAge, PTL

-----------------------------------------------------------------------------
(* Starting up.                                                            *)

Service == NodeService \cup {"api", "synthetic", "bus"}

\* What runs has passed its gate with the environment it holds, and every
\* signature of the manifest is one that was made.
StartInv ==
  /\ DOMAIN services \subseteq Service
  /\ \A s \in DOMAIN services : Starts(s, services[s])
  /\ \A v \in DOMAIN manifest : manifest[v].signed \in Pins

\* The gate of each service, the names being distinct.
LEMMA GateOf ==
  ASSUME NEW s \in Service, NEW env, Starts(s, env)
  PROVE  /\ s \in NodeService => NodeStarts(env)
         /\ s = "api" => ApiStarts(env)
         /\ s = "synthetic" => SyntheticStarts(env)
         /\ s = "bus" => BusStarts(env)
BY DEF Starts, Service, NodeService

\* Whatever passes the network guard is told its network in a spelling that the
\* bus reads alike.
LEMMA SpellingsAgree ==
  ASSUME NEW env, NEW other, NetworkGuard(env), other.network = env.network
  PROVE  BusOnMainnet(other) <=> OnMainnet(env)
BY DEF NetworkGuard, BusOnMainnet, OnMainnet, KafkaNetwork, GuardNetwork, Lower, Supported, Absent

LEMMA OneAnswer ==
  ASSUME StartInv, NEW s \in DOMAIN services, NEW t \in DOMAIN services,
         services[s].network = services[t].network
  PROVE  BelievesMainnet(s) <=> BelievesMainnet(t)
<1>1. s \in Service /\ t \in Service
  BY DEF StartInv
<1>2. ASSUME NEW u \in DOMAIN services, u # "bus"
      PROVE  NetworkGuard(services[u]) /\ (BelievesMainnet(u) <=> OnMainnet(services[u]))
  <2>1. u \in Service /\ Starts(u, services[u])
    BY DEF StartInv
  <2> QED
    BY <1>2, <2>1, GateOf DEF Service, NodeStarts, ApiStarts, SyntheticStarts, BelievesMainnet
<1>3. CASE s = "bus" /\ t = "bus"
  BY <1>3
<1>4. CASE s = "bus" /\ t # "bus"
  BY <1>2, <1>4, SpellingsAgree DEF BelievesMainnet
<1>5. CASE s # "bus" /\ t = "bus"
  BY <1>2, <1>5, SpellingsAgree DEF BelievesMainnet
<1>6. CASE s # "bus" /\ t # "bus"
  BY <1>2, <1>6 DEF OnMainnet, GuardNetwork
<1> QED
  BY <1>3, <1>4, <1>5, <1>6

\* What a service that believes it is in production has been checked for.
LEMMA ProductionIsChecked ==
  ASSUME StartInv, NEW t \in DOMAIN services, BelievesMainnet(t)
  PROVE  /\ t \in NodeService =>
              /\ services[t].tls = Tls
              /\ Failures(services[t].runtime) # {} => services[t].determinismOk
         /\ t = "bus" => Encrypted(services[t]) \/ services[t].plaintextOk
         /\ t # "synthetic"
<1>1. t \in Service /\ Starts(t, services[t])
  BY DEF StartInv
<1>2. CASE t \in NodeService
  <2>1. NodeStarts(services[t]) /\ t # "bus" /\ t # "synthetic"
    BY <1>1, <1>2, GateOf DEF NodeService
  <2> QED
    BY <2>1 DEF NodeStarts, Deterministic, BelievesMainnet
<1>3. CASE t = "synthetic"
  BY <1>1, <1>3, GateOf DEF SyntheticStarts, BelievesMainnet
<1>4. CASE t = "bus"
  <2>1. BusStarts(services[t]) /\ t \notin NodeService
    BY <1>1, <1>4, GateOf DEF NodeService
  <2> QED
    BY <1>4, <2>1 DEF BusStarts, KafkaGate, BelievesMainnet
<1>5. CASE t = "api"
  BY <1>5 DEF NodeService
<1> QED
  BY <1>1, <1>2, <1>3, <1>4, <1>5 DEF Service

LEMMA StartedIsSafe == StartInv => StartUpIsSafe
<1> SUFFICES ASSUME StartInv
             PROVE  StartUpIsSafe
  OBVIOUS
<1>1. GatesAgree
  <2> SUFFICES ASSUME NEW s \in DOMAIN services, NEW t \in DOMAIN services,
                      services[s].network = services[t].network
               PROVE  /\ BelievesMainnet(s) = BelievesMainnet(t)
                      /\ BelievesMainnet(s) /\ {s, t} \subseteq NodeService => Reaches(s, t) /\ services[s].tls = Tls
                      /\ BelievesMainnet(s) /\ t = "bus" => Encrypted(services[t]) \/ services[t].plaintextOk
                      /\ BelievesMainnet(s) => t # "synthetic"
                      /\ BelievesMainnet(s) /\ t \in NodeService /\ Failures(services[t].runtime) # {} => services[t].determinismOk
    BY DEF GatesAgree
  <2>1. BelievesMainnet(s) <=> BelievesMainnet(t)
    BY OneAnswer
  <2>2. BelievesMainnet(s) = BelievesMainnet(t)
    BY <2>1 DEF BelievesMainnet, BusOnMainnet, OnMainnet
  <2>3. CASE ~BelievesMainnet(s)
    BY <2>2, <2>3
  <2>4. CASE BelievesMainnet(s)
    BY <2>1, <2>2, <2>4, ProductionIsChecked DEF Reaches
  <2> QED
    BY <2>3, <2>4
<1>2. LoadedIsReleased
  <2> SUFFICES ASSUME NEW release \in Pins, NEW b \in Binaries, PluginTrusted(release.version, b)
               PROVE  \E p \in Pins : p.version = release.version /\ p.binary = b /\ p.signer \in TrustedSigners
    BY DEF LoadedIsReleased
  <2> DEFINE pin == manifest[release.version]
  <2>1. /\ pin.signed \in Pins /\ pin.signer \in TrustedSigners
        /\ pin.signed = [version |-> release.version, binary |-> b, signer |-> pin.signer]
    BY DEF PluginTrusted, StartInv
  <2>2. pin.signed.version = release.version /\ pin.signed.binary = b /\ pin.signed.signer \in TrustedSigners
    BY <2>1
  <2> QED
    BY <2>1, <2>2
<1> QED
  BY <1>1, <1>2 DEF StartUpIsSafe

LEMMA StartKeeps ==
  ASSUME StartInv, [StartNext]_startVars
  PROVE  StartInv'
<1>1. ASSUME NEW name \in DOMAIN Editable, NEW value \in Editable[name], Edit(name, value)
      PROVE  StartInv'
  BY <1>1 DEF Edit, StartInv, Starts, NodeService
<1>2. ASSUME NEW s \in Service, StartService(s)
      PROVE  StartInv'
  <2>1. /\ services' = [t \in DOMAIN services \cup {s} |-> IF t = s THEN setting ELSE services[t]]
        /\ s \notin DOMAIN services /\ Starts(s, setting) /\ manifest' = manifest
    BY <1>2 DEF StartService
  <2>2. \A t \in DOMAIN services' : Starts(t, services'[t])
    <3> SUFFICES ASSUME NEW t \in DOMAIN services'
                 PROVE  Starts(t, services'[t])
      OBVIOUS
    <3>1. CASE t = s
      <4>1. services'[t] = setting
        BY <2>1, <3>1
      <4> QED
        BY <2>1, <3>1, <4>1
    <3>2. CASE t # s
      <4>1. t \in DOMAIN services /\ services'[t] = services[t]
        BY <2>1, <3>2
      <4>2. Starts(t, services[t])
        BY <4>1 DEF StartInv
      <4> QED
        BY <4>1, <4>2
    <3> QED
      BY <3>1, <3>2
  <2> QED
    BY <2>1, <2>2 DEF StartInv
<1>3. ASSUME NEW s \in Service, StopService(s)
      PROVE  StartInv'
  <2>1. services' = [t \in DOMAIN services \ {s} |-> services[t]] /\ manifest' = manifest
    BY <1>3 DEF StopService
  <2>2. \A t \in DOMAIN services' : t \in DOMAIN services /\ services'[t] = services[t]
    BY <2>1
  <2>3. \A t \in DOMAIN services' : Starts(t, services'[t])
    BY <2>2 DEF StartInv
  <2> QED
    BY <2>1, <2>2, <2>3 DEF StartInv
<1>4. ASSUME NEW release \in Pins, NEW v, NEW b, Pin(v, b, release)
      PROVE  StartInv'
  <2>1. /\ manifest' = [u \in DOMAIN manifest \cup {v} |->
             IF u = v THEN [binary |-> b, signer |-> release.signer, signed |-> release] ELSE manifest[u]]
        /\ services' = services
    BY <1>4 DEF Pin
  <2>2. \A u \in DOMAIN manifest' : manifest'[u].signed \in Pins
    BY <2>1 DEF StartInv
  <2> QED
    BY <2>1, <2>2 DEF StartInv
<1>5. CASE UNCHANGED startVars
  BY <1>5 DEF startVars, StartInv
<1> QED
  BY <1>1, <1>2, <1>3, <1>4, <1>5 DEF StartNext, Service

\* However the environment is edited between starts and whatever is written
\* into the manifest, services told the same network agree on whether it is
\* production and run there as their gates ask, and a plugin that loads was
\* released (network_guard.py, kafka_security.py, run_cluster_node.py,
\* plugin_pin.py).
THEOREM ServicesStartSafely == StartInit /\ [][StartNext]_startVars => []StartUpIsSafe
<1>1. StartInit => StartInv
  BY DEF StartInit, StartInv
<1>2. StartInv /\ [StartNext]_startVars => StartInv'
  BY StartKeeps
<1> QED
  BY <1>1, <1>2, StartedIsSafe, PTL

-----------------------------------------------------------------------------
(* The read API's gateway.                                                 *)

\* The greater and the lesser of two.
LEMMA MaxOfTwo ==
  ASSUME NEW a \in Int, NEW b \in Int
  PROVE  Max({a, b}) = IF a >= b THEN a ELSE b
<1>1. \A x : (x \in {a, b} /\ \A y \in {a, b} : x >= y) <=> x = (IF a >= b THEN a ELSE b)
  OBVIOUS
<1> QED
  BY <1>1 DEF Max

LEMMA MinOfTwo ==
  ASSUME NEW a \in Int, NEW b \in Int
  PROVE  Min({a, b}) = IF a <= b THEN a ELSE b
<1>1. \A x : (x \in {a, b} /\ \A y \in {a, b} : x <= y) <=> x = (IF a <= b THEN a ELSE b)
  OBVIOUS
<1> QED
  BY <1>1 DEF Min

LEMMA MinOfBounded ==
  ASSUME NEW S \in SUBSET Nat, S # {}, NEW n \in Nat, \A s \in S : s <= n
  PROVE  Min(S) \in S /\ \A s \in S : Min(S) <= s
<1> DEFINE T == {n - s : s \in S}
<1>1. T \in SUBSET Nat /\ T # {} /\ \A t \in T : t <= n
  OBVIOUS
<1>2. Max(T) \in T /\ \A t \in T : t <= Max(T)
  <2> HIDE DEF T
  <2> QED
    BY <1>1, MaxOfBounded
<1>3. PICK x \in S : Max(T) = n - x
  BY <1>2
<1>4. \A s \in S : x <= s
  <2> SUFFICES ASSUME NEW s \in S
               PROVE  x <= s
    OBVIOUS
  <2>1. n - s <= n - x
    BY <1>2, <1>3
  <2>2. s \in Nat /\ x \in Nat
    OBVIOUS
  <2> QED
    BY <2>1, <2>2
<1>5. \E y \in S : \A s \in S : y <= s
  BY <1>4
<1> QED
  BY <1>5 DEF Min

\* A bucket's queue against the log of its admissions: it is what is left of those
\* requests, and all that left it had expired.
Follows(queue, log) ==
  /\ queue \in Seq(Nat) /\ log \in Seq(Nat) /\ Len(queue) <= Len(log)
  /\ \A i \in 1..Len(queue) : queue[i] = log[(Len(log) - Len(queue)) + i]
  /\ \A i \in 1..(Len(log) - Len(queue)) : log[i] <= second - WindowSeconds

Spaced(log, limit) ==
  \A i \in 1..Len(log) : i > limit => log[i] - log[i - limit] >= WindowSeconds

LimiterInv ==
  /\ second \in Nat
  /\ DOMAIN hits = Bucket /\ DOMAIN admitted = Bucket
  /\ \A b \in Bucket : Follows(hits[b], admitted[b]) /\ Spaced(admitted[b], LimitOn(b))

\* The index is sorted, so that records lie at least as far apart by epoch as
\* by position.
IndexRecord == [epoch : Nat \ {0}, score : Points, at : Nat]
IndexInv ==
  /\ indexed \in Seq(IndexRecord)
  /\ \A i, j \in 1..Len(indexed) : i <= j => indexed[j].epoch - indexed[i].epoch >= j - i

\* The score being judged is a record, and one that was found safe is bounded
\* by what the index holds of its window.
Safe(a, index) ==
  /\ \E i \in 1..Len(index) : index[i].epoch = a.epoch
  /\ a.now - a.at <= CertMaxAge
  /\ \A i \in 1..Len(index) :
       index[i].epoch \in (a.epoch - WindowEpochs + 1)..a.epoch =>
         index[i].score - a.score \in -MaxVelocity..MaxVelocity

SafeInv ==
  \A w \in Worker :
    /\ task[w].phase \in {"handler", "window"} => task[w].now \in Nat
    /\ task[w].phase = "window" => \E i \in 1..Len(indexed) : task[w].latest = indexed[i]
    /\ task[w].phase = "ok" => Safe(task[w].body, indexed)

\* A partner's share counts requests let through, and one in flight is not
\* counted yet.
Carries(t, p) ==
  /\ t.phase # "idle" /\ t.key \in ApiKey /\ PartnerOf[t.key] = p
  /\ t.phase = "answered" => t.status # 429
InFlight(p) == {w \in Worker : Carries(task[w], p)}
KeysOf(p) == {k \in ApiKey : PartnerOf[k] = p}
LetThrough(p) == UNION {{k} \X DOMAIN admitted[k] : k \in KeysOf(p)}

ShareInv ==
  /\ calls \in [Partner -> [safe : Nat, raw : Nat]]
  /\ \A p \in Partner :
       /\ IsFiniteSet(LetThrough(p))
       /\ Total(p) + Cardinality(InFlight(p)) <= Cardinality(LetThrough(p))

GatewayInv == DOMAIN task = Worker /\ LimiterInv /\ IndexInv /\ SafeInv /\ ShareInv

LEMMA GatewayStarts == GatewayInit => GatewayInv
<1> SUFFICES ASSUME GatewayInit
             PROVE  GatewayInv
  OBVIOUS
<1> USE GatewayAssumption
<1>1. LimiterInv
  BY DEF GatewayInit, LimiterInv, Follows, Spaced
<1>2. DOMAIN task = Worker /\ IndexInv /\ SafeInv
  BY DEF GatewayInit, IndexInv, SafeInv, Idle
<1>3. ShareInv
  <2>1. calls \in [Partner -> [safe : Nat, raw : Nat]]
    BY DEF GatewayInit
  <2>2. ASSUME NEW p \in Partner
        PROVE  LetThrough(p) = {} /\ InFlight(p) = {} /\ Total(p) = 0
    <3>1. \A k \in KeysOf(p) : DOMAIN admitted[k] = {}
      BY DEF KeysOf, GatewayInit, Bucket
    <3> QED
      BY <2>2, <3>1 DEF GatewayInit, LetThrough, InFlight, Carries, Total, Idle
  <2> QED
    BY <2>1, <2>2, FS_EmptySet DEF ShareInv
<1> QED
  BY <1>1, <1>2, <1>3 DEF GatewayInv

\* What a queue that follows a log is, by name.
LEMMA FollowsMeans ==
  ASSUME NEW queue, NEW log, Follows(queue, log)
  PROVE  /\ queue \in Seq(Nat) /\ log \in Seq(Nat)
         /\ Len(queue) \in Nat /\ Len(log) \in Nat /\ Len(queue) <= Len(log)
         /\ DOMAIN queue = 1..Len(queue) /\ DOMAIN log = 1..Len(log)
         /\ \A i \in 1..Len(queue) : queue[i] \in Nat
         /\ \A i \in 1..Len(log) : log[i] \in Nat
BY LenProperties, ElementOfSeq DEF Follows

\* What is popped is a prefix, all of it expired.
LEMMA LivePrefix ==
  ASSUME NEW queue \in Seq(Nat)
  PROVE  \E k \in 0..Len(queue) :
           /\ Live(queue) = SubSeq(queue, k + 1, Len(queue))
           /\ \A i \in 1..k : queue[i] <= second - WindowSeconds
<1> DEFINE n == Len(queue)
           expired == {i \in DOMAIN queue : \A j \in 1..i : queue[j] <= second - WindowSeconds}
<1>1. n \in Nat /\ DOMAIN queue = 1..n
  BY LenProperties
<1>2. \E k \in 0..n : expired = 1..k
  <2>1. CASE expired = {}
    BY <1>1, <2>1
  <2>2. CASE expired # {}
    <3>1. expired \in SUBSET Nat /\ \A i \in expired : i <= n
      BY <1>1
    <3>2. Max(expired) \in expired /\ \A i \in expired : i <= Max(expired)
      <4> HIDE DEF expired
      <4> QED
        BY <1>1, <2>2, <3>1, MaxOfBounded
    <3>3. PICK m \in Nat : m = Max(expired)
      BY <3>1, <3>2
    <3>4. m \in 0..n /\ \A j \in 1..m : queue[j] <= second - WindowSeconds
      BY <1>1, <3>2, <3>3
    <3>5. \A i \in 1..m : i \in expired
      BY <1>1, <3>4
    <3>6. \A i \in expired : i \in 1..m
      BY <1>1, <3>1, <3>2, <3>3
    <3> QED
      BY <3>4, <3>5, <3>6
  <2> QED
    BY <2>1, <2>2
<1>3. PICK k \in 0..n : expired = 1..k
  BY <1>2
<1>4. \A i \in 1..k : queue[i] <= second - WindowSeconds
  <2> SUFFICES ASSUME NEW i \in 1..k
               PROVE  queue[i] <= second - WindowSeconds
    OBVIOUS
  <2>1. i \in expired
    BY <1>3
  <2>2. i \in 1..i
    BY <1>3
  <2> QED
    BY <2>1, <2>2
<1>5. Cardinality(1..k) = k
  BY <1>1, FS_Interval
<1>6. Live(queue) = SubSeq(queue, k + 1, n)
  <2>1. Live(queue) = SubSeq(queue, Cardinality(expired) + 1, n)
    BY DEF Live
  <2> HIDE DEF expired
  <2> QED
    BY <1>3, <1>5, <2>1
<1> QED
  BY <1>4, <1>6

LEMMA LiveFollows ==
  ASSUME NEW queue, NEW log, Follows(queue, log)
  PROVE  Follows(Live(queue), log)
<1> DEFINE n == Len(queue)
           m == Len(log)
           old(i) == log[i] <= second - WindowSeconds
<1>1. /\ queue \in Seq(Nat) /\ log \in Seq(Nat) /\ n \in Nat /\ m \in Nat /\ n <= m
      /\ \A i \in 1..n : queue[i] \in Nat
  BY FollowsMeans
<1>2. /\ \A i \in 1..n : queue[i] = log[(m - n) + i]
      /\ \A i \in 1..(m - n) : old(i)
  BY DEF Follows
<1>3. PICK k \in 0..n : /\ Live(queue) = SubSeq(queue, k + 1, n)
                        /\ \A i \in 1..k : queue[i] <= second - WindowSeconds
  BY <1>1, LivePrefix
<1>4. /\ Live(queue) \in Seq(Nat) /\ Len(Live(queue)) = n - k
      /\ \A i \in 1..(n - k) : Live(queue)[i] = queue[k + i]
  <2> HIDE DEF n
  <2>1. k + 1 \in Int /\ n \in Int /\ \A i \in (k + 1)..n : queue[i] \in Nat
    BY <1>1
  <2>2. /\ SubSeq(queue, k + 1, n) \in Seq(Nat)
        /\ Len(SubSeq(queue, k + 1, n)) = IF k + 1 <= n THEN (n - (k + 1)) + 1 ELSE 0
        /\ \A i \in 1..((n - (k + 1)) + 1) : SubSeq(queue, k + 1, n)[i] = queue[((k + 1) + i) - 1]
    BY <2>1, SubSeqProperties
  <2>3. (IF k + 1 <= n THEN (n - (k + 1)) + 1 ELSE 0) = n - k /\ (n - (k + 1)) + 1 = n - k
    BY <1>1
  <2>4. \A i \in 1..(n - k) : ((k + 1) + i) - 1 = k + i
    BY <1>1
  <2> QED
    BY <1>3, <2>2, <2>3, <2>4
<1> HIDE DEF n, m
<1>5. ASSUME NEW i \in 1..(m - (n - k))
      PROVE  old(i)
  <2>1. CASE i <= m - n
    <3>1. i \in 1..(m - n)
      BY <1>1, <2>1
    <3> QED
      BY <1>2, <3>1
  <2>2. CASE i > m - n
    <3>1. PICK j \in 1..k : i = (m - n) + j
      <4>1. i - (m - n) \in 1..k /\ i = (m - n) + (i - (m - n))
        BY <1>1, <2>2
      <4> QED
        BY <4>1
    <3>2. j \in 1..n
      BY <1>1
    <3> QED
      BY <1>2, <1>3, <3>1, <3>2
  <2> QED
    BY <1>1, <2>1, <2>2
<1>6. ASSUME NEW i \in 1..(n - k)
      PROVE  Live(queue)[i] = log[(m - (n - k)) + i]
  <2>1. k + i \in 1..n /\ (m - n) + (k + i) = (m - (n - k)) + i
    BY <1>1
  <2> QED
    BY <1>2, <1>4, <2>1
<1>7. n - k <= m
  BY <1>1
<1> HIDE DEF old
<1>8. \A i \in 1..(Len(log) - Len(Live(queue))) : log[i] <= second - WindowSeconds
  BY <1>4, <1>5 DEF old, m
<1>9. \A i \in 1..Len(Live(queue)) : Live(queue)[i] = log[(Len(log) - Len(Live(queue))) + i]
  BY <1>4, <1>6 DEF m
<1> QED
  BY <1>1, <1>4, <1>7, <1>8, <1>9 DEF Follows, m

\* A request let through is recorded in both, and is a window after the one
\* that many before it, which has left the queue.
LEMMA AdmissionFollows ==
  ASSUME NEW queue, NEW log, Follows(queue, log), second \in Nat,
         NEW limit \in Nat \ {0}, Spaced(log, limit), Len(queue) < limit
  PROVE  Follows(Append(queue, second), Append(log, second)) /\ Spaced(Append(log, second), limit)
<1> DEFINE n == Len(queue)
           m == Len(log)
           q == Append(queue, second)
           l == Append(log, second)
<1>1. /\ queue \in Seq(Nat) /\ log \in Seq(Nat) /\ n \in Nat /\ m \in Nat /\ n <= m
      /\ \A i \in 1..m : log[i] \in Nat
  BY FollowsMeans
<1>2. \A i \in 1..n : queue[i] = log[(m - n) + i]
  BY DEF Follows
<1>3. \A i \in 1..(m - n) : log[i] <= second - WindowSeconds
  BY DEF Follows
<1>4. \A i \in 1..m : i > limit => log[i] - log[i - limit] >= WindowSeconds
  BY DEF Spaced
<1>5. q \in Seq(Nat) /\ Len(q) = n + 1 /\ q[n + 1] = second /\ \A i \in 1..n : q[i] = queue[i]
  BY <1>1, AppendProperties
<1>6. l \in Seq(Nat) /\ Len(l) = m + 1 /\ l[m + 1] = second /\ \A i \in 1..m : l[i] = log[i]
  BY <1>1, AppendProperties
<1>7. n < limit /\ WindowSeconds \in Nat
  BY GatewayAssumption DEF GatewayAssumption
<1> HIDE DEF n, m, q, l
<1>8. (m + 1) - (n + 1) = m - n /\ n + 1 <= m + 1
  BY <1>1
<1>9. ASSUME NEW i \in 1..(n + 1)
      PROVE  q[i] = l[(m - n) + i]
  <2>1. CASE i = n + 1
    <3>1. (m - n) + i = m + 1
      BY <1>1, <2>1
    <3> QED
      BY <1>5, <1>6, <2>1, <3>1
  <2>2. CASE i # n + 1
    <3>1. i \in 1..n /\ (m - n) + i \in 1..m
      BY <1>1, <2>2
    <3> QED
      BY <1>2, <1>5, <1>6, <3>1
  <2> QED
    BY <2>1, <2>2
<1>10. ASSUME NEW i \in 1..(m - n)
       PROVE  l[i] <= second - WindowSeconds
  <2>1. i \in 1..m
    BY <1>1
  <2> QED
    BY <1>3, <1>6, <2>1
<1>11. Follows(q, l)
  <2>1. \A i \in 1..Len(q) : q[i] = l[(Len(l) - Len(q)) + i]
    BY <1>5, <1>6, <1>8, <1>9
  <2>2. \A i \in 1..(Len(l) - Len(q)) : l[i] <= second - WindowSeconds
    BY <1>5, <1>6, <1>8, <1>10
  <2> QED
    BY <1>5, <1>6, <1>8, <2>1, <2>2 DEF Follows
<1>12. ASSUME NEW i \in 1..(m + 1), i > limit
       PROVE  l[i] - l[i - limit] >= WindowSeconds
  <2>1. CASE i = m + 1
    <3>1. i - limit \in 1..(m - n) /\ i - limit \in 1..m
      BY <1>1, <1>7, <1>12, <2>1
    <3>2. l[i - limit] <= second - WindowSeconds /\ l[i - limit] \in Nat
      BY <1>1, <1>6, <1>10, <3>1
    <3>3. l[i] = second
      BY <1>6, <2>1
    <3> QED
      BY <1>7, <3>2, <3>3
  <2>2. CASE i # m + 1
    <3>1. i \in 1..m /\ i - limit \in 1..m
      BY <1>1, <1>12, <2>2
    <3> QED
      BY <1>4, <1>6, <1>12, <3>1
  <2> QED
    BY <2>1, <2>2
<1>13. Spaced(l, limit)
  BY <1>6, <1>12 DEF Spaced
<1> QED
  BY <1>11, <1>13 DEF q, l

\* What the index is, by name.
LEMMA FunctionIsSeq ==
  ASSUME NEW S, NEW n \in Nat, NEW f \in [1..n -> S]
  PROVE  f \in Seq(S)
BY SeqDef

LEMMA IndexMeans ==
  ASSUME IndexInv
  PROVE  /\ Len(indexed) \in Nat /\ DOMAIN indexed = 1..Len(indexed)
         /\ \A i \in 1..Len(indexed) :
              /\ indexed[i] \in IndexRecord
              /\ indexed[i].epoch \in Nat \ {0} /\ indexed[i].score \in Points /\ indexed[i].at \in Nat
<1>1. indexed \in Seq(IndexRecord)
  BY DEF IndexInv
<1>2. \A i \in 1..Len(indexed) : indexed[i] \in IndexRecord
  BY <1>1, ElementOfSeq
<1>3. \A r \in IndexRecord : r.epoch \in Nat \ {0} /\ r.score \in Points /\ r.at \in Nat
  BY DEF IndexRecord
<1> QED
  BY <1>1, <1>2, <1>3, LenProperties

LEMMA BetweenTwo ==
  ASSUME NEW from \in Int, NEW to \in Int, NEW u \in Int, NEW v \in Int, NEW z \in Int,
         NEW i \in Int, NEW x \in Int, NEW m \in Int,
         from <= u, z <= to, i <= x, x <= m, v - u >= x - i, z - v >= m - x
  PROVE  v \in from..to
OBVIOUS

\* The second read of the guarded score: whatever was indexed since the first,
\* no record of the window is missed for the limit, and nothing else is read.
LEMMA WindowIsRead ==
  ASSUME IndexInv, NEW e \in Nat \ {0},
         NEW i \in 1..Len(indexed), indexed[i].epoch \in (e - WindowEpochs + 1)..e
  PROVE  LET seen == ScoreHistory(Max({1, e - (WindowEpochs - 1)}), e, WindowEpochs)
         IN /\ \E j \in DOMAIN seen : seen[j] = indexed[i]
            /\ seen \in Seq(IndexRecord)
<1> DEFINE from == Max({1, e - (WindowEpochs - 1)})
           found == {x \in DOMAIN indexed : indexed[x].epoch \in from..e}
           n == Len(indexed)
           seen == ScoreHistory(from, e, WindowEpochs)
<1>1. /\ n \in Nat /\ DOMAIN indexed = 1..n /\ i \in 1..n
      /\ \A x \in 1..n : indexed[x].epoch \in Nat \ {0}
      /\ \A x, y \in 1..n : x <= y => indexed[y].epoch - indexed[x].epoch >= y - x
  BY IndexMeans DEF IndexInv
<1>2. WindowEpochs \in Nat
  BY GatewayAssumption DEF GatewayAssumption
<1>3. from = IF 1 >= e - (WindowEpochs - 1) THEN 1 ELSE e - (WindowEpochs - 1)
  <2> DEFINE low == e - (WindowEpochs - 1)
  <2>1. low \in Int
    BY <1>2
  <2> HIDE DEF low
  <2>2. PICK one \in Int : one = 1
    OBVIOUS
  <2>3. Max({one, low}) = IF one >= low THEN one ELSE low
    BY <2>1, MaxOfTwo
  <2>4. from = Max({one, low})
    BY <2>2 DEF low
  <2> HIDE DEF from
  <2> QED
    BY <2>2, <2>3, <2>4 DEF low
<1> HIDE DEF from
<1>4. i \in found
  BY <1>1, <1>2, <1>3
<1>5. found \in SUBSET Nat /\ \A x \in found : x <= n
  BY <1>1
<1>6. Max(found) \in found /\ \A x \in found : x <= Max(found)
  <2> HIDE DEF found
  <2> QED
    BY <1>1, <1>4, <1>5, MaxOfBounded
<1>7. PICK m \in found : m = Max(found) /\ i <= m
  BY <1>4, <1>6
<1>8. m \in 1..n /\ indexed[m].epoch \in from..e /\ indexed[i].epoch \in from..e
  BY <1>1, <1>4
<1>9. i..m \subseteq found
  <2> SUFFICES ASSUME NEW x \in i..m
               PROVE  x \in found
    OBVIOUS
  <2>1. x \in 1..n /\ i <= x /\ x <= m
    BY <1>1, <1>8
  <2>2. indexed[x].epoch - indexed[i].epoch >= x - i /\ indexed[m].epoch - indexed[x].epoch >= m - x
    BY <1>1, <1>8, <2>1
  <2>3. indexed[x].epoch \in from..e
    <3>1. indexed[x].epoch \in Int /\ indexed[i].epoch \in Int /\ indexed[m].epoch \in Int
      BY <1>1, <1>8, <2>1
    <3>2. from \in Int
      BY <1>2, <1>3
    <3>3. from <= indexed[i].epoch /\ indexed[m].epoch <= e
      BY <1>8, <3>1, <3>2
    <3>4. i \in Int /\ m \in Int /\ x \in Int
      BY <1>1, <1>8, <2>1
    <3> QED
      BY <2>1, <2>2, <3>1, <3>2, <3>3, <3>4, BetweenTwo
  <2> QED
    BY <1>1, <2>1, <2>3
<1>10. found \subseteq 1..m
  BY <1>1, <1>5, <1>6, <1>7
<1>11. IsFiniteSet(found) /\ Cardinality(found) \in Nat /\ Cardinality(i..m) <= Cardinality(found) /\ Cardinality(found) <= Cardinality(1..m)
  <2> HIDE DEF found
  <2>1. IsFiniteSet(1..m)
    BY <1>8, FS_Interval
  <2>2. IsFiniteSet(found) /\ Cardinality(found) <= Cardinality(1..m)
    BY <1>10, <2>1, FS_Subset
  <2> QED
    BY <1>9, <2>2, FS_Subset, FS_CardinalityType
<1>12. Cardinality(i..m) = (m - i) + 1 /\ Cardinality(1..m) = m
  <2>1. m \in Int /\ i <= m /\ 1 <= m
    BY <1>7, <1>8
  <2> QED
    BY <2>1, FS_Interval
<1>13. PICK c \in Nat : c = Cardinality(found) /\ (m - i) + 1 <= c /\ c <= m
  BY <1>11, <1>12
<1>14. (m - i) + 1 <= WindowEpochs
  <2>1. indexed[m].epoch - indexed[i].epoch >= m - i
    BY <1>1, <1>7, <1>8
  <2>2. indexed[m].epoch - indexed[i].epoch <= WindowEpochs - 1
    BY <1>1, <1>2, <1>8
  <2> QED
    BY <1>1, <1>2, <1>8, <2>1, <2>2
<1>15. PICK top \in Nat : top = Min({WindowEpochs, c}) /\ top <= c /\ (m - i) + 1 <= top
  <2>1. Min({WindowEpochs, c}) = IF WindowEpochs <= c THEN WindowEpochs ELSE c
    BY <1>2, MinOfTwo
  <2>2. CASE WindowEpochs <= c
    BY <1>2, <1>14, <2>1, <2>2
  <2>3. CASE ~(WindowEpochs <= c)
    <3>1. c <= c /\ Min({WindowEpochs, c}) = c
      BY <2>1, <2>3
    <3> QED
      BY <1>13, <3>1
  <2> QED
    BY <2>2, <2>3
<1>16. seen = [j \in 1..top |-> indexed[m - j + 1]]
  <2>1. seen = Newest(found, WindowEpochs)
    BY DEF ScoreHistory
  <2> HIDE DEF found, seen
  <2> QED
    BY <1>7, <1>13, <1>15, <2>1 DEF Newest
<1> HIDE DEF seen, found, n
<1>17. \E j \in DOMAIN seen : seen[j] = indexed[i]
  <2>1. (m - i) + 1 \in 1..top /\ m - ((m - i) + 1) + 1 = i
    BY <1>1, <1>8, <1>7, <1>15
  <2>2. seen[(m - i) + 1] = indexed[i] /\ (m - i) + 1 \in DOMAIN seen
    BY <1>16, <2>1
  <2> QED
    BY <2>2
<1>18. ASSUME NEW j \in DOMAIN seen
       PROVE  seen[j] \in IndexRecord
  <2>1. j \in 1..top /\ seen[j] = indexed[m - j + 1]
    BY <1>16
  <2>2. m - j + 1 \in 1..n
    <3>1. m \in Nat /\ m <= n /\ n \in Nat
      BY <1>1, <1>8
    <3>2. j \in Nat /\ 1 <= j /\ j <= top
      BY <1>15, <2>1
    <3>3. top <= c /\ c <= m
      BY <1>13, <1>15
    <3> QED
      BY <3>1, <3>2, <3>3
  <2> QED
    BY <2>1, <2>2, IndexMeans DEF n
<1>19. seen \in Seq(IndexRecord)
  <2>1. seen \in [1..top -> IndexRecord]
    BY <1>16, <1>18
  <2> QED
    BY <2>1, FunctionIsSeq
<1> QED
  BY <1>17, <1>19 DEF seen, from

LEMMA SwingIsBounded ==
  ASSUME NEW n \in Nat, NEW S \in SUBSET (0..n), NEW x \in S, NEW y \in S, NEW v \in Nat, ~(Max(S) - Min(S) > v)
  PROVE  x - y \in -v..v
<1>1. S \in SUBSET Nat /\ S # {} /\ \A s \in S : s <= n
  OBVIOUS
<1>2. PICK high \in S : high = Max(S) /\ x <= high /\ y <= high
  BY <1>1, MaxOfBounded
<1>3. PICK low \in S : low = Min(S) /\ low <= x /\ low <= y
  BY <1>1, MinOfBounded
<1>4. ~(high - low > v)
  BY <1>2, <1>3
<1>5. x \in Nat /\ y \in Nat /\ high \in Nat /\ low \in Nat
  OBVIOUS
<1> QED
  BY <1>2, <1>3, <1>4, <1>5

\* A reply other than the safe one: a request that goes on, never refused.
GoesOn(w, next) ==
  /\ task' = [task EXCEPT ![w] = next]
  /\ next.key = task[w].key /\ next.phase # "idle"
  /\ next.phase = "answered" => next.status # 429
  /\ next.phase \in {"handler", "window"} => next.now \in Nat

LEMMA JudgedIsSafe ==
  ASSUME IndexInv, SafeInv, NEW w \in Worker, JudgeWindow(w)
  PROVE  \E next : /\ GoesOn(w, next) /\ next.phase \in {"answered", "ok"}
                   /\ next.phase = "ok" => Safe(next.body, indexed)
<1> DEFINE t == task[w]
           e == t.latest.epoch
           seen == ScoreHistory(Max({1, e - (WindowEpochs - 1)}), e, WindowEpochs)
           scores == {r.score : r \in ToSet(seen)}
           ok == [ok |-> TRUE, score |-> t.latest.score, epoch |-> e, at |-> t.latest.at, now |-> t.now,
                  low |-> Min(scores), high |-> Max(scores)]
           next == CASE Len(seen) < 2 -> Rejected(t, "INSUFFICIENT_HISTORY")
                     [] Len(seen) >= 2 /\ t.now - t.latest.at > CertMaxAge -> Rejected(t, "STALE_CERT")
                     [] /\ Len(seen) >= 2 /\ t.now - t.latest.at <= CertMaxAge
                        /\ ok.high - ok.low > MaxVelocity -> Rejected(t, "VELOCITY_EXCEEDED")
                     [] OTHER -> [phase |-> "ok", key |-> t.key, route |-> "safe", body |-> ok]
           safe == [phase |-> "ok", key |-> t.key, route |-> "safe", body |-> ok]
<1>1. t.phase = "window" /\ task' = [task EXCEPT ![w] = next]
  BY DEF JudgeWindow
<1>2. t.now \in Nat
  BY <1>1 DEF SafeInv
<1>3. PICK i \in 1..Len(indexed) : t.latest = indexed[i]
  BY <1>1 DEF SafeInv
<1>4. /\ WindowEpochs \in Nat /\ WindowEpochs >= 2 /\ CertMaxAge \in Nat
      /\ MaxVelocity \in Nat /\ \E top \in Nat : Points \subseteq 0..top
  <2>1. /\ WindowEpochs \in Nat /\ WindowEpochs >= 2 /\ CertMaxAge \in Nat
        /\ MaxVelocity \in Nat /\ Points \subseteq Nat /\ \A p \in Points : p <= 1000
    BY GatewayAssumption DEF GatewayAssumption
  <2>2. PICK top \in Nat : top = 1000
    OBVIOUS
  <2>3. Points \subseteq 0..top
    BY <2>1, <2>2
  <2> QED
    BY <2>1, <2>3
<1>5. e \in Nat \ {0} /\ t.latest.score \in Points /\ t.latest.at \in Nat
  BY <1>3, IndexMeans
<1>6. indexed[i].epoch \in (e - WindowEpochs + 1)..e
  BY <1>3, <1>4, <1>5
<1>7. seen \in Seq(IndexRecord)
  BY <1>5, <1>6, WindowIsRead
<1>8. ASSUME NEW x \in 1..Len(indexed), indexed[x].epoch \in (e - WindowEpochs + 1)..e
      PROVE  indexed[x].score \in scores
  <2>1. PICK j \in DOMAIN seen : seen[j] = indexed[x]
    BY <1>5, <1>8, WindowIsRead
  <2> HIDE DEF seen
  <2> QED
    BY <2>1 DEF ToSet
<1> PICK top \in Nat : Points \subseteq 0..top
  BY <1>4
<1>9. scores \in SUBSET (0..top)
  <2> HIDE DEF seen
  <2>1. \A j \in DOMAIN seen : seen[j] \in IndexRecord
    BY <1>7, LenProperties, ElementOfSeq
  <2>2. \A r \in IndexRecord : r.score \in 0..top
    BY DEF IndexRecord
  <2>3. \A j \in DOMAIN seen : seen[j].score \in 0..top
    BY <2>1, <2>2
  <2>4. \A x \in ToSet(seen) : x.score \in 0..top
    BY <2>3 DEF ToSet
  <2> QED
    BY <2>4
<1>10. t.latest.score \in scores
  BY <1>3, <1>6, <1>8
<1>11. Len(seen) \in Nat
  BY <1>7, LenProperties
<1> HIDE DEF seen, scores
<1> HIDE DEF next
<1>12. CASE next = safe /\ t.now - t.latest.at <= CertMaxAge /\ ~(ok.high - ok.low > MaxVelocity)
  <2>1. ok.high = Max(scores) /\ ok.low = Min(scores) /\ ok.epoch = e /\ ok.score = t.latest.score
        /\ ok.now = t.now /\ ok.at = t.latest.at
    OBVIOUS
  <2>2. ASSUME NEW x \in 1..Len(indexed), indexed[x].epoch \in (e - WindowEpochs + 1)..e
        PROVE  indexed[x].score - t.latest.score \in -MaxVelocity..MaxVelocity
    <3>1. indexed[x].score \in scores
      BY <1>8, <2>2
    <3>2. ~(Max(scores) - Min(scores) > MaxVelocity)
      BY <1>12, <2>1
    <3> QED
      <4>1. scores \in SUBSET (0..top) /\ MaxVelocity \in Nat
        BY <1>4, <1>9
      <4> HIDE DEF t
      <4> QED
        BY <1>10, <3>1, <3>2, <4>1, SwingIsBounded
  <2>3. Safe(ok, indexed)
    BY <1>3, <1>12, <2>1, <2>2 DEF Safe
  <2>4. safe.phase = "ok" /\ safe.key = t.key /\ safe.body = ok
    OBVIOUS
  <2> HIDE DEF ok, safe
  <2>5. GoesOn(w, next)
    BY <1>1, <1>12, <2>4 DEF GoesOn
  <2> QED
    BY <1>12, <2>3, <2>4, <2>5
<1>13. CASE \E reason : next = Rejected(t, reason)
  <2>1. PICK reason : next = Rejected(t, reason)
    BY <1>13
  <2>2. next.phase = "answered" /\ next.key = t.key /\ next.status = 200
    BY <2>1 DEF Rejected, Answer
  <2>3. GoesOn(w, next)
    BY <1>1, <2>2 DEF GoesOn
  <2> QED
    BY <2>2, <2>3
<1>14. ok.high = Max(scores) /\ ok.low = Min(scores)
  OBVIOUS
<1> HIDE DEF ok
<1> HIDE DEF t, e, safe
<1>15. PICK size \in Nat, age \in Int : size = Len(seen) /\ age = t.now - t.latest.at
  BY <1>2, <1>5, <1>11
<1>16. /\ Len(seen) >= 2 <=> ~(Len(seen) < 2)
       /\ t.now - t.latest.at <= CertMaxAge <=> ~(t.now - t.latest.at > CertMaxAge)
  BY <1>4, <1>15
<1>17. CASE Len(seen) < 2
  <2>1. next = Rejected(t, "INSUFFICIENT_HISTORY")
    BY <1>17 DEF next
  <2> QED
    BY <1>13, <2>1
<1>18. CASE ~(Len(seen) < 2) /\ t.now - t.latest.at > CertMaxAge
  <2>1. next = Rejected(t, "STALE_CERT")
    BY <1>16, <1>18 DEF next
  <2> QED
    BY <1>13, <2>1
<1>19. CASE ~(Len(seen) < 2) /\ ~(t.now - t.latest.at > CertMaxAge) /\ ok.high - ok.low > MaxVelocity
  <2>1. next = Rejected(t, "VELOCITY_EXCEEDED")
    BY <1>16, <1>19 DEF next
  <2> QED
    BY <1>13, <2>1
<1>20. CASE ~(Len(seen) < 2) /\ ~(t.now - t.latest.at > CertMaxAge) /\ ~(ok.high - ok.low > MaxVelocity)
  <2>1. next = safe
    BY <1>16, <1>20 DEF next, safe
  <2> QED
    BY <1>12, <1>16, <1>20, <2>1
<1> QED
  BY <1>17, <1>18, <1>19, <1>20

\* What a step of a thread may do to its request, while others stand still.
Answering(w, next) ==
  /\ next.phase \in {"handler", "window"} => next.now \in Nat
  /\ next.phase = "window" => \E i \in 1..Len(indexed) : next.latest = indexed[i]
  /\ next.phase = "ok" => Safe(next.body, indexed)

LEMMA AnsweringKeepsSafe ==
  ASSUME SafeInv, DOMAIN task = Worker, NEW w \in Worker, NEW next, Answering(w, next),
         task' = [task EXCEPT ![w] = next], indexed' = indexed
  PROVE  SafeInv' /\ DOMAIN task' = Worker
<1>1. DOMAIN task' = Worker /\ \A v \in Worker : task'[v] = IF v = w THEN next ELSE task[v]
  OBVIOUS
<1>3. ASSUME NEW v \in Worker
      PROVE  /\ task'[v].phase \in {"handler", "window"} => task'[v].now \in Nat
             /\ task'[v].phase = "window" => \E i \in 1..Len(indexed) : task'[v].latest = indexed[i]
             /\ task'[v].phase = "ok" => Safe(task'[v].body, indexed)
  <2>1. CASE v = w
    BY <1>1, <2>1 DEF Answering
  <2>2. CASE v # w
    <3>1. task'[v] = task[v]
      BY <1>1, <2>2
    <3> QED
      BY <3>1 DEF SafeInv
  <2> QED
    BY <2>1, <2>2
<1>4. SafeInv'
  BY <1>3 DEF SafeInv
<1> QED
  BY <1>1, <1>4

\* The handlers' reads and the webhook: the request goes on.
Serving(w) ==
  /\ task[w].phase \notin {"idle", "answered"}
  /\ \E next : GoesOn(w, next) /\ Answering(w, next)
  /\ UNCHANGED <<second, hits, admitted, indexed, calls>>

LEMMA AnswersGoOn ==
  ASSUME NEW w \in Worker, NEW status, status # 429, NEW body
  PROVE  /\ task' = [task EXCEPT ![w] = Answer(task[w], status, body)] => GoesOn(w, Answer(task[w], status, body))
         /\ Answering(w, Answer(task[w], status, body))
<1> DEFINE next == Answer(task[w], status, body)
<1>1. next.phase = "answered" /\ next.key = task[w].key /\ next.status # 429
  BY DEF Answer
<1> HIDE DEF next
<1>2. (task' = [task EXCEPT ![w] = next] => GoesOn(w, next)) /\ Answering(w, next)
  BY <1>1 DEF GoesOn, Answering
<1> QED
  BY <1>2 DEF next

LEMMA FoundGoesOn ==
  ASSUME NEW w \in Worker, NEW body
  PROVE  /\ task' = [task EXCEPT ![w] = Answer(task[w], 200, body)] => GoesOn(w, Answer(task[w], 200, body))
         /\ Answering(w, Answer(task[w], 200, body))
<1>1. PICK status : status = 200 /\ status # 429
  OBVIOUS
<1> QED
  BY <1>1, AnswersGoOn

LEMMA ServeServes ==
  ASSUME GatewayInv, NEW w \in Worker,
         ReadOnce(w) \/ ReadLatest(w) \/ JudgeWindow(w) \/ TestTracker(w) \/ Fire(w)
  PROVE  Serving(w)
<1>1. CASE ReadOnce(w)
  <2>1. PICK status : status # 429 /\ \E body : task' = [task EXCEPT ![w] = Answer(task[w], status, body)]
    BY <1>1 DEF ReadOnce
  <2>2. task[w].phase = "handler" /\ UNCHANGED <<second, hits, admitted, indexed, calls>>
    BY <1>1 DEF ReadOnce
  <2>3. \E next : GoesOn(w, next) /\ Answering(w, next)
    <3>1. PICK body : task' = [task EXCEPT ![w] = Answer(task[w], status, body)]
      BY <2>1
    <3>2. GoesOn(w, Answer(task[w], status, body)) /\ Answering(w, Answer(task[w], status, body))
      BY <2>1, <3>1, AnswersGoOn
    <3> QED
      BY <3>2
  <2> QED
    BY <2>2, <2>3 DEF Serving
<1>2. CASE ReadLatest(w)
  <2>1. task[w].phase = "handler" /\ UNCHANGED <<second, hits, admitted, indexed, calls>>
    BY <1>2 DEF ReadLatest
  <2>2. CASE Latest = {}
    <3>1. PICK body : task' = [task EXCEPT ![w] = Answer(task[w], 200, body)]
      BY <1>2, <2>2 DEF ReadLatest, Rejected
    <3>2. \E next : GoesOn(w, next) /\ Answering(w, next)
      <4>1. GoesOn(w, Answer(task[w], 200, body)) /\ Answering(w, Answer(task[w], 200, body))
        BY <3>1, FoundGoesOn
      <4> QED
        BY <4>1
    <3> QED
      BY <2>1, <3>2 DEF Serving
  <2>3. CASE Latest # {}
    <3> DEFINE next == [phase |-> "window", key |-> task[w].key, route |-> "safe", now |-> task[w].now, latest |-> Last(indexed)]
    <3>1. task' = [task EXCEPT ![w] = next]
      BY <1>2, <2>3 DEF ReadLatest
    <3>2. indexed # <<>> /\ Last(indexed) = indexed[Len(indexed)] /\ Len(indexed) \in 1..Len(indexed)
      <4>1. indexed \in Seq(IndexRecord) /\ indexed # <<>>
        BY <2>3 DEF GatewayInv, IndexInv, Latest
      <4> QED
        BY <4>1, EmptySeq, LenProperties DEF Last
    <3>3. task[w].now \in Nat
      BY <2>1 DEF GatewayInv, SafeInv
    <3>4. next.phase = "window" /\ next.key = task[w].key /\ next.now = task[w].now /\ next.latest = Last(indexed)
      OBVIOUS
    <3> HIDE DEF next
    <3>5. GoesOn(w, next) /\ Answering(w, next)
      BY <3>1, <3>2, <3>3, <3>4 DEF GoesOn, Answering
    <3> QED
      BY <2>1, <3>5 DEF Serving
  <2> QED
    BY <2>2, <2>3
<1>3. CASE JudgeWindow(w)
  <2>1. task[w].phase = "window" /\ UNCHANGED <<second, hits, admitted, indexed, calls>>
    BY <1>3 DEF JudgeWindow
  <2>2. PICK next : /\ GoesOn(w, next) /\ next.phase \in {"answered", "ok"}
                    /\ next.phase = "ok" => Safe(next.body, indexed)
    BY <1>3, JudgedIsSafe DEF GatewayInv
  <2>3. Answering(w, next)
    BY <2>2 DEF Answering
  <2> QED
    BY <2>1, <2>2, <2>3 DEF Serving
<1>4. CASE TestTracker(w)
  <2>1. task[w].phase = "ok" /\ UNCHANGED <<second, hits, admitted, indexed, calls>>
    BY <1>4 DEF TestTracker
  <2> DEFINE fire == [phase |-> "fire", key |-> task[w].key, route |-> task[w].route, body |-> task[w].body]
  <2>2. CASE task' = [task EXCEPT ![w] = fire]
    <3>1. fire.phase = "fire" /\ fire.key = task[w].key
      OBVIOUS
    <3> HIDE DEF fire
    <3>2. GoesOn(w, fire) /\ Answering(w, fire)
      BY <2>2, <3>1 DEF GoesOn, Answering
    <3> QED
      BY <2>1, <3>2 DEF Serving
  <2>3. CASE task' = [task EXCEPT ![w] = Answer(task[w], 200, <<task[w].body>>)]
    <3>1. \E next : GoesOn(w, next) /\ Answering(w, next)
      <4>1. /\ GoesOn(w, Answer(task[w], 200, <<task[w].body>>))
            /\ Answering(w, Answer(task[w], 200, <<task[w].body>>))
        BY <2>3, FoundGoesOn
      <4> QED
        BY <4>1
    <3> QED
      BY <2>1, <3>1 DEF Serving
  <2> QED
    BY <1>4, <2>2, <2>3 DEF TestTracker
<1>5. CASE Fire(w)
  <2>1. task[w].phase = "fire" /\ UNCHANGED <<second, hits, admitted, indexed, calls>>
    BY <1>5 DEF Fire
  <2>2. task' = [task EXCEPT ![w] = Answer(task[w], 200, <<task[w].body>>)]
    BY <1>5 DEF Fire
  <2>3. \E next : GoesOn(w, next) /\ Answering(w, next)
    <3>1. /\ GoesOn(w, Answer(task[w], 200, <<task[w].body>>))
          /\ Answering(w, Answer(task[w], 200, <<task[w].body>>))
      BY <2>2, FoundGoesOn
    <3> QED
      BY <3>1
  <2> QED
    BY <2>1, <2>3 DEF Serving
<1> QED
  BY <1>1, <1>2, <1>3, <1>4, <1>5

\* Nothing else moving, the share is as it was.
LEMMA ShareStays ==
  ASSUME ShareInv, DOMAIN task = Worker, calls' = calls, admitted' = admitted,
         \A p \in Partner : InFlight(p)' = InFlight(p)
  PROVE  ShareInv'
<1>1. \A p \in Partner : LetThrough(p)' = LetThrough(p) /\ Total(p)' = Total(p)
  BY DEF LetThrough, KeysOf, Total
<1> QED
  BY <1>1 DEF ShareInv

LEMMA LimiterStays ==
  ASSUME LimiterInv, UNCHANGED <<second, hits, admitted>>
  PROVE  LimiterInv'
BY DEF LimiterInv, Follows, Spaced, LimitOn

LEMMA ServingKeeps ==
  ASSUME GatewayInv, NEW w \in Worker, Serving(w)
  PROVE  GatewayInv'
<1>1. PICK next : GoesOn(w, next) /\ Answering(w, next)
  BY DEF Serving
<1>2. SafeInv' /\ DOMAIN task' = Worker
  BY <1>1, AnsweringKeepsSafe DEF GatewayInv, GoesOn, Serving
<1>3. \A p \in Partner : InFlight(p)' = InFlight(p)
  <2>1. \A v \in Worker : task'[v] = IF v = w THEN next ELSE task[v]
    BY <1>1 DEF GoesOn, GatewayInv
  <2>2. \A p : Carries(next, p) <=> Carries(task[w], p)
    BY <1>1 DEF Carries, GoesOn, Serving
  <2>3. \A p : \A v \in Worker : Carries(task'[v], p) <=> Carries(task[v], p)
    BY <2>1, <2>2
  <2> QED
    BY <2>3 DEF InFlight, Carries
<1>4. ShareInv'
  BY <1>3, ShareStays DEF GatewayInv, Serving
<1>5. LimiterInv' /\ IndexInv'
  BY LimiterStays DEF GatewayInv, Serving, IndexInv
<1> QED
  BY <1>2, <1>4, <1>5 DEF GatewayInv

LEMMA SetsAreFinite ==
  /\ IsFiniteSet(ApiKey) /\ IsFiniteSet(Worker)
  /\ NoKey \notin ApiKey /\ ApiKey \cap Ip = {}
  /\ \A b \in Bucket : LimitOn(b) \in Nat \ {0}
BY GatewayAssumption DEF GatewayAssumption, Bucket, LimitOn

LEMMA InFlightIsFinite ==
  ASSUME NEW p
  PROVE  IsFiniteSet(InFlight(p)) /\ Cardinality(InFlight(p)) \in Nat
<1>1. InFlight(p) \subseteq Worker
  BY DEF InFlight
<1> QED
  BY <1>1, SetsAreFinite, FS_Subset, FS_CardinalityType

\* A request that is not a partner's own changes nobody's share.
LEMMA NotInFlight ==
  ASSUME DOMAIN task = Worker, NEW w \in Worker, NEW next, NEW p,
         task' = [task EXCEPT ![w] = next], ~Carries(task[w], p), ~Carries(next, p)
  PROVE  InFlight(p)' = InFlight(p)
<1>1. \A v \in Worker : task'[v] = IF v = w THEN next ELSE task[v]
  OBVIOUS
<1>2. \A v \in Worker : Carries(task'[v], p) <=> Carries(task[v], p)
  BY <1>1
<1> QED
  BY <1>2 DEF InFlight, Carries

\* The limiter's part of an arrival.
LEMMA RefusalKeepsLimiter ==
  ASSUME LimiterInv, NEW b \in Bucket, hits' = [hits EXCEPT ![b] = Live(hits[b])],
         UNCHANGED <<second, admitted>>
  PROVE  LimiterInv'
<1>1. DOMAIN hits' = Bucket /\ \A c \in Bucket : hits'[c] = IF c = b THEN Live(hits[b]) ELSE hits[c]
  BY DEF LimiterInv
<1>2. ASSUME NEW c \in Bucket
      PROVE  Follows(hits'[c], admitted'[c]) /\ Spaced(admitted'[c], LimitOn(c))
  <2>1. Follows(hits[c], admitted[c]) /\ Spaced(admitted[c], LimitOn(c))
    BY DEF LimiterInv
  <2>2. CASE c = b
    BY <1>1, <2>1, <2>2, LiveFollows
  <2>3. CASE c # b
    BY <1>1, <2>1, <2>3
  <2> QED
    BY <2>2, <2>3
<1>3. \A c \in Bucket : Follows(hits[c], admitted[c])' /\ Spaced(admitted[c], LimitOn(c))'
  BY <1>2 DEF Follows, Spaced, LimitOn
<1> QED
  BY <1>1, <1>3 DEF LimiterInv

LEMMA AdmissionKeepsLimiter ==
  ASSUME LimiterInv, NEW b \in Bucket, Len(Live(hits[b])) < LimitOn(b),
         hits' = [hits EXCEPT ![b] = Append(Live(hits[b]), second)],
         admitted' = [admitted EXCEPT ![b] = Append(@, second)],
         second' = second
  PROVE  LimiterInv'
<1>1. /\ DOMAIN hits' = Bucket /\ \A c \in Bucket : hits'[c] = IF c = b THEN Append(Live(hits[b]), second) ELSE hits[c]
      /\ DOMAIN admitted' = Bucket
      /\ \A c \in Bucket : admitted'[c] = IF c = b THEN Append(admitted[b], second) ELSE admitted[c]
  BY DEF LimiterInv
<1>2. ASSUME NEW c \in Bucket
      PROVE  Follows(hits'[c], admitted'[c]) /\ Spaced(admitted'[c], LimitOn(c))
  <2>1. Follows(hits[c], admitted[c]) /\ Spaced(admitted[c], LimitOn(c)) /\ second \in Nat
    BY DEF LimiterInv
  <2>2. CASE c = b
    <3>1. Follows(Live(hits[b]), admitted[b]) /\ Spaced(admitted[b], LimitOn(b)) /\ LimitOn(b) \in Nat \ {0}
      BY <2>1, <2>2, LiveFollows, SetsAreFinite
    <3>2. Follows(Append(Live(hits[b]), second), Append(admitted[b], second)) /\ Spaced(Append(admitted[b], second), LimitOn(b))
      BY <2>1, <3>1, AdmissionFollows
    <3> QED
      BY <1>1, <2>2, <3>2
  <2>3. CASE c # b
    BY <1>1, <2>1, <2>3
  <2> QED
    BY <2>2, <2>3
<1>3. \A c \in Bucket : Follows(hits[c], admitted[c])' /\ Spaced(admitted[c], LimitOn(c))'
  BY <1>2 DEF Follows, Spaced, LimitOn
<1>4. second' \in Nat
  BY DEF LimiterInv
<1> QED
  BY <1>1, <1>3, <1>4 DEF LimiterInv

\* The partner's part of an admission: the request in flight is one let through.
LEMMA AdmissionKeepsShare ==
  ASSUME ShareInv, LimiterInv, DOMAIN task = Worker, NEW w \in Worker, NEW next, NEW b \in Bucket,
         task[w].phase = "idle", task' = [task EXCEPT ![w] = next],
         admitted' = [admitted EXCEPT ![b] = Append(@, second)], calls' = calls,
         next.key \in ApiKey => b = next.key
  PROVE  ShareInv'
<1> DEFINE n == Len(admitted[b])
           new == <<b, n + 1>>
<1>1. admitted[b] \in Seq(Nat) /\ second \in Nat /\ n \in Nat /\ DOMAIN admitted[b] = 1..n
  BY FollowsMeans DEF LimiterInv
<1>2. \A k \in Bucket : DOMAIN admitted'[k] = IF k = b THEN 1..(n + 1) ELSE DOMAIN admitted[k]
  <2>1. DOMAIN Append(admitted[b], second) = 1..(n + 1)
    BY <1>1, AppendProperties, LenProperties
  <2>2. \A k \in Bucket : admitted'[k] = IF k = b THEN Append(admitted[b], second) ELSE admitted[k]
    BY DEF LimiterInv
  <2> QED
    BY <2>1, <2>2
<1>3. ASSUME NEW p
      PROVE  /\ b \in KeysOf(p) => LetThrough(p)' = LetThrough(p) \cup {new} /\ new \notin LetThrough(p)
             /\ b \notin KeysOf(p) => LetThrough(p)' = LetThrough(p)
  <2>1. LetThrough(p)' = UNION {{k} \X DOMAIN admitted'[k] : k \in KeysOf(p)}
    BY DEF LetThrough, KeysOf
  <2>2. KeysOf(p) \subseteq Bucket
    BY DEF KeysOf, Bucket
  <2>3. CASE b \notin KeysOf(p)
    <3>1. \A k \in KeysOf(p) : DOMAIN admitted'[k] = DOMAIN admitted[k]
      BY <1>2, <2>2, <2>3
    <3> QED
      BY <2>1, <2>3, <3>1 DEF LetThrough
  <2>4. CASE b \in KeysOf(p)
    <3>1. 1..(n + 1) = (1..n) \cup {n + 1} /\ n + 1 \notin 1..n
      BY <1>1
    <3>2. LetThrough(p)' = LetThrough(p) \cup {new}
      <4>1. ASSUME NEW x \in LetThrough(p)'
            PROVE  x \in LetThrough(p) \cup {new}
        <5>1. PICK k \in KeysOf(p) : x \in {k} \X DOMAIN admitted'[k]
          BY <2>1
        <5>2. CASE k = b
          BY <1>1, <1>2, <2>2, <2>4, <3>1, <5>1, <5>2 DEF LetThrough
        <5>3. CASE k # b
          BY <1>2, <2>2, <5>1, <5>3 DEF LetThrough
        <5> QED
          BY <5>2, <5>3
      <4>2. ASSUME NEW x \in LetThrough(p)
            PROVE  x \in LetThrough(p)'
        <5>1. PICK k \in KeysOf(p) : x \in {k} \X DOMAIN admitted[k]
          BY DEF LetThrough
        <5>2. DOMAIN admitted[k] \subseteq DOMAIN admitted'[k]
          BY <1>1, <1>2, <2>2, <3>1
        <5> QED
          BY <2>1, <5>1, <5>2
      <4>3. new \in LetThrough(p)'
        <5>1. n + 1 \in DOMAIN admitted'[b]
          BY <1>2, <3>1
        <5> QED
          BY <2>1, <2>4, <5>1
      <4> QED
        BY <4>1, <4>2, <4>3
    <3>3. new \notin LetThrough(p)
      <4> SUFFICES ASSUME new \in LetThrough(p)
                   PROVE  FALSE
        OBVIOUS
      <4>1. PICK k \in KeysOf(p) : new \in {k} \X DOMAIN admitted[k]
        BY DEF LetThrough
      <4>2. k = b /\ n + 1 \in DOMAIN admitted[b]
        BY <4>1
      <4> QED
        BY <1>1, <3>1, <4>2
    <3> QED
      BY <2>4, <3>2, <3>3
  <2> QED
    BY <2>3, <2>4
<1> HIDE DEF new
<1>4. \A v \in Worker : task'[v] = IF v = w THEN next ELSE task[v]
  OBVIOUS
<1>5. ASSUME NEW p \in Partner
      PROVE  /\ IsFiniteSet(LetThrough(p)')
             /\ Total(p)' + Cardinality(InFlight(p)') <= Cardinality(LetThrough(p)')
  <2>1. /\ IsFiniteSet(LetThrough(p)) /\ Total(p) + Cardinality(InFlight(p)) <= Cardinality(LetThrough(p))
        /\ Total(p) \in Nat /\ Total(p)' = Total(p)
    BY DEF ShareInv, Total
  <2>2. IsFiniteSet(InFlight(p)) /\ Cardinality(InFlight(p)) \in Nat /\ Cardinality(LetThrough(p)) \in Nat
    BY <2>1, InFlightIsFinite, FS_CardinalityType
  <2>3. ~Carries(task[w], p) /\ w \notin InFlight(p)
    BY DEF Carries, InFlight
  <2>4. IsFiniteSet(LetThrough(p)') /\ Cardinality(LetThrough(p)) <= Cardinality(LetThrough(p)')
        /\ Cardinality(LetThrough(p)') \in Nat
    <3>1. CASE b \in KeysOf(p)
      <4>1. LetThrough(p)' = LetThrough(p) \cup {new} /\ new \notin LetThrough(p)
        BY <1>3, <3>1
      <4>2. /\ IsFiniteSet(LetThrough(p) \cup {new})
            /\ Cardinality(LetThrough(p) \cup {new}) = Cardinality(LetThrough(p)) + 1
        BY <2>1, <4>1, FS_AddElement
      <4> QED
        BY <2>2, <4>1, <4>2
    <3>2. CASE b \notin KeysOf(p)
      BY <1>3, <2>1, <2>2, <3>2
    <3> QED
      BY <3>1, <3>2
  <2>5. CASE ~Carries(next, p)
    <3>1. InFlight(p)' = InFlight(p)
      BY <2>3, <2>5, NotInFlight
    <3> QED
      BY <2>1, <2>2, <2>4, <3>1
  <2>6. CASE Carries(next, p)
    <3>1. InFlight(p)' = InFlight(p) \cup {w}
      <4>1. InFlight(p)' = {v \in Worker : Carries(task'[v], p)}
        BY DEF InFlight, Carries
      <4> QED
        BY <1>4, <2>3, <2>6, <4>1 DEF InFlight
    <3>2. Cardinality(InFlight(p)') = Cardinality(InFlight(p)) + 1
      BY <2>2, <2>3, <3>1, FS_AddElement
    <3>3. b \in KeysOf(p)
      BY <2>6 DEF Carries, KeysOf
    <3>4. Cardinality(LetThrough(p)') = Cardinality(LetThrough(p)) + 1
      BY <1>3, <2>1, <3>3, FS_AddElement
    <3> QED
      BY <2>1, <2>2, <2>4, <3>2, <3>4
  <2> QED
    BY <2>5, <2>6
<1> QED
  BY <1>5 DEF ShareInv

LEMMA ArriveKeeps ==
  ASSUME GatewayInv, NEW w \in Worker, Arrive(w)
  PROVE  GatewayInv'
<1>0. /\ LimiterInv /\ IndexInv /\ SafeInv /\ ShareInv /\ DOMAIN task = Worker
      /\ task[w].phase = "idle" /\ UNCHANGED <<second, indexed, calls>>
  BY DEF GatewayInv, Arrive, Idle
<1>1. PICK key \in ApiKey \cup {NoKey}, host \in Ip, forwarded \in Ip \cup {"none"}, route \in Routes, valid \in BOOLEAN :
        LET r == [key |-> key, route |-> route]
            b == IF key \in ApiKey THEN key ELSE ClientIp(host, forwarded)
            q == Live(hits[b])
        IN IF route \in Unmetered
           THEN /\ task' = [task EXCEPT ![w] = Answer([r EXCEPT !.key = NoKey], 200, <<>>)]
                /\ UNCHANGED <<hits, admitted>>
           ELSE IF Len(q) >= LimitOn(b)
           THEN /\ hits' = [hits EXCEPT ![b] = q]
                /\ task' = [task EXCEPT ![w] = Answer(r, 429, <<>>)]
                /\ UNCHANGED admitted
           ELSE /\ hits' = [hits EXCEPT ![b] = Append(q, second)]
                /\ admitted' = [admitted EXCEPT ![b] = Append(@, second)]
                /\ task' = [task EXCEPT ![w] = Served(r, valid)]
  BY DEF Arrive
<1> DEFINE r == [key |-> key, route |-> route]
           b == IF key \in ApiKey THEN key ELSE ClientIp(host, forwarded)
<1>2. b \in Bucket /\ (key \in ApiKey => b = key)
  BY DEF Bucket, ClientIp
<1>3. IndexInv'
  BY <1>0 DEF IndexInv
<1>4. ASSUME NEW next, task' = [task EXCEPT ![w] = next], Answering(w, next)
      PROVE  SafeInv' /\ DOMAIN task' = Worker
  BY <1>0, <1>4, AnsweringKeepsSafe
<1>5. ASSUME NEW next, task' = [task EXCEPT ![w] = next], admitted' = admitted,
             \A p : ~Carries(next, p)
      PROVE  ShareInv'
  <2>1. \A p \in Partner : InFlight(p)' = InFlight(p)
    <3> SUFFICES ASSUME NEW p \in Partner
                 PROVE  InFlight(p)' = InFlight(p)
      OBVIOUS
    <3>1. ~Carries(task[w], p)
      BY <1>0 DEF Carries
    <3> QED
      BY <1>0, <1>5, <3>1, NotInFlight
  <2> QED
    BY <1>0, <1>5, <2>1, ShareStays
<1>6. CASE route \in Unmetered
  <2> DEFINE next == Answer([r EXCEPT !.key = NoKey], 200, <<>>)
  <2>1. task' = [task EXCEPT ![w] = next] /\ hits' = hits /\ admitted' = admitted
    BY <1>1, <1>6
  <2>2. next.phase = "answered" /\ next.key = NoKey
    BY DEF Answer
  <2> HIDE DEF next
  <2>3. Answering(w, next) /\ \A p : ~Carries(next, p)
    BY <2>2, SetsAreFinite DEF Answering, Carries
  <2>4. LimiterInv'
    BY <1>0, <2>1, LimiterStays
  <2> QED
    BY <1>3, <1>4, <1>5, <2>1, <2>3, <2>4 DEF GatewayInv
<1>7. CASE route \notin Unmetered /\ Len(Live(hits[b])) >= LimitOn(b)
  <2> DEFINE next == Answer(r, 429, <<>>)
  <2>1. task' = [task EXCEPT ![w] = next] /\ hits' = [hits EXCEPT ![b] = Live(hits[b])] /\ admitted' = admitted
    BY <1>1, <1>7
  <2>2. next.phase = "answered" /\ next.status = 429
    BY DEF Answer
  <2> HIDE DEF next, b
  <2>3. Answering(w, next) /\ \A p : ~Carries(next, p)
    BY <2>2 DEF Answering, Carries
  <2>4. LimiterInv'
    BY <1>0, <1>2, <2>1, RefusalKeepsLimiter
  <2> QED
    BY <1>3, <1>4, <1>5, <2>1, <2>3, <2>4 DEF GatewayInv
<1>8. CASE route \notin Unmetered /\ ~(Len(Live(hits[b])) >= LimitOn(b))
  <2> DEFINE next == Served(r, valid)
  <2>1. /\ task' = [task EXCEPT ![w] = next]
        /\ hits' = [hits EXCEPT ![b] = Append(Live(hits[b]), second)]
        /\ admitted' = [admitted EXCEPT ![b] = Append(@, second)]
    BY <1>1, <1>8
  <2>2. next.key = key /\ (next.phase = "answered" \/ (next.phase = "handler" /\ next.now = second))
    BY DEF Served, Answer
  <2> HIDE DEF next, b
  <2>3. Answering(w, next)
    BY <1>0, <2>2 DEF Answering, LimiterInv
  <2>4. Len(Live(hits[b])) < LimitOn(b)
    <3>1. Follows(hits[b], admitted[b])
      BY <1>0, <1>2 DEF LimiterInv
    <3>2. Len(Live(hits[b])) \in Nat /\ LimitOn(b) \in Nat
      BY <1>2, <3>1, LiveFollows, FollowsMeans, SetsAreFinite
    <3> QED
      BY <1>8, <3>2
  <2>5. LimiterInv'
    BY <1>0, <1>2, <2>1, <2>4, AdmissionKeepsLimiter
  <2>6. ShareInv'
    BY <1>0, <1>2, <2>1, <2>2, AdmissionKeepsShare
  <2> QED
    BY <1>3, <1>4, <2>1, <2>3, <2>5, <2>6 DEF GatewayInv
<1> QED
  BY <1>6, <1>7, <1>8

LEMMA RespondKeeps ==
  ASSUME GatewayInv, NEW w \in Worker, Respond(w)
  PROVE  GatewayInv'
<1> DEFINE t == task[w]
           counted(p) == /\ t.key \in ApiKey /\ PartnerOf[t.key] = p /\ t.status = 200 /\ Surface(t.route) # "none"
<1>1. /\ t.phase = "answered" /\ task' = [task EXCEPT ![w] = Idle]
      /\ UNCHANGED <<second, hits, admitted, indexed>>
      /\ calls' = [p \in Partner |-> IF counted(p) THEN [calls[p] EXCEPT ![Surface(t.route)] = @ + 1] ELSE calls[p]]
  BY DEF Respond
<1>2. Idle.phase = "idle"
  BY DEF Idle
<1>3. SafeInv' /\ DOMAIN task' = Worker
  <2>1. Answering(w, Idle)
    BY <1>2 DEF Answering
  <2> QED
    BY <1>1, <2>1, AnsweringKeepsSafe DEF GatewayInv
<1>4. LimiterInv' /\ IndexInv'
  BY <1>1, LimiterStays DEF GatewayInv, IndexInv
<1>5. \A v \in Worker : task'[v] = IF v = w THEN Idle ELSE task[v]
  BY <1>1 DEF GatewayInv
<1>6. \A p : ~Carries(Idle, p)
  BY <1>2 DEF Carries
<1>7. calls' \in [Partner -> [safe : Nat, raw : Nat]]
  <2> SUFFICES ASSUME NEW p \in Partner
               PROVE  calls'[p] \in [safe : Nat, raw : Nat]
    BY <1>1
  <2>1. calls[p] \in [safe : Nat, raw : Nat]
    BY DEF GatewayInv, ShareInv
  <2>2. CASE counted(p)
    <3>1. Surface(t.route) \in {"safe", "raw"}
      BY <2>2 DEF Surface
    <3>2. calls'[p] = [calls[p] EXCEPT ![Surface(t.route)] = @ + 1]
      BY <1>1, <2>2
    <3> QED
      BY <2>1, <3>1, <3>2
  <2>3. CASE ~counted(p)
    BY <1>1, <2>1, <2>3
  <2> QED
    BY <2>2, <2>3
<1>8. ASSUME NEW p \in Partner
      PROVE  /\ IsFiniteSet(LetThrough(p)')
             /\ Total(p)' + Cardinality(InFlight(p)') <= Cardinality(LetThrough(p)')
  <2>1. /\ IsFiniteSet(LetThrough(p)) /\ Total(p) + Cardinality(InFlight(p)) <= Cardinality(LetThrough(p))
        /\ calls[p] \in [safe : Nat, raw : Nat]
    BY DEF GatewayInv, ShareInv
  <2>2. IsFiniteSet(InFlight(p)) /\ Cardinality(InFlight(p)) \in Nat /\ Cardinality(LetThrough(p)) \in Nat
    BY <2>1, InFlightIsFinite, FS_CardinalityType
  <2>3. LetThrough(p)' = LetThrough(p)
    BY <1>1 DEF LetThrough, KeysOf
  <2>4. InFlight(p)' = InFlight(p) \ {w}
    <3>1. InFlight(p)' = {v \in Worker : Carries(task'[v], p)}
      BY DEF InFlight, Carries
    <3> QED
      BY <1>5, <1>6, <3>1 DEF InFlight
  <2>5. CASE counted(p)
    <3>1. Total(p)' = Total(p) + 1 /\ Total(p) \in Nat
      <4>1. Surface(t.route) \in {"safe", "raw"}
        BY <2>5 DEF Surface
      <4>2. calls'[p] = [calls[p] EXCEPT ![Surface(t.route)] = @ + 1]
        BY <1>1, <2>5
      <4> HIDE DEF t
      <4>3. calls'[p].safe + calls'[p].raw = calls[p].safe + calls[p].raw + 1
        BY <2>1, <4>1, <4>2
      <4> QED
        BY <2>1, <4>3 DEF Total
    <3>2. w \in InFlight(p)
      BY <1>1, <2>5 DEF InFlight, Carries
    <3>3. Cardinality(InFlight(p)') = Cardinality(InFlight(p)) - 1
      BY <2>2, <2>4, <3>2, FS_RemoveElement
    <3> QED
      BY <2>1, <2>2, <2>3, <3>1, <3>3
  <2>6. CASE ~counted(p)
    <3>1. Total(p)' = Total(p) /\ Total(p) \in Nat
      BY <1>1, <2>1, <2>6 DEF Total
    <3>2. InFlight(p)' \subseteq InFlight(p)
      BY <2>4
    <3>3. Cardinality(InFlight(p)') <= Cardinality(InFlight(p)) /\ Cardinality(InFlight(p)') \in Nat
      BY <2>2, <3>2, FS_Subset, FS_CardinalityType
    <3> QED
      BY <2>1, <2>2, <2>3, <3>1, <3>3
  <2> QED
    BY <2>5, <2>6
<1>9. ShareInv'
  BY <1>7, <1>8 DEF ShareInv
<1> QED
  BY <1>3, <1>4, <1>9 DEF GatewayInv

\* A record that comes in between two reads of a request is of a later epoch
\* than the score it judges.
LEMMA AddRecordKeeps ==
  ASSUME GatewayInv, AddRecord
  PROVE  GatewayInv'
<1> DEFINE n == Len(indexed)
<1>0. /\ LimiterInv /\ IndexInv /\ SafeInv /\ ShareInv /\ DOMAIN task = Worker
      /\ UNCHANGED <<second, hits, admitted, task, calls>>
  BY DEF GatewayInv, AddRecord
<1>1. PICK score \in Points, skip \in 1..2 :
        indexed' = Append(indexed, [epoch |-> skip + (IF indexed = <<>> THEN 0 ELSE Last(indexed).epoch),
                                    score |-> score, at |-> second])
  BY DEF AddRecord
<1> DEFINE epoch == skip + (IF indexed = <<>> THEN 0 ELSE Last(indexed).epoch)
           new == [epoch |-> epoch, score |-> score, at |-> second]
<1>2. /\ indexed \in Seq(IndexRecord) /\ n \in Nat
      /\ \A i \in 1..n : indexed[i].epoch \in Nat \ {0}
      /\ \A i, j \in 1..n : i <= j => indexed[j].epoch - indexed[i].epoch >= j - i
  BY <1>0, IndexMeans DEF IndexInv
<1>3. epoch \in Nat \ {0} /\ \A i \in 1..n : epoch - indexed[i].epoch >= (n + 1) - i
  <2>1. CASE indexed = <<>>
    <3>1. n = 0
      BY <2>1, EmptySeq
    <3> QED
      BY <2>1, <3>1
  <2>2. CASE indexed # <<>>
    <3>1. n \in 1..n /\ epoch = skip + indexed[n].epoch
      BY <1>2, <2>2, EmptySeq DEF Last
    <3>2. indexed[n].epoch \in Nat
      BY <1>2, <3>1
    <3>3. epoch \in Nat \ {0}
      BY <3>1, <3>2
    <3>4. ASSUME NEW i \in 1..n
          PROVE  epoch - indexed[i].epoch >= (n + 1) - i
      <4>1. indexed[n].epoch - indexed[i].epoch >= n - i /\ indexed[i].epoch \in Nat
        BY <1>2, <3>1
      <4>2. PICK e \in Nat, f \in Nat : e = indexed[i].epoch /\ f = indexed[n].epoch
        BY <3>2, <4>1
      <4>3. epoch = skip + f /\ f - e >= n - i
        BY <3>1, <4>1, <4>2
      <4> HIDE DEF epoch, n
      <4>4. (skip + f) - e >= (n + 1) - i
        BY <1>2, <4>3
      <4> QED
        BY <4>2, <4>3, <4>4
    <3> QED
      BY <3>3, <3>4
  <2> QED
    BY <2>1, <2>2
<1>4. new \in IndexRecord /\ new.epoch = epoch
  BY <1>0, <1>3 DEF IndexRecord, LimiterInv
<1> HIDE DEF epoch
<1>5. /\ indexed' \in Seq(IndexRecord) /\ Len(indexed') = n + 1
      /\ \A i \in 1..n : indexed'[i] = indexed[i]
      /\ indexed'[n + 1] = new
  <2>1. indexed' = Append(indexed, new)
    BY <1>1 DEF epoch
  <2> HIDE DEF new
  <2> QED
    BY <1>2, <1>4, <2>1, AppendProperties
<1> HIDE DEF new, n
<1>6. ASSUME NEW i \in 1..(n + 1), NEW j \in 1..(n + 1), i <= j
      PROVE  indexed'[j].epoch - indexed'[i].epoch >= j - i
  <2>1. CASE j = n + 1 /\ i # n + 1
    <3>1. i \in 1..n
      BY <1>2, <2>1
    <3> QED
      BY <1>3, <1>4, <1>5, <2>1, <3>1
  <2>2. CASE j = n + 1 /\ i = n + 1
    BY <1>3, <1>4, <1>5, <2>2
  <2>3. CASE j # n + 1
    <3>1. i \in 1..n /\ j \in 1..n
      BY <1>2, <1>6, <2>3
    <3> QED
      BY <1>2, <1>5, <1>6, <3>1
  <2> QED
    BY <2>1, <2>2, <2>3
<1>7. IndexInv'
  BY <1>5, <1>6 DEF IndexInv
<1>8. ASSUME NEW a, Safe(a, indexed)
      PROVE  Safe(a, indexed')
  <2>1. PICK i \in 1..n : indexed[i].epoch = a.epoch
    BY <1>8 DEF Safe, n
  <2>2. i \in 1..(n + 1) /\ indexed'[i].epoch = a.epoch /\ a.epoch \in Nat
    BY <1>2, <1>5, <2>1
  <2>3. ASSUME NEW x \in 1..(n + 1), indexed'[x].epoch \in (a.epoch - WindowEpochs + 1)..a.epoch
        PROVE  indexed'[x].score - a.score \in -MaxVelocity..MaxVelocity
    <3>1. CASE x = n + 1
      <4>1. indexed'[x].epoch = epoch /\ epoch - a.epoch >= (n + 1) - i /\ (n + 1) - i >= 1
        BY <1>2, <1>3, <1>4, <1>5, <2>1, <3>1
      <4>2. epoch > a.epoch
        BY <1>2, <1>3, <2>2, <4>1
      <4>3. epoch <= a.epoch
        BY <1>3, <2>2, <2>3, <4>1, GatewayAssumption DEF GatewayAssumption
      <4> QED
        BY <1>3, <2>2, <4>2, <4>3
    <3>2. CASE x # n + 1
      <4>1. x \in 1..n
        BY <1>2, <3>2
      <4>2. indexed'[x] = indexed[x]
        BY <1>5, <4>1
      <4> QED
        BY <1>8, <2>3, <4>1, <4>2 DEF Safe, n
    <3> QED
      BY <3>1, <3>2
  <2>4. a.now - a.at <= CertMaxAge
    BY <1>8 DEF Safe
  <2> QED
    BY <1>5, <2>2, <2>3, <2>4 DEF Safe
<1>9. SafeInv'
  <2> SUFFICES ASSUME NEW w \in Worker
               PROVE  /\ task[w].phase \in {"handler", "window"} => task[w].now \in Nat
                      /\ task[w].phase = "window" => \E i \in 1..(n + 1) : task[w].latest = indexed'[i]
                      /\ task[w].phase = "ok" => Safe(task[w].body, indexed')
    BY <1>0, <1>5 DEF SafeInv
  <2>1. /\ task[w].phase \in {"handler", "window"} => task[w].now \in Nat
        /\ task[w].phase = "ok" => Safe(task[w].body, indexed')
    BY <1>0, <1>8 DEF SafeInv
  <2>2. ASSUME task[w].phase = "window"
        PROVE  \E i \in 1..(n + 1) : task[w].latest = indexed'[i]
    <3>1. PICK i \in 1..n : task[w].latest = indexed[i]
      BY <1>0, <2>2 DEF SafeInv, n
    <3>2. i \in 1..(n + 1) /\ indexed'[i] = indexed[i]
      BY <1>2, <1>5
    <3> QED
      BY <3>1, <3>2
  <2> QED
    BY <2>1, <2>2
<1>10. LimiterInv'
  BY <1>0, LimiterStays
<1>11. ShareInv'
  <2>1. \A p \in Partner : InFlight(p)' = InFlight(p)
    BY <1>0 DEF InFlight, Carries
  <2> QED
    BY <1>0, <2>1, ShareStays
<1> QED
  BY <1>0, <1>7, <1>9, <1>10, <1>11 DEF GatewayInv

LEMMA SecondKeeps ==
  ASSUME GatewayInv, Second
  PROVE  GatewayInv'
<1>0. /\ LimiterInv /\ IndexInv /\ SafeInv /\ ShareInv /\ DOMAIN task = Worker
      /\ second' = second + 1 /\ UNCHANGED <<hits, admitted, indexed, task, calls>>
  BY DEF GatewayInv, Second
<1>1. second \in Nat /\ second' \in Nat /\ WindowSeconds \in Nat
  BY <1>0, GatewayAssumption DEF LimiterInv, GatewayAssumption
<1>2. ASSUME NEW b \in Bucket
      PROVE  Follows(hits[b], admitted[b])' /\ Spaced(admitted[b], LimitOn(b))'
  <2>1. Follows(hits[b], admitted[b]) /\ Spaced(admitted[b], LimitOn(b))
    BY <1>0 DEF LimiterInv
  <2>2. ASSUME NEW i \in 1..(Len(admitted[b]) - Len(hits[b]))
        PROVE  admitted[b][i] <= second' - WindowSeconds
    <3>1. i \in 1..Len(admitted[b])
      BY <2>1, FollowsMeans
    <3>2. admitted[b][i] \in Nat
      BY <2>1, <3>1, FollowsMeans
    <3>3. admitted[b][i] <= second - WindowSeconds
      BY <2>1 DEF Follows
    <3> QED
      BY <1>0, <1>1, <3>2, <3>3
  <2>3. Follows(hits[b], admitted[b])'
    BY <1>0, <2>1, <2>2 DEF Follows
  <2>4. Spaced(admitted[b], LimitOn(b))'
    BY <1>0, <2>1 DEF Spaced, LimitOn
  <2> QED
    BY <2>3, <2>4
<1>3. LimiterInv'
  <2>1. DOMAIN hits' = Bucket /\ DOMAIN admitted' = Bucket
    BY <1>0 DEF LimiterInv
  <2> QED
    BY <1>1, <1>2, <2>1 DEF LimiterInv
<1>4. ShareInv'
  <2>1. \A p \in Partner : InFlight(p)' = InFlight(p)
    BY <1>0 DEF InFlight, Carries
  <2> QED
    BY <1>0, <2>1, ShareStays
<1>5. IndexInv' /\ SafeInv'
  BY <1>0 DEF IndexInv, SafeInv
<1> QED
  BY <1>0, <1>3, <1>4, <1>5 DEF GatewayInv

LEMMA GatewayUnmoved ==
  ASSUME GatewayInv, UNCHANGED <<second, hits, admitted, indexed, task, calls>>
  PROVE  GatewayInv'
<1>0. LimiterInv /\ IndexInv /\ SafeInv /\ ShareInv /\ DOMAIN task = Worker
  BY DEF GatewayInv
<1>1. LimiterInv'
  BY <1>0, LimiterStays
<1>2. ShareInv'
  <2>1. \A p \in Partner : InFlight(p)' = InFlight(p)
    BY DEF InFlight, Carries
  <2> QED
    BY <1>0, <2>1, ShareStays
<1>3. IndexInv' /\ SafeInv'
  BY <1>0 DEF IndexInv, SafeInv
<1> QED
  BY <1>0, <1>1, <1>2, <1>3 DEF GatewayInv

LEMMA GatewayKeeps ==
  ASSUME GatewayInv, [GatewayNext]_gatewayVars
  PROVE  GatewayInv'
<1>1. CASE Second
  BY <1>1, SecondKeeps
<1>2. CASE AddRecord
  BY <1>2, AddRecordKeeps
<1>3. CASE AddFlag
  BY <1>3, GatewayUnmoved DEF AddFlag
<1>4. CASE AddEpoch
  BY <1>4, GatewayUnmoved DEF AddEpoch
<1>5. ASSUME NEW w \in Worker, Arrive(w)
      PROVE  GatewayInv'
  BY <1>5, ArriveKeeps
<1>6. ASSUME NEW w \in Worker, Serve(w)
      PROVE  GatewayInv'
  <2>1. CASE Respond(w)
    BY <2>1, RespondKeeps
  <2>2. CASE ReadOnce(w) \/ ReadLatest(w) \/ JudgeWindow(w) \/ TestTracker(w) \/ Fire(w)
    BY <2>2, ServeServes, ServingKeeps
  <2> QED
    BY <1>6, <2>1, <2>2 DEF Serve
<1>7. CASE UNCHANGED gatewayVars
  BY <1>7, GatewayUnmoved DEF gatewayVars
<1> QED
  BY <1>1, <1>2, <1>3, <1>4, <1>5, <1>6, <1>7 DEF GatewayNext

LEMMA GatewayInvIsSound == GatewayInv => GatewayIsSound
<1> SUFFICES ASSUME GatewayInv
             PROVE  GatewayIsSound
  OBVIOUS
<1>0. LimiterInv /\ IndexInv /\ SafeInv /\ ShareInv
  BY DEF GatewayInv
<1>1. SafeAnswersAreSafe
  <2>1. DOMAIN indexed = 1..Len(indexed)
    BY <1>0, IndexMeans
  <2> QED
    BY <1>0, <2>1 DEF SafeAnswersAreSafe, SafeInv, Safe
<1>2. ASSUME NEW b \in Bucket
      PROVE  \A i \in DOMAIN admitted[b] :
               i > LimitOn(b) => admitted[b][i] - admitted[b][i - LimitOn(b)] >= WindowSeconds
  <2>1. Follows(hits[b], admitted[b]) /\ Spaced(admitted[b], LimitOn(b))
    BY <1>0 DEF LimiterInv
  <2>2. DOMAIN admitted[b] = 1..Len(admitted[b])
    BY <2>1, FollowsMeans
  <2> QED
    BY <2>1, <2>2 DEF Spaced
<1>3. ASSUME NEW p \in Partner
      PROVE  Total(p) <= Cardinality(LetThrough(p))
  <2>1. Total(p) + Cardinality(InFlight(p)) <= Cardinality(LetThrough(p)) /\ IsFiniteSet(LetThrough(p)) /\ Total(p) \in Nat
    BY <1>0 DEF ShareInv, Total
  <2> QED
    BY <2>1, InFlightIsFinite, FS_CardinalityType
<1>4. RateIsBounded
  BY <1>2, <1>3 DEF RateIsBounded, LetThrough, KeysOf
<1> QED
  BY <1>1, <1>4 DEF GatewayIsSound

\* For any keys, limits, threads and window, however requests, the indexer and
\* the clock interleave: a score served as safe is fresh and free of swings
\* over its window in the index as it is then, and no key or address exceeds
\* its limit in any sliding window (safe_score.py, rate_limit.py, app.py).
THEOREM GatewayGuards == GatewayInit /\ [][GatewayNext]_gatewayVars => []GatewayIsSound
<1> QED
  BY GatewayStarts, GatewayKeeps, GatewayInvIsSound, PTL
=============================================================================
