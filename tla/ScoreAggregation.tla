-------------------------- MODULE ScoreAggregation --------------------------
(***************************************************************************)
(* The pure functions a cluster epoch is built from: the median aggregator *)
(* (cluster/aggregation.py), deviation detection and OM(1) agreement       *)
(* (cluster/byzantine.py), agreement on the inputs that were scored        *)
(* (cluster/input_commitment.py) and on what several RPC sources returned  *)
(* (cluster/source_attestation.py).                                        *)
(***************************************************************************)
EXTENDS Integers, FiniteSets, Functions

CONSTANT NoPayload  \* the empty diagnosis_payload_hash
NoScore == [contributors |-> {}]

QuorumFor(size) == size \div 2 + 1
MoreThanHalf(some, all) == 2 * Cardinality(some) > Cardinality(all)

\* _median_int: the lower middle of the values of a function.
MutMedianRank(f) == 0       \* mutant: the least value, to be on the safe side
MedianRank(f) == (Cardinality(DOMAIN f) - 1) \div 2
RanksAt(f, v, rank) ==
  /\ Cardinality({n \in DOMAIN f : f[n] < v}) <= rank
  /\ rank < Cardinality({n \in DOMAIN f : f[n] <= v})
LowerMedian(f) == CHOOSE v \in Range(f) : RanksAt(f, v, MedianRank(f))

\* _majority_flags and _majority_label_bits, over sets of bits.
MutMajorityBits(f) == UNION Range(f)        \* mutant: any contributor sets a bit
MajorityBits(f) ==
  {b \in UNION Range(f) : MoreThanHalf({n \in DOMAIN f : b \in f[n]}, DOMAIN f)}

\* _payload_hash_consensus: empty hashes do not vote, but count in n.
PayloadConsensus(f) ==
  LET agreed == {h \in Range(f) \ {NoPayload} :
                   MoreThanHalf({n \in DOMAIN f : f[n] = h}, DOMAIN f)}
  IN  IF agreed = {} THEN NoPayload ELSE CHOOSE h \in agreed : TRUE

\* aggregate_scores, over the contributors' reports; NoScore for QuorumNotMet.
Aggregate(reports, size) ==
  LET N == DOMAIN reports
      payload == PayloadConsensus([n \in N |-> reports[n].payload])
  IN  IF Cardinality(N) < QuorumFor(size) THEN NoScore
      ELSE [score |-> LowerMedian([n \in N |-> reports[n].score]),
            tier |-> LowerMedian([n \in N |-> reports[n].tier]),
            red |-> MoreThanHalf({n \in N : reports[n].red}, N),
            flags |-> MajorityBits([n \in N |-> reports[n].flags]),
            payload |-> payload,
            payloadSigners |-> {n \in N : payload # NoPayload /\ reports[n].payload = payload},
            contributors |-> N]

-----------------------------------------------------------------------------
\* analyse_deviation: further than 30% of the median (of 1, when it is 0).
Magnitude(x) == IF x < 0 THEN -x ELSE x
Reference(m) == IF m > 0 THEN m ELSE 1
Deviates(score, median) == 10 * Magnitude(score - median) > 3 * Reference(median)
Deviating(scores) ==
  {n \in DOMAIN scores : Deviates(scores[n], LowerMedian(scores))}

\* commitments_agree: the input commitment at least quorum nodes hold, if any.
AgreedInputs(inputs, quorum) ==
  {c \in Range(inputs) : Cardinality({n \in DOMAIN inputs : inputs[n] = c}) >= quorum}

-----------------------------------------------------------------------------
\* _majority_value: the strict majority, else the lower median.
MajorityValue(f) ==
  LET winners == {v \in Range(f) : MoreThanHalf({n \in DOMAIN f : f[n] = v}, DOMAIN f)}
  IN  IF winners = {} THEN LowerMedian(f) ELSE CHOOSE v \in winners : TRUE

\* om1_agreement: told[l] is what the commander told l, relayed[<<m, l>>]
\* what m told l it had been told.
MutDecision(told, relayed, l) == told[l]    \* mutant: the relays are ignored
Decision(told, relayed, l) ==
  MajorityValue([m \in DOMAIN told |-> IF m = l THEN told[l] ELSE relayed[<<m, l>>]])

\* OM(1) on four nodes or more: whichever one of them lies, and however differently
\* to its peers, the loyal lieutenants decide alike, and on the commander's
\* value if it is loyal (byzantine.py's "forcing agreement on what each node
\* actually said").
OneLiarAgreement(L, V) ==
  LET P == {p \in L \X L : p[1] # p[2]} IN
  /\ \A told \in [L -> V] :
       LET relayed == [p \in P |-> told[p[1]]]
       IN  \A l, m \in L : Decision(told, relayed, l) = Decision(told, relayed, m)
  /\ \A v \in V, liar \in L : \A lies \in [L -> V] :
       LET relayed == [p \in P |-> IF p[1] = liar THEN lies[p[2]] ELSE v]
       IN  \A l \in L \ {liar} : Decision([m \in L |-> v], relayed, l) = v

-----------------------------------------------------------------------------
\* attest_multi_source: the digest most sources returned (ties: the least),
\* accepted, degraded or refused.
Support(seen, d) == Cardinality({s \in DOMAIN seen : seen[s] = d})
Plurality(seen) ==
  CHOOSE d \in Range(seen) : \A e \in Range(seen) \ {d} :
    Support(seen, e) < Support(seen, d) \/ (Support(seen, e) = Support(seen, d) /\ d < e)
MutAttested(seen, minimum) == "agree"       \* mutant: the plurality always wins
Attested(seen, minimum) ==
  LET n == Support(seen, Plurality(seen))
  IN  IF n >= minimum THEN "agree" ELSE IF n >= 2 THEN "degraded" ELSE "refuse"

\* With fewer than minimum_honest lying sources, a digest that is accepted
\* outright was returned by an honest one, and two honest sources out of any
\* number are never refused (M = K - f, source_attestation.py).
AttestationIsHonest(S, D) ==
  \A seen \in [S -> D], minimum \in 1..Cardinality(S), liars \in SUBSET S : \A true \in D :
    (/\ Cardinality(liars) < minimum
     /\ \A s \in S \ liars : seen[s] = true) =>
      /\ Attested(seen, minimum) = "agree" => Plurality(seen) = true
      /\ Cardinality(S \ liars) >= 2 => Attested(seen, minimum) # "refuse"
=============================================================================
