----------------------------- MODULE PeerExchange -----------------------------
(***************************************************************************)
(* The direct score exchange (cluster/cluster_runner.py): every node that  *)
(* runs the epoch scores it, asks its peers one after the other for their  *)
(* scores, and publishes the median of what it got.  Nothing was committed *)
(* to, so a faulty peer may tell everyone something else.                  *)
(***************************************************************************)
EXTENDS ScoreAggregation, FiniteSetsExt

CONSTANTS
  Member,        \* the cluster, in the order of its sorted node ids
  Liars,         \* the faulty members
  HonestScore,   \* the report every honest member comes to
  LiarScores,    \* what a faulty member may answer
  Runners,       \* BOUND: the honest members that run the epoch
  Value          \* BOUND: what a commander may say, or a source return

Answered == LiarScores \cup {HonestScore}

ASSUME ExchangeAssumption ==
  /\ Member \subseteq Nat /\ Value \subseteq Nat /\ Liars \subseteq Member /\ Runners \subseteq Member \ Liars
  /\ \A r \in Answered : r.score \in Int /\ r.tier \in Int /\ r.red \in BOOLEAN

VARIABLES
  serving,       \* members registered with the transport
  scoredBy,      \* members that scored the epoch
  exchange,      \* per member, the run of its ClusterEpochRunner
  submitted      \* what the runners submitted

exchangeVars == <<serving, scoredBy, exchange, submitted>>

NotRunning == [asking |-> {}]

ExchangeInit ==
  /\ serving = Member /\ scoredBy = {}
  /\ exchange = [n \in Member |-> NotRunning] /\ submitted = {}

\* score_epoch, ahead of the runner.
ScoreAhead(n) ==
  /\ n \notin scoredBy
  /\ scoredBy' = scoredBy \cup {n}
  /\ UNCHANGED <<serving, exchange, submitted>>

\* register and unregister: a member comes up and goes down.
Toggle(n) ==
  /\ serving' = IF n \in serving THEN serving \ {n} ELSE serving \cup {n}
  /\ UNCHANGED <<scoredBy, exchange, submitted>>

\* run_epoch scores, unless that was done, and starts with its own scores.
\* BOUND: it is run again only while it has not submitted.
StartExchange(n) ==
  /\ exchange[n] = NotRunning /\ n \notin {s.by : s \in submitted}
  /\ scoredBy' = scoredBy \cup {n}
  /\ exchange' = [exchange EXCEPT ![n] =
                    [asking |-> Member \ {n}, got |-> [m \in {n} |-> HonestScore]]]
  /\ UNCHANGED <<serving, submitted>>

\* get_scores: not available before the epoch was scored, unreachable while
\* down; either way the peer is left out.
MutAnswers(m) == {IF m \in scoredBy THEN HonestScore   \* mutant: an empty answer
                  ELSE [HonestScore EXCEPT !.score = 0]} \* counts as a score of 0
Answers(m) ==
  IF m \notin serving \cap scoredBy THEN {}
  ELSE IF m \in Liars THEN LiarScores ELSE {HonestScore}

AskPeer(n) ==
  /\ exchange[n].asking # {}
  /\ LET m == Min(exchange[n].asking)
         left == [exchange[n] EXCEPT !.asking = @ \ {m}]
     IN  \/ Answers(m) = {} /\ exchange' = [exchange EXCEPT ![n] = left]
         \/ \E r \in Answers(m) :
              exchange' = [exchange EXCEPT ![n] =
                [left EXCEPT !.got = [k \in DOMAIN left.got \cup {m} |->
                                        IF k = m THEN r ELSE left.got[k]]]]
  /\ UNCHANGED <<serving, scoredBy, submitted>>

\* _aggregate_and_submit: QuorumNotMet submits nothing.
SubmitMedian(n) ==
  /\ exchange[n] # NotRunning /\ exchange[n].asking = {}
  /\ LET agreed == Aggregate(exchange[n].got, Cardinality(Member))
     IN  submitted' = IF agreed = NoScore THEN submitted
                      ELSE submitted \cup {[by |-> n, result |-> agreed]}
  /\ exchange' = [exchange EXCEPT ![n] = NotRunning]
  /\ UNCHANGED <<serving, scoredBy>>

ExchangeNext ==
  \E n \in Member :
    \/ ScoreAhead(n) \/ Toggle(n)
    \/ n \in Runners /\ (StartExchange(n) \/ AskPeer(n) \/ SubmitMedian(n))

ExchangeSpec == ExchangeInit /\ [][ExchangeNext]_exchangeVars

-----------------------------------------------------------------------------
\* "Every honest node's report carries the IDENTICAL aggregated scores"
\* (simulate_cluster_epoch) survives an exchange without commitments: with a
\* strict majority of honest members in a quorum, two runners of the epoch
\* submit the same score and verdict, whoever was up, had scored or lied
\* differently to each when it was asked.
SubmittedMediansAgree ==
  \A s, t \in submitted :
    /\ s.result.score = t.result.score /\ s.result.tier = t.result.tier
    /\ s.result.red = t.result.red /\ s.result.flags = t.result.flags

\* What the property rests on: in whatever quorum answers, the liars are a
\* minority.
HonestQuorum == IsFiniteSet(Member) /\ 2 * Cardinality(Liars) < QuorumFor(Cardinality(Member))

\* A run holds answers of members, and those of honest members are theirs.
RunOK(run) ==
  /\ run = [asking |-> run.asking, got |-> run.got]
  /\ run.asking \subseteq Member /\ DOMAIN run.got \subseteq Member
  /\ \A m \in DOMAIN run.got :
       run.got[m] \in Answered /\ (m \notin Liars => run.got[m] = HonestScore)

\* Everything submitted is the honest verdict.
ExchangeInv ==
  /\ DOMAIN exchange = Member
  /\ \A n \in Member : exchange[n] = NotRunning \/ RunOK(exchange[n])
  /\ \A s \in submitted :
       /\ s.result.score = HonestScore.score /\ s.result.tier = HonestScore.tier
       /\ s.result.red = HonestScore.red /\ s.result.flags = HonestScore.flags

-----------------------------------------------------------------------------
\* The agreement functions among the members, for whoever commands and whatever
\* is said: OM(1), which refuses fewer than four nodes, and the attestation of
\* what several sources returned (byzantine.py, source_attestation.py).
FunctionsAgree ==
  /\ Cardinality(Member) >= 4 => \A c \in Member : OneLiarAgreement(Member \ {c}, Value)
  /\ AttestationIsHonest(Member, Value)

\* A lying member changes neither what its peers submit nor what they conclude
\* from each other's words (simulate_cluster_epoch, byzantine.py,
\* source_attestation.py).
MembersAgree == SubmittedMediansAgree /\ FunctionsAgree
=============================================================================
