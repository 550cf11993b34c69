--------------------------- MODULE MCClusterEpoch ---------------------------
(* Three nodes, one of them faulty, with the thresholds of the source      *)
(* scaled to three epochs: two strikes, two observations.                  *)
(* The commit-reveal runner runs beside them: three nodes on one scoring   *)
(* version, any of them failing to commit or to reveal.                    *)
(*                                                                         *)
(* And the cluster's account on the chain with the epoch it advances:      *)
(* four keys that may be members, one of them the admin's, and the zero    *)
(* key; one time unit is half a day, and the delays keep their order:      *)
(* finalize < overwrite < duration <= review window.                       *)
EXTENDS ByzantineEpoch, PeerExchange, AgentSet, EvidenceStore, CommitRevealRunner,
        EpochAdvance, TLC

CONSTANTS p, q, i, j, s1, s2, a1, a2, n1, n2, n3, r1, r2, v1, hA

Healthy == [score |-> 10, tier |-> 1, red |-> FALSE, flags |-> {}, payload |-> p, input |-> i]
Failing == [score |-> 12, tier |-> 3, red |-> TRUE, flags |-> {1}, payload |-> NoPayload, input |-> i]
Understated == [Healthy EXCEPT !.score = 7, !.tier = 3, !.red = TRUE, !.flags = {2}, !.payload = q]
Inflated == [Healthy EXCEPT !.score = 13, !.payload = NoPayload, !.input = j]
Outlier == [Healthy EXCEPT !.score = 30, !.flags = {1, 2}]

TwoLies == {Understated, Inflated}

MCTruth == [e \in Epoch |-> IF e = 2 THEN Failing ELSE Healthy]
MCLies == {Understated, Inflated, Outlier}
Strikes == [t \in Track |-> IF t = conflicting THEN 1 ELSE 2]
MCProofCode == [t \in Track |-> IF t = nonReveal THEN 1 ELSE 0]

MCOwnScores == (n1 :> r1) @@ (n2 :> r1) @@ (n3 :> r2)
SameVersion == [n \in Nodes |-> v1]
OneSnapshot == [n \in Nodes |-> hA]

TwoEach == [s \in Slot |-> IF s = s1 THEN {p, q} ELSE {i, j}]

(* What MediansAgree and ReportsAreSound assume of the instance.           *)
ASSUME HypothesesHold == HonestQuorum /\ OneCluster

-----------------------------------------------------------------------------
(* The cluster on the chain.                                               *)
CONSTANTS k1, k2, k3, k4

ClusterKeys == {DefaultKey, k1, k2, k3, k4}
TwoSigners == {k1, k2}
OracleAdmins == {k4}
Hints == {DefaultKey, k1}

\* A cluster, the single-node deployment of one of its members, and two the
\* handlers must refuse.
KeyVectors == {<<k1, k2, k3>>, <<k1>>, <<k1, k2, k1>>, <<k1, k2>>}
Confidences == {0, 1001}
ReviewWindows == {1, 2}

-----------------------------------------------------------------------------
(* Parts that share no state are run side by side, as stories.             *)
VARIABLE story

nodeVars == <<byzVars, exchangeVars, agentVars, evidenceVars, allVars>>
mcVars == <<story, nodeVars, oracleVars>>

ChainStories == {"free", "timely"}

MCInit ==
  /\ story \in {"epochs", "exchange", "agents", "evidence", "runner"} \cup ChainStories
  /\ ByzInit /\ ExchangeInit /\ AgentSetInit /\ EvidenceInit /\ RunnerInit /\ OracleInit
  /\ story # "runner" => Silent = {}
  /\ story \notin ChainStories => config.keys = <<k1>>

NodeNext ==
  \/ story = "epochs" /\ ByzNext /\ UNCHANGED <<exchangeVars, agentVars, evidenceVars, allVars>>
  \/ story = "exchange" /\ ExchangeNext /\ UNCHANGED <<byzVars, agentVars, evidenceVars, allVars>>
  \/ story = "agents" /\ AgentSetNext /\ UNCHANGED <<byzVars, exchangeVars, evidenceVars, allVars>>
  \/ story = "evidence" /\ EvidenceNext /\ UNCHANGED <<byzVars, exchangeVars, agentVars, allVars>>
  \/ story = "runner" /\ RunnerNext /\ UNCHANGED <<byzVars, exchangeVars, agentVars, evidenceVars>>

(* On the chain anything may happen at any time in one story.  The other   *)
(* is for liveness: some members never answer, no signature is given, and  *)
(* time does not run past an open window by more than Slack before a live  *)
(* member's transaction lands.                                             *)
CONSTANTS
  Live,   \* the keys whose holders are up; every valid cluster has one
  Slack   \* BOUND: how late the answer to an open window may be

OnlyK1 == {k1}

WindowOpens ==
  IF HasPendingAdvance THEN epochState.proposedAt + FinalizeDelay
  ELSE epochState.lastAdvanced + 2 * Duration

TimelyTick ==
  /\ story = "timely" /\ chainTime < WindowOpens + Slack
  /\ ChainTick
  /\ UNCHANGED <<story, nodeVars, epochVars>>

MemberActs(k) == ProposeAdvance(k, {}) \/ FinalizeAdvance(k)

LiveMemberActs ==
  /\ story = "timely"
  /\ \E k \in Live : MemberActs(k)
  /\ UNCHANGED <<story, nodeVars>>

TimelyNext ==
  \/ \E k \in Pubkey : MemberActs(k)
  \/ Rotate /\ UNCHANGED epochVars

MCNext ==
  \/ NodeNext /\ UNCHANGED <<story, oracleVars>>
  \/ story = "free" /\ OracleNext /\ UNCHANGED <<story, nodeVars>>
  \/ story = "timely" /\ TimelyNext /\ UNCHANGED <<story, nodeVars>>
  \/ TimelyTick

MCSpec ==
  /\ MCInit /\ [][MCNext]_mcVars
  /\ WF_mcVars(TimelyTick) /\ WF_mcVars(LiveMemberActs)

\* With one member of every cluster up, nobody else signing and rotations,
\* foreign proposals and overwrites in between, the epoch still advances: the
\* fallback opens, the live member stages the advance and commits it before
\* anybody may overwrite it.
EpochTicks == story = "timely" => <>(epochState.current > 1)
=============================================================================
