------------------------------ MODULE ScoreEpoch ------------------------------
(***************************************************************************)
(* A node's scoring epoch (oracle/epoch_runner): for each agent in turn    *)
(* the detection engine and the composite score (detection/engine,         *)
(* scoring/composite, scoring/_gaming), the submission by the caller's     *)
(* submit_fn, and the slash decision over the cluster's verdicts           *)
(* (slashing/), executed by the caller's slash_fn.  A failing step is      *)
(* contained in its agent's result.  What a detector found, the previous   *)
(* score and what the callbacks do are inputs; a detector's points are its *)
(* contribution to the score, of two hundred.                              *)
(***************************************************************************)
EXTENDS Integers, SequencesExt

CONSTANTS
  Roster,               \* the agents of an epoch, a sequence
  Readings,             \* [agent -> what its detectors may do: [Dimension -> reading]]
  Earlier,              \* the previous_score a caller may hand in, None for none
  Self, Peers,          \* this node and the others of the cluster
  Liars,                \* those of them that may report anything
  GreenFrom, YellowFrom, MinActive, MaxStepUp,   \* thresholds, MAX_SCORE_DELTA
  Spread,               \* DEFAULT_SCORE_TOLERANCE
  Confirmations,        \* ThresholdConsensus.threshold; 1 is the single node
  LastRun               \* BOUND: epochs run

Dimension == {"drift", "anomaly", "performance", "consistency", "security"}
Whole == 200          \* WEIGHTS: a fifth of a thousand each
None == -1

ScoringAssumption ==
  /\ {YellowFrom, GreenFrom, MaxStepUp, Spread} \subseteq Nat
  /\ 0 < YellowFrom /\ YellowFrom < GreenFrom /\ GreenFrom < Whole * 5
  /\ Confirmations \in Nat \ {0}
  /\ Earlier \subseteq (0..(5 * Whole)) \cup {None}
  /\ Liars \subseteq Peers /\ IsFiniteSet(Peers) /\ Self \notin Peers
  /\ Roster \in Seq(ToSet(Roster))
  /\ \A r \in UNION {Readings[a] : a \in ToSet(Roster)} : \A d \in Dimension :
       r[d].works => r[d].points \in 0..Whole /\ r[d].flags \subseteq {"IMMEDIATE_RED", "DEGRADED_BASELINE"}
ASSUME ScoringAssumption

VARIABLES
  run,          \* the epoch's number
  stage,        \* "idle", "score", "submit" or "slash" of the agent at hand
  turn,         \* its index in Roster
  result,       \* its ScoreResult
  submission,   \* what submit_fn returned for it: something truthy or not
  landed,       \* history: the scores that landed: [agent, run]
  outcomes,     \* the report: one result per agent so far
  verdicts,     \* what the nodes said of the agent at hand
  burned        \* history: the slashes that landed: [agent, run, tripped]

epochVars == <<run, stage, turn, result, submission, landed, outcomes, verdicts, burned>>

Agents == ToSet(Roster)
Current == Roster[turn]

-----------------------------------------------------------------------------
(* Detection and the composite score.                                      *)

\* A detector that raises, or returns something else than its own dimension's
\* result, counts as one that did not run.
Safe(r) == IF r.works THEN [points |-> r.points, flags |-> r.flags]
                      ELSE [points |-> 0, flags |-> {"INSUFFICIENT_DATA"}]

Alert(score) == CASE score >= GreenFrom -> "GREEN" [] score < YellowFrom -> "RED" [] OTHER -> "YELLOW"

Rail(score, previous) ==
  IF previous = None THEN score
  ELSE CASE score > previous + MaxStepUp -> previous + MaxStepUp
         [] score < previous - MaxStepUp -> previous - MaxStepUp
         [] OTHER -> score

Contributions(r) == [d \in Dimension |-> Safe(r[d]).points]
RawScore(c) == c["drift"] + c["anomaly"] + c["performance"] + c["consistency"] + c["security"]

Composite(r, previous) ==
  LET flags == UNION {Safe(r[d]).flags : d \in Dimension}
      active == {d \in Dimension : "INSUFFICIENT_DATA" \notin Safe(r[d]).flags}
      raw == RawScore(Contributions(r))
      score == Rail(Max({0, Min({5 * Whole, raw})}), previous)
      red == "IMMEDIATE_RED" \in flags
  IN [score |-> score, clamped |-> score # raw, red |-> red,
      alert |-> IF red THEN "RED" ELSE Alert(score),
      flags |-> flags \cup (IF Cardinality(active) < MinActive THEN {"ENSEMBLE_INCOMPLETE"} ELSE {}),
      contributions |-> Contributions(r),
      security |-> Safe(r["security"]).flags]

-----------------------------------------------------------------------------
(* Slashing: verdicts, divergence, decision.                               *)

\* Mutant: any dimension's fast path counts, as ScoreResult.immediate_red has it.
MutSecurityTripped(res) == res.red
SecurityTripped(res) == "IMMEDIATE_RED" \in res.security

VerdictFrom(node, res) == [node |-> node, confirms |-> SecurityTripped(res), score |-> res.score, red |-> res.red]

\* The policy is asked about this node's own verdict alone.
Confirmed(votes) == Cardinality({v \in votes : v.confirms}) >= Confirmations
ShouldSlash(res, votes) == SecurityTripped(res) /\ Confirmed(votes)

\* Mutant: the votes in the order of their nodes.
MutScoreAt(votes, k) ==
  (CHOOSE v \in votes : Cardinality({w \in votes : w.node <= v.node}) = k).score
\* sorted(scores)[k - 1]: the least score that k of the scores do not exceed.
ScoreAt(votes, k) ==
  Min({v.score : v \in {w \in votes : Cardinality({u \in votes : u.score <= w.score}) >= k}})

ConsensusScore(votes) ==
  LET n == Cardinality(votes)
  IN IF n % 2 = 1 THEN ScoreAt(votes, n \div 2 + 1)
     ELSE (ScoreAt(votes, n \div 2) + ScoreAt(votes, n \div 2 + 1)) \div 2

ConsensusRed(votes) == Cardinality({v \in votes : v.red}) > Cardinality(votes) \div 2
Divergent(votes) ==
  {v.node : v \in {w \in votes : \/ w.score - ConsensusScore(votes) \notin -Spread..Spread
                                 \/ w.red # ConsensusRed(votes)}}

-----------------------------------------------------------------------------
(* run_epoch.                                                              *)

NoResult == [score |-> None]

EpochInit ==
  /\ run = 0 /\ stage = "idle" /\ turn = 1
  /\ result = NoResult /\ submission = FALSE
  /\ landed = {} /\ outcomes = <<>> /\ verdicts = {} /\ burned = {}

StartEpoch ==
  /\ stage = "idle" /\ run < LastRun
  /\ run' = run + 1 /\ turn' = 1
  /\ stage' = IF Roster = <<>> THEN "idle" ELSE "score"
  /\ outcomes' = <<>>
  /\ UNCHANGED <<result, submission, verdicts, landed, burned>>

\* The agent's result is in; the next agent's turn, or the report.
Conclude(outcome) ==
  /\ outcomes' = Append(outcomes, outcome)
  /\ IF turn < Len(Roster)
     THEN turn' = turn + 1 /\ stage' = "score"
     ELSE turn' = turn /\ stage' = "idle"
  /\ result' = NoResult /\ verdicts' = {}

Scores ==
  /\ stage = "score"
  /\ \E r \in Readings[Current], previous \in Earlier : result' = Composite(r, previous)
  /\ stage' = "submit"
  /\ UNCHANGED <<run, turn, submission, landed, outcomes, verdicts, burned>>

\* The baseline, the extraction or the score raises.
ScoringFails ==
  /\ stage = "score"
  /\ Conclude([agent |-> Current, submitted |-> FALSE, error |-> "scoring", slashed |-> FALSE])
  /\ UNCHANGED <<run, submission, landed, burned>>

Lands == landed' = landed \cup {[agent |-> Current, run |-> run]}

\* submit_fn returns: "anything truthy = submitted", which it is taken to keep
\* for what landed.  A falsy return, landed or not, does not end the agent's turn.
Submits ==
  /\ stage = "submit"
  /\ \/ submission' = TRUE /\ Lands
     \/ submission' = FALSE /\ (Lands \/ UNCHANGED landed)
  /\ stage' = "slash"
  /\ verdicts' = {VerdictFrom(Self, result)}
  /\ UNCHANGED <<run, turn, result, outcomes, burned>>

\* Mutant: an agent counts as submitted unless its submission returned falsy.
MutSubmissionFails ==
  /\ stage = "submit"
  /\ Lands \/ UNCHANGED landed
  /\ Conclude([agent |-> Current, submitted |-> TRUE, error |-> "submission", slashed |-> FALSE])
  /\ UNCHANGED <<run, submission, burned>>

\* submit_fn raises, though its transaction may have landed.
SubmissionFails ==
  /\ stage = "submit"
  /\ Lands \/ UNCHANGED landed
  /\ Conclude([agent |-> Current, submitted |-> FALSE, error |-> "submission", slashed |-> FALSE])
  /\ UNCHANGED <<run, submission, burned>>

\* Another node's verdict for the divergence detector: an honest one may have
\* read slightly other inputs, a liar says anything.
PeerVotes ==
  /\ stage = "slash"
  /\ \E n \in Peers \ {v.node : v \in verdicts} :
       IF n \in Liars
       THEN \E score \in {0, YellowFrom, 5 * Whole}, red \in BOOLEAN :
              verdicts' = verdicts \cup {[node |-> n, confirms |-> red, score |-> score, red |-> red]}
       ELSE \E drift \in {0, Spread} :
              verdicts' = verdicts \cup {[VerdictFrom(n, result) EXCEPT !.score = Min({@ + drift, 5 * Whole})]}
  /\ UNCHANGED <<run, stage, turn, result, submission, landed, outcomes, burned>>

\* The evaluation raises, or slash_fn executes the slash, returns something
\* falsy, or raises although the slash may have landed; or there is no slash_fn.
Decides ==
  /\ stage = "slash"
  /\ \E burns, slashed \in BOOLEAN, error \in {"", "evaluation", "slash"} :
       /\ burns \/ error = "slash" => ShouldSlash(result, {VerdictFrom(Self, result)}) /\ error # "evaluation"
       /\ slashed => burns /\ error = ""
       /\ Conclude([agent |-> Current, submitted |-> submission, error |-> error, slashed |-> slashed])
       /\ burned' = burned \cup {[agent |-> Current, run |-> run, tripped |-> "IMMEDIATE_RED" \in result.security] : b \in {burns} \ {FALSE}}
  /\ UNCHANGED <<run, submission, landed>>

EpochNext == StartEpoch \/ Scores \/ ScoringFails \/ Submits \/ SubmissionFails \/ PeerVotes \/ Decides

-----------------------------------------------------------------------------
(* Properties.                                                             *)

Landed(a) == [agent |-> a, run |-> run] \in landed

\* "Drift is not a crime": an agent loses its stake only for what its own
\* security detector found in that epoch (evaluate_slash); and the report of an
\* epoch answers for every agent once, calls submitted only what landed, and
\* slashed only what was slashed, whichever steps failed (run_epoch).
SlashIsDeserved ==
  /\ \A b \in burned : b.tripped
  /\ stage = "idle" /\ run > 0 => [i \in DOMAIN outcomes |-> outcomes[i].agent] = Roster
  /\ \A i \in DOMAIN outcomes :
       LET o == outcomes[i]
       IN /\ o.submitted => Landed(o.agent)
          /\ o.slashed => \E b \in burned : b.agent = o.agent /\ b.run = run

\* While the liars are a minority of the verdicts at hand, no honest node is
\* reported as divergent, and a liar further off than the honest ones may
\* spread, or on the other side of the fast path, is.
OnlyLiarsDiverge ==
  (verdicts # {} /\ 2 * Cardinality({v \in verdicts : v.node \in Liars}) < Cardinality(verdicts)) =>
    /\ Divergent(verdicts) \subseteq Liars
    /\ \A v \in verdicts :
         (v.score - result.score \notin (-2 * Spread)..(2 * Spread) \/ v.red # result.red) => v.node \in Divergent(verdicts)

\* What a scoring epoch reports and decides (epoch_runner.py, evaluator.py,
\* divergence.py).
ScoringIsSound == SlashIsDeserved /\ OnlyLiarsDiverge
=============================================================================
