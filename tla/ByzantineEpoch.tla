---------------------------- MODULE ByzantineEpoch ----------------------------
(***************************************************************************)
(* An oracle epoch after its commit-reveal round (cluster/byzantine_runner *)
(* and cluster/pipeline.py): outliers are found and excluded, the rest is  *)
(* aggregated, the drift detector observes, the watchdog records - and may *)
(* raise, which ends the epoch - and the honest nodes sign what is         *)
(* submitted.  One agent; the round itself is CommitReveal's.              *)
(***************************************************************************)
EXTENDS Watchdog, ScoreAggregation, Sequences, SequencesExt

CONSTANTS
  Faulty,            \* nodes that reveal what they like
  Truth,             \* the report every honest node comes to, epoch by epoch
  Lies,              \* reports a faulty node may reveal
  conflicting, drift, nonReveal,    \* the tracks the runner feeds
  SigThreshold,      \* signatures a certificate needs
  MinParticipation, RollingWindow,  \* of the drift detector
  MaxSilent,         \* BOUND: nodes that do not reveal in an epoch
  MaxRuns            \* BOUND: epochs run, repetitions included

ASSUME ByzantineAssumption ==
  /\ IsFiniteSet(Node) /\ Faulty \subseteq Node
  /\ {conflicting, drift, nonReveal} \subseteq Track
  /\ conflicting # drift /\ conflicting # nonReveal /\ drift # nonReveal
  /\ \A r \in Lies \cup {Truth[e] : e \in Epoch} :
       r.score \in Int /\ r.tier \in Int /\ r.red \in BOOLEAN
  /\ SigThreshold \in Nat /\ MinParticipation \in Nat \ {0} /\ RollingWindow \in Nat \ {0, 1}

VARIABLES
  epoch,         \* the epoch run last
  runs,          \* how many were run
  result,        \* ByzantineAgentResult of the epoch in progress, or NoResult
  unfiled,          \* record_* calls it has still to make
  scored,        \* DriftDetector: the aggregated scores, oldest first
  signedDevs,    \* DriftDetector: <<score, median>> per node, oldest first
  certificates,  \* what was handed to the on-chain submit_fn
  outvoted,      \* history: epochs in which faulty reveals matched the honest ones
  mute           \* history: per node, the epochs it committed and did not reveal

epochStepVars == <<epoch, runs, result, unfiled, scored, signedDevs, certificates, outvoted, mute>>
byzVars == <<watchVars, epochStepVars>>

NoResult == [verified |-> {}]
InputDivergence == 7        \* FlagBit.INPUT_DIVERGENCE, among the flags of a score

ByzInit ==
  /\ WatchInit
  /\ epoch = 0 /\ runs = 0 /\ result = NoResult /\ unfiled = <<>> /\ scored = <<>>
  /\ signedDevs = [n \in Node |-> <<>>] /\ certificates = {}
  /\ outvoted = {} /\ mute = [n \in Node |-> {}]

-----------------------------------------------------------------------------
\* DriftDetector.
Bounded(s) == IF Len(s) > RollingWindow THEN Tail(s) ELSE s

\* _signed_fraction and the mean of a node's deviations, as a fraction.
AddDeviation(d, sum) ==
  <<sum[1] * Reference(d[2]) + (d[1] - d[2]) * sum[2], sum[2] * Reference(d[2])>>
SumOfDeviations(s) ==
  LET sum[k \in 0..Len(s)] == IF k = 0 THEN <<0, 1>> ELSE AddDeviation(s[k], sum[k - 1])
  IN  sum[Len(s)]

\* node_attributions: a mean beyond 8%, over enough epochs.
DriftsBeyond(s) ==
  LET sum == SumOfDeviations(s)
  IN  Len(s) >= MinParticipation /\ 100 * Magnitude(sum[1]) > 8 * Len(s) * sum[2]

\* _rolling_baseline: the mean of the earlier scores, each epoch back
\* weighing 0.7 of the next, as a fraction; no history has the baseline 0.
Decayed(sum, score) ==
  [power |-> 10 * sum.power, num |-> 10 * sum.power * score + 7 * sum.num,
   den |-> 10 * sum.power + 7 * sum.den]
RollingBaseline == FoldLeft(Decayed, [power |-> 1, num |-> 0, den |-> 0], scored)
Rounded(x) == IF x.den = 0 THEN 0 ELSE (2 * x.num + x.den) \div (2 * x.den)

\* observe's reasons: a jump of more than 20% since the last score, a distance
\* of more than 25% from the baseline.
DriftReasons(score) ==
  {r \in {"VELOCITY_SPIKE", "BASELINE_DRIFT"} :
     LET from == IF r = "BASELINE_DRIFT" THEN Rounded(RollingBaseline) ELSE Last(scored)
         percent == IF r = "BASELINE_DRIFT" THEN 25 ELSE 20
     IN  scored # <<>> /\ 100 * Magnitude(score - from) > percent * Reference(from)}

Observed(reports, median) ==
  [n \in Node |-> IF n \in DOMAIN reports
                  THEN Bounded(Append(signedDevs[n], <<reports[n].score, median>>))
                  ELSE signedDevs[n]]

-----------------------------------------------------------------------------
\* A record_* call is made only with somebody to record.
Due(t, flagged) == IF flagged = {} THEN <<>> ELSE <<[track |-> t, flagged |-> flagged]>>

ScoresOf(reports) == [n \in DOMAIN reports |-> reports[n].score]

\* _apply_input_divergence_flag: no inputs agreed, or somebody with others.
\* Mutant: only a missing majority is flagged.
MutWithInputFlag(aggregated, reports, inputs) ==
  IF aggregated # NoScore /\ inputs = {}
  THEN [aggregated EXCEPT !.flags = @ \cup {InputDivergence}] ELSE aggregated
WithInputFlag(aggregated, reports, inputs) ==
  IF aggregated # NoScore /\ \E n \in DOMAIN reports : reports[n].input \notin inputs
  THEN [aggregated EXCEPT !.flags = @ \cup {InputDivergence}] ELSE aggregated

\* run_byzantine_epoch up to its watchdog calls.  The caller may run an epoch
\* again, with fresh nodes, on the same watchdog and detector.
RunEpoch(e, lies, absent, silent) ==
  LET verified == Node \ (absent \cup silent)
      reports == [n \in verified |-> IF n \in Faulty THEN lies[n] ELSE Truth[e]]
      byzantine == Deviating(ScoresOf(reports))
      trusted == Restrict(reports, verified \ byzantine)
      inputs == AgreedInputs([n \in verified |-> reports[n].input], QuorumFor(Cardinality(Node)))
      aggregated == IF verified = {} THEN NoScore
                    ELSE WithInputFlag(Aggregate(trusted, Cardinality(Node)), reports, inputs)
      devs == Observed(trusted, LowerMedian(ScoresOf(reports)))
      attackers == {n \in Node : DriftsBeyond(devs[n])}
      drifters == IF aggregated = NoScore THEN {} ELSE attackers
  IN  /\ result = NoResult /\ call = Idle /\ runs < MaxRuns
      /\ epoch' = e /\ runs' = runs + 1
      /\ result' = [verified |-> verified, byzantine |-> byzantine, truth |-> Truth[e],
                    aggregated |-> aggregated, inputs |-> inputs,
                    drift |-> IF aggregated = NoScore THEN {} ELSE DriftReasons(aggregated.score),
                    dissent |-> {n \in verified : reports[n].input # Truth[e].input}]
      /\ unfiled' = Due(conflicting, byzantine) \o Due(drift, drifters) \o Due(nonReveal, silent)
      /\ IF aggregated = NoScore THEN UNCHANGED <<scored, signedDevs>>
         ELSE scored' = Bounded(Append(scored, aggregated.score)) /\ signedDevs' = devs
      /\ outvoted' = outvoted \cup
           (IF MoreThanHalf(verified \ Faulty, verified) THEN {} ELSE {e})
      /\ mute' = [n \in Node |-> mute[n] \cup IF n \in silent THEN {e} ELSE {}]
      /\ UNCHANGED <<watchVars, certificates>>

\* The record_* calls, one after the other ...
RecordTrack ==
  /\ unfiled # <<>> /\ StartCall(Head(unfiled).track, epoch, Head(unfiled).flagged)
  /\ unfiled' = Tail(unfiled)
  /\ UNCHANGED <<epoch, runs, result, scored, signedDevs, certificates, outvoted, mute>>

\* Another challenge matters while one against the same node is on its way.
WatchdogStep ==
  /\ \/ SkipCounted \/ Strike \/ FilingReturns
     \/ filing # NoFiling /\ OthersChallenge(filing.node)
  /\ UNCHANGED epochStepVars

\* ... of which the first that raises ends the epoch: nothing is signed.
ChallengeRaises ==
  /\ FilingRaises
  /\ unfiled' = <<>> /\ result' = NoResult
  /\ UNCHANGED <<epoch, runs, scored, signedDevs, certificates, outvoted, mute>>

\* _sign_and_submit: every verified node that was not flagged signs; without
\* an aggregate, agreed inputs, a slot anchor or enough signatures nothing is
\* submitted.
MutSigners == result.verified       \* mutant: the flagged nodes sign too
Signers == result.verified \ result.byzantine
MaySubmit(anchored) ==
  /\ result.aggregated # NoScore /\ result.inputs # {} /\ anchored
  /\ Cardinality(Signers) >= SigThreshold

SignAndSubmit(anchored) ==
  /\ result # NoResult /\ call = Idle /\ unfiled = <<>>
  /\ certificates' = certificates \cup
       IF MaySubmit(anchored)
       THEN {[epoch |-> epoch, score |-> result.aggregated, signers |-> Signers,
              inputs |-> result.inputs, truth |-> result.truth,
              byzantine |-> result.byzantine, dissent |-> result.dissent]}
       ELSE {}
  /\ result' = NoResult
  /\ UNCHANGED <<watchVars, epoch, runs, unfiled, scored, signedDevs, outvoted, mute>>

SilentSets == {s \in SUBSET Node : Cardinality(s) <= MaxSilent}

ByzNext ==
  \/ \E e \in {epoch, epoch + 1} \cap Epoch, lies \in [Faulty -> Lies] :
       \E absent \in SilentSets, silent \in SilentSets :
         /\ Cardinality(absent) + Cardinality(silent) <= MaxSilent /\ absent \cap silent = {}
         /\ RunEpoch(e, lies, absent, silent)
  \/ RecordTrack \/ WatchdogStep \/ ChallengeRaises
  \/ \E anchored \in BOOLEAN : SignAndSubmit(anchored)

ByzSpec == ByzInit /\ [][ByzNext]_byzVars

-----------------------------------------------------------------------------
Honest == Node \ Faulty

\* As long as the honest reveals outnumber the others, no honest node gains a
\* strike for conflicting scores, none for drift if that was so in every
\* epoch, and a non-reveal strike only for an epoch in which it was mute -
\* whatever the liars reveal and whichever filing fails (analyse_deviation,
\* DriftDetector, CommitRevealRound.non_revealers).
HonestIsNotFramed ==
  \A n \in Honest :
    /\ record[n][conflicting].epochs \subseteq outvoted
    /\ outvoted = {} => record[n][drift].epochs = {}
    /\ record[n][nonReveal].epochs \subseteq mute[n]

\* The verdict of the honest nodes, but for the flag of divergent inputs.
VerdictIsHonest(score, truth) ==
  /\ score.score = truth.score /\ score.tier = truth.tier /\ score.red = truth.red
  /\ score.flags \ {InputDivergence} = truth.flags \ {InputDivergence}
  /\ score.payload = truth.payload

\* The inputs that are bound to it are theirs, and the flag says truly whether
\* anybody who revealed had others.
InputsAreHonest(score, truth, inputs, dissent) ==
  /\ inputs \subseteq {truth.input}
  /\ inputs # {} => (InputDivergence \in score.flags <=> InputDivergence \in truth.flags \/ dissent # {})

\* Unless its epoch was outvoted, a submitted certificate carries the honest
\* verdict in every field over the honest inputs, and its INPUT_DIVERGENCE flag
\* is set just when some node revealed a report over others, which one faulty
\* node can bring about; it rests on a quorum of contributors, and is signed by
\* enough nodes of which none was flagged in that epoch (byzantine_runner.py,
\* pipeline.py).
CertificateIsHonest ==
  \A c \in certificates :
    /\ c.epoch \notin outvoted =>
         /\ VerdictIsHonest(c.score, c.truth)
         /\ InputsAreHonest(c.score, c.truth, c.inputs, c.dissent)
    /\ c.inputs # {}
    /\ Cardinality(c.score.contributors) >= QuorumFor(Cardinality(Node))
    /\ Cardinality(c.signers) >= SigThreshold
    /\ c.signers \cap c.byzantine = {}

\* What a flag must have behind it, epoch by epoch.
FlagIsFounded(t, e, n) ==
  /\ t = conflicting /\ n \in Honest => e \in outvoted
  /\ t = drift /\ n \in Honest => outvoted # {}
  /\ t = nonReveal => e \in mute[n]

\* Inductive strengthening: the calls being and still to be recorded are
\* founded, an aggregate is a quorum's and the honest verdict already, and no
\* honest node was off the median while the liars were outvoted.
Recording == [track : Track, flagged : (SUBSET Node) \ {{}}]
OnMedian == {d \in Int \X Int : d[1] = d[2]}

CallsAreFounded ==
  /\ call # Idle => call.epoch = epoch /\ \A n \in call.flagged : FlagIsFounded(call.track, epoch, n)
  /\ unfiled \in Seq(Recording) /\ (unfiled # <<>> => epoch \in Epoch)
  /\ \A k \in 1..Len(unfiled) : \A n \in unfiled[k].flagged :
       FlagIsFounded(unfiled[k].track, epoch, n)

AggregateIsHonest(e, score, truth, inputs, dissent) ==
  /\ e \notin outvoted =>
       VerdictIsHonest(score, truth) /\ InputsAreHonest(score, truth, inputs, dissent)
  /\ Cardinality(score.contributors) >= QuorumFor(Cardinality(Node))

HistoryIsHonest ==
  /\ epoch \in Nat /\ outvoted \subseteq Epoch /\ mute \in [Node -> SUBSET Epoch]
  /\ DOMAIN signedDevs = Node
  /\ outvoted = {} => \A n \in Honest : signedDevs[n] \in Seq(OnMedian)
  /\ result # NoResult /\ result.aggregated # NoScore =>
       AggregateIsHonest(epoch, result.aggregated, result.truth, result.inputs, result.dissent)

ByzInv ==
  /\ WatchdogInv /\ CallsAreFounded /\ HistoryIsHonest
  /\ HonestIsNotFramed /\ CertificateIsHonest

\* "The median is the honest reference because - by construction (Day 24) - a
\* single faulty node cannot move it" (byzantine.py:14): then one faulty node
\* cannot have an honest one challenged for a conflicting score.
LoneLiarFramesNobody ==
  Cardinality(Faulty) = 1 => \A c \in landed : c.track = conflicting => c.node \in Faulty
=============================================================================
