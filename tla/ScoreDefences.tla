---------------------------- MODULE ScoreDefences ----------------------------
(***************************************************************************)
(* The guards a score passes between the cluster and a consumer, each a    *)
(* pure function of the histories its caller keeps (oracle/score_velocity, *)
(* score_drift_ceiling, baseline_rotation_guard, agent_age_gate,           *)
(* cluster/saturation_gate, cluster/correlated_inflation).  No code in the *)
(* repository calls them: the module composes them as their headers ask.   *)
(* The coordinator runs the population gates, the drift ceiling and the    *)
(* age gate before an epoch is signed, and the rotation guard before a     *)
(* baseline moves; the consumer runs the velocity cap before it acts.      *)
(* Floats are compared exactly, as fractions of integers.                  *)
(***************************************************************************)
EXTENDS Integers, Sequences, FiniteSetsExt

CONSTANTS
  Agent,
  Score,            \* what a faulty input may push a score to
  Fleet,            \* the cluster's signers, who co-sign a rotation
  Genesis,          \* [Agent -> Score], scores and baselines of the first epoch
  Registered,       \* [Agent -> [at, epoch]]
  Elapsed,          \* how much later an epoch may be issued
  MaxEpoch,
  HighBand,         \* HIGH_BAND_FLOOR
  Absolute, Migration, Collapse, Share,   \* the gates' ceilings, in 60ths
  MinAgents, MinPrior, Window, MinMove, MassDrop, MassShare,
  MaxDrift, MaxStep,                      \* in tenths
  MaxRun, MinRotation, Tolerance,
  MaxDelta, MaxPerHour, Hour, MinElapsed,
  GreenSeconds, GreenEpochs

ScoreAssumption ==
  /\ {Share, Absolute, Migration, Collapse, MassShare} \subseteq 0..60
  /\ MinAgents \in Nat \ {0} /\ Window \in Nat \ {0} /\ MinPrior \in Nat \ {0}
  /\ MaxRun \in Nat \ {0} /\ MinRotation \in Nat \ {0}
  /\ MaxEpoch \in Nat \ {0} /\ MaxDrift \in Nat
  /\ Score \subseteq Nat /\ Genesis \in [Agent -> Score]
ASSUME ScoreAssumption

VARIABLES
  signed,     \* the certified snapshots: [epoch, at, scores, green]
  baseline,   \* [Agent -> [score, epoch]]
  trusted,    \* [Agent -> index into signed a consumer last acted on]
  evidence    \* epochs the forensic checks raised an alert for

scoreVars == <<signed, baseline, trusted, evidence>>

\* x/n in 60ths, exact for populations up to six.
Part(x, n) == (x * 60) \div n
Top(s) == s[Len(s)]
Sum60(s) == FoldFunction(+, 0, s)

-----------------------------------------------------------------------------
(* Population gates, over snapshots [agent -> score] of some agents.       *)

Size(s) == Cardinality(DOMAIN s)
High(s) == {a \in DOMAIN s : s[a] >= HighBand}

\* The standard deviation of a snapshot in tenths, from n*sum(x^2) - sum(x)^2.
StdDev(s) ==
  LET n == Size(s)
      square == n * FoldFunction(LAMBDA x, y : x * x + y, 0, s) - Sum60(s) * Sum60(s)
  IN  CHOOSE r \in 0..(100 * n) : r * r * n * n <= 100 * square /\ (r + 1) * (r + 1) * n * n > 100 * square

Collapsed(s, prior) ==
  LET recent == {i \in (Len(prior) - MinPrior + 1)..Len(prior) : Size(prior[i]) >= MinAgents}
      total == MapThenSumSet(LAMBDA i : StdDev(prior[i]), recent)
  IN  /\ Len(prior) >= MinPrior
      /\ recent # {}
      /\ \A i \in recent : StdDev(prior[i]) > 0
      /\ 60 * StdDev(s) * Cardinality(recent) < Collapse * total

Saturated(s, prior) ==
  /\ Size(s) >= MinAgents
  /\ \/ Part(Cardinality(High(s)), Size(s)) > Absolute
     \/ /\ prior # <<>> /\ Size(Top(prior)) >= MinAgents
        /\ Part(Cardinality(High(s) \ High(Top(prior))), Size(s)) > Migration
     \/ Collapsed(s, prior)

Movers(s, prior, sign) ==
  {a \in DOMAIN s \cap DOMAIN prior : sign * (s[a] - prior[a]) >= MinMove}

\* Pairs of the window that count: both populations large enough, some mover.
Correlated(history, sign) ==
  LET last == Len(history)
      pairs == {i \in (IF last > Window THEN last - Window + 1 ELSE 2)..last :
                  /\ Size(history[i]) >= MinAgents /\ Size(history[i - 1]) >= MinAgents
                  /\ Movers(history[i], history[i - 1], 1) \cup Movers(history[i], history[i - 1], -1) # {}}
      share(i) == Part(Cardinality(Movers(history[i], history[i - 1], sign)), Size(history[i]))
  IN  pairs # {} /\ MapThenSumSet(share, pairs) >= Share * Cardinality(pairs)

MassFailure(s, prior) ==
  /\ Size(s) >= MinAgents /\ Size(prior) >= MinAgents
  /\ Part(Cardinality({a \in DOMAIN s \cap DOMAIN prior : prior[a] - s[a] >= MassDrop}), Size(s))
       >= MassShare

-----------------------------------------------------------------------------
(* Guards of one agent.                                                    *)

\* Mutant: drift is measured from the previous score.
MutDriftAllowed(base, history, current) ==
  \A i \in 2..Len(history) :
    10 * (history[i].score - history[i - 1].score) <= MaxStep * history[i - 1].score

\* history ends with the proposed score; its entries are [epoch, score].
DriftAllowed(base, history, current) ==
  LET step(i) == history[i].score - history[i - 1].score IN
  /\ base > 0
  /\ history # <<>>
  /\ \A i \in 1..Len(history) : history[i].epoch <= current + Tolerance
  /\ 10 * (Top(history).score - base) <= MaxDrift * base
  /\ \A i \in 2..Len(history) :
       /\ history[i].epoch > history[i - 1].epoch
       /\ history[i - 1].score > 0 => 10 * step(i) <= MaxStep * history[i - 1].score
  /\ ~ \E i \in 2..(Len(history) - MaxRun + 1) : \A j \in i..(i + MaxRun - 1) : step(j) > 0

\* Mutant: the epochs since the last rotation are not counted.
MutRotationAllowed(a, proposed, last, current, cosigners) ==
  a \in {cosigners[i] : i \in 1..Len(cosigners)} /\ proposed > last

RotationAllowed(a, proposed, last, current, cosigners) ==
  LET signers == {cosigners[i] : i \in 1..Len(cosigners)} IN
  /\ proposed >= 1 /\ proposed <= current + Tolerance
  /\ last >= 1 => proposed >= last + MinRotation
  /\ Cardinality(signers) = Len(cosigners)
  /\ Cardinality(signers) >= 2
  /\ a \in signers

\* No tier before the registration, GREEN only after both floors.
AgeAllows(a, tier, at, epoch) ==
  /\ at >= Registered[a].at /\ epoch >= Registered[a].epoch
  /\ tier = "GREEN" => /\ at >= Registered[a].at + GreenSeconds
                       /\ epoch >= Registered[a].epoch + GreenEpochs

VelocitySafe(current, previous, elapsed) ==
  LET delta == IF current < previous THEN previous - current ELSE current - previous IN
  /\ elapsed >= 0
  /\ elapsed >= MinElapsed => delta * Hour <= MaxPerHour * elapsed
  /\ delta <= MaxDelta

-----------------------------------------------------------------------------
Now == Top(signed)
Present(epoch) == {a \in Agent : Registered[a].epoch <= epoch}

ScoreInit ==
  /\ signed = <<[epoch |-> 1, at |-> 0, scores |-> [a \in Present(1) |-> Genesis[a]], green |-> {}]>>
  /\ baseline = [a \in Agent |-> [score |-> Genesis[a], epoch |-> 0]]
  /\ trusted = [a \in Agent |-> 0]
  /\ evidence = {}

\* What was certified of a, and the proposal: once certified, an agent is in
\* every later snapshot.
History(a, s, epoch) ==
  LET length == Cardinality({i \in DOMAIN signed : a \in DOMAIN signed[i].scores})
      seen(i) == signed[Len(signed) - length + i]
  IN  [i \in 1..length |-> [epoch |-> seen(i).epoch, score |-> seen(i).scores[a]]]
        \o <<[epoch |-> epoch, score |-> s[a]]>>

SignEpoch(s, elapsed) ==
  LET epoch == Now.epoch + 1
      at == Now.at + elapsed
      prior == [i \in 1..Len(signed) |-> signed[i].scores]
  IN
  /\ epoch <= MaxEpoch
  /\ DOMAIN s = Present(epoch)
  /\ \A a \in DOMAIN s : /\ AgeAllows(a, "YELLOW", at, epoch)
                          /\ DriftAllowed(baseline[a].score, History(a, s, epoch), epoch)
  /\ ~ Saturated(s, prior)
  /\ signed' = Append(signed, [epoch |-> epoch, at |-> at, scores |-> s,
                               green |-> {a \in High(s) : AgeAllows(a, "GREEN", at, epoch)}])
  /\ evidence' = IF \/ \E sign \in {1, -1} : Correlated(Append(prior, s), sign)
                    \/ MassFailure(s, Top(prior))
                 THEN evidence \cup {epoch} ELSE evidence
  /\ UNCHANGED <<baseline, trusted>>

\* The baseline moves to the score certified last.
RotateBaseline(a, cosigners) ==
  /\ a \in DOMAIN Now.scores
  /\ RotationAllowed(a, Now.epoch, baseline[a].epoch, Now.epoch, cosigners)
  /\ baseline' = [baseline EXCEPT ![a] = [score |-> Now.scores[a], epoch |-> Now.epoch]]
  /\ UNCHANGED <<signed, trusted, evidence>>

\* A consumer acts on the newest certificate if the step from the one before
\* it is credible; an agent's first certificate has nothing to compare with.
ActOn(a) ==
  LET last == Len(signed) IN
  /\ a \in DOMAIN Now.scores
  /\ trusted[a] # last
  /\ last > 1 /\ a \in DOMAIN signed[last - 1].scores =>
       VelocitySafe(Now.scores[a], signed[last - 1].scores[a], Now.at - signed[last - 1].at)
  /\ trusted' = [trusted EXCEPT ![a] = last]
  /\ UNCHANGED <<signed, baseline, evidence>>

ScoreNext ==
  \/ \E e \in Elapsed : \E s \in [Present(Now.epoch + 1) -> Score] : SignEpoch(s, e)
  \/ \E a \in Agent, x, y \in Agent \cup Fleet : RotateBaseline(a, <<x, y>>)
  \/ \E a \in Agent : ActOn(a)

-----------------------------------------------------------------------------
\* What a score of a may reach after each move of the baseline by a ceiling.
Ceilings(a) ==
  LET ceiling[k \in 0..MaxEpoch] ==
        IF k = 0 THEN Genesis[a] ELSE ((10 + MaxDrift) * ceiling[k - 1]) \div 10
  IN  ceiling

\* The periods of MIN_EPOCHS_BETWEEN_BASELINE_ROTATIONS begun after epoch 1.
PeriodsBegun(epoch) == (epoch + MinRotation - 2) \div MinRotation

\* "an agent's effective score may not exceed baseline_score * (1 +
\* MAX_DRIFT_FROM_BASELINE_RATIO) regardless of how slowly the score crept up",
\* unless its baseline moves: with the moves spaced out, however small the
\* steps and whoever co-signs, a certified score has grown by at most one
\* ceiling, and one for each MIN_EPOCHS_BETWEEN_BASELINE_ROTATIONS begun before.
InflationIsBounded ==
  \A a \in DOMAIN Now.scores : Now.scores[a] <= Ceilings(a)[1 + PeriodsBegun(Now.epoch - 1)]
=============================================================================
