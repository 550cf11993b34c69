---------------------------- MODULE CertFreshness ----------------------------
(***************************************************************************)
(* How old a certificate may be: what the cluster refuses to mint and what *)
(* a consumer refuses to act on (oracle/cluster_participation_floor,       *)
(* epoch_advance_liveness, cert_reissue_cadence, cert_refusal_log;         *)
(* cluster_liveness, staleness_escalator, operation_freshness).  No code   *)
(* in the repository calls the guards; they are composed as their headers  *)
(* ask: the floors run after a round closes and before its certificates    *)
(* are sent, the log is drained at the end of the epoch, and a consumer    *)
(* that opens a position consults the three clocks.  Time is kept as ages, *)
(* which saturate at Forever; a consumer's clock may lag the cluster's.    *)
(***************************************************************************)
EXTENDS Integers, SequencesExt

CONSTANTS
  Wallet, Nodes, Quorum,
  Margin, MaxThin, Healthy,         \* barely quorate margin and run, percent
  RoundWindow,                      \* how many rounds the caller keeps
  Stall,                            \* MAX_EPOCH_ADVANCE_STALL_SECONDS
  Reissue,                          \* MAX_CERT_REISSUE_INTERVAL_SECONDS
  WarnQuiet, SilentQuiet, MinRecent,
  ToYellow, ToRed, RefuseAfter,
  Operation, OperationMaxAge,
  Lags, Skew,                       \* a consumer's lag, and the tolerance
  Forever,                          \* BOUND: ages stop counting here
  MaxChainEpoch, LogSize            \* BOUND: epochs and refusals of a run

ASSUME FreshAssumption ==
  /\ Quorum \in 1..Nodes /\ RoundWindow > MaxThin
  /\ Stall \in Nat /\ Forever \in Nat /\ Forever > Stall /\ Forever > RefuseAfter
  /\ "LOAN_ISSUE" \in Operation /\ OperationMaxAge \in [Operation -> Nat] /\ Lags \subseteq Nat

VARIABLES
  up,            \* nodes that can take part
  rounds,        \* the window of [epoch, participants]
  chainEpoch, sinceAdvance,
  cert,          \* [Wallet -> [age, tier]], age Forever + 1 before the first
  refusals       \* the open epoch's log

freshVars == <<up, rounds, chainEpoch, sinceAdvance, cert, refusals>>

Never == Forever + 1

-----------------------------------------------------------------------------
(* What the cluster asks before it mints.                                  *)

BarelyQuorate(n) == n <= Quorum + Margin

\* The trailing run of barely quorate rounds.
ThinRun(history) ==
  Max({k \in 0..Len(history) : \A i \in (Len(history) - k + 1)..Len(history) : BarelyQuorate(history[i].n)})

ParticipationAllowed(history, current) ==
  /\ history # <<>> /\ Quorum > 0 /\ Nodes > 0
  /\ \A i \in 2..Len(history) : history[i].epoch >= history[i - 1].epoch
  /\ \A i \in 1..Len(history) : history[i].epoch <= current + 1
  /\ ThinRun(history) <= MaxThin
  /\ ~ /\ ThinRun(history) >= MaxThin
       /\ \E i \in 1..Len(history) : 100 * history[i].n < Healthy * Nodes

\* Mutant: an hour of grace for every missed hour.
MutAdvanceAllowed(age, lastEpoch, current) == age <= 2 * Stall

AdvanceAllowed(age, lastEpoch, current) ==
  /\ age <= Stall
  /\ lastEpoch >= 0 /\ current >= lastEpoch

ReissueAllowed(w) == cert[w].age # Never /\ cert[w].age <= Reissue

-----------------------------------------------------------------------------
(* What a consumer asks before it acts; seen is an age by its own clock.   *)

\* The newest certificate of any wallet.
Quiet == Min({cert[w].age : w \in Wallet})

ClusterBand(seen, active) ==
  CASE active < MinRecent \/ Quiet = Never -> "SILENT"
    [] seen < -Skew -> "SILENT"
    [] seen > SilentQuiet -> "SILENT"
    [] seen > WarnQuiet /\ seen <= SilentQuiet -> "DEGRADED"
    [] OTHER -> "ALIVE"

\* A tier only ever goes down, and GREEN may go down two steps.
EffectiveTier(tier, seen) ==
  CASE seen < -Skew \/ seen > RefuseAfter -> "REFUSE"
    [] tier \in {"GREEN", "YELLOW"} /\ seen > ToRed /\ seen <= RefuseAfter -> "RED"
    [] tier = "GREEN" /\ seen > ToYellow /\ seen <= ToRed -> "YELLOW"
    [] OTHER -> tier

OperationAllowed(op, seen) == seen >= -Skew /\ seen <= OperationMaxAge[op]

\* What a consumer whose clock is lag behind may do: a display asks only for
\* the age, anything that moves money for all three clocks.
MayOperate(w, op, lag) ==
  LET seen == cert[w].age - lag IN
  /\ cert[w].age # Never
  /\ OperationAllowed(op, seen)
  /\ op # "STATUS_READ" => /\ ClusterBand(Quiet - lag, up) # "SILENT"
                           /\ EffectiveTier(cert[w].tier, seen) = "GREEN"

-----------------------------------------------------------------------------
FreshInit ==
  /\ up = Nodes /\ rounds = <<>>
  /\ chainEpoch = 0 /\ sinceAdvance = 0
  /\ cert = [w \in Wallet |-> [age |-> Never, tier |-> "GREEN"]]
  /\ refusals = <<>>

Tiers == {"GREEN", "YELLOW"}
Issued(verdict) == {w \in Wallet : verdict[w] \in Tiers}

\* n nodes revealed.  verdict is a tier, or the gate that refused the agent;
\* an agent left without a certificate for too long is refused for that too.
\* A refusal of the whole fleet raises before any agent is looked at.
CloseRound(n, verdict) ==
  LET all == Append(rounds, [epoch |-> chainEpoch, n |-> n])
      history == IF Len(all) > RoundWindow THEN Tail(all) ELSE all
      declined == {<<w, verdict[w]>> : w \in Wallet \ Issued(verdict)}
      overdue == {<<w, "FRP-3">> : w \in {x \in Wallet \ Issued(verdict) : ~ ReissueAllowed(x)}}
  IN
  /\ n >= Quorum /\ n <= up
  /\ Len(refusals) + 2 * Cardinality(Wallet) <= LogSize
  /\ rounds' = history
  /\ IF ParticipationAllowed(history, chainEpoch) /\ AdvanceAllowed(sinceAdvance, chainEpoch, chainEpoch)
     THEN /\ cert' = [w \in Wallet |-> IF w \in Issued(verdict) THEN [age |-> 0, tier |-> verdict[w]]
                                                               ELSE cert[w]]
          /\ refusals' = refusals \o SetToSeq(declined \cup overdue)
     ELSE UNCHANGED <<cert, refusals>>
  /\ UNCHANGED <<up, chainEpoch, sinceAdvance>>

\* External: the program's clock; the epoch's refusals go to the topic.
AdvanceChainEpoch ==
  /\ chainEpoch' = IF chainEpoch < MaxChainEpoch THEN chainEpoch + 1 ELSE chainEpoch
  /\ sinceAdvance' = 0
  /\ refusals' = <<>>
  /\ UNCHANGED <<up, rounds, cert>>

HourPassesBy ==
  LET older(age) == IF age < Forever THEN age + 1 ELSE age IN
  /\ sinceAdvance' = older(sinceAdvance)
  /\ cert' = [w \in Wallet |-> [cert[w] EXCEPT !.age = older(@)]]
  /\ UNCHANGED <<up, rounds, chainEpoch, refusals>>

NodesChange(n) ==
  /\ n # up /\ up' = n
  /\ UNCHANGED <<rounds, chainEpoch, sinceAdvance, cert, refusals>>

Verdicts == [Wallet -> Tiers \cup {"NSS-3", "OPERATOR-OVERRIDE"}]

FreshNext ==
  \/ \E n \in Quorum..Nodes, v \in Verdicts : CloseRound(n, v)
  \/ AdvanceChainEpoch
  \/ HourPassesBy
  \/ \E n \in {Quorum - 1, Nodes} : NodesChange(n)

-----------------------------------------------------------------------------
\* A frozen chain cannot carry a loan: whatever the cluster went on minting
\* and however late the consumer's clock, a loan is opened at most one stall
\* floor and one loan age after the last epoch advance
\* (epoch_advance_liveness.py's "issuance during stall", operation_freshness.py).
NoLoanOnAFrozenChain ==
  \A w \in Wallet, lag \in Lags :
    MayOperate(w, "LOAN_ISSUE", lag) =>
      sinceAdvance <= Stall + OperationMaxAge["LOAN_ISSUE"] + lag
=============================================================================
