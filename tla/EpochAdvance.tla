---------------------------- MODULE EpochAdvance ----------------------------
(***************************************************************************)
(* The oracle cluster of the health-oracle program and the epoch counter   *)
(* it advances.  First the OracleConfig singleton and the                  *)
(* PendingOracleRotation singleton through which alone the cluster's keys  *)
(* and its confidence floor may change.  One Solana instruction is one     *)
(* atomic step: a handler whose require! fails reverts and is a stuttering *)
(* step here.                                                              *)
(*                                                                         *)
(* Then the counter, composed with the rotation.  An advance takes two     *)
(* transactions: one stages the next epoch, with the signatures of a       *)
(* strict majority or, when the epoch is two durations old, by one member; *)
(* after an observation delay another commits it.  advance_authority is a  *)
(* hint that neither reads.                                                *)
(***************************************************************************)
EXTENDS Integers, Sequences, FiniteSets

CONSTANTS
  Pubkey,         \* every key of the model, member of a cluster or not
  AdminArgs,      \* the keys that may send initialize_oracle_config
  ClusterArgs,    \* the key vectors an admin or a proposer may submit
  ConfidenceArgs, \* the confidence floors that may be submitted
  TimelockArgs,   \* the review windows that may be submitted
  NoRotation,     \* the PendingOracleRotation PDA does not exist
  MinTimelock,    \* PendingOracleRotation::MIN_TIMELOCK_SECONDS (48h)
  GenesisTime,    \* chain time when the accounts are initialised
  LastTime        \* BOUND: the clock stops here

VARIABLES
  chainTime,  \* Clock::get()?.unix_timestamp
  config,     \* the OracleConfig account
  rotation    \* the PendingOracleRotation account, or NoRotation

clusterVars == <<chainTime, config, rotation>>

MaxConfidence == 1000

OracleConfig == [authority: Pubkey, node: Pubkey, keys: Seq(Pubkey),
                 confidence: 0..MaxConfidence]

PendingOracleRotation ==
  [proposer: Pubkey, keys: Seq(Pubkey), confidence: 0..MaxConfidence,
   enactAfter: Nat, proposedAt: Nat, attestations: Seq(Pubkey)]

ASSUME OracleAssumption ==
  /\ AdminArgs \subseteq Pubkey
  /\ ClusterArgs \subseteq Seq(Pubkey)
  /\ ConfidenceArgs \subseteq Nat
  /\ TimelockArgs \subseteq Nat
  /\ NoRotation \notin PendingOracleRotation
  /\ MinTimelock \in Nat
  /\ GenesisTime \in Nat
  /\ LastTime \in Nat

-----------------------------------------------------------------------------
(* Predicates the handlers share.                                          *)

Occurs(k, keys) == \E i \in 1..Len(keys) : keys[i] = k

IsMember(k) == Occurs(k, config.keys)

\* floor(n / 2) + 1
ConsensusThreshold(keys) == Len(keys) \div 2 + 1

ValidSize(keys) == Len(keys) \in {1, 3, 4, 5}

Distinct(keys) == \A i, j \in 1..Len(keys) : i # j => keys[i] # keys[j]

ValidCluster(keys, confidence) ==
  /\ ValidSize(keys)
  /\ Distinct(keys)
  /\ confidence <= MaxConfidence

\* The handler compares the sorted vectors, so another order alone - another
\* primary - is no change.
SameKeys(keys) == \A k \in Pubkey : Occurs(k, keys) <=> IsMember(k)

MayGovern(k) == k = config.authority \/ IsMember(k)

HasAttestation(k) == Occurs(k, rotation.attestations)

\* Mutant: the attestations are compared with the cluster to be installed.
MutIsEnactable ==
  /\ chainTime >= rotation.enactAfter
  /\ Len(rotation.attestations) >= ConsensusThreshold(rotation.keys)

IsEnactable ==
  /\ chainTime >= rotation.enactAfter
  /\ Len(rotation.attestations) >= ConsensusThreshold(config.keys)

-----------------------------------------------------------------------------
\* initialize_oracle_config, at GenesisTime.
ClusterInit ==
  /\ chainTime = GenesisTime
  /\ rotation = NoRotation
  /\ \E admin \in AdminArgs, keys \in ClusterArgs, c \in ConfidenceArgs :
       /\ ValidCluster(keys, c)
       /\ config = [authority |-> admin, node |-> keys[1], keys |-> keys,
                    confidence |-> c]

\* The init constraint on the singleton PDA refuses a second open proposal.
\* A member that proposes attests by proposing; the admin never attests.
ProposeOracleKeyRotation(proposer, keys, confidence, timelock) ==
  /\ rotation = NoRotation
  /\ MayGovern(proposer)
  /\ ValidCluster(keys, confidence)
  /\ ~ (SameKeys(keys) /\ confidence = config.confidence)
  /\ timelock >= MinTimelock
  /\ rotation' = [proposer |-> proposer, keys |-> keys,
                  confidence |-> confidence, enactAfter |-> chainTime + timelock,
                  proposedAt |-> chainTime,
                  attestations |-> IF IsMember(proposer) THEN <<proposer>>
                                   ELSE <<>>]
  /\ UNCHANGED <<chainTime, config>>

AttestOracleKeyRotation(attester) ==
  /\ rotation # NoRotation
  /\ IsMember(attester)
  /\ ~ HasAttestation(attester)
  /\ rotation' = [rotation EXCEPT !.attestations =
                                    Append(rotation.attestations, attester)]
  /\ UNCHANGED <<chainTime, config>>

\* Anybody may send it.
EnactOracleKeyRotation ==
  /\ rotation # NoRotation
  /\ IsEnactable
  /\ ValidCluster(rotation.keys, rotation.confidence)
  /\ config' = [config EXCEPT !.keys = rotation.keys,
                              !.node = rotation.keys[1],
                              !.confidence = rotation.confidence]
  /\ rotation' = NoRotation
  /\ UNCHANGED chainTime

CancelOracleKeyRotation(canceller) ==
  /\ rotation # NoRotation
  /\ MayGovern(canceller)
  /\ rotation' = NoRotation
  /\ UNCHANGED <<chainTime, config>>

ChainTick ==
  /\ chainTime < LastTime
  /\ chainTime' = chainTime + 1
  /\ UNCHANGED <<config, rotation>>

Rotate ==
  \/ \E k \in Pubkey, keys \in ClusterArgs, c \in ConfidenceArgs,
        t \in TimelockArgs : ProposeOracleKeyRotation(k, keys, c, t)
  \/ \E k \in Pubkey : AttestOracleKeyRotation(k)
  \/ EnactOracleKeyRotation
  \/ \E k \in Pubkey : CancelOracleKeyRotation(k)

-----------------------------------------------------------------------------
ClusterTypeOK ==
  /\ chainTime \in Nat
  /\ config \in OracleConfig
  /\ rotation \in PendingOracleRotation \cup {NoRotation}

\* What every strict-majority rule of the program rests on: whatever is
\* proposed, attested, cancelled and enacted, the live cluster has a size with
\* a majority, no key in it twice, and its primary is one of its keys.
ClusterIsSound ==
  /\ ValidSize(config.keys)
  /\ Distinct(config.keys)
  /\ config.node = config.keys[1]

\* Consent to a rotation cannot be forged, counted twice or carried over to
\* another cluster: an open proposal holds attestations of keys that are
\* members now, each once, so never more than the account has room for.
ConsentIsCurrent ==
  rotation # NoRotation =>
    /\ Distinct(rotation.attestations)
    /\ \A i \in 1..Len(rotation.attestations) : IsMember(rotation.attestations[i])

\* An open proposal kept the review window it was given.
ReviewInv ==
  rotation # NoRotation => rotation.enactAfter >= rotation.proposedAt + MinTimelock

ClusterInv ==
  /\ ClusterTypeOK
  /\ ClusterIsSound
  /\ ConsentIsCurrent
  /\ ReviewInv

ReviewedAndRatified ==
  /\ rotation # NoRotation
  /\ chainTime >= rotation.proposedAt + MinTimelock
  /\ 2 * Len(rotation.attestations) > Len(config.keys)
  /\ Distinct(rotation.attestations)
  /\ \A i \in 1..Len(rotation.attestations) : IsMember(rotation.attestations[i])

-----------------------------------------------------------------------------
CONSTANTS
  DefaultKey,      \* the all-zero Pubkey::default()
  AdvanceSigners,  \* BOUND: the keys that ever sign an advance
  HintArgs,        \* the keys rotate_advance_authority may be sent with
  Duration,        \* EpochState::DEFAULT_DURATION_SECONDS (24h)
  FinalizeDelay,   \* FINALIZE_DELAY_SECONDS (30s)
  OverwriteDelay,  \* PROPOSE_OVERWRITE_DELAY_SECONDS (1h)
  LastEpoch        \* u64::MAX of current_epoch

VARIABLES
  epochState, \* the EpochState account
  signed,     \* the signatures over advance digests that exist anywhere
  staged      \* history: who staged the open advance, under which cluster

epochVars == <<epochState, signed, staged>>
oracleVars == <<clusterVars, epochVars>>

EpochState == [current: Nat \ {0}, lastAdvanced: Nat, authority: Pubkey,
               target: Nat, proposedAt: Nat, count: Nat, byFallback: BOOLEAN]

\* advance_payload_digest also covers current + 1, which it determines.
Signature == [by: Pubkey, current: Nat, lastAdvanced: Nat]

ASSUME EpochAssumption ==
  /\ DefaultKey \in Pubkey
  /\ AdvanceSigners \subseteq Pubkey
  /\ HintArgs \subseteq Pubkey
  /\ Duration \in Nat \ {0}
  /\ FinalizeDelay \in Nat
  /\ OverwriteDelay \in Nat
  /\ LastEpoch \in Nat \ {0}

-----------------------------------------------------------------------------
(* The predicates of EpochState.                                           *)

MayAdvance == chainTime - epochState.lastAdvanced >= Duration

\* Mutant: the fallback is never open.
MutFallbackElapsed == FALSE

LivenessFallbackElapsed == chainTime - epochState.lastAdvanced >= 2 * Duration

HasPendingAdvance == epochState.target # 0

\* Mutant: an advance may be committed in the second it was staged.
MutPendingAdvanceReady == HasPendingAdvance /\ chainTime >= epochState.proposedAt

PendingAdvanceReady ==
  /\ HasPendingAdvance
  /\ chainTime >= epochState.proposedAt + FinalizeDelay

PendingOverwriteAllowed ==
  \/ ~ HasPendingAdvance
  \/ chainTime >= epochState.proposedAt + OverwriteDelay

\* Mutant: a signature given for an earlier epoch counts too.
MutTally(bundle) == {k \in Pubkey : IsMember(k) /\ \E s \in bundle : s.by = k}

\* The members whose signature over the digest of this very advance the
\* transaction carries; foreign keys and other digests are skipped.
Tally(bundle) ==
  {k \in Pubkey :
     /\ IsMember(k)
     /\ [by |-> k, current |-> epochState.current,
         lastAdvanced |-> epochState.lastAdvanced] \in bundle}

-----------------------------------------------------------------------------
\* initialize_epoch, in the second the cluster was initialised.
EpochInit ==
  /\ epochState = [current |-> 1, lastAdvanced |-> chainTime, authority |-> config.node,
                   target |-> 0, proposedAt |-> 0, count |-> 0, byFallback |-> FALSE]
  /\ signed = {}
  /\ staged = [by |-> config.node, cluster |-> config.keys, backers |-> {}]

OracleInit == ClusterInit /\ EpochInit

\* External: the holder of a key signs the advance it reads from the chain.
\* BOUND: not before it is due; signed earlier it would be the same signature.
SignAdvance(k) ==
  /\ MayAdvance
  /\ epochState.current < LastEpoch
  /\ signed' = signed \cup {[by |-> k, current |-> epochState.current,
                             lastAdvanced |-> epochState.lastAdvanced]}
  /\ UNCHANGED <<clusterVars, epochState, staged>>

Stage(advancer, count, byFallback, backers) ==
  /\ epochState' = [epochState EXCEPT !.target = epochState.current + 1,
                                      !.proposedAt = chainTime,
                                      !.count = count, !.byFallback = byFallback]
  /\ staged' = [by |-> advancer, cluster |-> config.keys, backers |-> backers]
  /\ UNCHANGED <<clusterVars, signed>>

\* The signatures are tried first, the fallback only when they do not suffice.
ProposeAdvance(advancer, bundle) ==
  /\ MayAdvance
  /\ PendingOverwriteAllowed
  /\ epochState.current < LastEpoch
  /\ LET signers == Tally(bundle) IN
       \/ /\ Cardinality(signers) >= ConsensusThreshold(config.keys)
          /\ Stage(advancer, Cardinality(signers), FALSE, signers)
       \/ /\ Cardinality(signers) < ConsensusThreshold(config.keys)
          /\ LivenessFallbackElapsed
          /\ IsMember(advancer)
          /\ Stage(advancer, 1, TRUE, {})

MayFinalize(finalizer) == epochState.byFallback => IsMember(finalizer)

FinalizeAdvance(finalizer) ==
  /\ HasPendingAdvance
  /\ PendingAdvanceReady
  /\ epochState.current < LastEpoch
  /\ epochState.target = epochState.current + 1
  /\ MayFinalize(finalizer)
  /\ epochState' = [epochState EXCEPT !.current = epochState.target,
                                      !.lastAdvanced = chainTime,
                                      !.target = 0, !.proposedAt = 0, !.count = 0,
                                      !.byFallback = FALSE]
  /\ UNCHANGED <<clusterVars, signed, staged>>

RotateAdvanceAuthority(admin, new) ==
  /\ admin = config.authority
  /\ new # DefaultKey
  /\ new # epochState.authority
  /\ epochState' = [epochState EXCEPT !.authority = new]
  /\ UNCHANGED <<clusterVars, signed, staged>>

\* BOUND: a transaction carries all the signatures of some of the keys.
Bundles == {{s \in signed : s.by \in carried} : carried \in SUBSET Pubkey}

AdvanceInstruction ==
  \/ \E k \in AdvanceSigners : SignAdvance(k)
  \/ \E k \in Pubkey, b \in Bundles : ProposeAdvance(k, b)
  \/ \E k \in Pubkey : FinalizeAdvance(k)
  \/ \E k \in Pubkey, new \in HintArgs : RotateAdvanceAuthority(k, new)

OracleNext ==
  \/ AdvanceInstruction
  \/ Rotate /\ UNCHANGED epochVars
  \/ ChainTick /\ UNCHANGED epochVars

OracleSpec == OracleInit /\ [][OracleNext]_oracleVars

-----------------------------------------------------------------------------
\* Type correctness of the accounts, the signatures and the history.
OracleTypeOK ==
  /\ ClusterTypeOK
  /\ epochState \in EpochState
  /\ signed \subseteq Signature
  /\ staged \in [by: Pubkey, cluster: Seq(Pubkey), backers: SUBSET Pubkey]

\* The keys, the primary and the confidence floor change only by a rotation
\* that stood open for its whole review window and that a strict majority of
\* the cluster it replaces attested, each member once - never by the admin
\* alone, and never on consent gathered for an earlier proposal.
RotationIsRatified == [][config' # config => ReviewedAndRatified]_oracleVars

\* An advance waiting to be committed was staged with the authority it
\* claims: a strict majority of the cluster of that moment had signed this
\* very step of the counter, or the epoch was two durations old and a member
\* of that cluster staged it.  No rotation, overwrite or commit in between
\* can lend it signatures for another epoch or of other keys.
AdvanceIsAuthorised ==
  HasPendingAdvance =>
    /\ epochState.target = epochState.current + 1
    /\ epochState.proposedAt - epochState.lastAdvanced >= Duration
    /\ epochState.proposedAt <= chainTime
    /\ IF epochState.byFallback
       THEN /\ epochState.proposedAt - epochState.lastAdvanced >= 2 * Duration
            /\ Occurs(staged.by, staged.cluster)
       ELSE /\ 2 * epochState.count > Len(staged.cluster)
            /\ epochState.count = Cardinality(staged.backers)
            /\ \A k \in staged.backers :
                 /\ Occurs(k, staged.cluster)
                 /\ [by |-> k, current |-> epochState.current,
                     lastAdvanced |-> epochState.lastAdvanced] \in signed

\* The program is a clock: whatever is proposed, overwritten, rotated or
\* fallen back to, the epoch moves by one, a duration and an observation
\* delay after the last time at the earliest.
Clock == INSTANCE EpochClock WITH Period <- Duration + FinalizeDelay,
                                  now <- chainTime,
                                  epoch <- epochState.current,
                                  ticked <- epochState.lastAdvanced
ImplementsClock == Clock!Spec

LastAdvanceIsPast == epochState.lastAdvanced <= chainTime

EpochInv ==
  /\ OracleTypeOK
  /\ ClusterInv
  /\ LastAdvanceIsPast
  /\ AdvanceIsAuthorised
=============================================================================
