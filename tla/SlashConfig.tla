------------------------------ MODULE SlashConfig ------------------------------
(***************************************************************************)
(* The governance half of the slash-authority program: the SlashConfig     *)
(* singleton (admin, three role keys, treasury, timing, kill switch) and   *)
(* the PendingAuthorityRotation singleton through which alone the role     *)
(* keys may change.                                                        *)
(*                                                                         *)
(* One Solana instruction is one atomic step: a handler whose require!     *)
(* fails reverts and is a stuttering step here.  Time is the chain clock,  *)
(* in whatever unit the constants are given in.  update_authorities always *)
(* returns an error and therefore has no action.                           *)
(***************************************************************************)
EXTENDS Integers, Sequences

CONSTANTS
  Pubkey,                 \* every key and address of the model
  DefaultKey,             \* the all-zero Pubkey::default()
  AdminArgs,              \* the keys that may send initialize_config
  NoProposal,             \* the PendingAuthorityRotation PDA does not exist
  RotationArgs,           \* the role sets a proposer may submit
  TimelockArgs,           \* the review windows a proposer may submit
  TimingArgs,             \* the <<floor, grace>> pairs an admin may submit
  PauseArgs,              \* the durations a pauser may submit
  GenesisTime,            \* chain time when the config is initialised
  MaxTime,                \* BOUND: the clock stops here
  MaxVersion,             \* u32::MAX of slash_config_version
  MinSettlementTimelock,  \* MIN_SETTLEMENT_TIMELOCK_SECONDS (72h)
  MinRotationTimelock,    \* PendingAuthorityRotation::MIN_TIMELOCK_SECONDS (48h)
  MaxPause,               \* MAX_PAUSE_SECONDS (7d)
  PauseCooldown,          \* PAUSE_COOLDOWN_SECONDS (24h)
  DefaultFloor, DefaultGrace,    \* DEFAULT_EXECUTE_TO_SETTLE / _SETTLE_GRACE
  MinFloor, MaxFloor,            \* MIN/MAX_EXECUTE_TO_SETTLE_BOUND
  MinGrace, MaxGrace             \* MIN/MAX_SETTLE_GRACE_BOUND

VARIABLES
  now,        \* Clock::get()?.unix_timestamp
  cfg,        \* the SlashConfig account
  pending,    \* the PendingAuthorityRotation account, or NoProposal
  lineage,    \* history: lineage[v] is the authority set of version v
  blocked     \* history: for how many consecutive ticks the switch was on

configVars == <<now, cfg, pending, lineage, blocked>>

RoleSet == [executor: Pubkey, resolver: Pubkey, pauser: Pubkey, treasury: Pubkey]

Config == [admin: Pubkey, executor: Pubkey, resolver: Pubkey, pauser: Pubkey,
           treasury: Pubkey, settlementTimelock: Nat,
           paused: BOOLEAN, pausedAt: Nat, pausedUntil: Nat,
           floor: Nat, grace: Nat, version: Nat]

RotationRequest == [executor: Pubkey, resolver: Pubkey, pauser: Pubkey,
                    treasury: Pubkey, settlementTimelock: Nat]

Proposal == [proposer: Pubkey, new: RotationRequest, enactAfter: Nat,
             proposedAt: Nat, attestations: Seq(Pubkey)]

ASSUME KeyAssumption ==
  /\ DefaultKey \in Pubkey
  /\ AdminArgs \subseteq Pubkey
  /\ NoProposal \notin Proposal
  /\ RotationArgs \subseteq RotationRequest

ASSUME TimeAssumption ==
  /\ GenesisTime \in Nat /\ MaxTime \in Nat /\ MaxVersion \in Nat \ {0}
  /\ MinSettlementTimelock \in Nat \ {0}
  /\ MinRotationTimelock \in Nat \ {0}
  /\ MaxPause \in Nat \ {0} /\ PauseCooldown \in Nat \ {0}
  /\ PauseCooldown <= GenesisTime
  /\ DefaultFloor \in Nat \ {0} /\ DefaultGrace \in Nat \ {0}
  /\ MinFloor \in Nat \ {0} /\ MaxFloor \in Nat
  /\ MinGrace \in Nat \ {0} /\ MaxGrace \in Nat
  /\ MinFloor <= DefaultFloor /\ DefaultFloor <= MaxFloor
  /\ MinGrace <= DefaultGrace /\ DefaultGrace <= MaxGrace
  /\ TimelockArgs \subseteq Nat /\ PauseArgs \subseteq Nat
  /\ TimingArgs \subseteq Nat \X Nat

-----------------------------------------------------------------------------
(* Predicates the handlers share.                                          *)

Signer == Pubkey \ {DefaultKey}

Roles(c) == {c.executor, c.resolver, c.pauser}

\* Mutant: the proposer's own attestation is enough.
MutConsensusThreshold == 1

ConsensusThreshold == 2

SeparatedAuthorities(admin, r) ==
  /\ DefaultKey \notin {r.executor, r.resolver, r.pauser}
  /\ r.executor # r.resolver
  /\ r.executor # r.pauser
  /\ r.resolver # r.pauser
  /\ admin \notin {r.executor, r.resolver, r.pauser}

ValidRotation(r) ==
  /\ SeparatedAuthorities(cfg.admin, r)
  /\ r.treasury # DefaultKey
  /\ r.settlementTimelock >= MinSettlementTimelock

IsPausedNow == cfg.paused /\ now < cfg.pausedUntil

PauseCooldownSatisfied == now >= cfg.pausedUntil + PauseCooldown

\* An account older than the tunable timing stores zero and means the default.
EffectiveFloor == IF cfg.floor > 0 THEN cfg.floor ELSE DefaultFloor
EffectiveGrace == IF cfg.grace > 0 THEN cfg.grace ELSE DefaultGrace

HasAttested(k) == \E i \in 1..Len(pending.attestations) : pending.attestations[i] = k

IsEnactable ==
  /\ now >= pending.enactAfter
  /\ Len(pending.attestations) >= ConsensusThreshold

AuthoritySet(r) == [executor |-> r.executor, resolver |-> r.resolver,
                    pauser |-> r.pauser, treasury |-> r.treasury]

-----------------------------------------------------------------------------
\* initialize_config, at GenesisTime.  An account created before the tunable
\* timing fields were carved out of its reserve stores zero in both.
ConfigInit ==
  /\ now = GenesisTime
  /\ \E admin \in AdminArgs, r \in RotationArgs, legacy \in BOOLEAN :
       /\ SeparatedAuthorities(admin, r)
       /\ r.settlementTimelock >= MinSettlementTimelock
       /\ r.treasury # DefaultKey
       /\ cfg = [admin |-> admin, executor |-> r.executor,
                 resolver |-> r.resolver, pauser |-> r.pauser,
                 treasury |-> r.treasury,
                 settlementTimelock |-> r.settlementTimelock,
                 paused |-> FALSE, pausedAt |-> 0, pausedUntil |-> 0,
                 floor |-> IF legacy THEN 0 ELSE DefaultFloor,
                 grace |-> IF legacy THEN 0 ELSE DefaultGrace,
                 version |-> 1]
       /\ lineage = <<AuthoritySet(r)>>
  /\ pending = NoProposal
  /\ blocked = 0

\* The init constraint on the singleton PDA refuses a second open proposal.
\* A role key that proposes attests by proposing; the admin never attests.
ProposeAuthorityRotation(proposer, r, timelock) ==
  /\ pending = NoProposal
  /\ proposer \in {cfg.admin} \cup Roles(cfg)
  /\ ValidRotation(r)
  /\ \/ AuthoritySet(r) # AuthoritySet(cfg)
     \/ r.settlementTimelock # cfg.settlementTimelock
  /\ timelock >= MinRotationTimelock
  /\ pending' = [proposer |-> proposer, new |-> r,
                 enactAfter |-> now + timelock, proposedAt |-> now,
                 attestations |-> IF proposer \in Roles(cfg)
                                  THEN <<proposer>> ELSE <<>>]
  /\ UNCHANGED <<now, cfg, lineage, blocked>>

AttestAuthorityRotation(attester) ==
  /\ pending # NoProposal
  /\ attester \in Roles(cfg)
  /\ ~ HasAttested(attester)
  /\ pending' = [pending EXCEPT !.attestations = Append(@, attester)]
  /\ UNCHANGED <<now, cfg, lineage, blocked>>

\* Anybody may send it; checked_add refuses to wrap the u32 version.
EnactAuthorityRotation ==
  /\ pending # NoProposal
  /\ IsEnactable
  /\ ValidRotation(pending.new)
  /\ cfg.version < MaxVersion
  /\ cfg' = [cfg EXCEPT !.executor = pending.new.executor,
                        !.resolver = pending.new.resolver,
                        !.pauser = pending.new.pauser,
                        !.treasury = pending.new.treasury,
                        !.settlementTimelock = pending.new.settlementTimelock,
                        !.version = @ + 1]
  /\ lineage' = Append(lineage, AuthoritySet(pending.new))
  /\ pending' = NoProposal
  /\ UNCHANGED <<now, blocked>>

CancelAuthorityRotation(canceller) ==
  /\ pending # NoProposal
  /\ canceller \in {cfg.admin} \cup Roles(cfg)
  /\ pending' = NoProposal
  /\ UNCHANGED <<now, cfg, lineage, blocked>>

UpdateSettleTiming(signer, floor, grace) ==
  /\ signer = cfg.admin
  /\ floor \in MinFloor..MaxFloor
  /\ grace \in MinGrace..MaxGrace
  /\ \/ EffectiveFloor # floor
     \/ EffectiveGrace # grace
     \/ cfg.floor = 0
     \/ cfg.grace = 0
  /\ cfg' = [cfg EXCEPT !.floor = floor, !.grace = grace]
  /\ UNCHANGED <<now, pending, lineage, blocked>>

PauseSettlements(signer, duration) ==
  /\ signer = cfg.pauser
  /\ duration > 0 /\ duration <= MaxPause
  /\ ~ IsPausedNow
  /\ PauseCooldownSatisfied
  /\ cfg' = [cfg EXCEPT !.paused = TRUE, !.pausedAt = now,
                        !.pausedUntil = now + duration]
  /\ UNCHANGED <<now, pending, lineage, blocked>>

\* pausedUntil survives: it is what the next pause measures its cooldown from.
UnpauseSettlements(signer) ==
  /\ signer = cfg.pauser
  /\ cfg.paused
  /\ cfg' = [cfg EXCEPT !.paused = FALSE, !.pausedAt = 0]
  /\ UNCHANGED <<now, pending, lineage, blocked>>

Tick ==
  /\ now < MaxTime
  /\ now' = now + 1
  /\ blocked' = IF IsPausedNow THEN blocked + 1 ELSE 0
  /\ UNCHANGED <<cfg, pending, lineage>>

Governance ==
  \/ \E k \in Signer, r \in RotationArgs, t \in TimelockArgs :
       ProposeAuthorityRotation(k, r, t)
  \/ \E k \in Signer : AttestAuthorityRotation(k)
  \/ EnactAuthorityRotation
  \/ \E k \in Signer : CancelAuthorityRotation(k)
  \/ \E k \in Signer, p \in TimingArgs : UpdateSettleTiming(k, p[1], p[2])
  \/ \E k \in Signer, d \in PauseArgs : PauseSettlements(k, d)
  \/ \E k \in Signer : UnpauseSettlements(k)

ConfigNext == Governance \/ Tick

ConfigSpec == ConfigInit /\ [][ConfigNext]_configVars

-----------------------------------------------------------------------------
\* Type correctness of the two accounts and the two history variables.
ConfigTypeOK ==
  /\ now \in Nat
  /\ cfg \in Config
  /\ pending \in Proposal \cup {NoProposal}
  /\ lineage \in Seq(RoleSet)
  /\ blocked \in Nat

\* Whatever is proposed, cancelled, re-proposed and enacted, executor,
\* resolver, pauser and admin stay four different live keys: the premise of
\* every two-party rule of the program (validate_authority_separation).
RolesSeparated == SeparatedAuthorities(cfg.admin, cfg)

\* Consent cannot be forged or counted twice: every attestation held by an
\* open proposal was given by a key that holds a role now, no key appears
\* twice, so never more than the three slots SPACE reserves are used, and an
\* admin cannot bring a proposal nearer to enactment at all.
ConsentIsCurrentAndDistinct ==
  pending # NoProposal =>
    LET att == pending.attestations IN
      /\ Len(att) <= 3
      /\ \A i \in 1..Len(att) : att[i] \in Roles(cfg)
      /\ \A i, j \in 1..Len(att) : i # j => att[i] # att[j]

AuthoritiesChange ==
  \/ AuthoritySet(cfg') # AuthoritySet(cfg)
  \/ cfg'.settlementTimelock # cfg.settlementTimelock

ReviewedAndConsented ==
  /\ pending # NoProposal
  /\ now >= pending.proposedAt + MinRotationTimelock
  /\ \E k1, k2 \in Roles(cfg) : k1 # k2 /\ HasAttested(k1) /\ HasAttested(k2)

\* The role keys, the treasury and the settlement timelock change only by a
\* rotation that had its full review window and the consent of two different
\* keys holding a role at that moment - never by the admin alone.
RotationNeedsReviewAndConsent ==
  [][AuthoritiesChange => ReviewedAndConsented]_configVars

\* The kill switch cannot hold settlement longer than MaxPause without a
\* break, whatever sequence of pause, unpause, expiry and key rotation the
\* pauser goes through (pause_handler / unpause_handler).
PauseIsCapped == blocked <= MaxPause

\* A rotation cannot install an unusable treasury or a settlement timelock
\* below the protocol floor (MIN_SETTLEMENT_TIMELOCK_SECONDS).
PayoutTermsValid ==
  /\ cfg.treasury # DefaultKey
  /\ cfg.settlementTimelock >= MinSettlementTimelock

\* Why a pause ends: it started at pausedAt with no blocked time carried in,
\* because the cooldown of the pause before it had already reset the count.
PauseInv ==
  /\ cfg.paused => /\ cfg.pausedAt <= now
                   /\ cfg.pausedUntil <= cfg.pausedAt + MaxPause
  /\ IsPausedNow => blocked <= now - cfg.pausedAt
  /\ now > cfg.pausedUntil => blocked = 0
  /\ PauseIsCapped

\* An open proposal kept the review window it was given.
ReviewInv ==
  pending # NoProposal =>
    pending.enactAfter >= pending.proposedAt + MinRotationTimelock

\* A version number names one authority set for ever: the current one is the
\* entry of the current version, so a record's version stamp identifies who
\* held the keys (slash_config_version, M-08).
VersionNamesAuthorities ==
  /\ cfg.version \in 1..MaxVersion
  /\ Len(lineage) = cfg.version
  /\ lineage[cfg.version] = AuthoritySet(cfg)

\* The inductive invariant of the configuration.
ConfigInv ==
  /\ ConfigTypeOK
  /\ RolesSeparated
  /\ PayoutTermsValid
  /\ ConsentIsCurrentAndDistinct
  /\ ReviewInv
  /\ PauseInv
  /\ VersionNamesAuthorities
=============================================================================
