------------------------ MODULE SlashAuthorityProofs ------------------------
(***************************************************************************)
(* First the configuration: ConfigInv is inductive, and the properties of  *)
(* SlashConfig follow from it for every key set, every timing constant and *)
(* an unbounded clock.  Then the slashes: SlashInv is inductive; from it   *)
(* the slash-authority program's solvency, single appeal, dense history,   *)
(* version stamps and due process follow for any number of agents and      *)
(* slashes, and every step is a step of the abstract EscrowLedger.         *)
(***************************************************************************)
EXTENDS SlashAuthority, TLAPS

\* Initialisation establishes every part of the invariant.
LEMMA ConfigInitInv == ConfigInit => ConfigInv
<1> SUFFICES ASSUME ConfigInit PROVE ConfigInv
  OBVIOUS
<1> USE KeyAssumption, TimeAssumption
<1>1. PICK admin \in AdminArgs, r \in RotationArgs, legacy \in BOOLEAN :
        /\ SeparatedAuthorities(admin, r)
        /\ r.settlementTimelock >= MinSettlementTimelock
        /\ r.treasury # DefaultKey
        /\ cfg = [admin |-> admin, executor |-> r.executor,
                  resolver |-> r.resolver, pauser |-> r.pauser,
                  treasury |-> r.treasury,
                  settlementTimelock |-> r.settlementTimelock,
                  paused |-> FALSE, pausedAt |-> 0, pausedUntil |-> 0,
                  floor |-> IF legacy THEN 0 ELSE DefaultFloor,
                  grace |-> IF legacy THEN 0 ELSE DefaultGrace,
                  version |-> 1]
        /\ lineage = <<AuthoritySet(r)>>
  BY DEF ConfigInit
<1>2. r \in RotationRequest /\ admin \in Pubkey
  OBVIOUS
<1>3. ConfigTypeOK
  <2>1. cfg \in Config
    BY <1>1, <1>2 DEF Config, RotationRequest
  <2>2. AuthoritySet(r) \in RoleSet
    BY <1>2 DEF AuthoritySet, RoleSet, RotationRequest
  <2>3. QED
    BY <1>1, <2>1, <2>2 DEF ConfigTypeOK, ConfigInit
<1>4. RolesSeparated /\ PayoutTermsValid
  BY <1>1 DEF RolesSeparated, PayoutTermsValid, SeparatedAuthorities
<1>5. ConsentIsCurrentAndDistinct /\ ReviewInv
  BY DEF ConfigInit, ConsentIsCurrentAndDistinct, ReviewInv
<1>6. PauseInv
  BY <1>1 DEF ConfigInit, PauseInv, PauseIsCapped, IsPausedNow
<1>7. VersionNamesAuthorities
  BY <1>1 DEF VersionNamesAuthorities, AuthoritySet
<1> QED
  BY <1>3, <1>4, <1>5, <1>6, <1>7 DEF ConfigInv

-----------------------------------------------------------------------------
(* One lemma per instruction: it preserves the invariant.                  *)

LEMMA ProposeInv ==
  ASSUME ConfigInv, NEW k \in Signer, NEW r \in RotationArgs,
         NEW t \in TimelockArgs, ProposeAuthorityRotation(k, r, t)
  PROVE  ConfigInv'
<1> USE KeyAssumption, TimeAssumption DEF ConfigInv
<1> DEFINE att == IF k \in Roles(cfg) THEN <<k>> ELSE <<>>
<1>1. k \in Pubkey /\ r \in RotationRequest /\ t \in Nat
  BY DEF Signer
<1>2. /\ pending' = [proposer |-> k, new |-> r, enactAfter |-> now + t,
                     proposedAt |-> now, attestations |-> att]
      /\ t >= MinRotationTimelock
      /\ UNCHANGED <<now, cfg, lineage, blocked>>
  BY DEF ProposeAuthorityRotation
<1>3. att \in Seq(Pubkey)
  BY <1>1
<1>4. ConfigTypeOK'
  <2>1. pending' \in Proposal
    BY <1>1, <1>2, <1>3 DEF Proposal, ConfigTypeOK
  <2>2. QED
    BY <1>2, <2>1 DEF ConfigTypeOK
<1>5. ConsentIsCurrentAndDistinct'
  BY <1>2 DEF ConsentIsCurrentAndDistinct, Roles
<1>6. ReviewInv'
  BY <1>1, <1>2 DEF ReviewInv, ConfigTypeOK
<1>7. RolesSeparated' /\ PayoutTermsValid' /\ PauseInv' /\ VersionNamesAuthorities'
  BY <1>2 DEF RolesSeparated, PayoutTermsValid, SeparatedAuthorities, PauseInv, PauseIsCapped,
              IsPausedNow, VersionNamesAuthorities, AuthoritySet
<1> QED
  BY <1>4, <1>5, <1>6, <1>7

LEMMA AttestInv ==
  ASSUME ConfigInv, NEW k \in Signer, AttestAuthorityRotation(k)
  PROVE  ConfigInv'
<1> USE KeyAssumption, TimeAssumption DEF ConfigInv
<1> DEFINE att == pending.attestations
<1>1. /\ pending # NoProposal
      /\ k \in Roles(cfg)
      /\ ~ HasAttested(k)
      /\ pending' = [pending EXCEPT !.attestations = Append(att, k)]
      /\ UNCHANGED <<now, cfg, lineage, blocked>>
  BY DEF AttestAuthorityRotation
<1>2. pending \in Proposal /\ att \in Seq(Pubkey) /\ k \in Pubkey
  BY <1>1 DEF ConfigTypeOK, Proposal, Signer
<1>3. /\ Append(att, k) \in Seq(Pubkey)
      /\ Len(Append(att, k)) = Len(att) + 1
      /\ \A i \in 1..Len(att) : Append(att, k)[i] = att[i]
      /\ Append(att, k)[Len(att) + 1] = k
  BY <1>2
<1>4. /\ pending' \in Proposal
      /\ pending'.attestations = Append(att, k)
      /\ pending'.enactAfter = pending.enactAfter
      /\ pending'.proposedAt = pending.proposedAt
  BY <1>1, <1>2, <1>3 DEF Proposal
<1>5. ConfigTypeOK'
  BY <1>1, <1>4 DEF ConfigTypeOK
<1>6. ConsentIsCurrentAndDistinct'
  <2> DEFINE new == Append(att, k)
  <2>0. /\ Len(att) \in Nat
        /\ \A i \in 1..Len(att) : att[i] \in Roles(cfg)
        /\ \A i, j \in 1..Len(att) : i # j => att[i] # att[j]
    BY <1>1, <1>2 DEF ConsentIsCurrentAndDistinct
  <2>c. \A i \in 1..Len(att) : att[i] # k
    BY <1>1 DEF HasAttested
  <2>a. /\ Len(new) = Len(att) + 1
        /\ \A i \in 1..Len(att) : new[i] = att[i]
        /\ new[Len(att) + 1] = k
    BY <1>3
  <2>b. \A i \in 1..Len(new) : i \in 1..Len(att) \/ i = Len(att) + 1
    BY <2>0, <2>a
  <2> HIDE DEF new, att
  <2>1. \A i \in 1..Len(new) : new[i] \in Roles(cfg)
    BY <1>1, <2>0, <2>a, <2>b
  <2>2. \A i, j \in 1..Len(new) : i # j => new[i] # new[j]
    BY <2>0, <2>a, <2>b, <2>c
  <2>3. Len(new) <= 3
    <3>1. SUFFICES ASSUME Len(new) > 3 PROVE FALSE
      BY <2>a, <2>0
    <3>2. {1, 2, 3, 4} \subseteq 1..Len(new)
      BY <3>1, <2>a, <2>0
    <3>3. /\ new[1] \in Roles(cfg) /\ new[2] \in Roles(cfg)
          /\ new[3] \in Roles(cfg) /\ new[4] \in Roles(cfg)
      BY <2>1, <3>2
    <3>4. /\ new[1] # new[2] /\ new[1] # new[3] /\ new[1] # new[4]
          /\ new[2] # new[3] /\ new[2] # new[4] /\ new[3] # new[4]
      BY <2>2, <3>2
    <3>5. QED
      BY <3>3, <3>4 DEF Roles
  <2>4. QED
    <3>1. pending'.attestations = new /\ Roles(cfg)' = Roles(cfg)
      BY <1>1, <1>4 DEF Roles, new, att
    <3>2. QED
      BY <3>1, <2>1, <2>2, <2>3 DEF ConsentIsCurrentAndDistinct
<1>7. ReviewInv'
  BY <1>1, <1>4 DEF ReviewInv
<1>8. RolesSeparated' /\ PayoutTermsValid' /\ PauseInv' /\ VersionNamesAuthorities'
  BY <1>1 DEF RolesSeparated, PayoutTermsValid, SeparatedAuthorities, PauseInv, PauseIsCapped,
              IsPausedNow, VersionNamesAuthorities, AuthoritySet
<1> QED
  BY <1>5, <1>6, <1>7, <1>8

LEMMA EnactInv ==
  ASSUME ConfigInv, EnactAuthorityRotation
  PROVE  ConfigInv'
<1> USE KeyAssumption, TimeAssumption DEF ConfigInv
<1> DEFINE new == pending.new
<1>1. /\ pending # NoProposal /\ ValidRotation(new)
      /\ cfg' = [cfg EXCEPT !.executor = new.executor,
                            !.resolver = new.resolver,
                            !.pauser = new.pauser,
                            !.treasury = new.treasury,
                            !.settlementTimelock = new.settlementTimelock,
                            !.version = @ + 1]
      /\ lineage' = Append(lineage, AuthoritySet(new))
      /\ pending' = NoProposal
      /\ UNCHANGED <<now, blocked>>
      /\ cfg.version < MaxVersion
  BY DEF EnactAuthorityRotation
<1>2. new \in RotationRequest /\ cfg \in Config
  BY <1>1 DEF ConfigTypeOK, Proposal
<1>0. cfg' \in Config
  <2> DEFINE next == cfg.version + 1
  <2>1. next \in Nat
    BY <1>2 DEF Config
  <2>2. cfg' = [cfg EXCEPT !.executor = new.executor,
                           !.resolver = new.resolver,
                           !.pauser = new.pauser,
                           !.treasury = new.treasury,
                           !.settlementTimelock = new.settlementTimelock,
                           !.version = next]
    BY <1>1
  <2> HIDE DEF next, new
  <2>3. QED
    BY <1>2, <2>1, <2>2 DEF Config, RotationRequest
<1>3. /\ cfg'.admin = cfg.admin /\ cfg'.version = cfg.version + 1
      /\ cfg'.executor = new.executor /\ cfg'.resolver = new.resolver
      /\ cfg'.pauser = new.pauser /\ cfg'.treasury = new.treasury
      /\ cfg'.paused = cfg.paused /\ cfg'.pausedAt = cfg.pausedAt
      /\ cfg'.pausedUntil = cfg.pausedUntil
  BY <1>1, <1>2 DEF Config, RotationRequest
<1>4. AuthoritySet(new) \in RoleSet
  BY <1>2 DEF AuthoritySet, RoleSet, RotationRequest
<1>5. ConfigTypeOK'
  BY <1>0, <1>1, <1>4 DEF ConfigTypeOK
<1>6. RolesSeparated' /\ PayoutTermsValid'
  <2>1. cfg'.settlementTimelock = new.settlementTimelock
    BY <1>1, <1>2 DEF Config, RotationRequest
  <2>2. QED
    BY <1>1, <1>3, <2>1
       DEF RolesSeparated, PayoutTermsValid, SeparatedAuthorities, ValidRotation
<1>7. ConsentIsCurrentAndDistinct' /\ ReviewInv'
  BY <1>1 DEF ConsentIsCurrentAndDistinct, ReviewInv
<1>8. PauseInv'
  BY <1>1, <1>3 DEF PauseInv, PauseIsCapped, IsPausedNow
<1>9. VersionNamesAuthorities'
  <2>1. /\ lineage \in Seq(RoleSet) /\ Len(lineage) = cfg.version
        /\ cfg.version \in Nat
    BY <1>2 DEF VersionNamesAuthorities, ConfigTypeOK, Config
  <2>2. /\ Len(lineage') = cfg.version + 1
        /\ lineage'[cfg.version + 1] = AuthoritySet(new)
    <3> DEFINE roles == AuthoritySet(new)
    <3>1. lineage' = Append(lineage, roles) /\ roles \in RoleSet
      BY <1>1, <1>4
    <3> HIDE DEF roles, new, ConfigInv
    <3>2. Len(lineage') = cfg.version + 1 /\ lineage'[cfg.version + 1] = roles
      BY <2>1, <3>1
    <3> QED
      BY <3>2 DEF roles
  <2>4. cfg.version + 1 \in 1..MaxVersion
    <3>1. cfg.version < MaxVersion
      BY <1>1
    <3>2. MaxVersion \in Nat
      BY TimeAssumption
    <3> DEFINE version == cfg.version
    <3> HIDE DEF version, ConfigInv, new
    <3>3. version < MaxVersion /\ version \in Nat
      BY <2>1, <3>1 DEF version
    <3>4. version + 1 \in 1..MaxVersion
      BY <3>2, <3>3, SMT
    <3> QED
      BY <3>4 DEF version
  <2>3. AuthoritySet(cfg') = AuthoritySet(new)
    BY <1>3 DEF AuthoritySet
  <2>5. QED
    BY <1>3, <2>2, <2>3, <2>4 DEF VersionNamesAuthorities
<1> QED
  BY <1>5, <1>6, <1>7, <1>8, <1>9

LEMMA CancelInv ==
  ASSUME ConfigInv, NEW k \in Signer, CancelAuthorityRotation(k)
  PROVE  ConfigInv'
  BY KeyAssumption
     DEF ConfigInv, CancelAuthorityRotation, ConfigTypeOK, RolesSeparated, PayoutTermsValid,
         SeparatedAuthorities, ConsentIsCurrentAndDistinct, ReviewInv, PauseInv,
         PauseIsCapped, IsPausedNow, VersionNamesAuthorities, AuthoritySet

\* The three instructions that touch only timing and the kill switch leave
\* roles, proposal and lineage alone; what is left is their own pause argument.
LEMMA TimingFieldsInv ==
  ASSUME ConfigInv, cfg' \in Config, UNCHANGED <<now, pending, lineage, blocked>>,
         cfg'.admin = cfg.admin, cfg'.version = cfg.version,
         cfg'.settlementTimelock = cfg.settlementTimelock,
         AuthoritySet(cfg') = AuthoritySet(cfg), PauseInv'
  PROVE  ConfigInv'
<1>1. /\ cfg'.executor = cfg.executor /\ cfg'.resolver = cfg.resolver
      /\ cfg'.pauser = cfg.pauser /\ cfg'.treasury = cfg.treasury
  BY DEF AuthoritySet
<1>2. ConfigTypeOK'
  BY DEF ConfigInv, ConfigTypeOK
<1>3. RolesSeparated' /\ PayoutTermsValid'
  BY <1>1 DEF ConfigInv, RolesSeparated, PayoutTermsValid, SeparatedAuthorities
<1>4. ConsentIsCurrentAndDistinct' /\ ReviewInv'
  BY <1>1 DEF ConfigInv, ConsentIsCurrentAndDistinct, ReviewInv, Roles
<1>5. VersionNamesAuthorities'
  BY DEF ConfigInv, VersionNamesAuthorities
<1> QED
  BY <1>2, <1>3, <1>4, <1>5 DEF ConfigInv

LEMMA UpdateTimingInv ==
  ASSUME ConfigInv, NEW k \in Signer, NEW p \in TimingArgs,
         UpdateSettleTiming(k, p[1], p[2])
  PROVE  ConfigInv'
<1>1. p[1] \in Nat /\ p[2] \in Nat /\ cfg \in Config
  BY TimeAssumption DEF ConfigInv, ConfigTypeOK
<1>2. cfg' = [cfg EXCEPT !.floor = p[1], !.grace = p[2]]
  BY DEF UpdateSettleTiming
<1>3. /\ cfg' \in Config
      /\ cfg'.admin = cfg.admin /\ cfg'.version = cfg.version
      /\ cfg'.settlementTimelock = cfg.settlementTimelock
      /\ AuthoritySet(cfg') = AuthoritySet(cfg)
      /\ cfg'.paused = cfg.paused /\ cfg'.pausedAt = cfg.pausedAt
      /\ cfg'.pausedUntil = cfg.pausedUntil
  BY <1>1, <1>2 DEF Config, AuthoritySet
<1>4. UNCHANGED <<now, pending, lineage, blocked>>
  BY DEF UpdateSettleTiming
<1>5. PauseInv'
  BY <1>3, <1>4 DEF ConfigInv, PauseInv, PauseIsCapped, IsPausedNow
<1> QED
  BY <1>3, <1>4, <1>5, TimingFieldsInv

\* The cooldown is what makes blocked zero when a pause starts.
LEMMA PauseActionInv ==
  ASSUME ConfigInv, NEW k \in Signer, NEW d \in PauseArgs,
         PauseSettlements(k, d)
  PROVE  ConfigInv'
<1>1. d \in Nat /\ cfg \in Config /\ now \in Nat /\ blocked \in Nat
  BY TimeAssumption DEF ConfigInv, ConfigTypeOK
<1>2. cfg' = [cfg EXCEPT !.paused = TRUE, !.pausedAt = now,
                         !.pausedUntil = now + d]
  BY DEF PauseSettlements
<1>0. cfg' \in Config
  <2> DEFINE until == now + d
  <2>1. until \in Nat
    BY <1>1
  <2>2. cfg' = [cfg EXCEPT !.paused = TRUE, !.pausedAt = now,
                           !.pausedUntil = until]
    BY <1>2
  <2> HIDE DEF until
  <2>3. QED
    BY <1>1, <2>1, <2>2 DEF Config
<1>3. /\ cfg'.admin = cfg.admin /\ cfg'.version = cfg.version
      /\ cfg'.settlementTimelock = cfg.settlementTimelock
      /\ AuthoritySet(cfg') = AuthoritySet(cfg)
      /\ cfg'.paused = TRUE /\ cfg'.pausedAt = now
      /\ cfg'.pausedUntil = now + d
  BY <1>1, <1>2 DEF Config, AuthoritySet
<1>4. UNCHANGED <<now, pending, lineage, blocked>>
  BY DEF PauseSettlements
<1>5. now > cfg.pausedUntil
  BY <1>1, TimeAssumption DEF PauseSettlements, PauseCooldownSatisfied, Config
<1>6. blocked = 0 /\ d <= MaxPause /\ d > 0
  BY <1>5 DEF ConfigInv, PauseInv, PauseSettlements
<1>7. PauseInv'
  BY <1>1, <1>3, <1>4, <1>6, TimeAssumption
     DEF PauseInv, PauseIsCapped, IsPausedNow
<1> QED
  BY <1>0, <1>3, <1>4, <1>7, TimingFieldsInv

LEMMA UnpauseActionInv ==
  ASSUME ConfigInv, NEW k \in Signer, UnpauseSettlements(k)
  PROVE  ConfigInv'
<1>1. cfg \in Config /\ now \in Nat /\ blocked \in Nat
  BY DEF ConfigInv, ConfigTypeOK
<1>2. cfg' = [cfg EXCEPT !.paused = FALSE, !.pausedAt = 0]
  BY DEF UnpauseSettlements
<1>3. /\ cfg' \in Config
      /\ cfg'.admin = cfg.admin /\ cfg'.version = cfg.version
      /\ cfg'.settlementTimelock = cfg.settlementTimelock
      /\ AuthoritySet(cfg') = AuthoritySet(cfg)
      /\ cfg'.paused = FALSE /\ cfg'.pausedUntil = cfg.pausedUntil
  BY <1>1, <1>2 DEF Config, AuthoritySet
<1>4. UNCHANGED <<now, pending, lineage, blocked>>
  BY DEF UnpauseSettlements
<1>5. PauseInv'
  BY <1>3, <1>4 DEF ConfigInv, PauseInv, PauseIsCapped, IsPausedNow
<1> QED
  BY <1>3, <1>4, <1>5, TimingFieldsInv

LEMMA TickInv ==
  ASSUME ConfigInv, Tick
  PROVE  ConfigInv'
<1>1. /\ now' = now + 1
      /\ blocked' = IF IsPausedNow THEN blocked + 1 ELSE 0
      /\ UNCHANGED <<cfg, pending, lineage>>
  BY DEF Tick
<1>2. cfg \in Config /\ now \in Nat /\ blocked \in Nat
  BY DEF ConfigInv, ConfigTypeOK
<1>3. PauseInv'
  BY <1>1, <1>2, TimeAssumption
     DEF ConfigInv, PauseInv, PauseIsCapped, IsPausedNow, Config
<1>4. ConfigTypeOK'
  BY <1>1, <1>2 DEF ConfigInv, ConfigTypeOK
<1>5. RolesSeparated' /\ PayoutTermsValid' /\ ConsentIsCurrentAndDistinct' /\ ReviewInv'
      /\ VersionNamesAuthorities'
  BY <1>1 DEF ConfigInv, RolesSeparated, PayoutTermsValid, SeparatedAuthorities, Roles,
              ConsentIsCurrentAndDistinct, ReviewInv, VersionNamesAuthorities,
              AuthoritySet
<1> QED
  BY <1>3, <1>4, <1>5 DEF ConfigInv

LEMMA ConfigNextInv == ConfigInv /\ [ConfigNext]_configVars => ConfigInv'
<1> SUFFICES ASSUME ConfigInv, [ConfigNext]_configVars PROVE ConfigInv'
  OBVIOUS
<1>1. CASE Governance
  BY <1>1, ProposeInv, AttestInv, EnactInv, CancelInv, UpdateTimingInv,
     PauseActionInv, UnpauseActionInv DEF Governance
<1>2. CASE Tick
  BY <1>2, TickInv
<1>3. CASE UNCHANGED configVars
  BY <1>3 DEF configVars, ConfigInv, ConfigTypeOK, RolesSeparated, PayoutTermsValid, Roles,
              SeparatedAuthorities, ConsentIsCurrentAndDistinct, ReviewInv,
              PauseInv, PauseIsCapped, IsPausedNow, VersionNamesAuthorities,
              AuthoritySet
<1> QED
  BY <1>1, <1>2, <1>3 DEF ConfigNext

\* The inductive invariant holds in every reachable state.
THEOREM ConfigInvariant == ConfigSpec => []ConfigInv
  BY ConfigInitInv, ConfigNextInv, PTL DEF ConfigSpec

\* The accounts keep their types (SlashConfig, PendingAuthorityRotation).
THEOREM ConfigTypeCorrect == ConfigSpec => []ConfigTypeOK
<1>1. ConfigInv => ConfigTypeOK
  BY DEF ConfigInv
<1> QED
  BY <1>1, ConfigInvariant, PTL

\* Admin and the three role keys stay four different keys through every
\* rotation (validate_authority_separation at init, propose and enact).
THEOREM RolesStaySeparated == ConfigSpec => []RolesSeparated
<1>1. ConfigInv => RolesSeparated
  BY DEF ConfigInv
<1> QED
  BY <1>1, ConfigInvariant, PTL

\* Attestations are distinct current role keys, at most three of them, so they
\* fit the slots PendingAuthorityRotation::SPACE reserves.
THEOREM ConsentIsSound == ConfigSpec => []ConsentIsCurrentAndDistinct
<1>1. ConfigInv => ConsentIsCurrentAndDistinct
  BY DEF ConfigInv
<1> QED
  BY <1>1, ConfigInvariant, PTL

\* No sequence of pauses, unpauses and rotations blocks settlement for longer
\* than MAX_PAUSE_SECONDS without a break.
THEOREM PauseStaysCapped == ConfigSpec => []PauseIsCapped
<1>1. ConfigInv => PauseIsCapped
  BY DEF ConfigInv, PauseInv
<1> QED
  BY <1>1, ConfigInvariant, PTL

\* slash_config_version identifies the authority set in force.
THEOREM VersionsNameAuthorities == ConfigSpec => []VersionNamesAuthorities
<1>1. ConfigInv => VersionNamesAuthorities
  BY DEF ConfigInv
<1> QED
  BY <1>1, ConfigInvariant, PTL

\* What changes the authorities had its review window and two consents.
LEMMA EnactIsReviewed ==
  ASSUME ConfigInv, EnactAuthorityRotation
  PROVE  ReviewedAndConsented
<1> USE KeyAssumption, TimeAssumption
<1> DEFINE att == pending.attestations
<1>1. /\ pending # NoProposal /\ now >= pending.enactAfter /\ Len(att) >= 2
  BY DEF EnactAuthorityRotation, IsEnactable, ConsensusThreshold
<1>2. /\ pending \in Proposal /\ att \in Seq(Pubkey) /\ now \in Nat
  BY <1>1 DEF ConfigInv, ConfigTypeOK, Proposal
<1>3. now >= pending.proposedAt + MinRotationTimelock
  BY <1>1, <1>2 DEF ConfigInv, ReviewInv, Proposal
<1>4. 1 \in 1..Len(att) /\ 2 \in 1..Len(att)
  BY <1>1, <1>2
<1>5. /\ att[1] \in Roles(cfg) /\ att[2] \in Roles(cfg) /\ att[1] # att[2]
  BY <1>1, <1>4 DEF ConfigInv, ConsentIsCurrentAndDistinct
<1>6. HasAttested(att[1]) /\ HasAttested(att[2])
  BY <1>4 DEF HasAttested
<1> QED
  BY <1>1, <1>3, <1>5, <1>6 DEF ReviewedAndConsented

\* Role keys, treasury and settlement timelock change only by an enactment that
\* was reviewed for the minimum window and consented to by two role keys.
THEOREM RotationIsReviewed == ConfigSpec => RotationNeedsReviewAndConsent
<1>1. ConfigInv /\ [ConfigNext]_configVars
        => [AuthoritiesChange => ReviewedAndConsented]_configVars
  <2> SUFFICES ASSUME ConfigInv, ConfigNext, AuthoritiesChange
               PROVE  ReviewedAndConsented
    OBVIOUS
  <2>0. cfg \in Config
    BY DEF ConfigInv, ConfigTypeOK
  <2>1. ASSUME NEW k \in Signer, NEW p \in TimingArgs,
               UpdateSettleTiming(k, p[1], p[2]) PROVE FALSE
    BY <2>0, <2>1 DEF UpdateSettleTiming, AuthoritiesChange, AuthoritySet, Config
  <2>2. ASSUME NEW k \in Signer, NEW d \in PauseArgs,
               PauseSettlements(k, d) PROVE FALSE
    BY <2>0, <2>2 DEF PauseSettlements, AuthoritiesChange, AuthoritySet, Config
  <2>3. ASSUME NEW k \in Signer, UnpauseSettlements(k) PROVE FALSE
    BY <2>0, <2>3 DEF UnpauseSettlements, AuthoritiesChange, AuthoritySet, Config
  <2>4. CASE EnactAuthorityRotation
    BY <2>4, EnactIsReviewed
  <2> QED
    BY <2>1, <2>2, <2>3, <2>4
       DEF ConfigNext, Governance, Tick, ProposeAuthorityRotation,
           AttestAuthorityRotation, CancelAuthorityRotation, AuthoritiesChange
<1> QED
  BY <1>1, ConfigInvariant, PTL DEF ConfigSpec, RotationNeedsReviewAndConsent

-----------------------------------------------------------------------------
\* The slashes.

LEMMA SlashInitInv == Init => SlashInv
<1> SUFFICES ASSUME Init PROVE SlashInv
  OBVIOUS
<1> USE SlashAssumption, KeyAssumption
<1>1. ConfigInv
  BY ConfigInitInv DEF Init
<1>2. NoVault \in Vault
  BY DEF NoVault, Vault
<1>3. NoSlash \in Slash
  BY DEF NoSlash, Slash, Status, Tier
<1>4. \A a \in Agent : vault[a] = NoVault /\ \A i \in Index : slash[a][i] = NoSlash
  BY DEF Init
<1>5. SlashTypeOK
  BY <1>2, <1>3 DEF Init, SlashTypeOK
<1>6. AbsentVaultIsEmpty /\ VaultSolvent /\ OneAppealInFlight /\ HistoryIsDense
  BY <1>4 DEF AbsentVaultIsEmpty, VaultSolvent, OneAppealInFlight, HistoryIsDense,
              NoVault, NoSlash, Index
<1>7. VersionIdentifiesExecutor /\ HearingInv
  BY <1>4 DEF VersionIdentifiesExecutor, StampMatchesLineage, HearingInv,
              HearingOK, NoSlash, Open
<1> QED
  BY <1>1, <1>5, <1>6, <1>7 DEF SlashInv

\* What governance and the clock leave of the vaults' invariant: the lineage
\* only grows and time only advances.
LEMMA ConfigStepSlashInv == SlashInv /\ ConfigStep => SlashInv'
<1> SUFFICES ASSUME SlashInv, ConfigStep PROVE SlashInv'
  OBVIOUS
<1>1. ConfigInv' /\ UNCHANGED slashVars
  BY ConfigNextInv DEF SlashInv, ConfigStep
<1>2. now \in Nat /\ now' \in Nat /\ lineage \in Seq(RoleSet)
  BY <1>1 DEF SlashInv, ConfigInv, ConfigTypeOK
<1>3. now' = now \/ now' = now + 1
  BY DEF ConfigStep, ConfigNext, Governance, Tick, ProposeAuthorityRotation,
         AttestAuthorityRotation, EnactAuthorityRotation, CancelAuthorityRotation,
         UpdateSettleTiming, PauseSettlements, UnpauseSettlements
<1>4. lineage' = lineage \/ \E r \in RoleSet : lineage' = Append(lineage, r)
  <2>1. CASE EnactAuthorityRotation
    <3>1. pending.new \in RotationRequest
      BY <2>1 DEF EnactAuthorityRotation, SlashInv, ConfigInv, ConfigTypeOK, Proposal
    <3>2. AuthoritySet(pending.new) \in RoleSet
      BY <3>1 DEF AuthoritySet, RoleSet, RotationRequest
    <3>3. QED
      BY <2>1, <3>2 DEF EnactAuthorityRotation
  <2>2. CASE ~ EnactAuthorityRotation
    BY <2>2 DEF ConfigStep, ConfigNext, Governance, Tick, ProposeAuthorityRotation,
         AttestAuthorityRotation, CancelAuthorityRotation,
         UpdateSettleTiming, PauseSettlements, UnpauseSettlements
  <2>3. QED
    BY <2>1, <2>2
<1>5. /\ Len(lineage') >= Len(lineage)
      /\ \A v \in 1..Len(lineage) : lineage'[v] = lineage[v]
  BY <1>2, <1>4
<1>6. SlashTypeOK' /\ AbsentVaultIsEmpty' /\ VaultSolvent' /\ OneAppealInFlight'
      /\ HistoryIsDense'
  BY <1>1 DEF slashVars, SlashInv, SlashTypeOK, AbsentVaultIsEmpty, VaultSolvent,
              OneAppealInFlight, HistoryIsDense
<1>7. VersionIdentifiesExecutor'
  <2> SUFFICES ASSUME NEW a \in Agent, NEW i \in Index
               PROVE  StampMatchesLineage(slash[a][i])'
    BY DEF VersionIdentifiesExecutor
  <2>1. StampMatchesLineage(slash[a][i]) /\ slash'[a][i] = slash[a][i]
    BY <1>1 DEF slashVars, SlashInv, VersionIdentifiesExecutor
  <2>2. Len(lineage) \in Nat /\ Len(lineage') \in Nat
    BY <1>1, <1>2 DEF ConfigInv, ConfigTypeOK
  <2>3. QED
    BY <1>5, <2>1, <2>2 DEF StampMatchesLineage
<1>8. HearingInv'
  <2> SUFFICES ASSUME NEW a \in Agent, NEW i \in Index
               PROVE  HearingOK(slash[a][i])'
    BY DEF HearingInv
  <2>1. HearingOK(slash[a][i]) /\ slash'[a][i] = slash[a][i]
    BY <1>1 DEF slashVars, SlashInv, HearingInv
  <2>2. slash[a][i].executedAt \in Nat /\ slash[a][i].appealedAt \in Nat /\ slash[a][i].deadline \in Nat
    BY DEF SlashInv, SlashTypeOK, Slash
  <2> DEFINE s == slash[a][i]
  <2>3. s' = s
    BY <2>1
  <2> HIDE DEF s
  <2>4. HearingOK(s)' = /\ s.status \in Open => s.executedAt <= now'
                        /\ s.status = "pending" => Unheard(s) \/ Upheld(s)'
                        /\ s.status = "appealed" => AppealedInTime(s)'
    BY <2>3 DEF HearingOK, Unheard
  <2>5. AppealedInTime(s) => AppealedInTime(s)'
    BY <1>2, <1>3, <2>2, <2>3 DEF AppealedInTime, s
  <2>6. Upheld(s) => Upheld(s)'
    BY <1>2, <1>3, <2>2, <2>3, <2>5 DEF Upheld, s
  <2>7. s.status \in Open /\ s.executedAt <= now => s.executedAt <= now'
    BY <1>2, <1>3, <2>2 DEF s
  <2>8. HearingOK(s)'
    BY <2>1, <2>4, <2>5, <2>6, <2>7 DEF HearingOK, s
  <2>9. QED
    BY <2>8 DEF s
<1> QED
  BY <1>1, <1>6, <1>7, <1>8 DEF SlashInv

-----------------------------------------------------------------------------
(* Every instruction but open_vault rewrites one vault and one record of   *)
(* it: w and t below.  The lemma reduces the invariant to what is claimed  *)
(* of these two.                                                           *)

LEMMA RecordStepInv ==
  ASSUME SlashInv, NEW a \in Agent, NEW i \in Index,
         NEW w \in Vault, NEW t \in Slash,
         UNCHANGED configVars,
         vault' = [vault EXCEPT ![a] = w],
         slash' = [slash EXCEPT ![a][i] = t],
         received' \in [Pubkey -> Nat],
         w.open, w.lamports = w.staked + w.encumbered,
         \/ /\ w.appeals = vault[a].appeals
            /\ t.status # "appealed" /\ slash[a][i].status # "appealed"
         \/ w.appeals = 1 /\ vault[a].appeals = 0 /\ t.status = "appealed"
         \/ /\ w.appeals = vault[a].appeals - 1
            /\ t.status # "appealed" /\ slash[a][i].status = "appealed",
         t.status # "none",
         \/ w.count = vault[a].count /\ slash[a][i].status # "none"
         \/ w.count = vault[a].count + 1 /\ i = vault[a].count,
         StampMatchesLineage(t), HearingOK(t)
  PROVE  SlashInv'
<1>1. /\ vault \in [Agent -> Vault] /\ slash \in [Agent -> [Index -> Slash]]
      /\ vault[a] \in Vault
  BY DEF SlashInv, SlashTypeOK
<1>2. /\ vault'[a] = w /\ slash'[a][i] = t
      /\ \A b \in Agent : b # a => vault'[b] = vault[b] /\ slash'[b] = slash[b]
      /\ \A b \in Agent, j \in Index :
           b # a \/ j # i => slash'[b][j] = slash[b][j]
  BY <1>1
<1>3. SlashTypeOK'
  BY <1>1 DEF SlashTypeOK
<1>4. ConfigInv'
  BY ConfigNextInv DEF SlashInv
<1>5. AbsentVaultIsEmpty' /\ VaultSolvent'
  BY <1>2 DEF SlashInv, AbsentVaultIsEmpty, VaultSolvent
<1>6. OneAppealInFlight'
  <2> SUFFICES ASSUME NEW b \in Agent
               PROVE /\ vault'[b].appeals \in {0, 1}
                     /\ \A j, k \in Index :
                          /\ slash'[b][j].status = "appealed"
                          /\ slash'[b][k].status = "appealed"
                          => j = k
                     /\ (vault'[b].appeals = 1) <=>
                          \E j \in Index : slash'[b][j].status = "appealed"
    BY DEF OneAppealInFlight
  <2>1. /\ vault[b].appeals \in {0, 1}
        /\ \A j, k \in Index :
             slash[b][j].status = "appealed" /\ slash[b][k].status = "appealed"
               => j = k
        /\ (vault[b].appeals = 1) <=>
             \E j \in Index : slash[b][j].status = "appealed"
    BY DEF SlashInv, OneAppealInFlight
  <2>2. CASE b # a
    BY <1>2, <2>1, <2>2
  <2>3. CASE b = a /\ t.status = "appealed"
    BY <1>2, <2>1, <2>3
  <2>4. CASE b = a /\ t.status # "appealed" /\ slash[a][i].status # "appealed"
    BY <1>2, <2>1, <2>4
  <2>5. CASE b = a /\ t.status # "appealed" /\ slash[a][i].status = "appealed"
    BY <1>2, <2>1, <2>5
  <2> QED
    BY <2>2, <2>3, <2>4, <2>5
<1>7. HistoryIsDense'
  <2> SUFFICES ASSUME NEW b \in Agent, NEW j \in Index
               PROVE  slash'[b][j].status # "none" <=> j < vault'[b].count
    BY DEF HistoryIsDense
  <2>1. /\ slash[b][j].status # "none" <=> j < vault[b].count
        /\ slash[a][i].status # "none" <=> i < vault[a].count
    BY DEF SlashInv, HistoryIsDense
  <2>2. vault[a].count \in Nat /\ i \in Nat /\ j \in Nat
    BY <1>1, SlashAssumption DEF Vault, Index
  <2>3. CASE b # a
    BY <1>2, <2>1, <2>3
  <2>4. CASE b = a /\ j = i
    BY <1>2, <2>1, <2>2, <2>4
  <2>5. CASE b = a /\ j # i
    BY <1>2, <2>1, <2>2, <2>5
  <2> QED
    BY <2>3, <2>4, <2>5
<1>8. VersionIdentifiesExecutor'
  BY <1>2 DEF SlashInv, VersionIdentifiesExecutor, StampMatchesLineage, configVars
<1>9. HearingInv'
  BY <1>2 DEF SlashInv, HearingInv, HearingOK, Unheard, AppealedInTime, Upheld,
              configVars
<1> QED
  BY <1>3, <1>4, <1>5, <1>6, <1>7, <1>8, <1>9 DEF SlashInv

\* compute_slash_amount never exceeds the stake it is taken from.
LEMMA SlashAmountBound ==
  ASSUME NEW stake \in Nat, NEW tier \in Tier
  PROVE  SlashAmount(stake, tier) \in Nat /\ SlashAmount(stake, tier) <= stake
<1>1. (stake * 500) \div 10000 \in Nat /\ (stake * 500) \div 10000 <= stake
  OBVIOUS
<1>2. (stake * 5000) \div 10000 \in Nat /\ (stake * 5000) \div 10000 <= stake
  OBVIOUS
<1> QED
  BY <1>1, <1>2 DEF SlashAmount, SlashBps, Tier

LEMMA OpenVaultInv ==
  ASSUME SlashInv, NEW a \in Agent, NEW stake \in StakeArgs, OpenVault(a, stake)
  PROVE  SlashInv'
<1> DEFINE w == [NoVault EXCEPT !.open = TRUE, !.active = TRUE,
                                !.staked = stake, !.lamports = stake]
<1>1. /\ vault' = [vault EXCEPT ![a] = w] /\ ~ vault[a].open
      /\ UNCHANGED <<configVars, slash, received>>
  BY DEF OpenVault
<1>2. /\ vault \in [Agent -> Vault] /\ vault[a] = NoVault
      /\ stake \in Nat
  BY <1>1, SlashAssumption DEF SlashInv, SlashTypeOK, AbsentVaultIsEmpty
<1>3. /\ w \in Vault /\ w.open /\ w.lamports = w.staked + w.encumbered
      /\ w.appeals = vault[a].appeals /\ w.count = vault[a].count
  <2>1. NoVault \in Vault /\ NoVault.encumbered = 0
    BY SlashAssumption DEF NoVault, Vault
  <2>2. /\ w \in Vault /\ w.open /\ w.lamports = stake /\ w.staked = stake
        /\ w.encumbered = NoVault.encumbered
        /\ w.appeals = NoVault.appeals /\ w.count = NoVault.count
    BY <1>2, <2>1 DEF Vault
  <2> QED
    BY <1>2, <2>1, <2>2
<1> HIDE DEF w
<1>4. \A b \in Agent : vault'[b] = IF b = a THEN w ELSE vault[b]
  BY <1>1, <1>2
<1>5. SlashTypeOK'
  BY <1>1, <1>2, <1>3 DEF SlashInv, SlashTypeOK
<1>6. ConfigInv'
  BY <1>1, ConfigNextInv DEF SlashInv
<1>7. AbsentVaultIsEmpty' /\ VaultSolvent'
  BY <1>3, <1>4 DEF SlashInv, AbsentVaultIsEmpty, VaultSolvent
<1>8. OneAppealInFlight'
  BY <1>1, <1>3, <1>4 DEF SlashInv, OneAppealInFlight
<1>9. HistoryIsDense'
  BY <1>1, <1>3, <1>4 DEF SlashInv, HistoryIsDense
<1>10. VersionIdentifiesExecutor'
  BY <1>1 DEF SlashInv, VersionIdentifiesExecutor, StampMatchesLineage, configVars
<1>11. HearingInv'
  BY <1>1 DEF SlashInv, HearingInv, HearingOK, Unheard, AppealedInTime, Upheld,
              configVars
<1> QED
  BY <1>5, <1>6, <1>7, <1>8, <1>9, <1>10, <1>11 DEF SlashInv

\* What every handler may assume of the accounts it loads.
LEMMA AccountTypes ==
  ASSUME SlashInv, NEW a \in Agent, NEW i \in Index
  PROVE  /\ vault[a] \in Vault /\ slash[a][i] \in Slash
         /\ cfg \in Config /\ now \in Nat
         /\ lineage \in Seq(RoleSet)
         /\ vault[a].lamports = vault[a].staked + vault[a].encumbered
         /\ vault[a].appeals \in {0, 1}
         /\ slash[a][i].status = "appealed" => vault[a].appeals = 1
         /\ slash[a][i].status # "none" <=> i < vault[a].count
         /\ StampMatchesLineage(slash[a][i])
         /\ HearingOK(slash[a][i])
<1>1. cfg \in Config /\ now \in Nat /\ lineage \in Seq(RoleSet)
  BY DEF SlashInv, ConfigInv, ConfigTypeOK
<1>2. vault[a] \in Vault /\ slash[a][i] \in Slash
  BY DEF SlashInv, SlashTypeOK
<1>3. /\ vault[a].lamports = vault[a].staked + vault[a].encumbered
      /\ StampMatchesLineage(slash[a][i])
      /\ HearingOK(slash[a][i])
  BY DEF SlashInv, VaultSolvent, VersionIdentifiesExecutor, HearingInv
<1>4. /\ vault[a].appeals \in {0, 1}
      /\ slash[a][i].status = "appealed" => vault[a].appeals = 1
  BY DEF SlashInv, OneAppealInFlight
<1>5. slash[a][i].status # "none" <=> i < vault[a].count
  BY DEF SlashInv, HistoryIsDense
<1> QED
  BY <1>1, <1>2, <1>3, <1>4, <1>5

LEMMA ExecuteSlashInv ==
  ASSUME SlashInv, NEW k \in Signer, NEW a \in Agent, NEW i \in Index,
         NEW tier \in Tier, NEW cert \in CertArgs,
         ExecuteSlash(k, a, i, tier, cert)
  PROVE  SlashInv'
<1> DEFINE amount == SlashAmount(vault[a].staked, tier)
           left == vault[a].staked - amount
           held == vault[a].encumbered + amount
           next == vault[a].count + 1
           due == now + AppealWindow
           w == [vault[a] EXCEPT !.staked = left, !.encumbered = held,
                                 !.count = next]
           t == [status |-> "pending", tier |-> tier, amount |-> amount,
                 treasury |-> IF tier = "compromise" THEN DefaultKey
                                                     ELSE cfg.treasury,
                 executor |-> k, executedAt |-> now,
                 deadline |-> due, appealedAt |-> 0,
                 unlockAt |-> 0, resolvedBy |-> DefaultKey,
                 version |-> cfg.version]
<1>0. vault' = [vault EXCEPT ![a] = w]
  BY DEF ExecuteSlash
<1>1. /\ slash' = [slash EXCEPT ![a][i] = t]
      /\ UNCHANGED configVars /\ received' = received
      /\ vault[a].open /\ k = cfg.executor
      /\ i = vault[a].count /\ slash[a][i].status = "none"
  BY DEF ExecuteSlash, FreeIndex, Live
<1>2. /\ vault[a] \in Vault /\ cfg \in Config /\ now \in Nat
      /\ vault[a].lamports = vault[a].staked + vault[a].encumbered
      /\ lineage \in Seq(RoleSet)
  BY AccountTypes
<1>3. vault[a].staked \in Nat /\ vault[a].encumbered \in Nat
  BY <1>2 DEF Vault
<1>4. amount \in Nat /\ amount <= vault[a].staked
  BY <1>3, SlashAmountBound
<1>5. left \in Nat /\ held \in Nat /\ left + held = vault[a].lamports
  <2> HIDE DEF amount
  <2> QED BY <1>2, <1>3, <1>4
<1>6. next \in 0..MaxSlashes /\ due \in Nat
  <2>1. i \in 0..(MaxSlashes - 1) /\ next = i + 1
    BY <1>1 DEF Index
  <2>2. next \in 0..MaxSlashes
    <3> HIDE DEF next
    <3> QED BY <2>1, SlashAssumption
  <2>3. due \in Nat
    BY <1>2, SlashAssumption
  <2> QED
    BY <2>2, <2>3
<1>7. t \in Slash
  <2> HIDE DEF amount, due
  <2>1. k \in Pubkey /\ DefaultKey \in Pubkey /\ cfg.treasury \in Pubkey
        /\ cfg.version \in Nat
    BY <1>2, KeyAssumption DEF Config, Signer
  <2> QED
    BY <1>2, <1>4, <1>6, <2>1 DEF Slash, Status
<1>8. StampMatchesLineage(t)
  <2> HIDE DEF amount, due
  <2>1. /\ cfg.version \in 1..Len(lineage)
        /\ lineage[cfg.version] = AuthoritySet(cfg)
    BY TimeAssumption DEF SlashInv, ConfigInv, VersionNamesAuthorities
  <2> QED
    BY <1>1, <2>1 DEF StampMatchesLineage, AuthoritySet
<1>9. HearingOK(t)
  <2> HIDE DEF amount
  <2> QED BY <1>2, SlashAssumption DEF HearingOK, Unheard, Open
<1>10. /\ w.open = vault[a].open /\ w.lamports = vault[a].lamports /\ w.staked = left
       /\ w.encumbered = held /\ w.appeals = vault[a].appeals /\ w.count = next
  <2> HIDE DEF left, held, next
  <2> QED BY <1>1, <1>2 DEF Vault
<1>11. w \in Vault
  <2> HIDE DEF left, held, next
  <2> QED BY <1>2, <1>5, <1>6 DEF Vault
<1>12. received' \in [Pubkey -> Nat]
  BY <1>1 DEF SlashInv, SlashTypeOK
<1>13. t.status = "pending"
  OBVIOUS
<1>14. w.lamports = w.staked + w.encumbered
  BY <1>5, <1>10
<1> HIDE DEF w, t, amount, left, held, due
<1> QED
  BY <1>0, <1>1, <1>7, <1>8, <1>9, <1>10, <1>11, <1>12, <1>13, <1>14,
     RecordStepInv

LEMMA AppealSlashInv ==
  ASSUME SlashInv, NEW a \in Agent, NEW i \in Index, AppealSlash(a, i)
  PROVE  SlashInv'
<1> DEFINE filed == vault[a].appeals + 1
           w == [vault[a] EXCEPT !.lastAppealAt = now, !.appeals = filed]
           t == [slash[a][i] EXCEPT !.status = "appealed", !.appealedAt = now]
<1>1. /\ vault' = [vault EXCEPT ![a] = w] /\ slash' = [slash EXCEPT ![a][i] = t]
      /\ UNCHANGED configVars /\ received' = received
      /\ vault[a].open /\ slash[a][i].status = "pending"
      /\ now < slash[a][i].deadline /\ vault[a].appeals < MaxAppeals
  BY DEF AppealSlash, Live
<1>2. /\ vault[a] \in Vault /\ slash[a][i] \in Slash /\ now \in Nat
      /\ vault[a].lamports = vault[a].staked + vault[a].encumbered
      /\ vault[a].appeals \in {0, 1}
      /\ StampMatchesLineage(slash[a][i]) /\ HearingOK(slash[a][i])
  BY AccountTypes
<1>3. vault[a].appeals = 0 /\ filed = 1
  BY <1>1, <1>2, SlashAssumption
<1>4. /\ w \in Vault /\ w.open = vault[a].open /\ w.lamports = vault[a].lamports
      /\ w.staked = vault[a].staked /\ w.encumbered = vault[a].encumbered
      /\ w.appeals = filed /\ w.count = vault[a].count
  <2> HIDE DEF filed
  <2> QED BY <1>2, <1>3 DEF Vault
<1>5. /\ t \in Slash /\ t.status = "appealed" /\ t.appealedAt = now
      /\ t.executedAt = slash[a][i].executedAt
      /\ t.tier = slash[a][i].tier /\ t.version = slash[a][i].version
      /\ t.executor = slash[a][i].executor /\ t.treasury = slash[a][i].treasury
  BY <1>2 DEF Slash, Status
<1> HIDE DEF w, t
<1>6. StampMatchesLineage(t)
  BY <1>1, <1>2, <1>5 DEF StampMatchesLineage
\* An upheld record's deadline has passed: only an unheard one reaches here.
<1>7. HearingOK(t)
  BY <1>1, <1>2, <1>5, SlashAssumption
     DEF HearingOK, Unheard, Upheld, AppealedInTime, Open, Slash
<1>8. received' \in [Pubkey -> Nat]
  BY <1>1 DEF SlashInv, SlashTypeOK
<1> QED
  BY <1>1, <1>2, <1>3, <1>4, <1>5, <1>6, <1>7, <1>8, RecordStepInv

LEMMA UpholdSlashInv ==
  ASSUME SlashInv, NEW k \in Signer, NEW a \in Agent, NEW i \in Index,
         UpholdSlash(k, a, i)
  PROVE  SlashInv'
<1> DEFINE left == vault[a].appeals - 1
           unlock == now + cfg.settlementTimelock
           w == [vault[a] EXCEPT !.appeals = left]
           t == [slash[a][i] EXCEPT !.status = "pending", !.deadline = now,
                                    !.unlockAt = unlock, !.resolvedBy = k]
<1>1. /\ vault' = [vault EXCEPT ![a] = w] /\ slash' = [slash EXCEPT ![a][i] = t]
      /\ UNCHANGED configVars /\ received' = received
      /\ vault[a].open /\ slash[a][i].status = "appealed"
      /\ k # slash[a][i].executor
  BY DEF UpholdSlash, CanResolve, Live
<1>2. /\ vault[a] \in Vault /\ slash[a][i] \in Slash /\ now \in Nat
      /\ cfg \in Config
      /\ vault[a].lamports = vault[a].staked + vault[a].encumbered
      /\ vault[a].appeals = 1
      /\ StampMatchesLineage(slash[a][i]) /\ HearingOK(slash[a][i])
  BY <1>1, AccountTypes
<1>3. /\ left = 0 /\ k \in Pubkey /\ k # DefaultKey
      /\ cfg.settlementTimelock \in Nat
      /\ cfg.settlementTimelock >= MinSettlementTimelock
      /\ unlock \in Nat
  BY <1>2 DEF Signer, Config, SlashInv, ConfigInv, PayoutTermsValid
<1>4. /\ w \in Vault /\ w.open = vault[a].open /\ w.lamports = vault[a].lamports
      /\ w.staked = vault[a].staked /\ w.encumbered = vault[a].encumbered
      /\ w.appeals = left /\ w.count = vault[a].count
  <2> HIDE DEF left
  <2> QED BY <1>2, <1>3 DEF Vault
<1>5. /\ t \in Slash /\ t.status = "pending" /\ t.deadline = now
      /\ t.unlockAt = unlock /\ t.resolvedBy = k
      /\ t.executedAt = slash[a][i].executedAt
      /\ t.appealedAt = slash[a][i].appealedAt
      /\ t.tier = slash[a][i].tier /\ t.version = slash[a][i].version
      /\ t.executor = slash[a][i].executor /\ t.treasury = slash[a][i].treasury
  <2> HIDE DEF unlock
  <2> QED BY <1>2, <1>3 DEF Slash, Status
<1> HIDE DEF w, t
<1>6. StampMatchesLineage(t)
  BY <1>1, <1>2, <1>5 DEF StampMatchesLineage
<1>7. HearingOK(t)
  <2>1. AppealedInTime(slash[a][i]) /\ slash[a][i].executedAt <= now
    BY <1>1, <1>2 DEF HearingOK, Open
  <2>2. AppealedInTime(t) /\ t.executedAt <= now
    BY <1>5, <2>1 DEF AppealedInTime
  <2>3. slash[a][i].appealedAt \in Nat /\ MinSettlementTimelock \in Nat
    BY <1>2, TimeAssumption DEF Slash
  <2>4. Upheld(t)
    BY <1>1, <1>2, <1>3, <1>5, <2>2, <2>3 DEF Upheld, AppealedInTime
  <2> QED
    BY <1>5, <2>2, <2>4 DEF HearingOK
<1>8. received' \in [Pubkey -> Nat]
  BY <1>1 DEF SlashInv, SlashTypeOK
<1> QED
  BY <1>1, <1>2, <1>3, <1>4, <1>5, <1>6, <1>7, <1>8, RecordStepInv

LEMMA OverturnSlashInv ==
  ASSUME SlashInv, NEW k \in Signer, NEW a \in Agent, NEW i \in Index,
         OverturnSlash(k, a, i)
  PROVE  SlashInv'
<1> DEFINE amount == slash[a][i].amount
           held == vault[a].encumbered - amount
           free == vault[a].staked + amount
           left == vault[a].appeals - 1
           w == [vault[a] EXCEPT !.encumbered = held, !.staked = free,
                                 !.appeals = left]
           t == [slash[a][i] EXCEPT !.status = "overturned", !.resolvedBy = k,
                                    !.unlockAt = 0]
<1>1. /\ vault' = [vault EXCEPT ![a] = w] /\ slash' = [slash EXCEPT ![a][i] = t]
      /\ UNCHANGED configVars /\ received' = received
      /\ vault[a].open /\ slash[a][i].status = "appealed"
      /\ vault[a].encumbered >= amount
  BY DEF OverturnSlash, Release, CanResolve, Live
<1>2. /\ vault[a] \in Vault /\ slash[a][i] \in Slash
      /\ vault[a].lamports = vault[a].staked + vault[a].encumbered
      /\ vault[a].appeals = 1 /\ StampMatchesLineage(slash[a][i])
  BY <1>1, AccountTypes
<1>3. /\ left = 0 /\ k \in Pubkey /\ amount \in Nat
      /\ vault[a].staked \in Nat /\ vault[a].encumbered \in Nat
  BY <1>2 DEF Signer, Vault, Slash
<1>4. held \in Nat /\ free \in Nat /\ vault[a].lamports = free + held
  <2> HIDE DEF amount
  <2> QED BY <1>1, <1>2, <1>3
<1>5. /\ w \in Vault /\ w.open = vault[a].open /\ w.lamports = vault[a].lamports
      /\ w.staked = free /\ w.encumbered = held
      /\ w.appeals = left /\ w.count = vault[a].count
  <2> HIDE DEF left, free, held
  <2> QED BY <1>2, <1>3, <1>4 DEF Vault
<1>6. /\ t \in Slash /\ t.status = "overturned"
      /\ t.tier = slash[a][i].tier /\ t.version = slash[a][i].version
      /\ t.executor = slash[a][i].executor /\ t.treasury = slash[a][i].treasury
  BY <1>2, <1>3 DEF Slash, Status
<1> HIDE DEF w, t
<1>7. StampMatchesLineage(t) /\ HearingOK(t)
  BY <1>1, <1>2, <1>6 DEF StampMatchesLineage, HearingOK, Open
<1>8. received' \in [Pubkey -> Nat]
  BY <1>1 DEF SlashInv, SlashTypeOK
<1>9. w.lamports = w.staked + w.encumbered
  BY <1>4, <1>5
<1> QED
  BY <1>1, <1>2, <1>3, <1>5, <1>6, <1>7, <1>8, <1>9, RecordStepInv

LEMMA SettleSlashInv ==
  ASSUME SlashInv, NEW k \in Signer, NEW a \in Agent, NEW i \in Index,
         SettleSlash(k, a, i)
  PROVE  SlashInv'
<1> DEFINE amount == slash[a][i].amount
           rest == vault[a].lamports - amount
           held == vault[a].encumbered - amount
           taken == vault[a].slashed + amount
           live == slash[a][i].tier # "compromise"
           w == [vault[a] EXCEPT !.lamports = rest, !.encumbered = held,
                                 !.slashed = taken, !.active = live]
           t == [slash[a][i] EXCEPT !.status = "settled"]
           dest == Destination(slash[a][i])
           balance == received[dest] + amount
<1>1. /\ vault' = [vault EXCEPT ![a] = w] /\ slash' = [slash EXCEPT ![a][i] = t]
      /\ UNCHANGED configVars /\ received' = [received EXCEPT ![dest] = balance]
      /\ vault[a].open /\ slash[a][i].status = "pending"
      /\ vault[a].encumbered >= amount /\ vault[a].lamports >= amount
  BY DEF SettleSlash, CanSettle, Debit, Live
<1>2. /\ vault[a] \in Vault /\ slash[a][i] \in Slash
      /\ vault[a].lamports = vault[a].staked + vault[a].encumbered
      /\ StampMatchesLineage(slash[a][i])
      /\ received \in [Pubkey -> Nat]
  BY AccountTypes DEF SlashInv, SlashTypeOK
<1>3. /\ amount \in Nat /\ vault[a].lamports \in Nat /\ vault[a].staked \in Nat
      /\ vault[a].encumbered \in Nat /\ vault[a].slashed \in Nat
      /\ dest \in Pubkey
  BY <1>2, SlashAssumption DEF Vault, Slash, Destination
<1>4. /\ rest \in Nat /\ held \in Nat /\ taken \in Nat
      /\ rest = vault[a].staked + held
  <2> HIDE DEF amount
  <2> QED BY <1>1, <1>2, <1>3
<1>5. /\ w \in Vault /\ w.open = vault[a].open /\ w.lamports = rest
      /\ w.staked = vault[a].staked /\ w.encumbered = held
      /\ w.appeals = vault[a].appeals /\ w.count = vault[a].count
  <2> live \in BOOLEAN
    OBVIOUS
  <2> HIDE DEF rest, held, taken, live
  <2> QED BY <1>2, <1>4 DEF Vault
<1>6. /\ t \in Slash /\ t.status = "settled"
      /\ t.tier = slash[a][i].tier /\ t.version = slash[a][i].version
      /\ t.executor = slash[a][i].executor /\ t.treasury = slash[a][i].treasury
  BY <1>2 DEF Slash, Status
<1> HIDE DEF w, t
<1>7. StampMatchesLineage(t) /\ HearingOK(t)
  BY <1>1, <1>2, <1>6 DEF StampMatchesLineage, HearingOK, Open
<1>8. received' \in [Pubkey -> Nat]
  <2>1. received[dest] \in Nat
    BY <1>2, <1>3
  <2>2. balance \in Nat
    BY <1>3, <2>1
  <2> HIDE DEF dest, balance
  <2> QED BY <1>1, <1>2, <2>2
<1>9. w.lamports = w.staked + w.encumbered
  BY <1>4, <1>5
<1> QED
  BY <1>1, <1>5, <1>6, <1>7, <1>8, <1>9, RecordStepInv

LEMMA SlashNextInv == SlashInv /\ [Next]_vars => SlashInv'
<1> SUFFICES ASSUME SlashInv, [Next]_vars PROVE SlashInv'
  OBVIOUS
<1>1. CASE ConfigStep
  BY <1>1, ConfigStepSlashInv
<1>2. ASSUME NEW a \in Agent, SlashStep(a) PROVE SlashInv'
  BY <1>2, OpenVaultInv, ExecuteSlashInv, AppealSlashInv, UpholdSlashInv,
     OverturnSlashInv, SettleSlashInv DEF SlashStep
<1>3. CASE UNCHANGED vars
  <2>1. UNCHANGED <<configVars, vault, slash, received>>
    BY <1>3 DEF vars, slashVars
  <2>2. ConfigInv'
    BY <2>1, ConfigNextInv DEF SlashInv
  <2>3. SlashTypeOK' /\ AbsentVaultIsEmpty' /\ VaultSolvent'
        /\ OneAppealInFlight' /\ HistoryIsDense'
    BY <2>1 DEF SlashInv, SlashTypeOK, AbsentVaultIsEmpty, VaultSolvent,
                OneAppealInFlight, HistoryIsDense
  <2>4. VersionIdentifiesExecutor' /\ HearingInv'
    BY <2>1 DEF SlashInv, VersionIdentifiesExecutor, StampMatchesLineage,
                HearingInv, HearingOK, Unheard, Upheld, AppealedInTime,
                configVars
  <2> QED
    BY <2>2, <2>3, <2>4 DEF SlashInv
<1> QED
  BY <1>1, <1>2, <1>3 DEF Next

-----------------------------------------------------------------------------
\* The inductive invariant holds in every reachable state of the program.
THEOREM SlashInvariant == Spec => []SlashInv
  BY SlashInitInv, SlashNextInv, PTL DEF Spec

\* The accounts keep their types: no balance goes negative, slash_count never
\* passes the number of records (EscrowVault, SlashRecord).
THEOREM SlashTypeCorrect == Spec => []SlashTypeOK
<1>1. SlashInv => SlashTypeOK
  BY DEF SlashInv
<1> QED
  BY <1>1, SlashInvariant, PTL

\* staked and encumbered always add up to the lamports held: the checked_sub
\* of settle_slash and the release of resolve_appeal cannot find them missing.
THEOREM VaultStaysSolvent == Spec => []VaultSolvent
<1>1. SlashInv => VaultSolvent
  BY DEF SlashInv
<1> QED
  BY <1>1, SlashInvariant, PTL

\* appeals_in_flight is exactly the number of appealed records, at most one.
THEOREM OnlyOneAppealInFlight == Spec => []OneAppealInFlight
<1>1. SlashInv => OneAppealInFlight
  BY DEF SlashInv
<1> QED
  BY <1>1, SlashInvariant, PTL

\* The slash records of a vault are numbered without gaps.
THEOREM HistoryStaysDense == Spec => []HistoryIsDense
<1>1. SlashInv => HistoryIsDense
  BY DEF SlashInv
<1> QED
  BY <1>1, SlashInvariant, PTL

\* A record's version stamp names its executor and treasury through rotations.
THEOREM StampsIdentifyExecutors == Spec => []VersionIdentifiesExecutor
<1>1. SlashInv => VersionIdentifiesExecutor
  BY DEF SlashInv
<1> QED
  BY <1>1, SlashInvariant, PTL

-----------------------------------------------------------------------------
(* Action properties.                                                      *)

\* What one step does to one agent's vault and records.
LEMMA StepFrame ==
  ASSUME SlashInv, Next, NEW a \in Agent
  PROVE  \/ vault'[a] = vault[a] /\ slash'[a] = slash[a]
         \/ SlashStep(a)
<1>1. vault \in [Agent -> Vault] /\ slash \in [Agent -> [Index -> Slash]]
  BY DEF SlashInv, SlashTypeOK
<1>2. CASE ConfigStep
  BY <1>2 DEF ConfigStep, slashVars
<1>3. ASSUME NEW b \in Agent, SlashStep(b), b # a
      PROVE  vault'[a] = vault[a] /\ slash'[a] = slash[a]
  <2>1. ASSUME NEW stake \in StakeArgs, OpenVault(b, stake)
        PROVE  vault'[a] = vault[a] /\ slash'[a] = slash[a]
    BY <1>1, <1>3, <2>1 DEF OpenVault
  <2>2. ASSUME NEW i \in Index, NEW k \in Signer, NEW tier \in Tier,
               NEW cert \in CertArgs, ExecuteSlash(k, b, i, tier, cert)
        PROVE  vault'[a] = vault[a] /\ slash'[a] = slash[a]
    BY <1>1, <1>3, <2>2 DEF ExecuteSlash
  <2>3. ASSUME NEW i \in Index, AppealSlash(b, i)
        PROVE  vault'[a] = vault[a] /\ slash'[a] = slash[a]
    BY <1>1, <1>3, <2>3 DEF AppealSlash
  <2>4. ASSUME NEW i \in Index, NEW k \in Signer, UpholdSlash(k, b, i)
        PROVE  vault'[a] = vault[a] /\ slash'[a] = slash[a]
    BY <1>1, <1>3, <2>4 DEF UpholdSlash
  <2>5. ASSUME NEW i \in Index, NEW k \in Signer, OverturnSlash(k, b, i)
        PROVE  vault'[a] = vault[a] /\ slash'[a] = slash[a]
    BY <1>1, <1>3, <2>5 DEF OverturnSlash
  <2>6. ASSUME NEW i \in Index, NEW k \in Signer, SettleSlash(k, b, i)
        PROVE  vault'[a] = vault[a] /\ slash'[a] = slash[a]
    BY <1>1, <1>3, <2>6 DEF SettleSlash
  <2> QED
    BY <1>3, <2>1, <2>2, <2>3, <2>4, <2>5, <2>6 DEF SlashStep
<1> QED
  BY <1>2, <1>3 DEF Next

\* Every instruction on an existing vault requires it to be active.
LEMMA SlashStepNeedsLive ==
  ASSUME NEW a \in Agent, SlashStep(a)
  PROVE  ~ vault[a].open \/ vault[a].active
  BY DEF SlashStep, OpenVault, ExecuteSlash, AppealSlash, UpholdSlash,
         OverturnSlash, CanResolve, SettleSlash, CanSettle, Live

\* A settled compromise freezes its vault: nothing moves or changes any more.
THEOREM TerminalVaultsFreeze == Spec => TerminalVaultFrozen
<1>1. SlashInv /\ [Next]_vars => [TerminalKept]_vars
  BY StepFrame, SlashStepNeedsLive DEF TerminalKept
<1> QED
  BY <1>1, SlashInvariant, PTL DEF Spec, TerminalVaultFrozen

\* Only settle_slash settles, and only a record of its own arguments.
LEMMA OnlySettleSettles ==
  ASSUME SlashInv, Next, NEW a \in Agent, NEW i \in Index, Settles(a, i)
  PROVE  \E k \in Signer : SettleSlash(k, a, i)
<1>1. /\ slash \in [Agent -> [Index -> Slash]]
      /\ SlashStep(a)
  BY StepFrame DEF SlashInv, SlashTypeOK, Settles
<1>2. ASSUME NEW stake \in StakeArgs, OpenVault(a, stake) PROVE FALSE
  BY <1>2 DEF OpenVault, Settles
<1>3. ASSUME NEW j \in Index, NEW k \in Signer, NEW tier \in Tier,
             NEW cert \in CertArgs, ExecuteSlash(k, a, j, tier, cert)
      PROVE  FALSE
  BY <1>1, <1>3 DEF ExecuteSlash, Settles
<1>4. ASSUME NEW j \in Index, AppealSlash(a, j) PROVE FALSE
  BY <1>1, <1>4 DEF AppealSlash, Settles, Slash
<1>5. ASSUME NEW j \in Index, NEW k \in Signer, UpholdSlash(k, a, j)
      PROVE  FALSE
  BY <1>1, <1>5 DEF UpholdSlash, Settles, Slash
<1>6. ASSUME NEW j \in Index, NEW k \in Signer, OverturnSlash(k, a, j)
      PROVE  FALSE
  BY <1>1, <1>6 DEF OverturnSlash, Settles, Slash
<1>7. ASSUME NEW j \in Index, NEW k \in Signer, SettleSlash(k, a, j)
      PROVE  j = i
  BY <1>1, <1>7 DEF SettleSlash, Settles, Slash
<1> QED
  BY <1>1, <1>2, <1>3, <1>4, <1>5, <1>6, <1>7 DEF SlashStep

\* Funds leave a vault only after a full unappealed window, or after an appeal
\* was upheld by somebody else and its settlement timelock went by.
THEOREM SettlementHasDueProcess == Spec => DueProcess
<1>1. SlashInv /\ [Next]_vars => [HeardWhenSettled]_vars
  <2> SUFFICES ASSUME SlashInv, Next, NEW a \in Agent, NEW i \in Index,
                      Settles(a, i)
               PROVE  HeardBeforeSettlement(slash[a][i])
    BY DEF HeardWhenSettled
  <2> DEFINE s == slash[a][i]
  <2>1. /\ s.status = "pending"
        /\ s.unlockAt = 0 \/ now >= s.unlockAt
        /\ now >= s.deadline + EffectiveGrace
    BY OnlySettleSettles DEF SettleSlash, CanSettle, SettleTimingOK
  <2>2. /\ s \in Slash /\ HearingOK(s) /\ now \in Nat
    BY AccountTypes
  <2>3. Unheard(s) \/ Upheld(s)
    BY <2>1, <2>2 DEF HearingOK
  <2> QED
    BY <2>1, <2>2, <2>3, TimeAssumption
       DEF Unheard, Upheld, AppealedInTime, HeardBeforeSettlement, Slash
<1> QED
  BY <1>1, SlashInvariant, PTL DEF Spec, DueProcess

-----------------------------------------------------------------------------
(* The program implements the abstract escrow ledger.                      *)

LEMMA LedgerInitRefined == Init => Ledger!LedgerInit
<1> SUFFICES ASSUME Init PROVE Ledger!LedgerInit
  OBVIOUS
<1> USE KeyAssumption
<1>1. ClaimOf(NoSlash) = Ledger!NoClaim(DefaultKey)
  <2>1. /\ NoSlash.status = "none" /\ NoSlash.amount = 0
        /\ Destination(NoSlash) = DefaultKey
    BY DEF NoSlash, Destination
  <2> QED
    BY <2>1 DEF ClaimOf, Ledger!NoClaim, Open
<1>2. AccountOf(NoVault) = "absent" /\ NoVault.staked = 0
  BY DEF AccountOf, NoVault
<1> QED
  BY <1>1, <1>2 DEF Init, Ledger!LedgerInit, LedgerAccount, LedgerFree, LedgerClaim

\* Two functions that agree but at one point differ by an EXCEPT.
LEMMA UpdateAt ==
  ASSUME NEW S, NEW f, NEW g, NEW x \in S, NEW v,
         f = [y \in S |-> f[y]], g = [y \in S |-> g[y]],
         \A y \in S : g[y] = IF y = x THEN v ELSE f[y]
  PROVE  g = [f EXCEPT ![x] = v]
<1>1. g = [y \in S |-> IF y = x THEN v ELSE f[y]]
  OBVIOUS
<1>2. [f EXCEPT ![x] = v] = [y \in S |-> IF y = x THEN v ELSE f[y]]
  OBVIOUS
<1> QED
  BY <1>1, <1>2

\* An update of one vault and one record, seen in the ledger.
LEMMA LedgerFrame ==
  ASSUME SlashInv, NEW a \in Agent, NEW i \in Index,
         vault' = [vault EXCEPT ![a] = vault'[a]],
         slash' = [slash EXCEPT ![a][i] = slash'[a][i]]
  PROVE  /\ LedgerAccount' = [LedgerAccount EXCEPT ![a] = AccountOf(vault'[a])]
         /\ LedgerFree' = [LedgerFree EXCEPT ![a] = vault'[a].staked]
         /\ LedgerClaim' = [LedgerClaim EXCEPT ![a][i] = ClaimOf(slash'[a][i])]
         /\ LedgerClaim'[a][i] = ClaimOf(slash'[a][i])
<1>1. /\ \A b \in Agent : vault'[b] = IF b = a THEN vault'[a] ELSE vault[b]
      /\ \A b \in Agent, j \in Index :
           slash'[b][j] = IF b = a /\ j = i THEN slash'[a][i] ELSE slash[b][j]
  BY DEF SlashInv, SlashTypeOK
<1>2. /\ LedgerAccount = [b \in Agent |-> LedgerAccount[b]]
      /\ LedgerAccount' = [b \in Agent |-> LedgerAccount'[b]]
      /\ LedgerFree = [b \in Agent |-> LedgerFree[b]]
      /\ LedgerFree' = [b \in Agent |-> LedgerFree'[b]]
      /\ LedgerClaim = [b \in Agent |-> LedgerClaim[b]]
      /\ LedgerClaim' = [b \in Agent |-> LedgerClaim'[b]]
      /\ \A b \in Agent :
           /\ LedgerClaim[b] = [j \in Index |-> LedgerClaim[b][j]]
           /\ LedgerClaim'[b] = [j \in Index |-> LedgerClaim'[b][j]]
  BY DEF LedgerAccount, LedgerFree, LedgerClaim
<1>3. \A b \in Agent :
        LedgerAccount'[b] = IF b = a THEN AccountOf(vault'[a]) ELSE LedgerAccount[b]
  BY <1>1 DEF LedgerAccount
<1>4. \A b \in Agent :
        LedgerFree'[b] = IF b = a THEN vault'[a].staked ELSE LedgerFree[b]
  BY <1>1 DEF LedgerFree
<1>5. \A b \in Agent, j \in Index :
        LedgerClaim'[b][j] =
          IF b = a /\ j = i THEN ClaimOf(slash'[a][i]) ELSE LedgerClaim[b][j]
  BY <1>1 DEF LedgerClaim
<1>6. LedgerClaim'[a] = [LedgerClaim[a] EXCEPT ![i] = ClaimOf(slash'[a][i])]
  BY <1>2, <1>5, UpdateAt
<1>7. \A b \in Agent : b # a => LedgerClaim'[b] = LedgerClaim[b]
  <2> SUFFICES ASSUME NEW b \in Agent, b # a
               PROVE  LedgerClaim'[b] = LedgerClaim[b]
    OBVIOUS
  <2>1. \A j \in Index : LedgerClaim'[b][j] = LedgerClaim[b][j]
    BY <1>5
  <2> QED
    BY <1>2, <2>1
<1>8. LedgerAccount' = [LedgerAccount EXCEPT ![a] = AccountOf(vault'[a])]
  BY <1>2, <1>3, UpdateAt
<1>9. LedgerFree' = [LedgerFree EXCEPT ![a] = vault'[a].staked]
  BY <1>2, <1>4, UpdateAt
<1>10. LedgerClaim' =
         [LedgerClaim EXCEPT ![a] =
            [LedgerClaim[a] EXCEPT ![i] = ClaimOf(slash'[a][i])]]
  BY <1>2, <1>6, <1>7, UpdateAt
<1> QED
  BY <1>5, <1>8, <1>9, <1>10

LEMMA LedgerView ==
  ASSUME NEW a \in Agent, NEW i \in Index
  PROVE  /\ LedgerAccount[a] = AccountOf(vault[a])
         /\ LedgerFree[a] = vault[a].staked
         /\ LedgerClaim[a][i] = ClaimOf(slash[a][i])
         /\ LedgerAccount \in [Agent -> {"absent", "open", "closed"}]
  BY DEF LedgerAccount, LedgerFree, LedgerClaim, AccountOf

LEMMA OpenVaultRefined ==
  ASSUME SlashInv, NEW a \in Agent, NEW stake \in StakeArgs, OpenVault(a, stake)
  PROVE  Ledger!Deposit(a)
<1> DEFINE w == [NoVault EXCEPT !.open = TRUE, !.active = TRUE,
                                !.staked = stake, !.lamports = stake]
<1>1. /\ vault' = [vault EXCEPT ![a] = w] /\ ~ vault[a].open
      /\ UNCHANGED <<slash, received>>
      /\ vault \in [Agent -> Vault]
  BY DEF OpenVault, SlashInv, SlashTypeOK
<1>2. w.open /\ w.active /\ w.staked = stake /\ stake \in Nat
  <2>1. NoVault \in Vault
    BY SlashAssumption DEF NoVault, Vault
  <2> QED BY <2>1, SlashAssumption DEF Vault
<1> HIDE DEF w
<1>3. \A b \in Agent : vault'[b] = IF b = a THEN w ELSE vault[b]
  BY <1>1
<1>4. AccountOf(w) = "open" /\ LedgerAccount[a] = "absent"
  BY <1>1, <1>2 DEF AccountOf, LedgerAccount
<1>5. LedgerAccount' = [LedgerAccount EXCEPT ![a] = "open"]
  BY <1>3, <1>4 DEF LedgerAccount
<1>6. LedgerFree' = [LedgerFree EXCEPT ![a] = stake] /\ LedgerFree'[a] = stake
  BY <1>2, <1>3 DEF LedgerFree
<1>7. LedgerClaim' = LedgerClaim
  BY <1>1 DEF LedgerClaim
<1> QED
  BY <1>1, <1>2, <1>4, <1>5, <1>6, <1>7 DEF Ledger!Deposit

LEMMA ExecuteSlashRefined ==
  ASSUME SlashInv, NEW k \in Signer, NEW a \in Agent, NEW i \in Index,
         NEW tier \in Tier, NEW cert \in CertArgs,
         ExecuteSlash(k, a, i, tier, cert)
  PROVE  Ledger!Hold(a, i)
<1> DEFINE amount == SlashAmount(vault[a].staked, tier)
           left == vault[a].staked - amount
           held == vault[a].encumbered + amount
           next == vault[a].count + 1
           w == [vault[a] EXCEPT !.staked = left, !.encumbered = held,
                                 !.count = next]
           t == [status |-> "pending", tier |-> tier, amount |-> amount,
                 treasury |-> IF tier = "compromise" THEN DefaultKey
                                                     ELSE cfg.treasury,
                 executor |-> k, executedAt |-> now,
                 deadline |-> now + AppealWindow, appealedAt |-> 0,
                 unlockAt |-> 0, resolvedBy |-> DefaultKey,
                 version |-> cfg.version]
<1>0. vault' = [vault EXCEPT ![a] = w]
  BY DEF ExecuteSlash
<1>1. /\ slash' = [slash EXCEPT ![a][i] = t] /\ received' = received
      /\ vault[a].open /\ vault[a].active /\ slash[a][i].status = "none"
  BY DEF ExecuteSlash, FreeIndex, Live
<1>2. vault[a] \in Vault /\ cfg \in Config
  BY AccountTypes
<1>3. vault[a].staked \in Nat /\ amount \in 0..vault[a].staked
  <2>1. vault[a].staked \in Nat
    BY <1>2 DEF Vault
  <2> QED BY <2>1, SlashAmountBound
<1>4. /\ w.open /\ w.active /\ w.staked = left
  <2> HIDE DEF left, held, next
  <2> QED BY <1>1, <1>2 DEF Vault
<1>5. /\ ClaimOf(t).state = "held" /\ ClaimOf(t).amount = amount
      /\ ClaimOf(t).payee \in Pubkey
  <2>1. t.status = "pending" /\ t.amount = amount /\ t.treasury \in Pubkey
    BY <1>2, KeyAssumption DEF Config
  <2>2. Destination(t) \in Pubkey
    <3> HIDE DEF t
    <3> QED BY <2>1, SlashAssumption DEF Destination
  <2> HIDE DEF t
  <2> QED BY <2>1, <2>2 DEF ClaimOf, Open
<1>6. ClaimOf(slash[a][i]).state = "none"
  BY <1>1 DEF ClaimOf, Open
<1>7. w.staked = vault[a].staked - ClaimOf(t).amount
  BY <1>4, <1>5
<1>8. AccountOf(w) = "open" /\ AccountOf(vault[a]) = "open"
  BY <1>1, <1>4 DEF AccountOf
<1> HIDE DEF amount, left, held, next, w, t
<1>f. vault'[a] = w /\ slash'[a][i] = t
  BY <1>0, <1>1 DEF SlashInv, SlashTypeOK
<1>9. /\ LedgerAccount' = [LedgerAccount EXCEPT ![a] = AccountOf(w)]
      /\ LedgerFree' = [LedgerFree EXCEPT ![a] = w.staked]
      /\ LedgerClaim' = [LedgerClaim EXCEPT ![a][i] = ClaimOf(t)]
      /\ LedgerClaim'[a][i] = ClaimOf(t)
  <2>1. /\ vault' = [vault EXCEPT ![a] = vault'[a]]
        /\ slash' = [slash EXCEPT ![a][i] = slash'[a][i]]
    BY <1>0, <1>1, <1>f
  <2>2. /\ LedgerAccount' = [LedgerAccount EXCEPT ![a] = AccountOf(vault'[a])]
        /\ LedgerFree' = [LedgerFree EXCEPT ![a] = vault'[a].staked]
        /\ LedgerClaim' = [LedgerClaim EXCEPT ![a][i] = ClaimOf(slash'[a][i])]
        /\ LedgerClaim'[a][i] = ClaimOf(slash'[a][i])
    BY <2>1, LedgerFrame
  <2> QED
    BY <1>f, <2>2
<1>10. LedgerAccount' = LedgerAccount
  BY <1>8, <1>9, LedgerView
<1> QED
  BY <1>1, <1>3, <1>5, <1>6, <1>7, <1>8, <1>9, <1>10, LedgerView
     DEF Ledger!Hold

\* A step the ledger does not see.
LEMMA LedgerSame ==
  ASSUME \A a \in Agent : /\ AccountOf(vault'[a]) = AccountOf(vault[a])
                          /\ vault'[a].staked = vault[a].staked
                          /\ \A i \in Index : ClaimOf(slash'[a][i]) = ClaimOf(slash[a][i])
  PROVE  UNCHANGED <<LedgerAccount, LedgerFree, LedgerClaim>>
<1>1. LedgerAccount' = LedgerAccount
  BY DEF LedgerAccount
<1>2. LedgerFree' = LedgerFree
  BY DEF LedgerFree
<1>3. LedgerClaim' = LedgerClaim
  BY DEF LedgerClaim
<1> QED
  BY <1>1, <1>2, <1>3

\* Appealing and upholding keep the claim held.
LEMMA HearingStutters ==
  ASSUME SlashInv, NEW a \in Agent, NEW i \in Index,
         vault' = [vault EXCEPT ![a] = vault'[a]],
         slash' = [slash EXCEPT ![a][i] = slash'[a][i]],
         slash[a][i].status \in Open, slash'[a][i].status \in Open,
         slash'[a][i].amount = slash[a][i].amount,
         slash'[a][i].tier = slash[a][i].tier,
         slash'[a][i].treasury = slash[a][i].treasury,
         vault'[a].open = vault[a].open, vault'[a].active = vault[a].active,
         vault'[a].staked = vault[a].staked
  PROVE  UNCHANGED <<LedgerAccount, LedgerFree, LedgerClaim>>
<1>1. ClaimOf(slash'[a][i]) = ClaimOf(slash[a][i])
  BY DEF ClaimOf, Destination, Open
<1>2. AccountOf(vault'[a]) = AccountOf(vault[a])
  BY DEF AccountOf
<1>3. \A b \in Agent, j \in Index :
        b # a \/ j # i => slash'[b][j] = slash[b][j]
  BY DEF SlashInv, SlashTypeOK
<1>4. \A b \in Agent : b # a => vault'[b] = vault[b]
  BY DEF SlashInv, SlashTypeOK
<1> QED
  BY <1>1, <1>2, <1>3, <1>4, LedgerSame

LEMMA AppealSlashStutters ==
  ASSUME SlashInv, NEW a \in Agent, NEW i \in Index, AppealSlash(a, i)
  PROVE  UNCHANGED <<LedgerAccount, LedgerFree, LedgerClaim, received>>
<1>1. /\ vault[a] \in Vault /\ slash[a][i] \in Slash
      /\ vault \in [Agent -> Vault] /\ slash \in [Agent -> [Index -> Slash]]
  BY DEF SlashInv, SlashTypeOK
<1>2. /\ slash' = [slash EXCEPT ![a][i] = slash'[a][i]]
      /\ slash[a][i].status \in Open /\ slash'[a][i].status \in Open
      /\ slash'[a][i].amount = slash[a][i].amount
      /\ slash'[a][i].tier = slash[a][i].tier
      /\ slash'[a][i].treasury = slash[a][i].treasury
  BY <1>1 DEF AppealSlash, Slash, Open
<1>3. /\ vault' = [vault EXCEPT ![a] = vault'[a]]
      /\ vault'[a].open = vault[a].open /\ vault'[a].active = vault[a].active
      /\ vault'[a].staked = vault[a].staked
  BY <1>1 DEF AppealSlash, Vault
<1> QED
  BY <1>2, <1>3, HearingStutters DEF AppealSlash

LEMMA UpholdSlashStutters ==
  ASSUME SlashInv, NEW k \in Signer, NEW a \in Agent, NEW i \in Index,
         UpholdSlash(k, a, i)
  PROVE  UNCHANGED <<LedgerAccount, LedgerFree, LedgerClaim, received>>
<1>1. /\ vault[a] \in Vault /\ slash[a][i] \in Slash
      /\ vault \in [Agent -> Vault] /\ slash \in [Agent -> [Index -> Slash]]
  BY DEF SlashInv, SlashTypeOK
<1>2. /\ slash' = [slash EXCEPT ![a][i] = slash'[a][i]]
      /\ slash[a][i].status \in Open /\ slash'[a][i].status \in Open
      /\ slash'[a][i].amount = slash[a][i].amount
      /\ slash'[a][i].tier = slash[a][i].tier
      /\ slash'[a][i].treasury = slash[a][i].treasury
  BY <1>1 DEF UpholdSlash, CanResolve, Slash, Open
<1>3. /\ vault' = [vault EXCEPT ![a] = vault'[a]]
      /\ vault'[a].open = vault[a].open /\ vault'[a].active = vault[a].active
      /\ vault'[a].staked = vault[a].staked
  BY <1>1 DEF UpholdSlash, Vault
<1> QED
  BY <1>2, <1>3, HearingStutters DEF UpholdSlash

LEMMA OverturnSlashRefined ==
  ASSUME SlashInv, NEW k \in Signer, NEW a \in Agent, NEW i \in Index,
         OverturnSlash(k, a, i)
  PROVE  Ledger!Return(a, i)
<1>1. /\ vault[a] \in Vault /\ slash[a][i] \in Slash
      /\ vault \in [Agent -> Vault] /\ slash \in [Agent -> [Index -> Slash]]
  BY DEF SlashInv, SlashTypeOK
<1>2. /\ vault[a].open /\ vault[a].active /\ slash[a][i].status = "appealed"
      /\ received' = received
      /\ vault' = [vault EXCEPT ![a] = vault'[a]]
      /\ slash' = [slash EXCEPT ![a][i] = slash'[a][i]]
  BY <1>1 DEF OverturnSlash, Release, CanResolve, Live
<1>3. /\ vault'[a].open /\ vault'[a].active
      /\ vault'[a].staked = vault[a].staked + slash[a][i].amount
  BY <1>1, <1>2 DEF OverturnSlash, Release, Vault
<1>4. /\ slash'[a][i].status = "overturned"
      /\ slash'[a][i].amount = slash[a][i].amount
      /\ slash'[a][i].tier = slash[a][i].tier
      /\ slash'[a][i].treasury = slash[a][i].treasury
  BY <1>1 DEF OverturnSlash, Slash
<1>5. /\ LedgerAccount' = [LedgerAccount EXCEPT ![a] = AccountOf(vault'[a])]
      /\ LedgerFree' = [LedgerFree EXCEPT ![a] = vault'[a].staked]
      /\ LedgerClaim' = [LedgerClaim EXCEPT ![a][i] = ClaimOf(slash'[a][i])]
  BY <1>2, LedgerFrame
<1>6. AccountOf(vault[a]) = "open" /\ AccountOf(vault'[a]) = "open"
  BY <1>2, <1>3 DEF AccountOf
<1>7. LedgerAccount' = LedgerAccount
  BY <1>5, <1>6, LedgerView
<1>8. ClaimOf(slash[a][i]).state = "held"
      /\ ClaimOf(slash[a][i]).amount = slash[a][i].amount
  BY <1>2 DEF ClaimOf, Open
<1>9. ClaimOf(slash'[a][i]) = [ClaimOf(slash[a][i]) EXCEPT !.state = "returned"]
  BY <1>2, <1>4 DEF ClaimOf, Destination, Open
<1>10. LedgerClaim' =
         [LedgerClaim EXCEPT ![a][i] = [LedgerClaim[a][i] EXCEPT !.state = "returned"]]
  BY <1>5, <1>9, LedgerView
<1>11. LedgerFree' = [LedgerFree EXCEPT ![a] = LedgerFree[a] + LedgerClaim[a][i].amount]
  BY <1>3, <1>5, <1>8, LedgerView
<1>12. LedgerAccount[a] = "open" /\ LedgerClaim[a][i].state = "held"
  BY <1>6, <1>8, LedgerView
<1> QED
  BY <1>2, <1>7, <1>10, <1>11, <1>12 DEF Ledger!Return

LEMMA SettleSlashRefined ==
  ASSUME SlashInv, NEW k \in Signer, NEW a \in Agent, NEW i \in Index,
         SettleSlash(k, a, i)
  PROVE  Ledger!Pay(a, i)
<1>1. /\ vault[a] \in Vault /\ slash[a][i] \in Slash
      /\ vault \in [Agent -> Vault] /\ slash \in [Agent -> [Index -> Slash]]
  BY DEF SlashInv, SlashTypeOK
<1>2. /\ vault[a].open /\ vault[a].active /\ slash[a][i].status = "pending"
      /\ vault' = [vault EXCEPT ![a] = vault'[a]]
      /\ slash' = [slash EXCEPT ![a][i] = slash'[a][i]]
      /\ received' = [received EXCEPT ![Destination(slash[a][i])] =
                        @ + slash[a][i].amount]
  BY <1>1 DEF SettleSlash, CanSettle, Debit, Live
<1>3. vault'[a].open /\ vault'[a].staked = vault[a].staked
  BY <1>1, <1>2 DEF SettleSlash, Debit, Vault
<1>4. /\ slash'[a][i].status = "settled"
      /\ slash'[a][i].amount = slash[a][i].amount
      /\ slash'[a][i].tier = slash[a][i].tier
      /\ slash'[a][i].treasury = slash[a][i].treasury
  BY <1>1 DEF SettleSlash, Slash
<1>5. /\ LedgerAccount' = [LedgerAccount EXCEPT ![a] = AccountOf(vault'[a])]
      /\ LedgerFree' = [LedgerFree EXCEPT ![a] = vault'[a].staked]
      /\ LedgerClaim' = [LedgerClaim EXCEPT ![a][i] = ClaimOf(slash'[a][i])]
  BY <1>2, LedgerFrame
<1>6. AccountOf(vault[a]) = "open" /\ AccountOf(vault'[a]) \in {"open", "closed"}
  BY <1>2, <1>3 DEF AccountOf
<1>7. LedgerAccount' \in {LedgerAccount, [LedgerAccount EXCEPT ![a] = "closed"]}
  <2>1. CASE AccountOf(vault'[a]) = "open"
    BY <1>5, <1>6, <2>1, LedgerView
  <2>2. CASE AccountOf(vault'[a]) = "closed"
    BY <1>5, <2>2
  <2> QED
    BY <1>6, <2>1, <2>2
<1>8. LedgerFree' = LedgerFree
  <2>1. LedgerFree = [b \in Agent |-> LedgerFree[b]]
    BY DEF LedgerFree
  <2> QED
    BY <1>3, <1>5, <2>1, LedgerView
<1>9. /\ ClaimOf(slash[a][i]).state = "held"
      /\ ClaimOf(slash[a][i]).amount = slash[a][i].amount
      /\ ClaimOf(slash[a][i]).payee = Destination(slash[a][i])
  BY <1>2 DEF ClaimOf, Open
<1>10. ClaimOf(slash'[a][i]) = [ClaimOf(slash[a][i]) EXCEPT !.state = "paid"]
  BY <1>2, <1>4 DEF ClaimOf, Destination, Open
<1>11. LedgerClaim' =
         [LedgerClaim EXCEPT ![a][i] = [LedgerClaim[a][i] EXCEPT !.state = "paid"]]
  BY <1>5, <1>10, LedgerView
<1>12. received' = [received EXCEPT ![LedgerClaim[a][i].payee] =
                      @ + LedgerClaim[a][i].amount]
  BY <1>2, <1>9, LedgerView
<1>13. LedgerAccount[a] = "open" /\ LedgerClaim[a][i].state = "held"
  BY <1>6, <1>9, LedgerView
<1> QED
  BY <1>7, <1>8, <1>11, <1>12, <1>13 DEF Ledger!Pay

\* The program's escrow is the abstract one: whatever the instructions, roles
\* and clock do, stake is only deposited, held, returned whole or paid whole
\* once to the payee of its execution, and a closed account stays closed.
THEOREM EscrowImplementsLedger == Spec => ImplementsLedger
<1>1. SlashInv /\ [Next]_vars => [Ledger!LedgerNext]_(Ledger!ledgerVars)
  <2> SUFFICES ASSUME SlashInv, [Next]_vars
               PROVE  [Ledger!LedgerNext]_(Ledger!ledgerVars)
    OBVIOUS
  <2>1. ASSUME vault' = vault, slash' = slash, received' = received
        PROVE  UNCHANGED Ledger!ledgerVars
    BY <2>1 DEF Ledger!ledgerVars, LedgerAccount, LedgerFree, LedgerClaim
  <2>2. CASE ConfigStep
    BY <2>1, <2>2 DEF ConfigStep, slashVars
  <2>3. ASSUME NEW a \in Agent, SlashStep(a)
        PROVE  [Ledger!LedgerNext]_(Ledger!ledgerVars)
    <3>1. ASSUME NEW stake \in StakeArgs, OpenVault(a, stake)
          PROVE  Ledger!LedgerNext
      BY <3>1, OpenVaultRefined DEF Ledger!LedgerNext
    <3>2. ASSUME NEW i \in Index, NEW k \in Signer, NEW tier \in Tier,
                 NEW cert \in CertArgs, ExecuteSlash(k, a, i, tier, cert)
          PROVE  Ledger!LedgerNext
      BY <3>2, ExecuteSlashRefined DEF Ledger!LedgerNext
    <3>3. ASSUME NEW i \in Index, AppealSlash(a, i)
          PROVE  UNCHANGED Ledger!ledgerVars
      BY <3>3, AppealSlashStutters DEF Ledger!ledgerVars
    <3>4. ASSUME NEW i \in Index, NEW k \in Signer, UpholdSlash(k, a, i)
          PROVE  UNCHANGED Ledger!ledgerVars
      BY <3>4, UpholdSlashStutters DEF Ledger!ledgerVars
    <3>5. ASSUME NEW i \in Index, NEW k \in Signer, OverturnSlash(k, a, i)
          PROVE  Ledger!LedgerNext
      BY <3>5, OverturnSlashRefined DEF Ledger!LedgerNext
    <3>6. ASSUME NEW i \in Index, NEW k \in Signer, SettleSlash(k, a, i)
          PROVE  Ledger!LedgerNext
      BY <3>6, SettleSlashRefined DEF Ledger!LedgerNext
    <3> QED
      BY <2>3, <3>1, <3>2, <3>3, <3>4, <3>5, <3>6 DEF SlashStep
  <2>4. CASE UNCHANGED vars
    BY <2>1, <2>4 DEF vars, slashVars
  <2> QED
    BY <2>2, <2>3, <2>4 DEF Next
<1> QED
  BY <1>1, LedgerInitRefined, SlashInvariant, PTL
     DEF Spec, ImplementsLedger, Ledger!LedgerSpec
=============================================================================
