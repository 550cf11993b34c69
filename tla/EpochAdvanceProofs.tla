-------------------------- MODULE EpochAdvanceProofs --------------------------
(***************************************************************************)
(* What holds of the cluster and of its epoch for any keys, any candidate  *)
(* clusters, any delays and any duration.                                  *)
(***************************************************************************)
EXTENDS EpochAdvance, FiniteSetTheorems, TLAPS

\* floor(n / 2) + 1 is a strict majority of n.
LEMMA Majority ==
  ASSUME NEW keys, Len(keys) \in Nat, NEW n \in Nat, n >= ConsensusThreshold(keys)
  PROVE  2 * n > Len(keys)
<1> DEFINE size == Len(keys)
           half == size \div 2
<1>1. n >= half + 1
  BY DEF ConsensusThreshold
<1>2. size \in Nat
  OBVIOUS
<1> HIDE DEF size
<1>3. half \in Int /\ size < 2 * half + 2
  BY <1>2
<1> HIDE DEF half
<1>4. 2 * n > size
  BY <1>1, <1>2, <1>3
<1> QED
  BY <1>4 DEF size

LEMMA InitCluster == ClusterInit => ClusterInv
<1> SUFFICES ASSUME ClusterInit
             PROVE  ClusterInv
  OBVIOUS
<1>1. PICK admin \in AdminArgs, keys \in ClusterArgs, c \in ConfidenceArgs :
        /\ ValidCluster(keys, c)
        /\ config = [authority |-> admin, node |-> keys[1], keys |-> keys,
                     confidence |-> c]
  BY DEF ClusterInit
<1>2. /\ admin \in Pubkey /\ keys \in Seq(Pubkey) /\ c \in 0..MaxConfidence
      /\ Len(keys) > 0
  BY <1>1, OracleAssumption DEF ValidCluster, ValidSize, MaxConfidence
<1>3. keys[1] \in Pubkey
  BY <1>2
<1>4. config \in OracleConfig
  BY <1>1, <1>2, <1>3 DEF OracleConfig
<1>5. chainTime \in Nat /\ rotation = NoRotation
  BY OracleAssumption DEF ClusterInit
<1>6. ClusterIsSound
  BY <1>1 DEF ClusterIsSound, ValidCluster
<1> QED
  BY <1>4, <1>5, <1>6 DEF ClusterInv, ClusterTypeOK, ConsentIsCurrent, ReviewInv

LEMMA ProposeRotationInv ==
  ASSUME ClusterInv, NEW k \in Pubkey, NEW keys \in ClusterArgs,
         NEW c \in ConfidenceArgs, NEW t \in TimelockArgs,
         ProposeOracleKeyRotation(k, keys, c, t)
  PROVE  ClusterInv'
<1> DEFINE first == IF IsMember(k) THEN <<k>> ELSE <<>>
           due == chainTime + t
<1>1. /\ rotation' = [proposer |-> k, keys |-> keys, confidence |-> c,
                      enactAfter |-> due, proposedAt |-> chainTime,
                      attestations |-> first]
      /\ chainTime' = chainTime /\ config' = config
      /\ ValidCluster(keys, c) /\ t >= MinTimelock
  BY DEF ProposeOracleKeyRotation
<1>2. /\ keys \in Seq(Pubkey) /\ c \in 0..MaxConfidence /\ t \in Nat /\ MinTimelock \in Nat
  BY <1>1, OracleAssumption DEF ValidCluster, MaxConfidence
<1>3. chainTime \in Nat /\ config \in OracleConfig
  BY DEF ClusterInv, ClusterTypeOK
<1>4. due \in Nat /\ due >= chainTime + MinTimelock
  BY <1>1, <1>2, <1>3
<1>5. first \in Seq(Pubkey) /\ Distinct(first)
      /\ \A i \in 1..Len(first) : IsMember(first[i])
  BY DEF Distinct
<1> HIDE DEF first, due
<1>6. rotation' \in PendingOracleRotation
  BY <1>1, <1>2, <1>3, <1>4, <1>5 DEF PendingOracleRotation
<1>7. rotation'.attestations = first /\ rotation'.enactAfter = due
      /\ rotation'.proposedAt = chainTime
  BY <1>1
<1>8. ClusterTypeOK'
  BY <1>1, <1>3, <1>6 DEF ClusterTypeOK
<1>9. ClusterIsSound'
  BY <1>1 DEF ClusterInv, ClusterIsSound
<1>10. ConsentIsCurrent'
  BY <1>1, <1>5, <1>7 DEF ConsentIsCurrent, IsMember
<1>11. ReviewInv'
  BY <1>4, <1>7 DEF ReviewInv
<1> QED
  BY <1>8, <1>9, <1>10, <1>11 DEF ClusterInv

LEMMA AttestRotationInv ==
  ASSUME ClusterInv, NEW k \in Pubkey, AttestOracleKeyRotation(k)
  PROVE  ClusterInv'
<1> DEFINE old == rotation.attestations
           new == Append(old, k)
<1>1. /\ rotation # NoRotation /\ IsMember(k) /\ ~ Occurs(k, old)
      /\ rotation' = [rotation EXCEPT !.attestations = new]
      /\ chainTime' = chainTime /\ config' = config
  BY DEF AttestOracleKeyRotation, HasAttestation
<1>2. rotation \in PendingOracleRotation
  BY <1>1 DEF ClusterInv, ClusterTypeOK
<1>3. old \in Seq(Pubkey)
  BY <1>2 DEF PendingOracleRotation
<1>4. Distinct(old) /\ \A i \in 1..Len(old) : IsMember(old[i])
  BY <1>1 DEF ClusterInv, ConsentIsCurrent
<1>5. new \in Seq(Pubkey) /\ Len(new) = Len(old) + 1 /\ Len(old) \in Nat
      /\ new[Len(old) + 1] = k /\ \A i \in 1..Len(old) : new[i] = old[i]
  BY <1>3
<1>6. Distinct(new) /\ \A i \in 1..Len(new) : IsMember(new[i])
  <2> HIDE DEF old, new
  <2>1. ASSUME NEW i \in 1..Len(new) PROVE i \in 1..Len(old) \/ i = Len(old) + 1
    BY <1>5
  <2>2. \A i \in 1..Len(old) : old[i] # k
    BY <1>1 DEF Occurs
  <2> QED
    BY <1>1, <1>4, <1>5, <2>1, <2>2 DEF Distinct
<1> HIDE DEF old, new
<1>7. rotation' \in PendingOracleRotation
  BY <1>1, <1>2, <1>5 DEF PendingOracleRotation
<1>8. rotation'.attestations = new /\ rotation'.enactAfter = rotation.enactAfter
      /\ rotation'.proposedAt = rotation.proposedAt
  BY <1>1, <1>2 DEF PendingOracleRotation
<1>9. ClusterTypeOK' /\ ClusterIsSound'
  BY <1>1, <1>7 DEF ClusterInv, ClusterTypeOK, ClusterIsSound
<1>10. ConsentIsCurrent'
  BY <1>1, <1>6, <1>8 DEF ConsentIsCurrent, IsMember
<1>11. ReviewInv'
  BY <1>1, <1>8 DEF ClusterInv, ReviewInv
<1> QED
  BY <1>9, <1>10, <1>11 DEF ClusterInv

LEMMA EnactRotationInv ==
  ASSUME ClusterInv, EnactOracleKeyRotation
  PROVE  ClusterInv'
<1> DEFINE keys == rotation.keys
           c == rotation.confidence
           primary == keys[1]
<1>1. /\ rotation # NoRotation /\ ValidCluster(keys, c)
      /\ config' = [config EXCEPT !.keys = keys, !.node = primary, !.confidence = c]
      /\ rotation' = NoRotation /\ chainTime' = chainTime
  BY DEF EnactOracleKeyRotation
<1>2. rotation \in PendingOracleRotation /\ config \in OracleConfig
  BY <1>1 DEF ClusterInv, ClusterTypeOK
<1>3. keys \in Seq(Pubkey) /\ c \in 0..MaxConfidence
  BY <1>2 DEF PendingOracleRotation
<1>4. primary \in Pubkey
  BY <1>1, <1>3 DEF ValidCluster, ValidSize
<1> HIDE DEF c, primary
<1>5. config' \in OracleConfig /\ config'.keys = keys /\ config'.node = primary
  <2> HIDE DEF keys
  <2> QED
    BY <1>1, <1>2, <1>3, <1>4 DEF OracleConfig
<1>6. ClusterTypeOK'
  BY <1>1, <1>5 DEF ClusterInv, ClusterTypeOK
<1>7. ClusterIsSound'
  BY <1>1, <1>5 DEF ClusterIsSound, ValidCluster, primary
<1> QED
  BY <1>1, <1>6, <1>7 DEF ClusterInv, ConsentIsCurrent, ReviewInv

LEMMA CancelRotationInv ==
  ASSUME ClusterInv, NEW k \in Pubkey, CancelOracleKeyRotation(k)
  PROVE  ClusterInv'
BY DEF ClusterInv, CancelOracleKeyRotation, ClusterTypeOK, ClusterIsSound,
       ConsentIsCurrent, ReviewInv

LEMMA TickClusterInv ==
  ASSUME ClusterInv, ChainTick
  PROVE  ClusterInv'
BY DEF ClusterInv, ChainTick, ClusterTypeOK, ClusterIsSound, ConsentIsCurrent,
       ReviewInv, IsMember

LEMMA KeepClusterInv ==
  ASSUME ClusterInv, UNCHANGED clusterVars
  PROVE  ClusterInv'
BY DEF ClusterInv, clusterVars, ClusterTypeOK, ClusterIsSound, ConsentIsCurrent,
       ReviewInv, IsMember

\* No instruction of the rotation breaks the cluster.
LEMMA RotateClusterInv ==
  ASSUME ClusterInv, Rotate
  PROVE  ClusterInv' /\ chainTime' = chainTime
<1>1. CASE \E k \in Pubkey, keys \in ClusterArgs, c \in ConfidenceArgs,
             t \in TimelockArgs : ProposeOracleKeyRotation(k, keys, c, t)
  BY <1>1, ProposeRotationInv DEF ProposeOracleKeyRotation
<1>2. CASE \E k \in Pubkey : AttestOracleKeyRotation(k)
  BY <1>2, AttestRotationInv DEF AttestOracleKeyRotation
<1>3. CASE EnactOracleKeyRotation
  BY <1>3, EnactRotationInv DEF EnactOracleKeyRotation
<1>4. CASE \E k \in Pubkey : CancelOracleKeyRotation(k)
  BY <1>4, CancelRotationInv DEF CancelOracleKeyRotation
<1> QED
  BY <1>1, <1>2, <1>3, <1>4 DEF Rotate

-----------------------------------------------------------------------------
\* The signers counted for an advance are keys of the cluster, so their
\* number is one: a tally is finite.
LEMMA TallyIsCounted ==
  ASSUME config \in OracleConfig, NEW bundle
  PROVE  Cardinality(Tally(bundle)) \in Nat
<1> DEFINE keys == config.keys
           listed == {keys[i] : i \in 1..Len(keys)}
           place == [i \in 1..Len(keys) |-> keys[i]]
<1>1. keys \in Seq(Pubkey) /\ Len(keys) \in Nat
  BY DEF OracleConfig
<1>2. IsFiniteSet(1..Len(keys))
  BY <1>1, FS_Interval
<1>3. place \in Surjection(1..Len(keys), listed)
  <2>1. place \in [1..Len(keys) -> listed]
    OBVIOUS
  <2>2. \A x \in listed : \E i \in 1..Len(keys) : place[i] = x
    OBVIOUS
  <2> QED
    BY <2>1, <2>2 DEF Surjection
<1>4. IsFiniteSet(listed)
  BY <1>2, <1>3, FS_Surjection
<1>5. Tally(bundle) \subseteq listed
  BY DEF Tally, IsMember, Occurs
<1> HIDE DEF listed
<1> QED
  BY <1>4, <1>5, FS_Subset, FS_CardinalityType

LEMMA InitEpoch == OracleInit => EpochInv
<1> SUFFICES ASSUME OracleInit
             PROVE  EpochInv
  OBVIOUS
<1>1. ClusterInv
  BY InitCluster DEF OracleInit
<1>2. chainTime \in Nat /\ config \in OracleConfig /\ config.node \in Pubkey
      /\ config.keys \in Seq(Pubkey)
  BY <1>1 DEF ClusterInv, ClusterTypeOK, OracleConfig
<1>3. /\ epochState = [current |-> 1, lastAdvanced |-> chainTime, authority |-> config.node,
                  target |-> 0, proposedAt |-> 0, count |-> 0,
                  byFallback |-> FALSE]
      /\ signed = {}
      /\ staged = [by |-> config.node, cluster |-> config.keys, backers |-> {}]
  BY DEF OracleInit, EpochInit
<1>4. epochState \in EpochState
  BY <1>2, <1>3 DEF EpochState
<1>5. epochState.target = 0 /\ epochState.lastAdvanced = chainTime
  BY <1>3
<1>6. OracleTypeOK
  BY <1>1, <1>2, <1>3, <1>4 DEF OracleTypeOK, ClusterInv
<1> QED
  BY <1>1, <1>2, <1>5, <1>6
     DEF EpochInv, LastAdvanceIsPast, AdvanceIsAuthorised, HasPendingAdvance

\* A step of the cluster alone: time may pass, the advance stays as it was.
LEMMA KeepEpochInv ==
  ASSUME EpochInv, ClusterInv', UNCHANGED epochVars, chainTime' >= chainTime
  PROVE  EpochInv'
<1>1. OracleTypeOK'
  BY DEF EpochInv, epochVars, OracleTypeOK, ClusterInv
<1>2. chainTime \in Nat /\ chainTime' \in Nat /\ epochState \in EpochState
  BY DEF EpochInv, ClusterInv, ClusterTypeOK, OracleTypeOK
<1>3. epochState.lastAdvanced \in Nat /\ epochState.proposedAt \in Nat
  BY <1>2 DEF EpochState
<1>4. LastAdvanceIsPast'
  BY <1>2, <1>3 DEF EpochInv, epochVars, LastAdvanceIsPast
<1>5. AdvanceIsAuthorised'
  BY <1>2, <1>3 DEF EpochInv, epochVars, AdvanceIsAuthorised, HasPendingAdvance
<1> QED
  BY <1>1, <1>4, <1>5 DEF EpochInv

LEMMA SignInv ==
  ASSUME EpochInv, NEW k \in AdvanceSigners, SignAdvance(k)
  PROVE  EpochInv'
<1>1. /\ chainTime' = chainTime /\ config' = config /\ rotation' = rotation
      /\ epochState' = epochState /\ staged' = staged /\ signed \subseteq signed'
      /\ signed' = signed \cup {[by |-> k, current |-> epochState.current,
                                 lastAdvanced |-> epochState.lastAdvanced]}
  BY DEF SignAdvance, clusterVars
<1>2. ClusterInv'
  BY <1>1, KeepClusterInv DEF EpochInv, clusterVars
<1>3. k \in Pubkey /\ epochState.current \in Nat /\ epochState.lastAdvanced \in Nat
  BY EpochAssumption DEF EpochInv, OracleTypeOK, EpochState
<1>4. OracleTypeOK'
  BY <1>1, <1>2, <1>3 DEF EpochInv, OracleTypeOK, ClusterInv, Signature
<1>5. LastAdvanceIsPast'
  BY <1>1 DEF EpochInv, LastAdvanceIsPast
<1>6. AdvanceIsAuthorised'
  BY <1>1 DEF EpochInv, AdvanceIsAuthorised, HasPendingAdvance
<1> QED
  BY <1>2, <1>4, <1>5, <1>6 DEF EpochInv

\* Staging with the authority either tier of the handler established.
LEMMA StageInv ==
  ASSUME EpochInv, NEW k \in Pubkey, NEW n \in Nat, NEW fb \in BOOLEAN,
         NEW backers \in SUBSET Pubkey, MayAdvance, Stage(k, n, fb, backers),
         IF fb
         THEN LivenessFallbackElapsed /\ IsMember(k)
         ELSE /\ n = Cardinality(backers) /\ n >= ConsensusThreshold(config.keys)
              /\ \A x \in backers :
                   /\ IsMember(x)
                   /\ [by |-> x, current |-> epochState.current,
                       lastAdvanced |-> epochState.lastAdvanced] \in signed
  PROVE  EpochInv'
<1> DEFINE next == epochState.current + 1
<1>1. /\ chainTime' = chainTime /\ config' = config /\ rotation' = rotation /\ signed' = signed
      /\ epochState' = [epochState EXCEPT !.target = next, !.proposedAt = chainTime,
                                !.count = n, !.byFallback = fb]
      /\ staged' = [by |-> k, cluster |-> config.keys, backers |-> backers]
  BY DEF Stage, clusterVars
<1>2. ClusterInv'
  BY <1>1, KeepClusterInv DEF EpochInv, clusterVars
<1>3. /\ epochState \in EpochState /\ chainTime \in Nat /\ config.keys \in Seq(Pubkey)
  BY DEF EpochInv, OracleTypeOK, ClusterTypeOK, OracleConfig
<1>4. next \in Nat /\ epochState.lastAdvanced \in Nat /\ Len(config.keys) \in Nat
      /\ Duration \in Nat
  BY <1>3, EpochAssumption DEF EpochState
<1>5. /\ epochState' \in EpochState /\ epochState'.current = epochState.current
      /\ epochState'.lastAdvanced = epochState.lastAdvanced /\ epochState'.target = next
      /\ epochState'.proposedAt = chainTime /\ epochState'.count = n /\ epochState'.byFallback = fb
  <2> HIDE DEF next
  <2> QED
    BY <1>1, <1>3, <1>4 DEF EpochState
<1>6. /\ staged'.by = k /\ staged'.cluster = config.keys /\ staged'.backers = backers
  BY <1>1
<1>7. OracleTypeOK'
  BY <1>1, <1>2, <1>3, <1>5 DEF EpochInv, OracleTypeOK, ClusterInv
<1>8. LastAdvanceIsPast'
  BY <1>1, <1>5 DEF EpochInv, LastAdvanceIsPast
<1>9. AdvanceIsAuthorised'
  <2>1. epochState'.target = epochState'.current + 1
        /\ epochState'.proposedAt - epochState'.lastAdvanced >= Duration
        /\ epochState'.proposedAt <= chainTime'
    BY <1>1, <1>3, <1>5 DEF MayAdvance
  <2>2. CASE fb
    <3>1. epochState'.proposedAt - epochState'.lastAdvanced >= 2 * Duration
          /\ Occurs(staged'.by, staged'.cluster)
      BY <1>5, <1>6, <2>2 DEF LivenessFallbackElapsed, IsMember
    <3> QED
      BY <1>5, <2>1, <2>2, <3>1 DEF AdvanceIsAuthorised
  <2>3. CASE ~ fb
    <3>1. 2 * n > Len(config.keys)
      BY <1>4, <2>3, Majority
    <3> QED
      BY <1>1, <1>5, <1>6, <2>1, <2>3, <3>1 DEF AdvanceIsAuthorised, IsMember
  <2> QED
    BY <2>2, <2>3
<1> QED
  BY <1>2, <1>7, <1>8, <1>9 DEF EpochInv

LEMMA ProposeInv ==
  ASSUME EpochInv, NEW k \in Pubkey, NEW b \in Bundles, ProposeAdvance(k, b)
  PROVE  EpochInv'
<1> DEFINE signers == Tally(b)
<1>1. MayAdvance
  BY DEF ProposeAdvance
<1>2. Cardinality(signers) \in Nat
  BY TallyIsCounted DEF EpochInv, OracleTypeOK, ClusterTypeOK
<1>3. /\ signers \in SUBSET Pubkey
      /\ \A x \in signers :
           /\ IsMember(x)
           /\ [by |-> x, current |-> epochState.current,
               lastAdvanced |-> epochState.lastAdvanced] \in signed
  BY DEF Tally, Bundles
<1>4. CASE /\ Cardinality(signers) >= ConsensusThreshold(config.keys)
           /\ Stage(k, Cardinality(signers), FALSE, signers)
  <2> HIDE DEF signers
  <2> QED
    BY <1>1, <1>2, <1>3, <1>4, StageInv
<1>5. CASE /\ LivenessFallbackElapsed /\ IsMember(k)
           /\ Stage(k, 1, TRUE, {})
  <2>1. 1 \in Nat /\ TRUE \in BOOLEAN /\ {} \in SUBSET Pubkey
    OBVIOUS
  <2> QED
    BY <1>1, <1>5, <2>1, StageInv
<1> QED
  BY <1>4, <1>5 DEF ProposeAdvance

LEMMA FinalizeInv ==
  ASSUME EpochInv, NEW k \in Pubkey, FinalizeAdvance(k)
  PROVE  EpochInv'
<1> DEFINE next == epochState.target
<1>1. /\ chainTime' = chainTime /\ config' = config /\ rotation' = rotation
      /\ signed' = signed /\ staged' = staged
      /\ epochState' = [epochState EXCEPT !.current = next, !.lastAdvanced = chainTime,
                                !.target = 0, !.proposedAt = 0, !.count = 0,
                                !.byFallback = FALSE]
      /\ next # 0
  BY DEF FinalizeAdvance, clusterVars, HasPendingAdvance
<1>2. ClusterInv'
  BY <1>1, KeepClusterInv DEF EpochInv, clusterVars
<1>3. epochState \in EpochState /\ chainTime \in Nat
  BY DEF EpochInv, OracleTypeOK, ClusterTypeOK
<1>4. next \in Nat \ {0}
  BY <1>1, <1>3 DEF EpochState
<1>5. epochState' \in EpochState /\ epochState'.lastAdvanced = chainTime /\ epochState'.target = 0
  <2> HIDE DEF next
  <2> QED
    BY <1>1, <1>3, <1>4 DEF EpochState
<1>6. OracleTypeOK'
  BY <1>1, <1>2, <1>5 DEF EpochInv, OracleTypeOK, ClusterInv
<1> QED
  BY <1>1, <1>2, <1>3, <1>5, <1>6
     DEF EpochInv, LastAdvanceIsPast, AdvanceIsAuthorised, HasPendingAdvance

LEMMA HintInv ==
  ASSUME EpochInv, NEW k \in Pubkey, NEW new \in HintArgs,
         RotateAdvanceAuthority(k, new)
  PROVE  EpochInv'
<1>1. /\ chainTime' = chainTime /\ config' = config /\ rotation' = rotation
      /\ signed' = signed /\ staged' = staged
      /\ epochState' = [epochState EXCEPT !.authority = new]
  BY DEF RotateAdvanceAuthority, clusterVars
<1>2. ClusterInv'
  BY <1>1, KeepClusterInv DEF EpochInv, clusterVars
<1>3. epochState \in EpochState /\ new \in Pubkey
  BY EpochAssumption DEF EpochInv, OracleTypeOK
<1>4. /\ epochState' \in EpochState /\ epochState'.current = epochState.current
      /\ epochState'.lastAdvanced = epochState.lastAdvanced
      /\ epochState'.target = epochState.target /\ epochState'.proposedAt = epochState.proposedAt
      /\ epochState'.count = epochState.count /\ epochState'.byFallback = epochState.byFallback
  BY <1>1, <1>3 DEF EpochState
<1>5. OracleTypeOK' /\ LastAdvanceIsPast'
  BY <1>1, <1>2, <1>4 DEF EpochInv, OracleTypeOK, ClusterInv, LastAdvanceIsPast
<1>6. AdvanceIsAuthorised'
  BY <1>1, <1>4 DEF EpochInv, AdvanceIsAuthorised, HasPendingAdvance
<1> QED
  BY <1>2, <1>5, <1>6 DEF EpochInv

LEMMA NextEpochInv ==
  ASSUME EpochInv, [OracleNext]_oracleVars
  PROVE  EpochInv'
<1>1. chainTime \in Nat /\ ClusterInv
  BY DEF EpochInv, OracleTypeOK, ClusterTypeOK
<1>2. CASE AdvanceInstruction
  BY <1>2, SignInv, ProposeInv, FinalizeInv, HintInv DEF AdvanceInstruction
<1>3. CASE Rotate /\ UNCHANGED epochVars
  BY <1>1, <1>3, RotateClusterInv, KeepEpochInv
<1>4. CASE ChainTick /\ UNCHANGED epochVars
  <2>1. chainTime' >= chainTime
    BY <1>1, <1>4 DEF ChainTick
  <2> QED
    BY <1>1, <1>4, <2>1, TickClusterInv, KeepEpochInv
<1>5. CASE UNCHANGED oracleVars
  <2>1. UNCHANGED clusterVars /\ UNCHANGED epochVars
    BY <1>5 DEF oracleVars
  <2>2. chainTime' >= chainTime
    BY <1>1, <2>1 DEF clusterVars
  <2> QED
    BY <1>1, <2>1, <2>2, KeepClusterInv, KeepEpochInv
<1> QED
  BY <1>2, <1>3, <1>4, <1>5 DEF OracleNext

\* The strengthening that carries every result below.
THEOREM EpochInvariant == OracleSpec => []EpochInv
  BY InitEpoch, NextEpochInv, PTL DEF OracleSpec

\* For any keys and candidate clusters, every cluster that ever becomes live
\* has a strict majority to speak of.
THEOREM SoundCluster == OracleSpec => []ClusterIsSound
<1>1. EpochInv => ClusterIsSound
  BY DEF EpochInv, ClusterInv
<1> QED
  BY <1>1, EpochInvariant, PTL

\* Attestations are those of live members, whatever was proposed, cancelled
\* and enacted before.
THEOREM CurrentConsent == OracleSpec => []ConsentIsCurrent
<1>1. EpochInv => ConsentIsCurrent
  BY DEF EpochInv, ClusterInv
<1> QED
  BY <1>1, EpochInvariant, PTL

\* A staged advance has the authority it claims.
THEOREM AuthorisedAdvance == OracleSpec => []AdvanceIsAuthorised
<1>1. EpochInv => AdvanceIsAuthorised
  BY DEF EpochInv
<1> QED
  BY <1>1, EpochInvariant, PTL

-----------------------------------------------------------------------------
RatifiedStep == config' # config => ReviewedAndRatified

LEMMA EnactIsRatified ==
  ASSUME EpochInv, EnactOracleKeyRotation
  PROVE  ReviewedAndRatified
<1>1. /\ rotation # NoRotation /\ chainTime >= rotation.enactAfter
      /\ Len(rotation.attestations) >= ConsensusThreshold(config.keys)
  BY DEF EnactOracleKeyRotation, IsEnactable
<1>2. /\ rotation \in PendingOracleRotation /\ config \in OracleConfig /\ chainTime \in Nat
  BY <1>1 DEF EpochInv, OracleTypeOK, ClusterTypeOK
<1>3. /\ rotation.enactAfter \in Nat /\ rotation.proposedAt \in Nat
      /\ Len(rotation.attestations) \in Nat /\ Len(config.keys) \in Nat
      /\ MinTimelock \in Nat
  BY <1>2, OracleAssumption DEF PendingOracleRotation, OracleConfig
<1>4. chainTime >= rotation.proposedAt + MinTimelock
  BY <1>1, <1>2, <1>3 DEF EpochInv, ClusterInv, ReviewInv
<1>5. 2 * Len(rotation.attestations) > Len(config.keys)
  BY <1>1, <1>3, Majority
<1> QED
  BY <1>1, <1>4, <1>5 DEF ReviewedAndRatified, EpochInv, ClusterInv, ConsentIsCurrent

LEMMA NextIsRatified ==
  ASSUME EpochInv, [OracleNext]_oracleVars
  PROVE  RatifiedStep
<1>1. CASE Rotate
  <2>1. \/ EnactOracleKeyRotation
        \/ config' = config
    BY <1>1 DEF Rotate, ProposeOracleKeyRotation, AttestOracleKeyRotation,
                CancelOracleKeyRotation
  <2> QED
    BY <2>1, EnactIsRatified DEF RatifiedStep
<1>2. CASE AdvanceInstruction
  BY <1>2 DEF AdvanceInstruction, SignAdvance, ProposeAdvance, Stage, FinalizeAdvance,
              RotateAdvanceAuthority, clusterVars, RatifiedStep
<1>3. CASE ChainTick \/ UNCHANGED oracleVars
  BY <1>3 DEF ChainTick, oracleVars, clusterVars, RatifiedStep
<1> QED
  BY <1>1, <1>2, <1>3 DEF OracleNext

\* Neither the admin nor any minority changes the cluster, and no change
\* comes sooner than the review window.
THEOREM RatifiedRotation == OracleSpec => RotationIsRatified
<1>1. EpochInv /\ [OracleNext]_oracleVars => [RatifiedStep]_oracleVars
  BY NextIsRatified
<1>2. OracleSpec => [][RatifiedStep]_oracleVars
  BY <1>1, EpochInvariant, PTL DEF OracleSpec
<1> QED
  BY <1>2 DEF RotationIsRatified, RatifiedStep

-----------------------------------------------------------------------------
(* The refinement of the clock.                                            *)
ClockStep == Clock!TimePasses \/ Clock!Turn

LEMMA InitIsClock == OracleInit => Clock!Init
<1> SUFFICES ASSUME OracleInit
             PROVE  Clock!Init
  OBVIOUS
<1>1. chainTime \in Nat
  BY OracleAssumption DEF OracleInit, ClusterInit
<1>2. epochState.lastAdvanced = chainTime /\ epochState.current = 1
  BY DEF OracleInit, EpochInit
<1> QED
  BY <1>1, <1>2 DEF Clock!Init

\* The hour hand: a commit is a turn, every other step keeps the clock.
LEMMA FinalizeIsTurn ==
  ASSUME EpochInv, NEW k \in Pubkey, FinalizeAdvance(k)
  PROVE  Clock!Turn
<1> DEFINE next == epochState.target
<1>1. /\ chainTime' = chainTime
      /\ epochState' = [epochState EXCEPT !.current = next, !.lastAdvanced = chainTime,
                                !.target = 0, !.proposedAt = 0, !.count = 0,
                                !.byFallback = FALSE]
      /\ next = epochState.current + 1
      /\ HasPendingAdvance /\ chainTime >= epochState.proposedAt + FinalizeDelay
  BY DEF FinalizeAdvance, clusterVars, PendingAdvanceReady
<1>2. epochState \in EpochState /\ chainTime \in Nat
  BY DEF EpochInv, OracleTypeOK, ClusterTypeOK
<1>3. /\ epochState.lastAdvanced \in Nat /\ epochState.proposedAt \in Nat
      /\ Duration \in Nat /\ FinalizeDelay \in Nat
  BY <1>2, EpochAssumption DEF EpochState
<1>4. epochState'.current = next /\ epochState'.lastAdvanced = chainTime
  <2> HIDE DEF next
  <2> QED
    BY <1>1, <1>2 DEF EpochState
<1>5. epochState.proposedAt - epochState.lastAdvanced >= Duration
  BY <1>1 DEF EpochInv, AdvanceIsAuthorised
<1>6. chainTime >= epochState.lastAdvanced + (Duration + FinalizeDelay)
  BY <1>1, <1>2, <1>3, <1>5
<1> QED
  BY <1>1, <1>4, <1>6 DEF Clock!Turn

LEMMA OtherAdvanceKeepsClock ==
  ASSUME EpochInv, AdvanceInstruction, ~ \E k \in Pubkey : FinalizeAdvance(k)
  PROVE  UNCHANGED Clock!clockVars
<1>1. epochState \in EpochState
  BY DEF EpochInv, OracleTypeOK
<1>2. CASE \E k \in AdvanceSigners : SignAdvance(k)
  BY <1>2 DEF SignAdvance, clusterVars, Clock!clockVars
<1>3. CASE \E k \in Pubkey, b \in Bundles : ProposeAdvance(k, b)
  <2>1. PICK k \in Pubkey, b \in Bundles : ProposeAdvance(k, b)
    BY <1>3
  <2> DEFINE signers == Tally(b)
  <2>2. \/ Stage(k, Cardinality(signers), FALSE, signers)
        \/ Stage(k, 1, TRUE, {})
    BY <2>1 DEF ProposeAdvance
  <2> HIDE DEF signers
  <2>3. /\ chainTime' = chainTime /\ epochState'.current = epochState.current
        /\ epochState'.lastAdvanced = epochState.lastAdvanced
    BY <1>1, <2>2 DEF Stage, clusterVars, EpochState
  <2> QED
    BY <2>3 DEF Clock!clockVars
<1>4. CASE \E k \in Pubkey, new \in HintArgs : RotateAdvanceAuthority(k, new)
  <2>1. /\ chainTime' = chainTime /\ epochState'.current = epochState.current
        /\ epochState'.lastAdvanced = epochState.lastAdvanced
    BY <1>1, <1>4 DEF RotateAdvanceAuthority, clusterVars, EpochState
  <2> QED
    BY <2>1 DEF Clock!clockVars
<1> QED
  BY <1>2, <1>3, <1>4 DEF AdvanceInstruction

LEMMA NextIsClock ==
  ASSUME EpochInv, [OracleNext]_oracleVars
  PROVE  [ClockStep]_(Clock!clockVars)
<1>1. chainTime \in Nat
  BY DEF EpochInv, OracleTypeOK, ClusterTypeOK
<1>2. CASE AdvanceInstruction
  BY <1>2, FinalizeIsTurn, OtherAdvanceKeepsClock DEF ClockStep
<1>3. CASE Rotate /\ UNCHANGED epochVars
  <2>1. chainTime' = chainTime /\ epochState' = epochState
    BY <1>3, RotateClusterInv DEF EpochInv, epochVars
  <2> QED
    BY <2>1 DEF ClockStep, Clock!clockVars
<1>4. CASE ChainTick /\ UNCHANGED epochVars
  <2>1. chainTime' > chainTime /\ epochState' = epochState
    BY <1>1, <1>4 DEF ChainTick, epochVars
  <2>2. Clock!TimePasses
    BY <2>1 DEF Clock!TimePasses
  <2> QED
    BY <2>2 DEF ClockStep
<1>5. CASE UNCHANGED oracleVars
  BY <1>5 DEF oracleVars, clusterVars, epochVars, ClockStep, Clock!clockVars
<1> QED
  BY <1>2, <1>3, <1>4, <1>5 DEF OracleNext

\* For any duration and delays, whatever is rotated, overwritten or fallen
\* back to: the program is the clock the rest of the system reads.
THEOREM AdvanceImplementsClock == OracleSpec => ImplementsClock
<1>1. EpochInv /\ [OracleNext]_oracleVars => [ClockStep]_(Clock!clockVars)
  BY NextIsClock
<1>2. OracleSpec => Clock!Init /\ [][ClockStep]_(Clock!clockVars)
  BY <1>1, InitIsClock, EpochInvariant, PTL DEF OracleSpec
<1> QED
  BY <1>2 DEF ImplementsClock, Clock!Spec, ClockStep
=============================================================================
