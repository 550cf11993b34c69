---------------------------- MODULE Certificates ----------------------------
(***************************************************************************)
(* The certificate-issuer program.  First its governance: the IssuerConfig *)
(* singleton (authority, signing cluster, challenge attesters), the        *)
(* cluster's rotation with its proofs of possession, the two-step          *)
(* authority transfer, and the verified-consumer badges whose revocation   *)
(* the authority shares.  A public key is a number: its byte order is the  *)
(* order off-chain code sorts keys by.                                     *)
(*                                                                         *)
(* Then certificates end to end: the agent's baseline chain (Baseline), the *)
(* baseline recorded with the issuer, the cluster's signatures over a      *)
(* payload read from chain state, issuance directly or through             *)
(* health-oracle's submit_score, the discrepancy challenge, invalidation,  *)
(* and what the slash program takes as evidence.  Score, flags and         *)
(* diagnosis are the alert tier; the slot anchor is the time it was read.  *)
(***************************************************************************)
EXTENDS Baseline, Sequences

CONSTANTS
  Key,                \* public keys
  NoKey,              \* Pubkey::default()
  Domain,             \* fault domains
  GenesisArgs,        \* the configurations initialize_config may be sent
  ClusterRotationArgs,       \* the clusters an authority may propose
  SuccessorArgs,      \* the keys an authority may name as its successor
  Partner,            \* wallets that may register as verified consumers
  MaxClusterKeys,     \* MAX_CLUSTER_KEYS and MAX_CHALLENGE_ATTESTER_KEYS (5)
  MinBftKeys,         \* MIN_BFT_CLUSTER_KEYS (3)
  TransferTimelock,   \* AUTHORITY_TRANSFER_TIMELOCK_SECONDS (48h)
  MaxConfigVersion    \* u32::MAX of config_version

VARIABLES
  issuer,      \* the IssuerConfig account
  consented,   \* rotations every new key has signed, with the version they name
  badge,       \* the VerifiedConsumer accounts
  clusters     \* history: clusters[v] is the cluster of version v

issuerVars == <<issuer, consented, badge, clusters>>

Member == [key: Key, domain: Domain]
Cluster == [members: Seq(Member), threshold: Nat]
Attesters == [keys: SUBSET Key, threshold: Nat]
RevokeReason == {"partner", "bad_faith", "terminated"}

Issuer == [authority: Key, cluster: Cluster, attesters: Attesters, version: Nat,
           pending: Key \cup {NoKey}, eta: Nat]

ASSUME IssuerAssumption ==
  /\ Key \subseteq Nat /\ NoKey \notin Key
  /\ GenesisArgs \subseteq [authority: Key, cluster: Cluster, attesters: Attesters]
  /\ ClusterRotationArgs \subseteq Cluster /\ SuccessorArgs \subseteq Key
  /\ MaxClusterKeys \in Nat /\ MinBftKeys \in Nat
  /\ TransferTimelock \in Nat /\ MaxConfigVersion \in Nat \ {0}

-----------------------------------------------------------------------------
KeySeq(c) == [i \in DOMAIN c.members |-> c.members[i].key]
Keys(c) == {c.members[i].key : i \in DOMAIN c.members}

\* distinct_domain_count of the members of c among these signers.
Domains(c, signers) ==
  {c.members[i].domain : i \in {j \in DOMAIN c.members : c.members[j].key \in signers}}

\* is_strict_majority_threshold: two keys tolerate no fault and are refused.
StrictMajority(t, n) == n # 2 /\ t <= n /\ t > n \div 2

\* What initialize_config and rotate_cluster_keys both require of a cluster.
ValidCluster(c) ==
  /\ Len(c.members) \in 1..MaxClusterKeys
  /\ Cardinality(Keys(c)) = Len(c.members)
  /\ StrictMajority(c.threshold, Len(c.members))
  /\ Cardinality(Domains(c, Keys(c))) >= c.threshold

ValidAttesters(att, c) ==
  \/ att.keys = {} /\ att.threshold = 0
  \/ /\ Cardinality(att.keys) \in 1..MaxClusterKeys
     /\ att.keys \cap Keys(c) = {}
     /\ att.threshold \in 1..Cardinality(att.keys)

ChallengeEnabled ==
  issuer.attesters.threshold \in 1..Cardinality(issuer.attesters.keys)

IssuerInit ==
  /\ \E g \in GenesisArgs :
       /\ ValidCluster(g.cluster)
       /\ ValidAttesters(g.attesters, g.cluster)
       /\ issuer = [authority |-> g.authority, cluster |-> g.cluster,
                    attesters |-> g.attesters, version |-> 1,
                    pending |-> NoKey, eta |-> 0]
       /\ clusters = <<g.cluster>>
  /\ consented = {}
  /\ badge = [p \in Partner |-> "none"]

\* The new keys sign rotation_digest: the current version, the next, the
\* threshold and the keys in order - not the domains.
ConsentToRotation(c) ==
  /\ consented' = consented \cup
       {[from |-> issuer.version, keys |-> KeySeq(c), threshold |-> c.threshold]}
  /\ UNCHANGED <<issuer, badge, clusters>>

PossessionProved(c) ==
  [from |-> issuer.version, keys |-> KeySeq(c), threshold |-> c.threshold] \in consented

\* Mutant: the new keys are not compared with the attesters.
MutRotateClusterKeys(signer, c) ==
  /\ signer = issuer.authority
  /\ ValidCluster(c)
  /\ \/ KeySeq(c) # KeySeq(issuer.cluster)
     \/ c.threshold # issuer.cluster.threshold
  /\ issuer.version < MaxConfigVersion
  /\ PossessionProved(c)
  /\ issuer' = [issuer EXCEPT !.cluster = c, !.version = @ + 1]
  /\ clusters' = Append(clusters, c)
  /\ UNCHANGED <<consented, badge>>

RotateClusterKeys(signer, c) ==
  /\ signer = issuer.authority
  /\ ValidCluster(c)
  /\ Len(issuer.cluster.members) >= MinBftKeys => Len(c.members) >= MinBftKeys
  /\ Keys(c) \cap issuer.attesters.keys = {}
  /\ \/ KeySeq(c) # KeySeq(issuer.cluster)
     \/ c.threshold # issuer.cluster.threshold
  /\ issuer.version < MaxConfigVersion
  /\ PossessionProved(c)
  /\ issuer' = [issuer EXCEPT !.cluster = c, !.version = @ + 1]
  /\ clusters' = Append(clusters, c)
  /\ UNCHANGED <<consented, badge>>

TransferEta == today + TransferTimelock

\* A second proposal replaces the first and restarts its timelock.
ProposeAuthorityTransfer(signer, successor) ==
  /\ signer = issuer.authority
  /\ successor # issuer.authority
  /\ issuer' = [issuer EXCEPT !.pending = successor, !.eta = TransferEta]
  /\ UNCHANGED <<consented, badge, clusters>>

AcceptAuthorityTransfer(signer) ==
  /\ issuer.pending # NoKey
  /\ signer = issuer.pending
  /\ today >= issuer.eta
  /\ issuer' = [issuer EXCEPT !.authority = signer, !.pending = NoKey, !.eta = 0]
  /\ UNCHANGED <<consented, badge, clusters>>

CancelAuthorityTransfer(signer) ==
  /\ signer = issuer.authority
  /\ issuer.pending # NoKey
  /\ issuer' = [issuer EXCEPT !.pending = NoKey, !.eta = 0]
  /\ UNCHANGED <<consented, badge, clusters>>

\* Init-once: no instruction closes the account.
RegisterVerifiedConsumer(p) ==
  /\ badge[p] = "none"
  /\ badge' = [badge EXCEPT ![p] = "active"]
  /\ UNCHANGED <<issuer, consented, clusters>>

\* The signer is the partner itself or the issuer's authority of the moment.
RevokeVerifiedConsumer(p, asAuthority, reason) ==
  /\ badge[p] = "active"
  /\ asAuthority <=> reason # "partner"
  /\ badge' = [badge EXCEPT ![p] = reason]
  /\ UNCHANGED <<issuer, consented, clusters>>

GovernanceStep ==
  \/ \E c \in ClusterRotationArgs : ConsentToRotation(c)
  \/ \E k \in Key, c \in ClusterRotationArgs : RotateClusterKeys(k, c)
  \/ \E k \in Key, s \in SuccessorArgs : ProposeAuthorityTransfer(k, s)
  \/ \E k \in Key : AcceptAuthorityTransfer(k) \/ CancelAuthorityTransfer(k)
  \/ \E p \in Partner : RegisterVerifiedConsumer(p)
  \/ \E p \in Partner, b \in BOOLEAN, r \in RevokeReason : RevokeVerifiedConsumer(p, b, r)

-----------------------------------------------------------------------------
IssuerTypeOK ==
  /\ issuer \in Issuer
  /\ consented \subseteq [from: Nat, keys: Seq(Key), threshold: Nat]
  /\ badge \in [Partner -> {"none", "active"} \cup RevokeReason]
  /\ clusters \in Seq(Cluster)

-----------------------------------------------------------------------------
CONSTANTS
  Alert,             \* the alert tiers a cluster may sign
  MaxEpoch,          \* BOUND: epochs of health-oracle's EpochState
  MaxBundles,        \* BOUND: signature bundles collected
  AnchorWindow,      \* SlotHashes depth (about 512 slots)
  GreenAge,          \* MIN_GREEN_AGE_SECONDS (14d)
  EvidenceAge,       \* MAX_AGE of is_fresh_default (48h)
  ChallengeWindow    \* CHALLENGE_WINDOW_SECONDS (90d)

ASSUME CertificateAssumption ==
  /\ Alert \subseteq {"green", "yellow", "red"}
  /\ MaxEpoch \in Nat \ {0} /\ MaxBundles \in Nat /\ AnchorWindow \in Nat
  /\ GreenAge \in Nat /\ EvidenceAge \in Nat /\ ChallengeWindow \in Nat

VARIABLES
  epoch,      \* EpochState.current_epoch
  stats,      \* the issuer's BaselineStats accounts
  bundles,    \* the aggregated signatures the cluster has produced
  cert,       \* the HealthCertificate accounts, by agent and epoch
  escrow      \* the SubmitScoreEscrow accounts, by agent and epoch

certVars == <<epoch, stats, bundles, cert, escrow>>
issuanceVars == <<today, reg, data, issuerVars, certVars>>

Verdict == {"none", "upheld", "rejected", "invalidated"}
NoCert == [verdict |-> "absent"]

Stats == [hash: Hash \cup {NoHash}, nonce: Nat, epoch: Nat, first: Nat]
Payload == [agent: Wallet, epoch: Nat, alert: Alert, hash: Hash, nonce: Nat,
            version: Nat, anchor: Nat]
Bundle == [payload: Payload, signers: SUBSET Key, all: SUBSET Key]
HealthCertificate == [alert: Alert, hash: Hash, nonce: Nat, version: Nat, at: Nat,
                verdict: Verdict, bundle: Bundle, attesters: SUBSET Key]

IssuanceInit ==
  /\ BaselineInit /\ IssuerInit
  /\ epoch = 1
  /\ stats = [a \in Wallet |-> [hash |-> NoHash, nonce |-> 0, epoch |-> 0, first |-> 0]]
  /\ bundles = {}
  /\ cert = [x \in Wallet \X (1..MaxEpoch) |-> NoCert]
  /\ escrow = {}

-----------------------------------------------------------------------------
\* advance_epoch, as EpochAdvance models it.
AdvanceEpoch ==
  /\ epoch < MaxEpoch
  /\ epoch' = epoch + 1
  /\ UNCHANGED <<stats, bundles, cert, escrow>>

FirstRecorded(a) == IF stats[a].first = 0 THEN today ELSE stats[a].first

\* Signed by the agent or any cluster key; the nonce and the epoch are the
\* caller's word, each only ever higher than the stored one.
RecordBaseline(a, hash, e, nonce) ==
  /\ nonce > stats[a].nonce
  /\ e > stats[a].epoch
  /\ stats' = [stats EXCEPT ![a] = [hash |-> hash, nonce |-> nonce, epoch |-> e,
                                    first |-> FirstRecorded(a)]]
  /\ UNCHANGED <<epoch, bundles, cert, escrow>>

\* The payload a node signs, from the chain state it reads.
CurrentPayload(a, e, alert) ==
  [agent |-> a, epoch |-> e, alert |-> alert, hash |-> stats[a].hash,
   nonce |-> stats[a].nonce, version |-> issuer.version, anchor |-> today]

\* aggregate_signatures: the first threshold signers in key order.
Aggregate(signers, threshold) ==
  {k \in signers : Cardinality({j \in signers : j <= k}) <= threshold}

CollectSignatures(a, alert, signers) ==
  /\ Cardinality(bundles) < MaxBundles
  /\ stats[a].hash # NoHash
  /\ Cardinality(signers) >= issuer.cluster.threshold
  /\ bundles' = bundles \cup
       {[payload |-> CurrentPayload(a, epoch, alert), all |-> signers,
         signers |-> Aggregate(signers, issuer.cluster.threshold)]}
  /\ UNCHANGED <<epoch, stats, cert, escrow>>

\* Mutant: the digest leaves out the config version.
MutDigestMatches(p) ==
  p.hash = stats[p.agent].hash /\ p.nonce = stats[p.agent].nonce

\* cert_payload_digest over the accounts of the transaction.
DigestMatches(p) ==
  /\ p.hash = stats[p.agent].hash
  /\ p.nonce = stats[p.agent].nonce
  /\ p.version = issuer.version

\* verify_threshold_signatures: enough keys, in enough fault domains.
ThresholdSigned(signers) ==
  LET c == issuer.cluster IN
    /\ StrictMajority(c.threshold, Len(c.members))
    /\ Cardinality(signers \cap Keys(c)) >= c.threshold
    /\ Cardinality(Domains(c, signers)) >= c.threshold

OldEnoughForGreen(a) ==
  stats[a].first = 0 \/ today - stats[a].first >= GreenAge

\* The certificate and its ScoreComponentsAccount are created together.
Issue(b) ==
  LET p == b.payload IN
    /\ cert[<<p.agent, p.epoch>>] = NoCert
    /\ stats[p.agent].hash # NoHash
    /\ today - p.anchor <= AnchorWindow
    /\ DigestMatches(p)
    /\ ThresholdSigned(b.signers)
    /\ p.alert = "green" => OldEnoughForGreen(p.agent)
    /\ cert' = [cert EXCEPT ![<<p.agent, p.epoch>>] =
         [alert |-> p.alert, hash |-> stats[p.agent].hash,
          nonce |-> stats[p.agent].nonce, version |-> issuer.version, at |-> today,
          verdict |-> "none", bundle |-> b, attesters |-> {}]]
    /\ UNCHANGED <<epoch, stats, bundles>>

\* The top-level path of assert_trusted_caller; the epoch is not compared.
IssueDirectly(b) == Issue(b) /\ UNCHANGED escrow

\* Mutant: the two programs' hashes are not compared.
MutSubmitScore(b) ==
  LET a == b.payload.agent IN
    /\ reg[a].active /\ Committed(a)
    /\ b.payload.epoch = epoch
    /\ <<a, epoch>> \notin escrow
    /\ Issue(b)
    /\ escrow' = escrow \cup {<<a, epoch>>}

\* The CPI path: health-oracle's submit_score, one atomic transaction.
SubmitScore(b) ==
  LET a == b.payload.agent IN
    /\ reg[a].active /\ Committed(a)
    /\ stats[a].hash = reg[a].hash
    /\ b.payload.epoch = epoch
    /\ <<a, epoch>> \notin escrow
    /\ Issue(b)
    /\ escrow' = escrow \cup {<<a, epoch>>}

\* Mutant: a resolved certificate can be challenged again.
MutOpen(c) == c # NoCert

Standing(c) == c # NoCert /\ c.verdict = "none"

\* The attesters sign the block hash of the anchored slot; same says whether
\* it is the one the cluster anchored to.
ChallengeCertificate(a, e, same, attesters) ==
  LET c == cert[<<a, e>>] IN
    /\ ChallengeEnabled
    /\ Standing(c)
    /\ today - c.at <= ChallengeWindow
    /\ Cardinality(attesters) >= issuer.attesters.threshold
    /\ cert' = [cert EXCEPT
         ![<<a, e>>].verdict = IF same THEN "rejected" ELSE "upheld",
         ![<<a, e>>].attesters = attesters]
    /\ UNCHANGED <<epoch, stats, bundles, escrow>>

InvalidateCertificate(a, e) ==
  /\ Standing(cert[<<a, e>>])
  /\ cert' = [cert EXCEPT ![<<a, e>>].verdict = "invalidated"]
  /\ UNCHANGED <<epoch, stats, bundles, escrow>>

CertificateStep ==
  \/ AdvanceEpoch
  \/ \E a \in Wallet, h \in Hash, e \in 1..MaxEpoch, n \in 1..MaxNonce :
       RecordBaseline(a, h, e, n)
  \/ \E a \in Wallet, alert \in Alert, s \in SUBSET Keys(issuer.cluster) :
       CollectSignatures(a, alert, s)
  \/ \E b \in bundles : IssueDirectly(b) \/ SubmitScore(b)
  \/ \E a \in Wallet, e \in 1..MaxEpoch :
       \/ \E same \in BOOLEAN, s \in SUBSET issuer.attesters.keys :
            ChallengeCertificate(a, e, same, s)
       \/ InvalidateCertificate(a, e)

IssuanceNext ==
  \/ CertificateStep /\ UNCHANGED <<today, reg, data, issuerVars>>
  \/ GovernanceStep /\ UNCHANGED <<today, reg, data, certVars>>
  \/ BaselineNext /\ UNCHANGED <<issuerVars, certVars>>

IssuanceSpec == IssuanceInit /\ [][IssuanceNext]_issuanceVars

-----------------------------------------------------------------------------
CertTypeOK ==
  /\ BaselineTypeOK /\ IssuerTypeOK
  /\ epoch \in Nat
  /\ stats \in [Wallet -> Stats]
  /\ bundles \subseteq Bundle
  /\ cert \in [Wallet \X (1..MaxEpoch) -> HealthCertificate \cup {NoCert}]
  /\ escrow \subseteq Wallet \X (1..MaxEpoch)

Issued == {x \in DOMAIN cert : cert[x] # NoCert}

\* A certificate is backed by what the cluster of its own version signed:
\* enough of that cluster's keys, in enough fault domains, signed exactly the
\* content that was written, whatever was rotated or re-recorded between the
\* signing and the submission (cert_payload_digest, verify_threshold_signatures).
CertificateBacked ==
  \A x \in Issued :
    LET c == cert[x]
        q == clusters[c.version]
        p == c.bundle.payload
    IN  /\ [p EXCEPT !.anchor = 0] =
             [agent |-> x[1], epoch |-> x[2], alert |-> c.alert, hash |-> c.hash,
              nonce |-> c.nonce, version |-> c.version, anchor |-> 0]
        /\ Cardinality(c.bundle.signers \cap Keys(q)) >= q.threshold
        /\ Cardinality(Domains(q, c.bundle.signers)) >= q.threshold

\* The two clusters check each other: no key attested in a challenge of a
\* certificate it signed, at whatever time either cluster was configured
\* (initialize_config and rotate_cluster_keys keep them disjoint).
ChallengeIsIndependent ==
  \A x \in Issued : cert[x].attesters \cap cert[x].bundle.all = {}

\* A score that was paid for names a published baseline: the certificate of
\* every escrow exists and the payload behind its hash can be read on chain
\* (submit_score's accounts, atomic with issue_certificate).
EscrowedScoreIsAuditable ==
  \A x \in escrow :
    /\ x \in Issued
    /\ \E d \in data : d.agent = x[1] /\ d.hash = cert[x].hash

\* execute_slash's checks of the certificate it cites.
Evidence(c) ==
  /\ today - c.at <= EvidenceAge
  /\ c.verdict # "upheld"
  /\ c.alert # "green"

\* invalidate_certificate's header: Invalidated is "a repudiated state,
\* downstream-equivalent to `Upheld`", so it can ground no slash.
RepudiatedGroundsNoSlash ==
  \A x \in Issued : cert[x].verdict \in {"upheld", "invalidated"} => ~ Evidence(cert[x])

Written(c) ==
  IF c = NoCert THEN {}
  ELSE {[alert |-> c.alert, hash |-> c.hash, nonce |-> c.nonce,
         version |-> c.version, at |-> c.at]}
VerdictOn(c) == IF c = NoCert THEN "none" ELSE c.verdict

Register == INSTANCE CertificateRegister WITH
  Slot <- Wallet \X (1..MaxEpoch),
  Content <- [alert: Alert, hash: Hash, nonce: Nat, version: Nat, at: Nat],
  entry <- [x \in DOMAIN cert |-> Written(cert[x])],
  verdict <- [x \in DOMAIN cert |-> VerdictOn(cert[x])]

\* The certificate accounts implement a write-once register whose entries
\* get one verdict at most.
ImplementsRegister == Register!Spec

-----------------------------------------------------------------------------
\* The history follows the configuration, and no cluster there ever was holds
\* a key of the attesters.
LineageInv ==
  /\ Len(clusters) = issuer.version /\ issuer.version > 0
  /\ clusters[issuer.version] = issuer.cluster
  /\ \A v \in 1..Len(clusters) : Keys(clusters[v]) \cap issuer.attesters.keys = {}

\* Signatures are those of the cluster whose version they name, over a slot
\* there is.
BundlesAreSigned ==
  \A b \in bundles :
    /\ b.payload.epoch \in 1..MaxEpoch
    /\ b.payload.version \in 1..Len(clusters)
    /\ b.all \subseteq Keys(clusters[b.payload.version])

\* A certificate keeps the bundle it was issued from, and only attesters judge.
CertificatesAreBundled ==
  \A x \in Issued :
    cert[x].bundle \in bundles /\ cert[x].attesters \subseteq issuer.attesters.keys

CertInv ==
  /\ CertTypeOK /\ BaselineInv /\ epoch \in 1..MaxEpoch
  /\ LineageInv /\ BundlesAreSigned /\ CertificatesAreBundled
  /\ CertificateBacked /\ EscrowedScoreIsAuditable
=============================================================================
