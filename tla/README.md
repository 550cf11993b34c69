# Phylanx: specifications, model checking and proofs

Phylanx scores AI agents that act on Solana. A cluster of three to five oracle
nodes computes a score per agent and epoch, agrees on it in a commit-reveal
round, watches for members that misbehave, and writes the result on chain as a
certificate that DeFi programs read. Three Solana programs hold the authority:
`health-oracle` (who the cluster is, which epoch it is), `certificate-issuer`
(the certificates) and `slash-authority` (the stake an agent loses). Around them
an indexer stores the agents' transactions, an HTTP API serves the scores, and a
set of policies decides what may be signed, by whom and how old it may be.

This directory holds TLA+ modules of these parts, TLC configurations that check
them on small instances, and TLAPS proofs that carry the most important results
to every instance. All paths below are relative to the repository's packages
under `src/`.

Contents: 1 inventory, 2 plan, 3 the modules and the code, 4 runs and bounds,
5 fairness, 6 proofs, 7 disagreements between text and code, 8 what is not
modelled, 9 how to run.

## 1. Inventory

| Component (module) | State it keeps | What makes it hard | What must be true |
|---|---|---|---|
| `slash-authority`, configuration (`SlashConfig`) | roles, treasury, timelock, pause, authority version; the pending rotation | several signers acting on accounts that change between their transactions; a capped kill switch that could be chained | roles stay separate and live; no change without review and consent; the pause is really capped |
| `slash-authority`, vaults and slashes (`SlashAuthority`, `EscrowLedger`) | a vault per agent, slash records, three book-keeping figures | overlapping slashes of one vault; rotation, pause and re-tuned windows while a slash is open | due process before funds leave; the program is an escrow ledger |
| commit-reveal round (`CommitReveal`) | per node: a round view, a nonce, a lagging round clock | every node has its own view; messages late, repeated, lost, reordered; two deadlines and a quorum close; mixed scoring versions; two hand-kept message formats; nobody asks who sent a request | nobody commits after a reveal; what counts is what the drawer of the committed nonce had computed; version skew is not misbehaviour; every round ends |
| epoch runner (`CommitRevealRunner`) | stage and position of a staged driver | members that fail to commit or to reveal, loops in any order | every view reports the same; only silent members are struck |
| aggregation and Byzantine epoch (`ScoreAggregation`, `ByzantineEpoch`) | one epoch's result, detector histories | a filing that raises in the middle; medians of even counts | honest nodes are not framed, what is certified is honest |
| watchdog, `challenge_oracle` (`Watchdog`) | strike records per node and track; challenges and a counter on chain | filings that fail, land and fail, race other challengers; repeated epochs | one challenge per node and track, only when deserved |
| direct exchange (`PeerExchange`), agent set (`AgentSet`), evidence store (`EvidenceStore`) | what peers answered; buffered registrations; payloads and hashes | answers that differ by asker; changes on different sides of an epoch boundary; payload and hash in any order | medians within the honest range; equal snapshots of equal chains; what is served as attested was agreed |
| `health-oracle`, key rotation (`EpochAdvance`) | `OracleConfig`, the pending rotation | consent gathered over 48 hours against a cluster that may change | a majority rule always; consent of live members |
| `health-oracle`, epoch advance (`EpochAdvance`, `EpochClock`) | `EpochState` with its staged advance | two transactions with a rotation or an overwrite between them; replayed signatures; quorum loss | each advance has the authority it claims; the epoch is a clock and keeps ticking |
| `health-oracle`, baselines and scores (`Baseline`) | baseline hash and nonce per agent, score accounts | committers racing over a nonce | a nonce is published once |
| `certificate-issuer` (`Certificates`, `CertificateRegister`) | issuer config, certificates, challenges, badges, transfers | signatures gathered off chain over state that moves; verdicts in any order | a certificate is backed by the cluster version it names; a slot is written once and its verdict never changes |
| baseline committer (`Baseline`) | the registration it read, its attempts | sends that are lost, land late, and are repeated | as `Baseline` |
| event bus (`EventBus`) | partitions, offsets, group, dedup sets, retry counts, dead letters | a consumer dies between poll and commit; rebalance; rewinds; a lag read partition by partition | no record is lost below the committed offset of a partition nobody took in mid-batch; no certificate from a lagging indexer |
| ingestion (`Ingestion`) | a window of observations, rows, pending webhooks | conflicting, late and evicted reports; one update stored agent by agent | only true transactions are stored; a loss is visible |
| guards of a score (`ScoreDefences`) | histories each caller keeps | creep below every guard while baselines move | inflation is bounded whatever the path |
| fleet policies (`FleetPolicy`) | cluster, key ages, proposal | sequences of allowed rotations | founders leave one a review; no domain signs alone; no key gets overdue |
| freshness (`CertFreshness`) | ages of certificates, rounds, the chain's clock | clocks that lag each other | no loan against a frozen chain |
| data subject requests (`DataSubject`) | two tables, an audit event | autocommitted statements beside writers, a death between them | what the audit event says is what happened |
| HTTP API (`Gateway`) | limiter queues, score index, webhooks fired | threads whose two reads straddle a write | guarded answers are fresh and free of swings; the rate holds |
| scoring epoch (`ScoreEpoch`) | an agent's step, what landed | a step that raises, having landed or not; peers that lie | the report answers for every agent and for what landed; a slash is deserved |
| detection and kernel (`Detectors`) | evidence as it accumulates | transactions in different orders; change-point algorithms | findings exist and do not depend on the order |
| features, baselines, store (`Features`) | all agents' rows in one table, saved baselines, a backfill's position | a backfill beside the indexer, rows of one transaction for two agents; a baseline computed from one moment and saved at a later one | a late transaction disturbs one day only; what is scored from is on record; the backfill loses nothing but to the table's key |
| start-up gates (`StartUp`) | the environment, what each service started with, the plugin manifest | two readings of one variable, edited between starts | services agree on what production is; a plugin that loads was released |
| SDK, plugin, web, validator, audit, launch | caches | little | - |

How they interact. Nodes talk by broadcasts (`oracle/node.py`), which
`CommitReveal` models as messages that reach a peer any number of times or never.
The runner's report goes to aggregation, the watchdog and the signers
(`ByzantineEpoch`). The watchdog calls an injected filing function that ends in
`challenge_oracle`. A node's agents come from `AgentSet`, its scores from
`Detectors` by way of `ScoreEpoch`. `submit_score` and every certificate carry the
epoch of `EpochState`, and bind the baseline and cluster version read when they
were signed. `slash-authority` reads the certificate at execution and copies what
it needs. On chain one instruction is atomic: a `require!` that fails reverts the
transaction, which is a stuttering step. Off chain, a step is what happens between
two awaits, two broker calls or two statements on a connection.

The hazards - where a unit test would hardly reach what can go wrong - are listed
with their lines in `PROJECT.json`; the properties of the runs are aimed at them.

## 2. Plan

Done: the slash program and its ledger; the commit-reveal protocol, its runner and
its wire format; the watchdog; the cluster and the epoch; baselines, certificates
and their register; the epoch after its reveals; the event bus and the ingestion;
the policies, the API, the scoring of an epoch, the detectors, the features and
baselines, the start of the services.

Left: modules for the taxonomy's tables, the window digest and the remaining
off-chain encodings, if a property of them is worth stating. Every safety property
the runs check is proved but `EvidenceIsExact`, for the reason section 6 gives.

## 3. The modules and the code

`PROJECT.json` maps every definition to the lines it stands for.

**SlashConfig** (`programs/slash-authority/src/state/slash_config.rs`,
`pending_authority_rotation.rs`, the rotation, timing and pause instructions).
`cfg` is the `SlashConfig` account, `pending` the singleton rotation proposal or
`NoProposal`, `now` the chain clock. `lineage` is a history variable: the authority
set of each version, and `blocked` another: for how many consecutive ticks the kill
switch has been on. Each instruction is one action with the handler's checks in its
guard. A legacy account may start with zero timing fields, for which the code falls
back to defaults (`EffectiveFloor`, `EffectiveGrace`).

**SlashAuthority** extends it with `vault[a]` (an `EscrowVault` with the lamports
the account really holds), `slash[a][i]` (the `SlashRecord` PDA with index `i`) and
`received[p]`, what each destination was paid. Uphold and overturn are two actions
because the code branches on the verdict. Basis-point arithmetic is kept.
**EscrowLedger** is what an agent is promised: a deposit, holds against it, and for
each hold either a return or one payment to the payee fixed when it was made.

**CommitReveal** holds `CommitRevealRound` (`oracle/cluster/commit_reveal_round.py`)
as operators on a round record, and puts one such view in every node, with the node
methods of `oracle/node.py` as actions; each node's `_round_clock` lags `now`. A hash
is the record of what was hashed, so two hashes are equal exactly when their contents
are. It names no node: a nonce is named by the call of `local_commit` that drew it,
and whoever learns it may use it. No handler compares `request.node_id` with the
sender. A copier keeps to the schedule and tells every peer the same, but commits to a
placeholder or to a hash that a peer broadcast, at any moment and as often as it likes,
and reveals the scores a peer revealed with a nonce of its own or with the peer's.
**CommitRevealRunner** is `simulate_commit_reveal_epoch`.
The last part of **CommitReveal** (`GrpcNext`) is the round with its requests
translated to the protobuf messages and back (`oracle/cluster/grpc_transport.py`).

**ScoreAggregation** holds the median, deviation, OM(1) and agreement functions;
**ByzantineEpoch** extends it and **Watchdog** to the epoch of
`cluster/byzantine_runner.py`: outliers, aggregation, drift, the watchdog's calls
and the signing, where an exception ends the epoch between any two. The flags signed are
the ones the runner ORs `INPUT_DIVERGENCE` into (`WithInputFlag`), by the inputs each
contributor read (`inputs`, `dissent`). The five
`record_*` methods of the watchdog share one loop, modelled once over a track with
its threshold and proof code; `filing` is the challenge handed to the injected
function, which returns, raises, or lands and raises all the same.
**PeerExchange**, **AgentSet** and **EvidenceStore** are components of their own.

**EpochAdvance** (`programs/health-oracle`) holds the cluster, its rotation and the
two-transaction advance: `signed` is the
set of Ed25519 signatures that exist anywhere - they never disappear, so any of them
may be bundled again - and `staged` a history variable: who staged the open advance,
under which cluster, backed by whom. **EpochClock** is what the rest of the system
may assume of the epoch: it moves by one, and not twice within a period.

**Baseline** and **Certificates** compose the two programs'
accounts: a bundle of signatures is made over the state read at one moment and used
at another. **CertificateRegister** is what a reader may assume: a slot is written
once and gets one verdict. **Baseline** holds the off-chain callers too, whose
sends are lost, delayed or refused.

**EventBus** takes every broker call as one step (they hold the broker's lock); a
consumer's call of `consume` is a job that may die between any two, and a consumer may
join at any moment. `disturbed` is a history variable: the partitions a rebalance has
taken from a live consumer that had records of them in hand (read and not reached, or
to be rewound), after which the broker promises nothing of them.
**Ingestion** runs from the endpoints' signed updates to rows.

**ScoreDefences**, **FleetPolicy**, **CertFreshness** are guards that no code in the
repository composes; the modules compose them as their headers ask, and say so.
**DataSubject**, **Gateway**, **ScoreEpoch**, **Detectors**, **Features** and
**StartUp** follow their packages. Where the code computes with floats the model
uses whole percents or exact fractions; a quantity that needs a logarithm, a root or
an exponential is an input or is left out, as each header says. In `ScoreEpoch` the
previous score is an input as well, any value or none, for that is what the code has:
`AgentEpochInput.previous_score` is the caller's, and nothing reads it back from a
certificate. The table of `Features` holds every agent's rows under one key that has no
agent, and the backfill goes through the old table agent by agent. `Features` extends
`Detectors`, because kernel, extractor and baseline engine read the same stored
transactions.

The `MC*` modules instantiate these for TLC. Most have a variable `story` that says
which part of the module moves, so that parts that do not interact are explored side
by side and not in their product; it has no counterpart in the code. Definitions
whose name starts with `Mut` are faulty variants of the definition below them: the
run that checks a property must fail when the variant takes the definition's place,
which shows that the property can see such a fault.

## 4. Runs and bounds

| Run | Module, configuration | Checks | Bounds, distinct states |
|---|---|---|---|
| `programs` | `MCPrograms` | review and consent of role rotations, due process, refinement of `EscrowLedger`; baselines published once, backed certificates, independent challenge, auditable escrowed score, refinement of `CertificateRegister` | slash-authority: 1 agent, 2 slashes, 1 rotation while a vault is open, 7 days; before that 2 rotations over 6 requests, 3 of them malformed. certificate-issuer: 1 agent, 2 committers, 2 nonces, 2 epochs, 1 cluster rotation; 726 000 |
| `compromise_burn` (violation) | `MCSlashAuthority`, `MCCompromiseBurn.cfg` | `CompromiseBurnsEntireStake` | as above, without governance |
| `commit_reveal` | `MCCommitReveal` | verified scores are those of the drawer of the committed nonce, honest reveals verify, skew is not misbehaviour, commits precede reveals, every round closes | 3 nodes, one a copier of n1 whose own view hears nothing, two scoring versions, two agent sets, 2 deadlines; n2 opens late or lags, n1 may call `local_commit` again after a timeout; 351 000 |
| `copied_commit` (violation) | `MCCommitReveal`, `MCCopiedCommit.cfg` | `CopiedScoresNeverCount` | as `commit_reveal`, the copier's view included |
| `grpc_wire` (violation) | `MCCommitReveal`, `MCGrpcWire.cfg` | `OneVersionIsCounted` | 3 nodes on one version |
| `cluster_epoch` | `MCClusterEpoch` | one deserved challenge, honest nodes not framed, honest certificates, agreement functions, submitted medians, snapshots, the runner's report, served evidence; authorised advance, ratified rotation, refinement of `EpochClock`, the epoch ticks | 3 nodes, one faulty, 3 epochs in any order of repetition; 4 members exchanging, 3 values; 2 buffers; 2 slots; every set of failing nodes in the runner; on the chain a three-key cluster, the single-node deployment of one of its keys, two refused clusters, 2 of 5 keys that sign, 2 advances; 747 000 |
| `lone_liar` (violation) | `MCClusterEpoch`, `MCLoneLiar.cfg` | `LoneLiarFramesNobody` | one of three silent |
| `repudiated_evidence` (violation) | `MCCertificates`, `MCRepudiated.cfg` | `RepudiatedGroundsNoSlash` | as in `programs` |
| `indexer` | `MCIndexer` | delivery in partitions no rebalance took in mid-batch, true rows, visible loss, gated certificates, every record handled there | 2 partitions, 2 consumers, batches of 2, 1 retry, 1 departure; 3 endpoints, one faulty, 4 updates, a window of 2; 509 000 |
| `shared_transaction` (violation) | `MCIndexer`, `MCShared.cfg` | `RecordedPerAgent` | one transaction of two agents |
| `rebalance_loss` (violation) | `MCIndexer`, `MCRebalanceLoss.cfg` | `NothingLost` | as `indexer` |
| `policies` | `MCGuards` | bounded inflation, safe rotation, no loan on a frozen chain, true erasure, gateway, scoring, exact evidence, baselines on record, start-up | 2 agents over 4 epochs, a consumer of one; 6 keys; 2 workers, the first idle one taking a request, and 3 seconds; 2 runs of 2 agents, peers voting in the first; 5 of 8 transactions, 6 days, 3 links; 4 transactions, 2 baselines and a backfill of 2 rows; 5 services, 2 at a time, 2 edits; 315 000 |

Why the bounds are enough. Times are scaled so that the order of the delays in the
code is kept and every boundary - just before, at, after - is reached inside the
bound. `OneStory` in `MCSlashAuthority` explores four kinds of behaviour separately:
two overlapping slashes; one slash under the kill switch; one across a rotation that
swaps executor and resolver and changes the treasury; one while the settle timing is
re-tuned. It leaves out their products, which the proofs cover for the properties
proved. In the chain stories of `cluster_epoch` the fallback and the threshold tier, an overwrite, a
rotation in both directions and a replay of the first advance's signatures in the
second epoch all occur; the even cluster size, which TLC does not reach there, is
covered by the proof. In `indexer` a consumer dies with records handled and not
committed, and its successor dead-letters one; consumers join whenever they like, so
partitions get disturbed and the rest must still hold. In `commit_reveal` the copier
commits to a peer's hash before and after a placeholder, and its replay of the peer's
nonce verifies; what is left out is what arrives at the copier's own view, which only
`copied_commit` has (a copier needs no view of its own to copy from), and what n1's second
call does to a copier that has committed before it; the proofs have both. In
the certificate stories a rotation and a new baseline each overtake a bundle of signatures.
In the detection stories transactions share an instant, so that ties are broken by
signature; in the baseline story they share a tick or sit at a day's edge. In the
start-up story the mainnet name is also spelled in other ways and the environment
changes between any two starts. `CHECK_DEADLOCK FALSE` is used where the bounded
clock or a finished program really stops.

## 5. Fairness

* `EveryRoundCloses` assumes that the orchestrator's time passes, every node opens
  its round, and every node's clock is advanced (`Driven`); nothing is assumed of
  deliveries or of any node's willingness to commit or reveal. The cluster runner
  calls these unconditionally in loops.
* `EpochTicks` assumes that time passes and that one member of each cluster is up and
  answers an open window within `Slack` (`TimelyTick`, `LiveMemberActs`): this is the
  operator's duty in `launch/runbooks/epoch_advance_stalled.md`, where any single
  member runs the fallback. The assumption is needed: with no bound on the answer
  another member may overwrite the stale proposal for ever. `Slack` is smaller than
  the gap between the finalize and the overwrite delay, as 30 seconds and one hour
  allow. Nothing is assumed of the other members or of the admin.
* `EveryRecordHandled` assumes that a consumer outside the group joins and one inside
  keeps calling `consume`, which is the service's loop; departures are bounded, and
  nothing is assumed of producers or of a record's processing, which may fail until
  the retry limit dead-letters it. It is claimed of the partitions no rebalance takes
  from a consumer in the middle of its batch; of the others the broker promises nothing
  (`rebalance_loss`).

No liveness is claimed of `slash-authority` or `certificate-issuer`: their
instructions wait for signers that have no duty to act.

## 6. Proofs

Eight modules hold the theorems; `PROJECT.json` lists them, the four that only state
types (`ConfigTypeCorrect`, `SlashTypeCorrect`, `RoundTypeCorrect`, `CertificateTypes`)
and the parts of others (the three of `RotationsAreSafe`, `MediansAgree` of
`MembersComeToOneResult`, `ConsentIsSound` of `ConfigInvariant`) left out. Each is proved from the assumptions named in the
module it is about - types of the constants, positive delays, bounds of the tunable
windows - and from nothing else, unless the theorem states a hypothesis of its own;
in particular for any number of keys, agents, nodes, endpoints, epochs and any value
of the time bounds.

**SlashAuthorityProofs.** `ConfigInvariant`: `ConfigInv` is inductive. Separation of
roles alone is not: it needs that a proposal is well-typed, and the pause cap needs
how `blocked` relates to the pause fields (`PauseInv`). `RotationIsReviewed` then
follows because the only step that changes the authorities is the enactment, whose
guard with `ReviewInv` and `ConsentIsCurrentAndDistinct` gives review and consent.
`SlashInvariant`: `SlashInv` is inductive. The due-process property relates a
settlement to what happened before it, so the invariant records what each open
record remembers of its hearing (`HearingInv`: unheard, appealed in time, or upheld
by a key other than the executor). `VersionIdentifiesExecutor` needs the
configuration's lineage. `EscrowImplementsLedger` is the refinement: every
instruction is a ledger step or a stutter.

**CommitRevealProofs.** `RoundInvariant`: `RoundInv` is inductive. What a view
recorded is what the node broadcast (`CommitsAreBroadcast`), and a view leaves its
commit phase only when all have committed or the deadline has passed globally
(`PhaseIsJustified`, which needs that clocks lag); from these follow
`CommitFirst` and `VerifiedIsCommitted`. The latter is about the node that drew the
nonce of a commit (`hash.nonce.by`), because a hash names nobody else: of a node that
copies nothing that is the node itself, a copier's verified reveal is the scores of
the node it copied. `FairnessInvariant` adds what an honest node
may rely on: commits in a view carry its pin, what is revealed is the node's own,
and no nonce is older than the commit's. `HonestRevealsVerify` is about a node that
kept the nonce of its commit (`KeptItsNonce`): one that calls `local_commit` again has
lost it, which the run reaches with a second call and the proof with any number.
`RunnerInvariant` follows the staged driver: `Progress` says what
the iterations behind it have left at each node, `Exchanged` what each view then
holds, and at the end every view holds the same. It assumes `OneCluster`, one version
and one agent set, because that is what `simulate_commit_reveal_epoch` builds.

**ClusterEpochProofs.** The watchdog: the filing in flight carries the strike record
it was made from (`FilingIsDeserved`), which gives `OneChallenge` and
`DeservedChallenge`. The aggregator: where most contributors agree, the lower median,
the majority bits, the majority flag and the payload consensus are theirs - four
lemmas, the median's by counting ranks; the inputs are the majority's as well
(`InputsOfMajority`), and the flag of divergent inputs is added on top of the vote
(`FlagIsAdded`), so one faulty node with other inputs changes the flags that are signed
and nothing else: `CertificatesAreHonest` says exactly when. The epoch: `ByzInv` joins the two. Every
call to the watchdog, under way or still to come, is founded (`CallsAreFounded`), and
no honest node was off the median while the liars were outvoted (`HistoryIsHonest`);
`outvoted` are the epochs in which honest reveals were not the majority, so the
theorems say what holds without that assumption too. `DriftsBeyond` sums a history
recursively; that a sum of zeros is zero is shown by the least counterexample.
`MediansAgree` assumes `HonestQuorum`, liars a minority of every quorum: without it
two runners may differ. `EvidenceIsTrue` needs that the payloads of two slots differ.
`SnapshotsFollow` is the argument of `AgentSetBuffer`: applying what is pending to the
current set gives, at every moment, the set of the events read. `AgreementHolds` is
about the two agreement functions as such, for any members and values. OM(1): each
loyal lieutenant hears the others' relays, of which one liar's are fewer than half
(`MajorityWins`, `OneLiarIsOutvoted`). Attestation: the plurality is a value no other
outnumbers (`PluralityLeads`), so fewer liars than the minimum never make one alone. With
`MediansAgree` it gives `MembersComeToOneResult`.

**CertificateProofs.** `BaselineIsChain`, and with it `CommittersPublishOnce`: a call
fixes its nonce when it reads the registration (`FixedNonce`), so whichever copy of
its transaction lands carries it. `CertificateInvariant`: `CertInv` joins the chain
with the lineage of configurations (`LineageInv`: no cluster there ever was holds an
attester's key) and the bundles (`BundlesAreSigned`), from which `CertificateBacked`
and `ChallengeIsIndependent` follow across rotations. `CertificatesImplementRegister`
is the refinement: issuing writes an empty slot, `challenge_certificate` and
`invalidate_certificate` give a slot its first verdict, and all else stutters.

**IndexerProofs.** `IngestInvariant`: an entry of the window holds reporters of its
very bytes, too few to agree (`WindowAwaitsQuorum`), so what is emitted has the
threshold behind it and therefore one honest endpoint. For the converse, `Accounted`
says of every transaction where it is: all its reporters in one entry, or settled.
The configuration is that of `build_production_geyser_config` (`Configured`), whose
refusals are the initial state's.
Of the bus, `BusInvariant`: in every partition no rebalance has disturbed, a consumer's
batch is exactly what it has read and not yet reached (`ReadingOK`), what lies below is
dealt with, and a partition without an owner is rolled back. It is proved of all
behaviours; a rebalance that takes a partition from a consumer with records of it in hand
adds it to `disturbed`, from which it is never taken again: what was passed over stays
passed over. `RecordsInOrder`
and `DeliveryIsSound` say what that leaves: in the other partitions what is acknowledged
is dead-lettered or known to the processor - with the record itself, or with another
agent's record of the same signature, which is all the consumer's dedup set looks at
(section 7). That the whole claim, `NothingLost`, fails is the run `rebalance_loss`.
`GatedIsCaughtUp` holds of every partition; it needs only that offsets are naturals and
what is acknowledged or logged only grows (`OffsetsOK`, `OffsetsGrow`): the lag read so far
is no less than what those partitions are behind by now (`GateOK`), whatever moved between
the reads. Its sums are recursive functions over the partitions, counted from 0; that
they rise with their terms is shown by the least counterexample (`TotalsRise`).

**EpochAdvanceProofs.** `EpochInvariant`: `EpochInv` is inductive. It joins the
cluster's invariant (`ClusterInv`: sound cluster, consent of live members, review
window kept) with `AdvanceIsAuthorised` and the fact that the last advance is not in
the future. Consent stays current because the only step that changes membership
also closes the proposal. A tally is a subset of the listed keys and so has a
size (`TallyIsCounted`), and floor(n/2)+1 is a strict majority (`Majority`).
`AdvanceImplementsClock` adds the duration that `AdvanceIsAuthorised` records and the
finalize delay of the guard.

**GuardProofs.** Of `CertFreshness`, `NoLoanOutlivesAStall`: a certificate is minted
within a stall floor of the last advance and ages with it (`FreshInv`), until the ages
stop counting. Of `DataSubject`, `ErasureIsTrue`: rows only grow between a slice's count
and its delete, and what the table holds afterwards was stored since (`UnderWay`). Of
`FleetPolicy`, `RotationsAreSafe`, of three parts. `FoundersTakeReviews`: a proposal
removes at most one key and is enacted a review later; the keys that are added are
bounded by nothing, in the code or in the theorem. `NoDomainSigns`: every cluster is diverse, given that the
founders were (`FoundersDiverse`), and a quorum is larger than the largest group of an
organisation, cloud or region (`LargestBounds`, which needs that `Max` of a bounded set
is one of its elements, `MaxOfBounded`). Both hold of any operators; `RotationOutrunsAge`,
and with it the whole, holds of prompt ones, under `WindowIsWide`: what the warning leaves is a review for
every key. Its invariant caps the age of a key by its rank in the cluster (`AgeCap`):
every review in which an older key goes moves the key up one rank, which is worth that
review. The code has 30 days for five reviews of 48 hours.

Of `StartUp`, `ServicesStartSafely`: whatever runs has passed its gate with the
environment it was started in (`StartInv`), and each gate reads a spelling of the
network on which all others give the same answer (`SpellingsAgree`, `OneAnswer`).
Of `Gateway`, `GatewayGuards`, whose invariant has a part for each hazard. A bucket's
queue is what is left of its log of admissions, all that was popped having expired
(`Follows`), so a full queue's head is the admission `limit` back and the log stays
spaced. Records lie at least as far apart by epoch as by position (`IndexInv`), so the
limit on the second read cuts no record of the window (`WindowIsRead`) and a record
indexed between the reads, or after the verdict, lies outside it. A request let
through is counted once: what a partner was credited with and what it has in flight
stay below what the limiter admitted (`ShareInv`).

**ScoreProofs.** What a score rests on, in three theorems. `ScoresAreSound`: the report
so far answers for the agents before the one at hand, once each, and for what landed,
whichever step raised (`ReportIsKept` and a lemma per step); and only an agent's own
security finding burns its stake. The previous score a caller hands in is any value or
none: the rail keeps the new one within a step of it (`RailIsExact`), and nothing is
said of where it came from. That the divergence detector blames no honest
node is a lemma on the median: if the honest verdicts are a majority, it lies between
two of them (`MedianIsBetween`, by counting ranks), and honest verdicts are spread by no
more than the tolerance, which is what `PeerVotes` takes an honest peer to be.

`InflationStaysBounded`: the bound is a ceiling applied once per rotation period begun.
A baseline stands at no more than as many ceilings as it was moved (`MovesOf`), moves
are `MinRotation` epochs apart, so a baseline of epoch e was moved at most as often as
periods begin before e (`MovesAreInTime`); and a score passes the baseline it is measured
from by one ceiling (`ClimbInv`). That the ceilings rise with each application is shown
by the least counterexample (`CeilingsRise`). Nothing is assumed of who proposes scores,
who co-signs or what the other guards let through.

`BaselinesStaySound`: in one table of all agents' rows, an old row the backfill has passed
is there, or another agent's row of its transaction is, and nothing else keeps it out
(`Accounted`); between the count and the recount of a row the table only grows, by at
least one row if this insert added one, so what is reported as written never falls short
of what was added. The attempt to prove that the latest baseline *is*
a row of the history failed for a good reason. The history keeps the first row of a
statistics hash and window, and the hash leaves the counts and `provisional` out
(`hashing.py`): a baseline recomputed with more transactions and the same statistics
overwrites the latest row and leaves the history's. `BaselinesAreOnRecord` states what
holds: the hash and the window are on record.

Checked by TLC only: the liveness properties (`EveryRoundCloses`, `EpochTicks`,
`EveryRecordHandled`), which are out of the prover's reach, and `EvidenceIsExact`, which
compares the detectors, the kernel and the daily vectors with reference definitions over
all small inputs: they fold over sequences of data and would need induction over them,
which is out of reach as well.

Signatures and hashes are assumed ideal: a signature exists only if its holder
signed, and two different contents never share a hash.

## 7. Where text and code differ

Shown by runs that must fail (`findings` in `PROJECT.json` quotes the lines):

* `compromise_burn`: a compromise burns the free stake only; stake held by an earlier
  slash that is then overturned stays in the dead vault.
* `copied_commit`: a commit hash binds no node, so a node that sends a peer's hash as its
  own verifies with the peer's scores and nonce once these are revealed.
* `lone_liar`: with one of three members silent, one faulty member decides the median
  and an honest one is challenged.
* `grpc_wire`: the protobuf messages carry no scoring version, so nodes on one version
  exclude each other.
* `repudiated_evidence`: an invalidated certificate still grounds a slash.
* `shared_transaction`: the production insert keeps one row for a transaction of two
  registered agents.
* `rebalance_loss`: a consumer that joins in the middle of another's batch is given its
  partition and reads on behind records the former owner has not processed; it commits
  past them, and if the former owner dies they are lost (`broker.py:217`). A departure
  from a group of three has that effect too: the ranks shift, and a live consumer's
  partition goes to another in the middle of its batch (`broker.py:202`).

Noticed while reading, without a run of their own.

Programs:

* A role rotation may propose a shorter settlement timelock, down to the minimum
  (`propose_authority_rotation.rs:99`).
* `propose_oracle_key_rotation.rs` says "Distinct orderings count as different", but
  compares sorted vectors: a change of the primary alone is refused as a no-op.
* `advance_epoch.rs` says the fallback fires only when "the M-of-N path could not be
  assembled"; what is checked is whether this transaction bundles enough signatures.
* `squads_transition.rs` describes `rotate_advance_authority` as already refusing; it
  accepts the admin and writes the hint.
* `get_certificate` does not look at `challenge_state`; a rejected challenge or an
  invalidation closes the certificate to any later verdict, as `ImplementsRegister`
  states.

Cluster:

* A node whose version differs from the one a peer's commit pinned first in its view
  is excluded from its own round (`oracle/node.py:539`).
* A member whose reveal failed to verify has revealed: it is not among the
  non-revealers the watchdog counts (`commit_reveal_round.py:487`).
* Two tracks file with proof codes 3 and 4, which the program's `ProofType` does not
  know (`byzantine_watchdog.py:188`, `oracle_challenge.rs:74`).
* `record_epoch` marks a node challenged before the filing is tried; one that fails is
  not repeated. A filing that raises ends the epoch before signing.
* `local_commit` overwrites the nonce before a second call is refused.
* No code calls a transport's `commit` or `reveal`: the runner calls the nodes
  directly. The protobuf score drops the label bits and the payload hash, and
  `node.score_epoch` sets neither.
* The drift detector does not see growth of about 5% an epoch.
* `evidence_repo.py:36-41` attests a payload once both sides have shown up; a hash that
  arrives before its payload is dropped by both stores. The in-memory one says that
  the Timescale one keeps it (`:234`); that one says the same case is "not modelled in
  this minimal seam" (`timescale_evidence_repo.py:226`).

Oracle:

* `StaleNonceError` cannot be raised (`commit_baseline.py:105-111`, `196`).
* `run_epoch` evaluates consensus on its own verdict, so a threshold of two never
  confirms (`slashing/consensus.py:29-31`); the evaluator never yields a minor or
  major slash.
* A `submit_fn` or `slash_fn` that raises after its transaction landed is reported as
  failed; a falsy return of `submit_fn` still leads to the slash evaluation.
* `run_epoch` passes an empty allowlist, so `unauthorized_program` always abstains.
* `tool_loop`'s segmentation restarts at the current transaction, so a loop across the
  60-second cut is missed, against `tool_loop.py:12-16`.
* A perfect day (error rate 0) silences DDM for ever; CUSUM resets at its first
  trigger only, against its comment; ADWIN's comment divides by log2(m), the code by
  log2(n) (`_drift_math.py`).
* Memo, log and authority-burst patterns read fields `Transaction` does not have.
* `_sybil_graph` speaks of components of two, `MIN_CLUSTER_SIZE` is three.
* `rotation_overlap_guard` bounds the keys removed (`:231`); its text says at most one key
  may change per rotation (`:45-46`, `:201-202`) and draws from it that replacing a
  cluster takes five ceremonies. {f1, f2, f3} may become {f2, f3, x, y, z} in one: one key
  removed, three of five new. `FoundersLeaveSlowly` states what the check does bound.
* No code reads a previous score back from a certificate: `AgentEpochInput.previous_score`
  is the caller's (`epoch_runner.py:84-85`). `make_onchain_submitter` (`:183-208`) raises
  `NotImplementedError`, and `pipeline.py:443-451` signs 32 zero bytes for the hash of the
  score components, so the chain of explained scores that `score_components.py` describes
  does not exist yet.
* With three nodes and a quorum of two, full participation counts as barely quorate,
  so `cluster_participation_floor.py` refuses such a cluster from the fourth round on.
* Wallet erasure deletes one table after the other: a death between them erases
  without an audit event, and rows may return from the topic within its retention.
* `network_guard.evaluate`, said not to raise (`:133`), raises `UnsupportedNetwork`,
  which `run_cluster_node.py:208` does not catch. `kafka_security` takes the name `mainnet` as non-production,
  the indexer's gate reads a variable of its own.

Features and store:

* `db/repository.py:44-45` calls its half-open window "the same convention as
  ExtractionWindow", which includes both ends: the baseline over the repository misses
  a transaction at the window's end that the pure one counts.
* `backfill_transactions.py:81` reports what it did not write as "already present"; a row
  that another agent's row of the same transaction keeps out is counted there as well, and
  is never stored for its agent.
* The backfill counts what it wrote by the rows before and after, so a concurrent
  writer's rows are counted as its own.
* The in-memory store knows a transaction by its signature, the table by signature and
  block time.
* The kernel orders by time and signature, extractor and baseline engine by time, slot
  and signature.
* `save_baseline` replaces the latest row whatever its window: an older baseline saved
  later wins.

Indexer and API:

* The consumer remembers signatures alone, the producer's key is signature and agent
  (`consumer.py:333`, `stream.py:84`): one consumer that reads the records of two agents
  for one transaction skips the second.
* The gate's default topic has no producer in the repository, and
  `replay_from_broker` imports a function that does not exist.
* With a window of observations of at least 2K updates, an evicted transaction may be
  emitted again; the block time emitted is the first reporter's alone.
* `CertDegradingTracker` says exactly once; its check and its insertion hold no lock.
* A score added between the gateway's two reads is judged by a window it is not in:
  the answer may be of the score before it (`GatewayGuards` says what still holds).

## 8. Not modelled

* `slash-authority`'s program entry and `squads_transition.rs`'s date: dispatch,
  declarations, and a predicate no instruction calls.
* Ed25519 keys, certificate signing bytes and identities: a signature is a record.
* `state_isolation` (a scan of source text), `feature_corroboration` (no caller),
  the window digest and the serializations: pure functions over bytes.
* The taxonomy's tables and the diagnosis records: data, no state.
* SDK, plugin and web: clients; what the plugin loads is pinned in `StartUp`.
* Validator, integration and end-to-end harnesses, audit scripts, launch runbooks and
  CI: test rigs and documents.

Components marked `partly` name what they leave out in `PROJECT.json`. Inside the
modelled parts: rent, PDA bumps, events, logging, byte layouts, TLS and channels;
features and distances that need a logarithm, a root or an exponential, regular
expressions over declared text, and floating-point rounding, which are inputs or
absent. 64-bit arithmetic of time and lamports is unbounded here: the code saturates
or checks, far from any value the system reaches.

## 9. Running

In this directory:

    tlc -workers 2 -config MCClusterEpoch.cfg MCClusterEpoch
    tlapm EpochAdvanceProofs.tla
    tlapm GuardProofs.tla
    tlapm ScoreProofs.tla

The runs that must hold take between one and three minutes each with two workers,
`commit_reveal` and `programs` the longest; those that must fail, seconds. A proof module takes
between a quarter of a minute and two minutes; `ClusterEpochProofs`,
`CommitRevealProofs`, `GuardProofs` and `IndexerProofs` about three.
