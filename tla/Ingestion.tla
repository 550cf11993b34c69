----------------------------- MODULE Ingestion -----------------------------
(***************************************************************************)
(* The indexer from signed updates to rows.  First the K-of-N gate between *)
(* the Geyser endpoints and the indexer: signed updates interleaved from N *)
(* endpoints, a window of signatures that await quorum, conflicts,         *)
(* evictions, and the updates that come out.                               *)
(***************************************************************************)
EXTENDS Naturals, Sequences, FiniteSets

CONSTANTS
  Source,         \* everyone who can send an update
  Endpoint,       \* TrustedGeyserSourceSet: the configured endpoints
  Faulty,         \* endpoints whose operator signs what it likes
  Sig,            \* transaction signatures
  OnChain,        \* the transactions that did happen
  IsMainnet,      \* _is_mainnet_cluster
  Override,       \* the consensus_threshold argument, 0 for none
  WindowSize,
  MaxUpdates,     \* BOUND: updates that arrive
  NoUpdate

\* canonical abstracts canonical_update_bytes: the truth, or a version that
\* differs in slot or success ("status") or only in other fields ("fields").
\* The block time is not among those bytes.
Update == [sig : Sig, canonical : {"true", "status", "fields"}, time : {"confirmed", "other"}]

ASSUME GeyserAssumption ==
  /\ IsFiniteSet(Endpoint) /\ IsFiniteSet(Sig) /\ NoUpdate \notin Update
  /\ Endpoint \subseteq Source /\ Faulty \subseteq Endpoint /\ OnChain \subseteq Sig
  /\ IsMainnet \in BOOLEAN /\ Override \in Nat /\ WindowSize \in Nat /\ MaxUpdates \in Nat

VARIABLES
  window,      \* ConsensusStream._window, oldest first
  conflicts,   \* signatures of its conflict reports
  dropped,     \* signatures behind _dropped_no_quorum
  emitted,     \* the update feed has yielded, NoUpdate when it has been consumed
  reports,     \* <<endpoint, update>> that passed the envelope check
  arrivals     \* updates fed so far

geyserVars == <<window, conflicts, dropped, emitted, reports, arrivals>>

MinEndpoints == 3
StrictMajority(n) == n \div 2 + 1

\* consensus_threshold of build_production_geyser_config.
Threshold ==
  IF Override # 0 THEN Override
  ELSE IF IsMainnet THEN StrictMajority(Cardinality(Endpoint)) ELSE 1

\* The configurations the factory builds and ConsensusStream accepts.
Configured ==
  /\ Cardinality(Endpoint) > 0
  /\ IsMainnet => Cardinality(Endpoint) >= MinEndpoints
  /\ Threshold \in 2..Cardinality(Endpoint)
  /\ WindowSize >= Threshold

\* The report of an endpoint that saw the transaction.
Truth(sig) == [sig |-> sig, canonical |-> "true", time |-> "confirmed"]

\* What a source may sign: an honest endpoint, what happened.
Signs(s, u) == s \in Endpoint \ Faulty => u.sig \in OnChain /\ u = Truth(u.sig)

Verified(s, intact) == s \in Endpoint /\ intact

GeyserInit ==
  /\ window = <<>> /\ conflicts = {} /\ dropped = {}
  /\ emitted = NoUpdate /\ reports = {} /\ arrivals = 0

\* feed takes the next update once the last one it yielded is consumed.
Feed(s, u, intact) ==
  /\ emitted = NoUpdate /\ arrivals < MaxUpdates
  /\ Verified(s, intact) /\ Signs(s, u)
  /\ arrivals' = arrivals + 1
  /\ reports' = reports \cup {<<s, u>>}

EntryOf(sig) == {i \in DOMAIN window : window[i].sig = sig}
Without(i) == SubSeq(window, 1, i - 1) \o SubSeq(window, i + 1, Len(window))

InsertNew(s, u, intact) ==
  /\ Feed(s, u, intact)
  /\ EntryOf(u.sig) = {}
  /\ LET entry == [sig |-> u.sig, canonical |-> u.canonical, sources |-> {s}, first |-> u]
         full == Len(window) >= WindowSize
     IN  /\ window' = Append(IF full THEN Tail(window) ELSE window, entry)
         /\ dropped' = IF full THEN dropped \cup {window[1].sig} ELSE dropped
  /\ UNCHANGED <<conflicts, emitted>>

\* Mutant: the dissent is not reported.
MutRecordConflict(s, u, intact) ==
  /\ Feed(s, u, intact)
  /\ \E i \in EntryOf(u.sig) : window[i].canonical # u.canonical /\ window' = Without(i)
  /\ UNCHANGED <<conflicts, dropped, emitted>>

RecordConflict(s, u, intact) ==
  /\ Feed(s, u, intact)
  /\ \E i \in EntryOf(u.sig) : window[i].canonical # u.canonical /\ window' = Without(i)
  /\ conflicts' = conflicts \cup {u.sig}
  /\ UNCHANGED <<dropped, emitted>>

\* Mutant: one endpoint too few.
MutAgree(s, u, intact) ==
  /\ Feed(s, u, intact)
  /\ \E i \in EntryOf(u.sig) :
       LET sources == window[i].sources \cup {s} IN
         /\ window[i].canonical = u.canonical
         /\ IF Cardinality(sources) >= Threshold - 1
            THEN window' = Without(i) /\ emitted' = window[i].first
            ELSE window' = [window EXCEPT ![i].sources = sources] /\ UNCHANGED emitted
  /\ UNCHANGED <<conflicts, dropped>>

Agree(s, u, intact) ==
  /\ Feed(s, u, intact)
  /\ \E i \in EntryOf(u.sig) :
       LET sources == window[i].sources \cup {s} IN
         /\ window[i].canonical = u.canonical
         /\ IF Cardinality(sources) >= Threshold
            THEN window' = Without(i) /\ emitted' = window[i].first
            ELSE window' = [window EXCEPT ![i].sources = sources] /\ UNCHANGED emitted
  /\ UNCHANGED <<conflicts, dropped>>

-----------------------------------------------------------------------------
\* The endpoints whose envelope of these very bytes was accepted.
Reporters(sig, canonical) ==
  {s \in Endpoint : \E r \in reports : r[1] = s /\ r[2].sig = sig /\ r[2].canonical = canonical}

Agreed(sig, canonical) == Cardinality(Reporters(sig, canonical)) >= Threshold

-----------------------------------------------------------------------------
(* Behind the gate: the RPC cross-check, the wallet filter, the writer     *)
(* that stores one row per registered agent, the webhook fallback that     *)
(* feeds the same writer, and the reconciler of both paths.                *)
CONSTANTS
  Agent,          \* wallets, ordered as their strings
  Touches         \* account_keys: the agents a transaction touches

ASSUME IngestAssumption == Agent \subseteq Nat

VARIABLES
  wallets,     \* WalletFilter._wallets
  writing,         \* the writer's loop over the agents of an update
  rows,        \* agent_transactions, the hypertable
  ingested,    \* the writer's IngestedTransactions: <<agent, sig, path>>
  rejected,    \* signatures the cross-check dropped
  skipped,     \* signatures that touched no registered agent
  pending      \* WebhookReceiver._pending

ingestVars == <<geyserVars, wallets, writing, rows, ingested, rejected, skipped, pending>>

NoWrite == [update |-> NoUpdate, path |-> "geyser", left |-> {}]

IngestInit ==
  /\ GeyserInit
  /\ wallets \in SUBSET Agent
  /\ writing = NoWrite /\ rows = {} /\ ingested = {}
  /\ rejected = {} /\ skipped = {} /\ pending = {}

\* register and deregister.
SetRegistered(a, registered) ==
  /\ wallets' = IF registered THEN wallets \cup {a} ELSE wallets \ {a}
  /\ wallets' # wallets
  /\ UNCHANGED <<geyserVars, writing, rows, ingested, rejected, skipped, pending>>

Receive(s, u, intact) ==
  /\ InsertNew(s, u, intact) \/ RecordConflict(s, u, intact) \/ Agree(s, u, intact)
  /\ UNCHANGED <<wallets, writing, rows, ingested, rejected, skipped, pending>>

\* _check_against_rpc: an independent node knows the truth or, lagging, nothing.
RpcAgrees(u, answered) == answered /\ u.sig \in OnChain /\ u.canonical # "status"

\* IngestionWriter.ingest up to its loop.
StartWriting(u, path) ==
  LET agents == Touches[u.sig] \cap wallets IN
    IF agents = {} THEN skipped' = skipped \cup {u.sig} /\ UNCHANGED writing
                   ELSE writing' = [update |-> u, path |-> path, left |-> agents] /\ UNCHANGED skipped

\* SamplingCrossVerifier samples an update or lets it pass.
CrossVerify(sampled, answered) ==
  /\ emitted # NoUpdate /\ writing = NoWrite
  /\ emitted' = NoUpdate
  /\ IF sampled /\ ~ RpcAgrees(emitted, answered)
     THEN rejected' = rejected \cup {emitted.sig} /\ UNCHANGED <<writing, skipped>>
     ELSE StartWriting(emitted, "geyser") /\ UNCHANGED rejected
  /\ UNCHANGED <<window, conflicts, dropped, reports, arrivals, wallets, rows, ingested, pending>>

\* ON CONFLICT (signature, block_time) DO NOTHING.
Taken(u) == \E r \in rows : r.sig = u.sig /\ r.time = u.time

InsertRow ==
  /\ writing # NoWrite
  /\ \E a \in writing.left :
       /\ \A b \in writing.left : a <= b
       /\ rows' = IF Taken(writing.update) THEN rows
                  ELSE rows \cup {[agent |-> a, sig |-> writing.update.sig, time |-> writing.update.time,
                                   canonical |-> writing.update.canonical]}
       /\ ingested' = ingested \cup {<<a, writing.update.sig, writing.path>>}
       /\ writing' = IF writing.left = {a} THEN NoWrite ELSE [writing EXCEPT !.left = @ \ {a}]
  /\ UNCHANGED <<geyserVars, wallets, rejected, skipped, pending>>

\* The HTTP receiver accepts a payload; webhooks are lossy, so it may get none.
AcceptWebhook(sig) ==
  /\ sig \in OnChain
  /\ \A a \in Agent : <<a, sig, "webhook">> \notin ingested
  /\ pending' = pending \cup {Truth(sig)}
  /\ UNCHANGED <<geyserVars, wallets, writing, rows, ingested, rejected, skipped>>

DrainWebhook(u) ==
  /\ u \in pending /\ writing = NoWrite
  /\ pending' = pending \ {u}
  /\ StartWriting(u, "webhook")
  /\ UNCHANGED <<geyserVars, wallets, rows, ingested, rejected>>

IngestNext ==
  \/ \E a \in Agent, registered \in BOOLEAN : SetRegistered(a, registered)
  \/ \E s \in Source, u \in Update, intact \in BOOLEAN : Receive(s, u, intact)
  \/ \E sampled \in BOOLEAN, answered \in BOOLEAN : CrossVerify(sampled, answered)
  \/ InsertRow
  \/ \E sig \in Sig : AcceptWebhook(sig)
  \/ \E u \in pending : DrainWebhook(u)

IngestSpec == IngestInit /\ Configured /\ [][IngestNext]_ingestVars

-----------------------------------------------------------------------------
(* reconcile_agent over what each path delivered for one agent.            *)

Delivered(a, path) == {sig \in Sig : <<a, sig, path>> \in ingested}

\* _classify, 5% being 1 in 20.
Classified(geyserOnly, webhookOnly, agreed) ==
  IF webhookOnly > 0
  THEN IF 20 * webhookOnly > agreed + webhookOnly THEN "HIGH" ELSE "MEDIUM"
  ELSE IF geyserOnly > 0 THEN "LOW" ELSE "NONE"

Reconciled(a) ==
  LET geyser == Delivered(a, "geyser")
      webhook == Delivered(a, "webhook")
  IN  Classified(Cardinality(geyser \ webhook), Cardinality(webhook \ geyser),
                 Cardinality(geyser \cap webhook))

-----------------------------------------------------------------------------
\* "only emit a transaction once at least K of them have reported
\* byte-identical canonical payloads" (consensus.py): while fewer than K
\* endpoints are faulty, every row the stream wrote is the truth about a
\* transaction that happened, whatever order the reports arrive in.
StoredIsTrue ==
  Cardinality(Faulty) < Threshold =>
    \A r \in rows : r.canonical = "true" /\ r.sig \in OnChain

\* No transaction vanishes quietly: one that K honest endpoints reported is
\* stored, or shows in a conflict, an eviction, a rejection or a skip, and what
\* the webhook brought and Geyser did not is a MEDIUM or HIGH divergence.
LossIsVisible ==
  \A sig \in OnChain :
    LET inHand == (emitted # NoUpdate /\ emitted.sig = sig)
                    \/ (writing # NoWrite /\ writing.update.sig = sig)
        delivered == \E a \in Agent : sig \in Delivered(a, "geyser") /\ \E r \in rows : r.sig = sig
    IN  Cardinality(Reporters(sig, "true") \ Faulty) >= Threshold /\ ~ inHand /\ ~ delivered =>
          /\ sig \in conflicts \cup dropped \cup rejected \cup skipped
          /\ \A a \in Agent : sig \in Delivered(a, "webhook") => Reconciled(a) \in {"MEDIUM", "HIGH"}

\* "The indexer records it once per agent - each agent's history must be
\* complete from its own perspective" (stream.py).
RecordedPerAgent ==
  \A sig \in Sig, a \in Agent : \A path \in {"geyser", "webhook"} :
    <<a, sig, path>> \in ingested => \E r \in rows : r.sig = sig /\ r.agent = a

-----------------------------------------------------------------------------
(* The inductive invariant behind both.                                    *)

Sound(u) == u.canonical = "true" /\ u.sig \in OnChain
Path == {"geyser", "webhook"}
Entry == [sig : Sig, canonical : {"true", "status", "fields"}, sources : SUBSET Endpoint, first : Update]
Write == [update : Update, path : Path, left : SUBSET Agent]

IngestTypeOK ==
  /\ window \in Seq(Entry) /\ reports \subseteq Endpoint \X Update
  /\ emitted \in Update \cup {NoUpdate} /\ writing \in Write \cup {NoWrite}
  /\ wallets \subseteq Agent

\* A window entry holds reporters of its bytes, too few to agree, and is the
\* only one of its transaction.
WindowAwaitsQuorum ==
  /\ \A i \in 1..Len(window) :
       /\ window[i].first.sig = window[i].sig /\ window[i].first.canonical = window[i].canonical
       /\ window[i].sources \subseteq Reporters(window[i].sig, window[i].canonical)
       /\ Cardinality(window[i].sources) < Threshold
  /\ \A i, j \in 1..Len(window) : window[i].sig = window[j].sig => i = j

\* What came of a transaction the stream has let go of.
Settled(sig) ==
  \/ sig \in conflicts \cup dropped \cup rejected \cup skipped
  \/ emitted # NoUpdate /\ emitted.sig = sig
  \/ writing # NoWrite /\ writing.path = "geyser" /\ writing.update.sig = sig
  \/ \E a \in Agent : <<a, sig, "geyser">> \in ingested

\* Until then all who reported it are in its entry.
Accounted(sig) ==
  \/ Settled(sig) \/ Reporters(sig, "true") = {}
  \/ \E i \in 1..Len(window) :
       /\ window[i].sig = sig /\ window[i].canonical = "true"
       /\ Reporters(sig, "true") \subseteq window[i].sources

SourcesAreTrue ==
  /\ \A r \in reports : Signs(r[1], r[2])
  /\ emitted # NoUpdate => Agreed(emitted.sig, emitted.canonical)
  /\ \A u \in pending : u \in Update /\ Sound(u)
  /\ Cardinality(Faulty) < Threshold =>
       /\ writing # NoWrite => Sound(writing.update)
       /\ \A r \in rows : r.canonical = "true" /\ r.sig \in OnChain

IngestInv ==
  /\ IngestTypeOK /\ WindowAwaitsQuorum /\ SourcesAreTrue
  /\ \A x \in ingested : \E r \in rows : r.sig = x[2]
  /\ \A sig \in OnChain : Accounted(sig)
=============================================================================
