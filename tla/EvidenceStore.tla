---------------------------- MODULE EvidenceStore ----------------------------
(***************************************************************************)
(* The off-chain store of diagnosis payloads: what the cluster agreed on   *)
(* is emitted by a leader (cluster/diagnosis_payload_emit.py), ingested by *)
(* the indexer (indexer/diagnosis_payload_ingest.py) in any order and more *)
(* than once, and served as attested once the certificate's hash was seen  *)
(* (api/evidence_repo.py, db/timescale_evidence_repo.py).                  *)
(***************************************************************************)
EXTENDS Naturals, FiniteSets

CONSTANTS
  Slot,        \* (agent, epoch) pairs
  Payload,     \* canonical payload bytes, which stand for their hash
  Possible,    \* the payloads an epoch run may come to, per slot
  NoRecord

\* BOUND: an epoch is run at most twice for a slot, and may differ.
ASSUME EvidenceAssumption ==
  /\ Possible \in [Slot -> SUBSET Payload]
  /\ \A s, t \in Slot : s # t => Possible[s] \cap Possible[t] = {}

VARIABLES
  agreedHashes,  \* payload-hash consensuses the cluster reached, per slot
  certHash,      \* diagnosis_payload_hash of the slot's certificate, or NoRecord
  inFlight,      \* DiagnosisPayloadEvents sent
  byHash,        \* _by_hash: the record of a payload
  bySlot         \* _by_agent_epoch

evidenceVars == <<agreedHashes, certHash, inFlight, byHash, bySlot>>

EvidenceInit ==
  /\ agreedHashes = [s \in Slot |-> {}]
  /\ certHash = [s \in Slot |-> NoRecord]
  /\ inFlight = {}
  /\ byHash = [h \in Payload |-> NoRecord]
  /\ bySlot = [s \in Slot |-> NoRecord]

Consensus(s, h) ==
  /\ h \in Possible[s]
  /\ agreedHashes' = [agreedHashes EXCEPT ![s] = @ \cup {h}]
  /\ UNCHANGED <<certHash, inFlight, byHash, bySlot>>

CertificateLands(s, h) ==
  /\ h \in agreedHashes[s] /\ certHash[s] = NoRecord
  /\ certHash' = [certHash EXCEPT ![s] = h]
  /\ UNCHANGED <<agreedHashes, inFlight, byHash, bySlot>>

\* cluster_emit_diagnosis_payload: the leader's own bytes, if they hash to
\* what the cluster agreed on.
MayEmit(s, h) == h \in agreedHashes[s]
Emit(s, h) ==
  /\ MayEmit(s, h)
  /\ inFlight' = inFlight \cup {[slot |-> s, payload |-> h]}
  /\ UNCHANGED <<agreedHashes, certHash, byHash, bySlot>>

\* ingest_payload: the first payload of a slot stays; another one is refused.
MutStores(ev) == TRUE       \* mutant: the newest payload of a slot is stored
Stores(ev) == bySlot[ev.slot] \in {NoRecord, ev.payload}
Ingest(ev) ==
  /\ Stores(ev)
  /\ bySlot' = [bySlot EXCEPT ![ev.slot] = ev.payload]
  /\ byHash' = IF byHash[ev.payload] = NoRecord
               THEN [byHash EXCEPT ![ev.payload] = [slot |-> ev.slot, seen |-> NoRecord]]
               ELSE byHash
  /\ UNCHANGED <<agreedHashes, certHash, inFlight>>

\* record_on_chain_observation: dropped when the payload is not stored yet.
RecordOnChainHash(s) ==
  /\ certHash[s] # NoRecord
  /\ byHash' = IF bySlot[s] = NoRecord THEN byHash
               ELSE [byHash EXCEPT ![bySlot[s]].seen = certHash[s]]
  /\ UNCHANGED <<agreedHashes, certHash, inFlight, bySlot>>

EvidenceNext ==
  \/ \E s \in Slot, h \in Payload : Consensus(s, h) \/ CertificateLands(s, h) \/ Emit(s, h)
  \/ \E ev \in inFlight : Ingest(ev)
  \/ \E s \in Slot : RecordOnChainHash(s)

EvidenceSpec == EvidenceInit /\ [][EvidenceNext]_evidenceVars

-----------------------------------------------------------------------------
\* is_threshold_attested of what evidence_at_epoch returns.
MutAttestedAt(s) == bySlot[s] # NoRecord /\ byHash[bySlot[s]].seen # NoRecord
AttestedAt(s) == bySlot[s] # NoRecord /\ byHash[bySlot[s]].seen = bySlot[s]

\* What is served for a slot never changes once it is stored, and is called
\* attested only if it is what the certificate of that very slot commits to -
\* however often the epoch was run and in whatever order payloads, duplicates
\* and certificates arrive (EvidencePayloadRecord, "PHASE-2 ATTESTATION").
ServedEvidenceIsTrue ==
  [][/\ \A s \in Slot : AttestedAt(s)' =>
          byHash'[bySlot'[s]].slot = s /\ certHash'[s] = bySlot'[s]
     /\ \A s \in Slot : bySlot[s] # NoRecord => bySlot'[s] = bySlot[s]]_evidenceVars

Record == [slot: Slot, seen: Payload \cup {NoRecord}]

EvidenceTypeOK ==
  /\ agreedHashes \in [Slot -> SUBSET Payload]
  /\ certHash \in [Slot -> Payload \cup {NoRecord}]
  /\ inFlight \subseteq [slot: Slot, payload: Payload]
  /\ byHash \in [Payload -> Record \cup {NoRecord}]
  /\ bySlot \in [Slot -> Payload \cup {NoRecord}]

\* A record belongs to the slot whose runs can come to its payload, and the
\* certificate hash it has seen is that slot's.
Faithful(h, r) ==
  /\ r \in Record /\ h \in Possible[r.slot]
  /\ r.seen \in {NoRecord, certHash[r.slot]}

\* What is agreed on, sent and stored for a slot is what a run of that slot
\* can come to; hence no two slots share a record.
EvidenceInv ==
  /\ EvidenceTypeOK
  /\ \A s \in Slot : agreedHashes[s] \subseteq Possible[s]
  /\ \A ev \in inFlight : ev.payload \in Possible[ev.slot]
  /\ \A h \in Payload : byHash[h] # NoRecord => Faithful(h, byHash[h])
  /\ \A s \in Slot : bySlot[s] # NoRecord =>
       /\ bySlot[s] \in Possible[s]
       /\ Faithful(bySlot[s], byHash[bySlot[s]]) /\ byHash[bySlot[s]].slot = s
=============================================================================
