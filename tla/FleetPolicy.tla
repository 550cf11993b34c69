----------------------------- MODULE FleetPolicy -----------------------------
(***************************************************************************)
(* Who may be in the signing cluster: the pre-flight checks of a key       *)
(* rotation and of a signature (oracle/rotation_overlap_guard,             *)
(* key_rotation_cadence, signer_provenance, operator_manifest,             *)
(* securities_compliance, aml_compliance, cloud_diversity,                 *)
(* region_diversity), of a node's start (network_guard, signer_enforcement,*)
(* library_verification) and of a read of the chain (provider_diversity,   *)
(* multi_rpc).  Only network_guard and library_verification have callers   *)
(* in the repository; the rest is composed as the headers ask: the checks  *)
(* of a rotation run when it is proposed, the program enacts it after its  *)
(* timelock, and the checks of keys and signers run before a certificate.  *)
(***************************************************************************)
EXTENDS Integers, FiniteSetsExt

CONSTANTS
  Key,
  Declared,      \* [Key -> what its operator declares and its machine has]
  AllowedModels, AllowedPostures,
  Pinned,        \* [library -> version]
  Founders,      \* the genesis cluster
  Timelock,      \* the program's review window
  WarnAge, MaxAge,
  MinHosts, MaxPerRegion,      \* MIN_DISTINCT_HOSTS, MAX_SIGNERS_PER_REGION
  RpcEndpoint, ProviderOf,     \* classify_provider
  Truth, Lie,                  \* what an RPC answers; NoAnswer is an error
  NoAnswer,
  Horizon                      \* BOUND: end of the clock

ASSUME FleetAssumption ==
  /\ IsFiniteSet(Key) /\ Founders \subseteq Key
  /\ Timelock \in Nat /\ MinHosts \in Nat \ {0, 1} /\ WarnAge \in Nat /\ MaxAge \in Nat

VARIABLES
  cluster, birth,
  proposal,     \* {} or the set of keys on review
  proposedAt, hour,
  read          \* the answers of the last read that agreed

fleetVars == <<cluster, birth, proposal, proposedAt, hour, read>>

ThresholdOf(keys) == (Cardinality(keys) \div 2) + 1

Production(k) == Declared[k].network = "mainnet-beta"

Values(keys, field) == {Declared[k][field] : k \in keys}
With(keys, field, v) == {k \in keys : Declared[k][field] = v}
Largest(keys, field) == Max({Cardinality(With(keys, field, v)) : v \in Values(keys, field)})

-----------------------------------------------------------------------------
(* The checks of a proposed cluster.                                       *)

\* Mutant: one node too many may share a domain.
MutSpreadOver(keys, field) ==
  keys # {} /\ Largest(keys, field) <= ThresholdOf(keys)

\* Losing one fault domain must leave a quorum.
SpreadOver(keys, field) ==
  /\ keys # {}
  /\ Largest(keys, field) <= Cardinality(keys) - ThresholdOf(keys)
  /\ Cardinality(Values(keys, field)) >= 2

CloudsDiverse(keys) == SpreadOver(keys, "cloud")
RegionsDiverse(keys) == SpreadOver(keys, "region")

OperatorsDiverse(keys) ==
  /\ keys # {} /\ ThresholdOf(keys) \in 1..Cardinality(keys)
  /\ Largest(keys, "org") < ThresholdOf(keys)
  /\ Cardinality(Values(keys, "org")) >= 2
  /\ Cardinality(Values(keys, "country")) >= 2

\* What an operator signs: who it is, how it is paid, whom it rates and is
\* related to, what it declares about money laundering.
Signed(k) == Declared[k].attested
CompensationIndependent(k) == Declared[k].paid \in AllowedModels
ConflictsWellFormed(k) == "malformed" \notin Declared[k].conflicts
AmlPostureAccepted(k) == Declared[k].aml \in AllowedPostures
PostureAccepted(k) ==
  Signed(k) /\ CompensationIndependent(k) /\ ConflictsWellFormed(k) /\ AmlPostureAccepted(k)

\* The genesis cluster is one the checks would have accepted.
ASSUME FoundersDiverse == OperatorsDiverse(Founders) /\ CloudsDiverse(Founders) /\ RegionsDiverse(Founders)

-----------------------------------------------------------------------------
(* What a node asks before it starts.                                      *)

NetworkAllowed(k) ==
  /\ Declared[k].network \in {"localnet", "devnet", "testnet", "mainnet-beta"}
  /\ Production(k) => Declared[k].mainnetOk

SignerAllowed(k) == Production(k) => Declared[k].signer = "hsm" \/ Declared[k].inProcessOk
LibrariesMatch(k) == \A lib \in DOMAIN Pinned : Declared[k].libraries[lib] = Pinned[lib]
MayStart(k) == NetworkAllowed(k) /\ SignerAllowed(k) /\ LibrariesMatch(k)

-----------------------------------------------------------------------------

\* Mutant: only the overlap with the current keys is required.
MutOverlapAllowed(current, proposed, listed) ==
  Cardinality(current \cap proposed) >= ThresholdOf(current) - 1

\* listed is the length of the proposed list, which may name a key twice.
OverlapAllowed(current, proposed, listed) ==
  /\ proposed # {}
  /\ listed = Cardinality(proposed)
  /\ Cardinality(current \ proposed) <= 1
  /\ Cardinality(current \cap proposed) >= ThresholdOf(current) - 1

-----------------------------------------------------------------------------
(* The checks of a signature.                                              *)

\* Mutant: the warning comes with the floor.
MutVerdict(born, at) == IF at - born > MaxAge THEN "overdue" ELSE IF at - born = MaxAge THEN "warn" ELSE "ok"

Verdict(born, at) ==
  CASE at < born -> "overdue"
    [] at - born > MaxAge -> "overdue"
    [] at - born > WarnAge /\ at - born <= MaxAge -> "warn"
    [] OTHER -> "ok"

ProvenanceAllowed(signers) ==
  /\ \A h \in Values(signers, "host") : Cardinality(With(signers, "host", h)) <= 1
  /\ \A r \in Values(signers, "region") : Cardinality(With(signers, "region", r)) <= MaxPerRegion
  /\ Cardinality(Values(signers, "host")) >= MinHosts

-----------------------------------------------------------------------------
(* Reads of the chain.                                                     *)

ProvidersDiverse(endpoints) ==
  endpoints # {} /\ Cardinality({ProviderOf[e] : e \in endpoints}) >= 2

MinAgreements(endpoints) ==
  Max({IF Cardinality(endpoints) >= 2 THEN 2 ELSE 1, (Cardinality(endpoints) \div 2) + 1})

Agreeing(answers, v) == {e \in DOMAIN answers : answers[e] = v}

\* The value enough endpoints agree on; a strict majority is unique.
Agreed(answers) ==
  LET won == {v \in {answers[e] : e \in DOMAIN answers} \ {NoAnswer} :
                Cardinality(Agreeing(answers, v)) >= MinAgreements(DOMAIN answers)}
  IN  IF won = {} THEN NoAnswer ELSE CHOOSE v \in won : TRUE

-----------------------------------------------------------------------------
FleetInit ==
  /\ cluster = Founders
  /\ birth = [k \in Key |-> 0]
  /\ proposal = {} /\ proposedAt = 0 /\ hour = 0
  /\ read = [e \in {} |-> NoAnswer]

ProposeRotation(keys, listed) ==
  /\ proposal = {}
  /\ keys # cluster
  /\ OverlapAllowed(cluster, keys, listed)
  /\ OperatorsDiverse(keys) /\ CloudsDiverse(keys) /\ RegionsDiverse(keys)
  /\ \A k \in keys : PostureAccepted(k)
  /\ proposal' = keys /\ proposedAt' = hour
  /\ UNCHANGED <<cluster, birth, hour, read>>

\* External: the program enacts after its review window.
EnactRotation ==
  /\ proposal # {} /\ hour >= proposedAt + Timelock
  /\ cluster' = proposal /\ proposal' = {}
  /\ birth' = [k \in Key |-> IF k \in proposal \ cluster THEN hour ELSE birth[k]]
  /\ UNCHANGED <<proposedAt, hour, read>>

\* Whom the checks of the keys and of the signers let sign.
MayCertify(signers) ==
  /\ Cardinality(signers) >= ThresholdOf(cluster) /\ signers \subseteq cluster
  /\ \A k \in cluster : Verdict(birth[k], hour) # "overdue"
  /\ ProvenanceAllowed(signers)
  /\ \A k \in signers : MayStart(k)

ReadChain(answers) ==
  /\ ProvidersDiverse(DOMAIN answers)
  /\ Agreed(answers) # NoAnswer
  /\ read' = answers
  /\ UNCHANGED <<cluster, birth, proposal, proposedAt, hour>>

HourPasses ==
  /\ hour < Horizon /\ hour' = hour + 1
  /\ UNCHANGED <<cluster, birth, proposal, proposedAt, read>>

FleetNext ==
  \/ \E keys \in SUBSET Key, more \in {0, 1} : ProposeRotation(keys, Cardinality(keys) + more)
  \/ EnactRotation
  \/ HourPasses

ReadNext ==
  \E es \in SUBSET RpcEndpoint : \E answers \in [es -> {Truth, Lie, NoAnswer}] : ReadChain(answers)

\* The warning comes early enough to replace every key, one review each.
WindowIsWide == WarnAge + 1 + (Cardinality(Founders) * Timelock) <= MaxAge

\* Operators that act on the warning: no hour passes while a key is in its
\* warning window and no rotation is on review, or while one may be enacted.
Prompt ==
  /\ proposal = {} => \A k \in cluster : Verdict(birth[k], hour) # "warn"
  /\ proposal # {} => hour < proposedAt + Timelock

\* ... and replace the oldest key by a fresh one of the same place.
PromptNext ==
  \/ \E k \in cluster, new \in Key \ cluster :
       /\ \A other \in cluster : birth[k] <= birth[other]
       /\ Verdict(birth[k], hour) = "warn"
       /\ ProposeRotation((cluster \ {k}) \cup {new}, Cardinality(cluster))
  \/ EnactRotation
  \/ Prompt /\ HourPasses

-----------------------------------------------------------------------------
\* A key a ceremony, of those the cluster has: however often the cluster is
\* rotated, one founder fewer costs a whole review window.  This is what the
\* check of the overlap bounds (rotation_overlap_guard.py, with the program's
\* timelock).  Keys that are added are not counted by the check, so how many
\* of the cluster are new is not bounded: from {f1, f2, f3} one review may lead
\* to {f2, f3, x, y, z}, where the module's docstring has one key change.
FoundersLeaveSlowly == Cardinality(Founders \ cluster) * Timelock <= hour

\* Whatever rotations passed, the checks let no signers sign that are all of
\* one organisation, cloud, region or machine, and the loss of any one cloud
\* or region leaves a quorum of the cluster.
NoDomainIsAQuorum ==
  /\ \A field \in {"org", "cloud", "region", "host"} : \A v \in Values(cluster, field) :
       \A s \in SUBSET With(cluster, field, v) : ~ MayCertify(s)
  /\ \A field \in {"cloud", "region"} : \A v \in Values(cluster, field) :
       Cardinality(cluster \ With(cluster, field, v)) >= ThresholdOf(cluster)

\* "a 30-day warning window leaves ample time": one key at a time and one
\* review window each, a cluster whose keys were all born together is renewed
\* before any of them is overdue (key_rotation_cadence.py).
RotationKeepsUp == \A k \in cluster : Verdict(birth[k], hour) # "overdue"

\* Whatever rotations pass the checks, founders leave one a review window and
\* no organisation, machine, cloud or region has a quorum of those who sign;
\* and a cluster that rotates when the warning asks for it, one key a window,
\* never has an overdue key.
RotationIsSafe == FoundersLeaveSlowly /\ NoDomainIsAQuorum /\ RotationKeepsUp
=============================================================================
