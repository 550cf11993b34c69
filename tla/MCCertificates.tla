---------------------------- MODULE MCCertificates ----------------------------
(* One agent; one time unit is a day (the green age and the challenge       *)
(* window are shortened alike).  Three stories start from the same chain:   *)
(* concurrent baseline committers; the life of certificates; governance.    *)
(* Others are the stories a module that extends this one tells beside them. *)
EXTENDS Certificates

CONSTANTS a1, h1, h2, d1, d2, d3, p1

CONSTANT Others

VARIABLE story

mcVars == <<issuanceVars, call, story>>

Seats(keys, domains) ==
  [i \in DOMAIN keys |-> [key |-> keys[i], domain |-> domains[i]]]
Group(keys, domains, t) == [members |-> Seats(keys, domains), threshold |-> t]

\* The genesis cluster shares a domain between two keys.
Genesis == Group(<<1, 2, 3, 4>>, <<d1, d2, d3, d3>>, 3)
Clusters ==
  {Genesis,
   Group(<<1, 2, 5>>, <<d1, d2, d3>>, 2),       \* a smaller cluster
   Group(<<1, 2, 8>>, <<d1, d2, d3>>, 2),       \* with an attester's key
   Group(<<1, 2, 3>>, <<d1, d1, d1>>, 2),       \* in one domain
   Group(<<1>>, <<d1>>, 1)}                     \* no fault tolerance left
MCGenesis ==
  {[authority |-> 6, cluster |-> Genesis,
    attesters |-> [keys |-> {8, 9}, threshold |-> 2]]}
\* A cluster whose two lowest keys share a domain.
SharedGenesis ==
  {[g EXCEPT !.cluster = Group(<<1, 2, 3, 4>>, <<d1, d1, d2, d3>>, 3)] : g \in MCGenesis}
MCKeys == 1..9
Successors == {6, 7}
MCHashes == {h1, h2}
MCDomains == {d1, d2, d3}
Kinds == [c \in {"owner", "node"} |-> IF c = "owner" THEN "owner" ELSE "oracle"]

\* BOUND: a committer is after one hash; only committers meet an old layout.
CertificateStoryInit ==
  /\ IssuanceInit /\ CommitterInit
  /\ story \in {"committers", "certificates", "governance"} \cup Others
  /\ \A c \in Committer : call[c].hash = h1
  /\ story # "committers" => \A a \in Wallet : reg[a].layout = CurrentLayout

\* BOUND: in the life of certificates the agent stays active, its owner
\* commits one baseline and then the other, baselines are recorded at their
\* epoch, a pair or four keys sign, and one rotation to a legal cluster is
\* prepared; authority and badges rest.
Lived ==
  /\ Cardinality(consented') <= 1
  /\ \A r \in consented' : Len(r.keys) = 3
  /\ \A a \in Wallet : reg'[a].active /\ stats'[a].epoch <= epoch
  /\ \A d \in data' : d.kind = "owner" /\ d.hash = (IF d.nonce = 1 THEN h1 ELSE h2)
  /\ \A b \in bundles' : Cardinality(b.all) \in {2, 4}
  /\ issuer'.pending = NoKey
  /\ today' <= 3
  /\ UNCHANGED <<badge, call>>

CertificateStoryNext ==
  /\ UNCHANGED story
  /\ \/ /\ story = "committers"
        /\ CommitterNext
        /\ UNCHANGED <<issuerVars, certVars>>
     \/ /\ story = "governance"
        /\ \/ GovernanceStep /\ UNCHANGED today
           \/ DayPasses /\ UNCHANGED issuerVars
        /\ UNCHANGED <<reg, data, certVars, call>>
     \/ story = "certificates" /\ IssuanceNext /\ Lived

CertificateStorySpec == CertificateStoryInit /\ [][CertificateStoryNext]_mcVars
=============================================================================
