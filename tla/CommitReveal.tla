---------------------------- MODULE CommitReveal ----------------------------
(***************************************************************************)
(* One epoch's commit-reveal round across a cluster of OracleNodes         *)
(* (oracle/node.py).  First one node's view of the round, the state        *)
(* machine of CommitRevealRound (cluster/commit_reveal_round.py), as       *)
(* operators from a round and an explicit clock value to the next round,   *)
(* exactly as the class is "pure given its inputs"; then the nodes.        *)
(*                                                                         *)
(* Every node keeps its own view, commits to its own scores, broadcasts,   *)
(* and reveals.  The nodes run concurrently: a broadcast request reaches   *)
(* each peer at any time, in any order, more than once or never, and a     *)
(* node's round clock lags the orchestrator's.                             *)
(*                                                                         *)
(* A commit hash is the record of what was hashed (sha256 is injective and *)
(* one-way for the protocol's purposes): verification is equality of       *)
(* records.  It binds a nonce, and no node: a nonce is named by the call   *)
(* of local_commit that drew it, since no two calls draw the same.  The    *)
(* two score fields a hash binds are abstracted to one value of Scores;    *)
(* per-agent input commitments are never passed by the node and left out.  *)
(*                                                                         *)
(* Scores are computed before the round (OwnScores).  A node of Copiers    *)
(* keeps to the schedule and tells every peer the same, but copies: it     *)
(* commits to a placeholder or sends a hash a peer has broadcast as its    *)
(* own, and it reveals the scores a peer revealed, with a nonce of its own *)
(* or with the one the peer revealed.  No handler asks who sent a request  *)
(* (node.commit and node.reveal take request.node_id as it is).            *)
(***************************************************************************)
EXTENDS Naturals, FiniteSets

CONSTANTS
    Nodes,              \* the round's members (node_ids)
    None,               \* the absent value: no commit, no reveal, no pin
    CommitDeadline,     \* commit_deadline
    RevealDeadline,     \* reveal_deadline
    MinReveals,         \* min_reveals: quorum_for(cluster size) in the runner;
                        \* more than there are nodes stands for "no early close"
    Scores,             \* the score sets a node can hold for the epoch
    OwnScores,          \* _epoch_scores[epoch], after score_epoch
    AlgoVersion,        \* _algo_version: the version each node runs
    SnapshotHash,       \* the agent-set snapshot each node bound
    Copiers,            \* the nodes that copy commits and scores
    MaxTime,            \* bound on the orchestrator's clock
    MaxCommitCalls      \* bound on a node's calls of local_commit

ASSUME RoundAssumption ==
    /\ CommitDeadline \in Nat
    /\ RevealDeadline \in Nat
    /\ CommitDeadline <= RevealDeadline     \* the constructor's check
    /\ MinReveals \in Nat \ {0}

(* CommitRevealRound.__init__, for a round that was opened without a pin   *)
(* (OracleNode.open_round never passes one).                               *)
OpenedRound(snapshotHash) ==
    [ phase      |-> "open_commit",
      snapshot   |-> snapshotHash,
      pin        |-> None,
      commits    |-> [m \in Nodes |-> None],
      reveals    |-> [m \in Nodes |-> None],
      mismatched |-> {},
      byQuorum   |-> FALSE ]

CommittedNodes(r) == {m \in Nodes : r.commits[m] # None}
RevealedNodes(r)  == {m \in Nodes : r.reveals[m] # None}
VerifiedNodes(r)  == {m \in RevealedNodes(r) : r.reveals[m].verified}
FaultyNodes(r)    == Nodes \ VerifiedNodes(r)
NonRevealers(r)   == CommittedNodes(r) \ RevealedNodes(r)

AllRevealed(r) == CommittedNodes(r) # {} /\ NonRevealers(r) = {}
QuorumClose(r) == Cardinality(VerifiedNodes(r)) >= MinReveals

(* "the cluster proceeded on partial reveals"                              *)
ClosedByQuorum(r) == r.byQuorum \/ (QuorumClose(r) /\ ~AllRevealed(r))

(* _advance, the two transitions in the order the code tries them; one     *)
(* call may pass through both.                                             *)
CloseCommits(r, t) ==
    IF r.phase = "open_commit" /\ (CommittedNodes(r) = Nodes \/ t >= CommitDeadline)
    THEN [r EXCEPT !.phase = "open_reveal"]
    ELSE r

\* Mutant: the round waits for stragglers for ever.
MutCloseReveals(r, t) ==
    IF r.phase = "open_reveal" /\ (AllRevealed(r) \/ QuorumClose(r))
    THEN [r EXCEPT !.phase = "closed"]
    ELSE r

CloseReveals(r, t) ==
    IF r.phase = "open_reveal" /\ (AllRevealed(r) \/ QuorumClose(r) \/ t >= RevealDeadline)
    THEN [r EXCEPT !.phase = "closed",
                   !.byQuorum = ClosedByQuorum(r)]
    ELSE r

Advance(r, t) == CloseReveals(CloseCommits(r, t), t)

-----------------------------------------------------------------------------
(* submit_commit.  The phase advances first and again after an accepted    *)
(* commit.  A commit carrying the pinned version, or any commit while      *)
(* nothing is pinned, is accepted; it pins the round.                      *)
MayCommit(r, m) == r.phase = "open_commit" /\ r.commits[m] = None

CommitAccepted(r, m, version, t) ==
    LET a == Advance(r, t) IN MayCommit(a, m) /\ a.pin \in {None, version}

\* Mutant: the version check flags the node but does not refuse the commit.
MutSubmitCommit(r, m, hash, version, t) ==
    LET a == Advance(r, t) IN
    IF ~MayCommit(a, m)
    THEN a
    ELSE IF a.pin \notin {None, version}
         THEN Advance([a EXCEPT !.mismatched = a.mismatched \cup {m}, !.commits[m] = hash], t)
         ELSE Advance([a EXCEPT !.commits[m] = hash, !.pin = version], t)

SubmitCommit(r, m, hash, version, t) ==
    LET a == Advance(r, t) IN
    IF ~MayCommit(a, m)
    THEN a
    ELSE IF a.pin \notin {None, version}
         THEN [a EXCEPT !.mismatched = a.mismatched \cup {m}]
         ELSE Advance([a EXCEPT !.commits[m] = hash, !.pin = version], t)

CommitHash(scores, nonce, version, snapshotHash) ==
    [scores |-> scores, nonce |-> nonce, version |-> version, snapshot |-> snapshotHash]

\* Mutants: only the nonce is compared; the pinned version is not passed to
\* the check.
MutVerifyNonceOnly(r, m, scores, nonce) ==
    r.commits[m].nonce = nonce
MutVerifyNoVersion(r, m, scores, nonce) ==
    r.commits[m] = CommitHash(scores, nonce, None, r.snapshot)

VerifyReveal(r, m, scores, nonce) ==
    r.commits[m] = CommitHash(scores, nonce, r.pin, r.snapshot)

(* submit_reveal.  A reveal is recorded, verified or not, when it comes    *)
(* from a committed node after the commit phase and before the hard        *)
(* deadline - also when the round already closed on its quorum.            *)
\* Mutants: no phase check (a peeking head start); a
\* round closed on its quorum takes no more reveals.
MutRevealEarly(r, m, t) ==
    LET a == Advance(r, t) IN
    t < RevealDeadline /\ a.commits[m] # None /\ a.reveals[m] = None
MutRevealUntilQuorum(r, m, t) ==
    LET a == Advance(r, t) IN
    a.phase = "open_reveal" /\ a.commits[m] # None /\ a.reveals[m] = None

RevealAccepted(r, m, t) ==
    LET a == Advance(r, t) IN
    /\ a.phase # "open_commit"
    /\ t < RevealDeadline
    /\ a.commits[m] # None
    /\ a.reveals[m] = None

SubmitReveal(r, m, scores, nonce, t) ==
    LET a == Advance(r, t) IN
    IF RevealAccepted(r, m, t)
    THEN Advance([a EXCEPT !.reveals[m] =
             [scores |-> scores, verified |-> VerifyReveal(a, m, scores, nonce)]], t)
    ELSE a

-----------------------------------------------------------------------------
ASSUME ClusterAssumption ==
    /\ OwnScores \in [Nodes -> Scores]
    /\ Copiers \subseteq Nodes
    /\ MaxTime \in Nat
    /\ MaxCommitCalls \in Nat

VARIABLES
    now,                \* the orchestrator's logical time
    clock,              \* _round_clock of each node
    round,              \* _rounds[epoch] of each node
    nonce,              \* _epoch_nonces[epoch]: how many nonces were drawn
    commitMsg,          \* the CommitRequest a node broadcast, or None
    revealMsg           \* the RevealRequest a node broadcast, or None

vars == <<now, clock, round, nonce, commitMsg, revealMsg>>

Unopened == [phase |-> "unopened"]
IsOpen(n) == round[n] # Unopened

Nonce == [by : Nodes, call : 1..MaxCommitCalls]
Hash == [scores : Scores, nonce : Nonce,
         version : {AlgoVersion[n] : n \in Nodes}, snapshot : {SnapshotHash[n] : n \in Nodes}]
CommitRequest == [hash : Hash, version : {AlgoVersion[n] : n \in Nodes}]
RevealRequest == [scores : Scores, nonce : Nonce,
                  version : {AlgoVersion[n] : n \in Nodes} \cup {None}]

ASSUME NoneIsAbsent ==
    /\ None \notin {AlgoVersion[n] : n \in Nodes}
    /\ None \notin Hash
    /\ None \notin CommitRequest
    /\ None \notin RevealRequest
    /\ None \notin [scores : Scores, verified : BOOLEAN]

Round == [ phase : {"open_commit", "open_reveal", "closed"},
           snapshot : {SnapshotHash[n] : n \in Nodes},
           pin : {AlgoVersion[n] : n \in Nodes} \cup {None},
           commits : [Nodes -> Hash \cup {None}],
           reveals : [Nodes -> [scores : Scores, verified : BOOLEAN] \cup {None}],
           mismatched : SUBSET Nodes,
           byQuorum : BOOLEAN ]

Init ==
    /\ now = 0
    /\ clock = [n \in Nodes |-> 0]
    /\ round = [n \in Nodes |-> Unopened]
    /\ nonce = [n \in Nodes |-> 0]
    /\ commitMsg = [n \in Nodes |-> None]
    /\ revealMsg = [n \in Nodes |-> None]

-----------------------------------------------------------------------------
(* open_round: "already open" raises; the logical round clock restarts.    *)
OpenRound(n) ==
    /\ ~IsOpen(n)
    /\ round' = [round EXCEPT ![n] = OpenedRound(SnapshotHash[n])]
    /\ clock' = [clock EXCEPT ![n] = 0]
    /\ UNCHANGED <<now, nonce, commitMsg, revealMsg>>

(* The orchestrator's time, which the local calls are stamped with ...     *)
Tick ==
    /\ now < MaxTime
    /\ now' = now + 1
    /\ UNCHANGED <<clock, round, nonce, commitMsg, revealMsg>>

(* ... and advance_round_clock, which never moves a node's clock back.     *)
AdvanceRoundClock(n) ==
    /\ clock[n] < now
    /\ clock' = [clock EXCEPT ![n] = now]
    /\ UNCHANGED <<now, round, nonce, commitMsg, revealMsg>>

(* local_commit: a fresh nonce replaces the stored one BEFORE the round    *)
(* may refuse the commit; a refusal raises, and nothing is broadcast.      *)
LocalCommit(n) ==
    /\ IsOpen(n)
    /\ nonce[n] < MaxCommitCalls
    /\ nonce' = [nonce EXCEPT ![n] = nonce[n] + 1]
    /\ LET hash == CommitHash(OwnScores[n], [by |-> n, call |-> nonce'[n]],
                              AlgoVersion[n], round[n].snapshot)
       IN  /\ round' = [round EXCEPT ![n] =
                  SubmitCommit(round[n], n, hash, AlgoVersion[n], now)]
           /\ commitMsg' = IF CommitAccepted(round[n], n, AlgoVersion[n], now)
                           THEN [commitMsg EXCEPT ![n] =
                                    [hash |-> hash, version |-> AlgoVersion[n]]]
                           ELSE commitMsg
    /\ UNCHANGED <<now, clock, revealMsg>>

(* A copier sends a hash a peer has broadcast, under the peer's version, as *)
(* its own commit; its own view takes it as any first commit.              *)
CopyCommit(n, m) ==
    /\ n \in Copiers
    /\ IsOpen(n)
    /\ commitMsg[m] # None
    /\ round' = [round EXCEPT ![n] =
           SubmitCommit(round[n], n, commitMsg[m].hash, commitMsg[m].version, now)]
    /\ commitMsg' = IF CommitAccepted(round[n], n, commitMsg[m].version, now)
                    THEN [commitMsg EXCEPT ![n] = commitMsg[m]]
                    ELSE commitMsg
    /\ UNCHANGED <<now, clock, nonce, revealMsg>>

(* The commit handler, stamped with the receiver's round clock.            *)
DeliverCommit(n, m) ==
    /\ m # n
    /\ IsOpen(n)
    /\ commitMsg[m] # None
    /\ round' = [round EXCEPT ![n] =
           SubmitCommit(round[n], m, commitMsg[m].hash, commitMsg[m].version, clock[n])]
    /\ UNCHANGED <<now, clock, nonce, commitMsg, revealMsg>>

(* local_reveal: the node records its own reveal first; a refusal raises,  *)
(* and nothing is broadcast.                                               *)
LastNonce(n) == [by |-> n, call |-> nonce[n]]

LocalReveal(n) ==
    /\ n \notin Copiers
    /\ IsOpen(n)
    /\ nonce[n] > 0
    /\ round' = [round EXCEPT ![n] =
           SubmitReveal(round[n], n, OwnScores[n], LastNonce(n), now)]
    /\ revealMsg' = IF RevealAccepted(round[n], n, now)
                    THEN [revealMsg EXCEPT ![n] =
                             [scores |-> OwnScores[n], nonce |-> LastNonce(n),
                              version |-> AlgoVersion[n]]]
                    ELSE revealMsg
    /\ UNCHANGED <<now, clock, nonce, commitMsg>>

(* A copier broadcasts a peer's revealed scores, with the nonce it drew    *)
(* itself or with the peer's, and no version tag.                          *)
CopyReveal(n, m) ==
    /\ n \in Copiers
    /\ commitMsg[n] # None
    /\ revealMsg[n] = None
    /\ revealMsg[m] # None
    /\ \E k \in {LastNonce(n), revealMsg[m].nonce} \cap Nonce :
          revealMsg' = [revealMsg EXCEPT ![n] =
             [scores |-> revealMsg[m].scores, nonce |-> k, version |-> None]]
    /\ UNCHANGED <<now, clock, round, nonce, commitMsg>>

(* The reveal handler: a carried version other than the pinned one is      *)
(* turned away before the round sees the reveal.                           *)
VersionTagRefused(r, version) ==
    /\ version # None
    /\ r.pin # None
    /\ version # r.pin

DeliverReveal(n, m) ==
    /\ m # n
    /\ IsOpen(n)
    /\ revealMsg[m] # None
    /\ ~VersionTagRefused(round[n], revealMsg[m].version)
    /\ round' = [round EXCEPT ![n] =
           SubmitReveal(round[n], m, revealMsg[m].scores, revealMsg[m].nonce, clock[n])]
    /\ UNCHANGED <<now, clock, nonce, commitMsg, revealMsg>>

(* The result queries - verified_scores, faulty_nodes, non_revealers -     *)
(* advance the phase to the time they are asked at, which the runner has   *)
(* always set the node's clock to.                                         *)
ReadResults(n) ==
    /\ IsOpen(n)
    /\ round' = [round EXCEPT ![n] = Advance(round[n], clock[n])]
    /\ UNCHANGED <<now, clock, nonce, commitMsg, revealMsg>>

Next ==
    \/ Tick
    \/ \E n \in Nodes :
          \/ OpenRound(n)
          \/ AdvanceRoundClock(n)
          \/ LocalCommit(n)
          \/ LocalReveal(n)
          \/ ReadResults(n)
          \/ \E m \in Nodes :
                \/ DeliverCommit(n, m)
                \/ DeliverReveal(n, m)
                \/ CopyCommit(n, m)
                \/ CopyReveal(n, m)

Spec == Init /\ [][Next]_vars

(* The orchestrator keeps driving the epoch: time passes, every node opens *)
(* its round, has its clock advanced and is asked for its result.  Nothing *)
(* is assumed of messages.                                                 *)
Driven ==
    /\ WF_vars(Tick)
    /\ \A n \in Nodes :
          WF_vars(OpenRound(n)) /\ WF_vars(AdvanceRoundClock(n)) /\ WF_vars(ReadResults(n))

FairSpec == Spec /\ Driven

-----------------------------------------------------------------------------
(* Every variable stays in its domain.                                     *)
TypeOK ==
    /\ now \in 0..MaxTime
    /\ clock \in [Nodes -> 0..MaxTime]
    /\ round \in [Nodes -> Round \cup {Unopened}]
    /\ nonce \in [Nodes -> 0..MaxCommitCalls]
    /\ commitMsg \in [Nodes -> CommitRequest \cup {None}]
    /\ revealMsg \in [Nodes -> RevealRequest \cup {None}]

NoCommitAfterReveal ==
    \A n \in Nodes : commitMsg'[n] # commitMsg[n] =>
       \A m \in Nodes : revealMsg[m] = None

(* "The commit was published first": no node broadcasts a commit once any  *)
(* node has broadcast its scores, although each node opens its reveal      *)
(* phase by its own view and its own clock.                                *)
CommitsPrecedeReveals == [][NoCommitAfterReveal]_vars

(* What counts as a verified reveal, in anyone's view, is what some node   *)
(* committed to before any reveal: the scores of the node that drew the    *)
(* commit's nonce, under the pinned version and the verifier's agent set - *)
(* for a node that copies nothing, its own.  A score learned from a reveal *)
(* never counts for a node that had not sent its hash in the commit phase, *)
(* and two views that count a node count the same scores.                  *)
VerifiedScoresAreCommitted ==
    \A n \in Nodes : IsOpen(n) =>
       \A m \in VerifiedNodes(round[n]) :
          LET k == round[n].commits[m].nonce.by IN
          /\ round[n].reveals[m].scores = OwnScores[k]
          /\ round[n].pin = AlgoVersion[k]
          /\ SnapshotHash[n] = SnapshotHash[k]
          /\ m \notin Copiers => k = m

(* "When it later tries to reveal a score it copied from a peer's reveal,  *)
(* the copied score will not hash to its committed value -> verification   *)
(* fails -> the node is excluded" (commit_reveal.py:30): every score that  *)
(* counts was computed by the node it counts for.                          *)
CopiedScoresNeverCount ==
    \A n \in Nodes : IsOpen(n) =>
       \A m \in VerifiedNodes(round[n]) : round[n].reveals[m].scores = OwnScores[m]

(* A node that called local_commit again has lost the nonce its commit is  *)
(* bound by: no reveal of it can verify any more (node.py:523).            *)
KeptItsNonce(m) == commitMsg[m] # None => commitMsg[m].hash.nonce = LastNonce(m)

(* A node that reveals the very scores it committed to, over the same      *)
(* agent set and with the nonce it committed under, is never recorded as   *)
(* "did not compute these scores independently".                           *)
HonestRevealsVerify ==
    \A n, m \in Nodes :
       (IsOpen(n) /\ m \notin Copiers /\ SnapshotHash[n] = SnapshotHash[m] /\ KeptItsNonce(m)) =>
          (m \in RevealedNodes(round[n]) => m \in VerifiedNodes(round[n]))

(* A node excluded for version skew really runs another version, and is    *)
(* never also a committer - so never a non-revealer the watchdog strikes.  *)
(* (A copier carries whatever version it copied, one after the other.)     *)
SkewIsNotMisbehaviour ==
    \A n \in Nodes : IsOpen(n) =>
       \A m \in round[n].mismatched \ Copiers :
          /\ AlgoVersion[m] # round[n].pin
          /\ m \notin CommittedNodes(round[n])

(* Whatever is lost and whoever stays silent, every view closes.           *)
EveryRoundCloses ==
    \A n \in Nodes : <>[](IsOpen(n) /\ round[n].phase = "closed")

-----------------------------------------------------------------------------
(* The inductive invariant behind CommitsPrecedeReveals and                *)
(* VerifiedScoresAreCommitted.                                             *)

ClocksLag == \A n \in Nodes : clock[n] <= now

(* Every recorded commit is the one its node broadcast, a node's own view  *)
(* holds what it broadcast - the first commit binds it - and what was      *)
(* hashed is the drawer's of the nonce: its scores, version and agent set. *)
CommitsAreBroadcast ==
    /\ \A n, m \in Nodes :
          (IsOpen(n) /\ round[n].commits[m] # None) =>
             commitMsg[m] # None /\ round[n].commits[m] = commitMsg[m].hash
    /\ \A m \in Nodes : commitMsg[m] # None =>
          LET k == commitMsg[m].hash.nonce.by IN
          /\ IsOpen(m) /\ round[m].commits[m] # None
          /\ commitMsg[m].hash.scores = OwnScores[k]
          /\ commitMsg[m].hash.version = AlgoVersion[k]
          /\ commitMsg[m].hash.snapshot = SnapshotHash[k]
          /\ commitMsg[m].version = AlgoVersion[k]
          /\ m \notin Copiers => k = m

(* Some view has opened its reveal phase only if nobody can commit any more.*)
PhaseIsJustified ==
    \A n \in Nodes : (IsOpen(n) /\ round[n].phase # "open_commit") =>
       (\A m \in Nodes : round[n].commits[m] # None) \/ now >= CommitDeadline

RevealsCloseCommits ==
    (\E m \in Nodes : revealMsg[m] # None) =>
       (\A m \in Nodes : commitMsg[m] # None) \/ now >= CommitDeadline

VerifiedMatchesCommit ==
    \A n \in Nodes : IsOpen(n) =>
       /\ round[n].snapshot = SnapshotHash[n]
       /\ \A m \in Nodes : (round[n].reveals[m] # None /\ round[n].reveals[m].verified) =>
             /\ round[n].commits[m] # None
             /\ round[n].commits[m].scores = round[n].reveals[m].scores
             /\ round[n].commits[m].version = round[n].pin
             /\ round[n].commits[m].snapshot = round[n].snapshot

RoundInv ==
    /\ TypeOK
    /\ ClocksLag
    /\ CommitsAreBroadcast
    /\ PhaseIsJustified
    /\ RevealsCloseCommits
    /\ VerifiedMatchesCommit

(* The inductive invariant behind HonestRevealsVerify and                  *)
(* SkewIsNotMisbehaviour, beside RoundInv.                                 *)

(* Every commit a view holds is under its pin; a node it has excluded, and *)
(* that copies nothing, runs another version and has no commit there.      *)
PinIsUniform ==
    \A n \in Nodes : IsOpen(n) => \A m \in Nodes :
       /\ round[n].commits[m] # None => round[n].commits[m].version = round[n].pin
       /\ m \in round[n].mismatched \ Copiers =>
             round[n].pin \notin {None, AlgoVersion[m]} /\ round[n].commits[m] = None

(* What an honest node reveals are its scores, under a nonce of its own    *)
(* drawn no earlier than that of its commit.                               *)
RevealsAreOwn ==
    \A m \in Nodes \ Copiers :
       /\ commitMsg[m] # None => commitMsg[m].hash.nonce.call <= nonce[m]
       /\ revealMsg[m] # None =>
             /\ commitMsg[m] # None
             /\ revealMsg[m].scores = OwnScores[m]
             /\ revealMsg[m].nonce.by = m
             /\ commitMsg[m].hash.nonce.call <= revealMsg[m].nonce.call
             /\ revealMsg[m].nonce.call <= nonce[m]

RevealsFollowCommits ==
    \A n, m \in Nodes : IsOpen(n) /\ round[n].reveals[m] # None => round[n].commits[m] # None

FairnessInv == PinIsUniform /\ RevealsAreOwn /\ RevealsFollowCommits /\ HonestRevealsVerify

-----------------------------------------------------------------------------
(* The round with the requests of peers going through                      *)
(* cluster/grpc_transport.py: native messages are translated to the        *)
(* protobuf of proto/cluster.proto and back at each socket.                *)

\* The translation of a request there and back: the protobuf messages carry
\* node, epoch, hash, scores and salt, but no scoring version.
OverWire(request) == [request EXCEPT !.version = None]

\* _Servicer.Commit and _Servicer.Reveal, which call the node's handlers.
WireCommit(n, m) ==
  /\ m # n /\ IsOpen(n) /\ commitMsg[m] # None
  /\ LET got == OverWire(commitMsg[m])
     IN  round' = [round EXCEPT ![n] = SubmitCommit(round[n], m, got.hash, got.version, clock[n])]
  /\ UNCHANGED <<now, clock, nonce, commitMsg, revealMsg>>

WireReveal(n, m) ==
  /\ m # n /\ IsOpen(n) /\ revealMsg[m] # None
  /\ LET got == OverWire(revealMsg[m])
     IN  /\ ~VersionTagRefused(round[n], got.version)
         /\ round' = [round EXCEPT ![n] =
                        SubmitReveal(round[n], m, got.scores, got.nonce, clock[n])]
  /\ UNCHANGED <<now, clock, nonce, commitMsg, revealMsg>>

GrpcNext ==
  \/ Tick
  \/ \E n \in Nodes :
       \/ OpenRound(n) \/ AdvanceRoundClock(n) \/ LocalCommit(n) \/ LocalReveal(n) \/ ReadResults(n)
       \/ \E m \in Nodes :
            WireCommit(n, m) \/ WireReveal(n, m) \/ CopyCommit(n, m) \/ CopyReveal(n, m)

GrpcSpec == Init /\ [][GrpcNext]_vars

\* "A node is identical whether it runs in a test harness or a real 5-node
\* deployment" (transport.py:16): over either transport a peer that runs the
\* pinned scoring version is not excluded for version drift.
OneVersionIsCounted ==
  \A n \in Nodes : IsOpen(n) => \A m \in round[n].mismatched : AlgoVersion[m] # round[n].pin
=============================================================================
