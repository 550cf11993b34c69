------------------------- MODULE CommitRevealProofs -------------------------
(***************************************************************************)
(* What holds of the commit-reveal round for every cluster, any number of  *)
(* copiers, any versions, agent sets and deadlines, and any retries.       *)
(***************************************************************************)
EXTENDS CommitRevealRunner, TLAPS

Version == {AlgoVersion[n] : n \in Nodes}

(* What a round keeps when only its phase moves.                           *)
SameBooks(r, a) ==
    /\ a.snapshot = r.snapshot
    /\ a.pin = r.pin
    /\ a.commits = r.commits
    /\ a.reveals = r.reveals
    /\ a.mismatched = r.mismatched

(* A round may leave the commit phase only with everyone's commit or at    *)
(* the deadline.                                                           *)
CommitsClosed(r, t) == (\A m \in Nodes : r.commits[m] # None) \/ t >= CommitDeadline

\* _advance touches the phase and the quorum flag only, and opens the reveal
\* phase only when the commits are closed.
LEMMA AdvanceEffect ==
    ASSUME NEW r \in Round, NEW t \in Nat
    PROVE  /\ Advance(r, t) \in Round
           /\ SameBooks(r, Advance(r, t))
           /\ Advance(r, t).phase = "open_commit" => r.phase = "open_commit" /\ t < CommitDeadline
           /\ Advance(r, t).phase # "open_commit" => r.phase # "open_commit" \/ CommitsClosed(r, t)
<1> DEFINE c == CloseCommits(r, t)
<1>1. /\ c \in Round /\ SameBooks(r, c)
      /\ c.phase = "open_commit" => r.phase = "open_commit" /\ t < CommitDeadline
      /\ c.phase # "open_commit" => r.phase # "open_commit" \/ CommitsClosed(r, t)
  BY RoundAssumption DEF CloseCommits, Round, SameBooks, CommitsClosed, CommittedNodes
<1> HIDE DEF c
<1>2. /\ CloseReveals(c, t) \in Round /\ SameBooks(c, CloseReveals(c, t))
      /\ CloseReveals(c, t).phase = "open_commit" <=> c.phase = "open_commit"
  <2>1. ClosedByQuorum(c) \in BOOLEAN
    BY <1>1 DEF Round, ClosedByQuorum
  <2>2. \/ CloseReveals(c, t) = c
        \/ /\ c.phase = "open_reveal"
           /\ CloseReveals(c, t) = [c EXCEPT !.phase = "closed", !.byQuorum = ClosedByQuorum(c)]
    BY DEF CloseReveals
  <2> QED
    BY <1>1, <2>1, <2>2 DEF Round, SameBooks
<1> QED
  BY <1>1, <1>2 DEF Advance, c, SameBooks

\* submit_commit either leaves the books alone, notes a version mismatch, or
\* records a first commit during the commit phase under the only version.
LEMMA SubmitCommitEffect ==
    ASSUME NEW r \in Round, NEW m \in Nodes, NEW h \in Hash,
           NEW v \in {AlgoVersion[n] : n \in Nodes}, NEW t \in Nat
    PROVE  LET s == SubmitCommit(r, m, h, v, t) IN
           /\ s \in Round
           /\ s.snapshot = r.snapshot /\ s.reveals = r.reveals
           /\ CommitAccepted(r, m, v, t) =>
                 /\ t < CommitDeadline /\ r.phase = "open_commit"
                 /\ r.commits[m] = None /\ r.pin \in {None, v}
                 /\ s.commits = [r.commits EXCEPT ![m] = h] /\ s.pin = v
           /\ ~CommitAccepted(r, m, v, t) => s.commits = r.commits /\ s.pin = r.pin
           /\ s.phase # "open_commit" => r.phase # "open_commit" \/ CommitsClosed(s, t)
<1> DEFINE a == Advance(r, t)
           s == SubmitCommit(r, m, h, v, t)
           b == [a EXCEPT !.commits[m] = h, !.pin = v]
<1>1. /\ a \in Round /\ SameBooks(r, a)
      /\ a.phase = "open_commit" => r.phase = "open_commit" /\ t < CommitDeadline
      /\ a.phase # "open_commit" => r.phase # "open_commit" \/ CommitsClosed(r, t)
  BY AdvanceEffect
<1>2. CommitAccepted(r, m, v, t) <=> MayCommit(a, m) /\ a.pin \in {None, v}
  BY DEF CommitAccepted, a
<1>3. CASE CommitAccepted(r, m, v, t)
  <2>1. s = Advance(b, t)
    BY <1>2, <1>3 DEF SubmitCommit, a, b, s
  <2> HIDE DEF a, s
  <2>2. /\ b \in Round /\ b.snapshot = a.snapshot /\ b.reveals = a.reveals
        /\ b.commits = [a.commits EXCEPT ![m] = h] /\ b.pin = v /\ b.phase = a.phase
    BY <1>1 DEF Round, b
  <2> HIDE DEF b
  <2>3. /\ s \in Round /\ SameBooks(b, s)
        /\ s.phase # "open_commit" => b.phase # "open_commit" \/ CommitsClosed(b, t)
    BY <2>1, <2>2, AdvanceEffect
  <2>4. a.phase = "open_commit" /\ a.commits[m] = None /\ a.pin \in {None, v}
    BY <1>2, <1>3 DEF MayCommit
  <2>5. s.commits = b.commits /\ CommitsClosed(b, t) => CommitsClosed(s, t)
    BY DEF CommitsClosed
  <2> QED
    BY <1>1, <1>3, <2>2, <2>3, <2>4, <2>5 DEF SameBooks, s
<1>4. CASE ~CommitAccepted(r, m, v, t)
  <2>1. s = a \/ s = [a EXCEPT !.mismatched = a.mismatched \cup {m}]
    BY <1>2, <1>4 DEF SubmitCommit, a, s
  <2> HIDE DEF a, s
  <2>2. /\ s \in Round /\ s.snapshot = a.snapshot /\ s.reveals = a.reveals
        /\ s.commits = a.commits /\ s.pin = a.pin /\ s.phase = a.phase
    BY <1>1, <2>1 DEF Round
  <2>3. s.commits = r.commits /\ CommitsClosed(r, t) => CommitsClosed(s, t)
    BY DEF CommitsClosed
  <2> QED
    BY <1>1, <1>4, <2>2, <2>3 DEF SameBooks, s
<1> QED
  BY <1>3, <1>4

LEMMA CommitKeepsReveals ==
    ASSUME NEW r \in Round, NEW m \in Nodes, NEW h \in Hash, NEW v \in Version, NEW t \in Nat
    PROVE  SubmitCommit(r, m, h, v, t) \in Round /\ SubmitCommit(r, m, h, v, t).reveals = r.reveals
<1> DEFINE s == SubmitCommit(r, m, h, v, t)
<1>1. /\ s \in Round
      /\ s.snapshot = r.snapshot /\ s.reveals = r.reveals
      /\ CommitAccepted(r, m, v, t) => /\ r.commits[m] = None /\ r.pin \in {None, v}
               /\ s.commits = [r.commits EXCEPT ![m] = h] /\ s.pin = v
      /\ ~CommitAccepted(r, m, v, t) => s.commits = r.commits /\ s.pin = r.pin
  BY SubmitCommitEffect DEF Version
<1> QED
  BY <1>1

\* submit_commit excludes at most the node it was called for, one without a
\* commit whose version is not the pinned one; it is then not accepted.
LEMMA ExclusionIsForVersion ==
    ASSUME NEW r \in Round, NEW m \in Nodes, NEW h \in Hash,
           NEW v \in {AlgoVersion[n] : n \in Nodes}, NEW t \in Nat,
           NEW x \in SubmitCommit(r, m, h, v, t).mismatched, x \notin r.mismatched
    PROVE  /\ x = m /\ r.commits[m] = None /\ r.pin \notin {None, v}
           /\ ~CommitAccepted(r, m, v, t)
<1> DEFINE a == Advance(r, t)
           s == SubmitCommit(r, m, h, v, t)
           b == [a EXCEPT !.commits[m] = h, !.pin = v]
<1>1. a \in Round /\ SameBooks(r, a)
  BY AdvanceEffect
<1>2. CASE CommitAccepted(r, m, v, t)
  <2>1. s = Advance(b, t)
    BY <1>2 DEF CommitAccepted, SubmitCommit, a, b, s
  <2> HIDE DEF a, s
  <2>2. b \in Round /\ b.mismatched = a.mismatched
    BY <1>1 DEF Round, b
  <2> HIDE DEF b
  <2>3. s.mismatched = b.mismatched
    BY <2>1, <2>2, AdvanceEffect DEF SameBooks
  <2> QED
    BY <1>1, <2>2, <2>3 DEF SameBooks, s
<1>3. CASE ~CommitAccepted(r, m, v, t)
  <2>1. \/ s = a
        \/ /\ s = [a EXCEPT !.mismatched = a.mismatched \cup {m}]
           /\ a.commits[m] = None /\ a.pin \notin {None, v}
    BY <1>3 DEF CommitAccepted, SubmitCommit, MayCommit, a, s
  <2> HIDE DEF a, s
  <2>2. \/ x \in a.mismatched
        \/ x = m /\ a.commits[m] = None /\ a.pin \notin {None, v}
    <3>1. x \in s.mismatched
      BY DEF s
    <3> QED
      BY <1>1, <2>1, <3>1 DEF Round
  <2> QED
    BY <1>1, <1>3, <2>2 DEF SameBooks
<1> QED
  BY <1>2, <1>3

\* submit_reveal never touches a commit or the pin; what it adds to the reveals
\* is one first record of a committed node, verified by the hash alone.
LEMMA SubmitRevealEffect ==
    ASSUME NEW r \in Round, NEW m \in Nodes, NEW sc \in Scores, NEW k, NEW t \in Nat
    PROVE  LET s == SubmitReveal(r, m, sc, k, t) IN
           /\ s \in Round
           /\ s.snapshot = r.snapshot /\ s.commits = r.commits /\ s.pin = r.pin
           /\ s.phase # "open_commit" => r.phase # "open_commit" \/ CommitsClosed(r, t)
           /\ RevealAccepted(r, m, t) => r.phase # "open_commit" \/ CommitsClosed(r, t)
           /\ \A x \in Nodes : s.reveals[x] = r.reveals[x]
                 \/ /\ x = m /\ s.commits[x] # None /\ s.reveals[x].scores = sc
                    /\ s.reveals[x].verified <=>
                          s.commits[x] = CommitHash(sc, k, s.pin, s.snapshot)
           /\ s.mismatched = r.mismatched
<1> DEFINE a == Advance(r, t)
           s == SubmitReveal(r, m, sc, k, t)
           ok == VerifyReveal(a, m, sc, k)
           b == [a EXCEPT !.reveals[m] = [scores |-> sc, verified |-> ok]]
<1>1. /\ a \in Round /\ SameBooks(r, a)
      /\ a.phase # "open_commit" => r.phase # "open_commit" \/ CommitsClosed(r, t)
  BY AdvanceEffect
<1>2. RevealAccepted(r, m, t) => a.phase # "open_commit" /\ a.commits[m] # None
  BY DEF RevealAccepted, a
<1>3. CASE RevealAccepted(r, m, t)
  <2>1. s = Advance(b, t)
    BY <1>3 DEF SubmitReveal, a, b, s, ok
  <2>2. ok \in BOOLEAN /\ (ok <=> a.commits[m] = CommitHash(sc, k, a.pin, a.snapshot))
    BY DEF VerifyReveal, ok
  <2> HIDE DEF a, s, ok
  <2>3. /\ b \in Round /\ b.snapshot = a.snapshot /\ b.commits = a.commits
        /\ b.pin = a.pin /\ b.phase = a.phase /\ b.mismatched = a.mismatched
        /\ b.reveals = [a.reveals EXCEPT ![m] = [scores |-> sc, verified |-> ok]]
    BY <1>1, <2>2 DEF Round, b
  <2> HIDE DEF b
  <2>4. s \in Round /\ SameBooks(b, s)
    BY <2>1, <2>3, AdvanceEffect
  <2>5. a.reveals \in [Nodes -> [scores : Scores, verified : BOOLEAN] \cup {None}]
    BY <1>1 DEF Round
  <2> QED
    BY <1>1, <1>2, <1>3, <2>2, <2>3, <2>4, <2>5 DEF SameBooks, s
<1>4. CASE ~RevealAccepted(r, m, t)
  <2>1. s = a
    BY <1>4 DEF SubmitReveal, a, s
  <2> HIDE DEF a, s
  <2> QED
    BY <1>1, <1>4, <2>1 DEF SameBooks, s
<1> QED
  BY <1>3, <1>4

-----------------------------------------------------------------------------
\* A node's view that is open is a well-typed round.
LEMMA OpenViewIsRound ==
    ASSUME TypeOK, NEW n \in Nodes
    PROVE  /\ IsOpen(n) => round[n] \in Round
           /\ \A r \in Round : r # Unopened
BY DEF TypeOK, IsOpen, Round, Unopened

\* Opening a round.
LEMMA OpenRoundInv == ASSUME RoundInv, NEW n \in Nodes, OpenRound(n) PROVE RoundInv'
<1>1. OpenedRound(SnapshotHash[n]) \in Round
  BY DEF OpenedRound, Round
<1>2. /\ round' = [round EXCEPT ![n] = OpenedRound(SnapshotHash[n])]
      /\ clock' = [clock EXCEPT ![n] = 0] /\ ~IsOpen(n)
      /\ UNCHANGED <<now, nonce, commitMsg, revealMsg>>
  BY DEF OpenRound
<1>3. TypeOK'
  BY <1>1, <1>2, ClusterAssumption DEF RoundInv, TypeOK
<1>4. ClocksLag'
  BY <1>2 DEF RoundInv, TypeOK, ClocksLag
<1>5. \A m \in Nodes : m # n => round'[m] = round[m]
  BY <1>2 DEF RoundInv, TypeOK
<1>6. round'[n] = OpenedRound(SnapshotHash[n])
  BY <1>2 DEF RoundInv, TypeOK
<1>7. /\ CommitsAreBroadcast' /\ PhaseIsJustified'
      /\ RevealsCloseCommits' /\ VerifiedMatchesCommit'
  BY <1>2, <1>5, <1>6 DEF RoundInv, CommitsAreBroadcast, PhaseIsJustified,
     RevealsCloseCommits, VerifiedMatchesCommit, IsOpen, OpenedRound
<1> QED
  BY <1>3, <1>4, <1>7 DEF RoundInv

\* Time and the clocks only go forward.
LEMMA TimeInv ==
    ASSUME RoundInv, Tick \/ \E n \in Nodes : AdvanceRoundClock(n)
    PROVE  RoundInv'
<1>1. /\ UNCHANGED <<round, nonce, commitMsg, revealMsg>>
      /\ now' \in Nat /\ now \in Nat /\ now' >= now
      /\ TypeOK' /\ ClocksLag'
  <2>1. CASE Tick
    BY <2>1, ClusterAssumption DEF Tick, RoundInv, TypeOK, ClocksLag
  <2>2. ASSUME NEW n \in Nodes, AdvanceRoundClock(n)
        PROVE  /\ UNCHANGED <<round, nonce, commitMsg, revealMsg>> /\ now' = now /\ now \in Nat
               /\ TypeOK' /\ ClocksLag'
    BY <2>2, ClusterAssumption DEF AdvanceRoundClock, RoundInv, TypeOK, ClocksLag
  <2> QED
    BY <2>1, <2>2
<1>2. now >= CommitDeadline => now' >= CommitDeadline
  BY <1>1, RoundAssumption
<1> QED
  BY <1>1, <1>2 DEF RoundInv, CommitsAreBroadcast, PhaseIsJustified,
     RevealsCloseCommits, VerifiedMatchesCommit, IsOpen

\* What the invariant asks of a view's verified reveals.
BoundReveal(s, m) ==
    (s.reveals[m] # None /\ s.reveals[m].verified) =>
       /\ s.commits[m] # None
       /\ s.commits[m].scores = s.reveals[m].scores
       /\ s.commits[m].version = s.pin
       /\ s.commits[m].snapshot = s.snapshot

\* What it asks of a commit request.
OwnRequest(m, req) ==
    LET k == req.hash.nonce.by IN
    /\ req.hash.scores = OwnScores[k]
    /\ req.hash.version = AlgoVersion[k]
    /\ req.hash.snapshot = SnapshotHash[k]
    /\ req.version = AlgoVersion[k]
    /\ m \notin Copiers => k = m

\* One view changes, keeping its commits or adding one that its node has
\* broadcast, and only the view's owner may broadcast by it: what the invariant
\* asks of views and commit requests survives.
LEMMA ViewStepInv ==
    ASSUME RoundInv, TypeOK', NEW n \in Nodes, NEW s \in Round,
           IsOpen(n), round' = [round EXCEPT ![n] = s],
           now' = now, clock' = clock, RevealsCloseCommits',
           \A m \in Nodes : commitMsg'[m] # commitMsg[m] =>
              /\ m = n /\ commitMsg[m] = None
              /\ s.commits[m] # None /\ OwnRequest(m, commitMsg'[m]),
           s.snapshot = round[n].snapshot,
           \A m \in Nodes : s.commits[m] # round[n].commits[m] =>
              /\ round[n].commits[m] = None
              /\ commitMsg'[m] # None /\ s.commits[m] = commitMsg'[m].hash,
           s.phase # "open_commit" =>
              round[n].phase # "open_commit" \/ CommitsClosed(s, now),
           \A m \in Nodes : BoundReveal(s, m)
    PROVE  RoundInv'
<1>1. round'[n] = s /\ IsOpen(n)' /\ \A m \in Nodes : m # n => round'[m] = round[m]
  BY OpenViewIsRound DEF RoundInv, TypeOK, IsOpen
<1>2. ClocksLag'
  BY DEF RoundInv, ClocksLag
<1>3. \A m \in Nodes : round[n].commits[m] # None => s.commits[m] # None
  OBVIOUS
<1>4. CommitsAreBroadcast'
  <2>1. \A m \in Nodes : commitMsg[m] # None => commitMsg'[m] = commitMsg[m]
    OBVIOUS
  <2>2. ASSUME NEW x \in Nodes, NEW m \in Nodes, IsOpen(x)', round'[x].commits[m] # None
        PROVE  commitMsg'[m] # None /\ round'[x].commits[m] = commitMsg'[m].hash
    BY <1>1, <2>1, <2>2 DEF RoundInv, CommitsAreBroadcast, IsOpen
  <2>3. ASSUME NEW m \in Nodes, commitMsg'[m] # None
        PROVE  IsOpen(m)' /\ round'[m].commits[m] # None /\ OwnRequest(m, commitMsg'[m])
    <3>1. CASE commitMsg'[m] = commitMsg[m]
      BY <1>1, <1>3, <2>3, <3>1 DEF RoundInv, CommitsAreBroadcast, IsOpen, OwnRequest
    <3>2. CASE commitMsg'[m] # commitMsg[m]
      BY <1>1, <3>2
    <3> QED
      BY <3>1, <3>2
  <2> QED
    BY <2>2, <2>3 DEF CommitsAreBroadcast, OwnRequest
<1>5. PhaseIsJustified'
  BY <1>1, <1>3 DEF RoundInv, PhaseIsJustified, CommitsClosed, IsOpen
<1>6. VerifiedMatchesCommit'
  BY <1>1 DEF RoundInv, VerifiedMatchesCommit, IsOpen, BoundReveal
<1> QED
  BY <1>2, <1>4, <1>5, <1>6 DEF RoundInv

\* A commit reaching a view keeps its verified reveals bound.
LEMMA CommitKeepsBound ==
    ASSUME NEW r \in Round, NEW m \in Nodes, NEW h \in Hash, NEW v \in Version,
           NEW t \in Nat, \A x \in Nodes : BoundReveal(r, x)
    PROVE  \A x \in Nodes : BoundReveal(SubmitCommit(r, m, h, v, t), x)
<1> DEFINE s == SubmitCommit(r, m, h, v, t)
<1>1. /\ s \in Round
      /\ s.snapshot = r.snapshot /\ s.reveals = r.reveals
      /\ CommitAccepted(r, m, v, t) =>
            /\ r.commits[m] = None /\ r.pin \in {None, v}
            /\ s.commits = [r.commits EXCEPT ![m] = h] /\ s.pin = v
      /\ ~CommitAccepted(r, m, v, t) => s.commits = r.commits /\ s.pin = r.pin
  BY SubmitCommitEffect DEF Version
<1> HIDE DEF s
<1>2. ASSUME NEW x \in Nodes, s.reveals[x] # None, s.reveals[x].verified
      PROVE  /\ s.commits[x] = r.commits[x] /\ s.pin = r.pin /\ r.commits[x] # None
             /\ s.snapshot = r.snapshot
  <2>1. r.commits[x] # None /\ r.commits[x].version = r.pin
    BY <1>1, <1>2 DEF BoundReveal
  <2>2. r.commits[x] \in Hash /\ r.pin # None
    BY <2>1, NoneIsAbsent DEF Round, Hash
  <2>3. r.commits \in [Nodes -> Hash \cup {None}]
    BY DEF Round
  <2> QED
    BY <1>1, <2>1, <2>2, <2>3
<1>3. \A x \in Nodes : BoundReveal(s, x)
  BY <1>1, <1>2 DEF BoundReveal
<1> QED
  BY <1>3 DEF s

\* A reveal reaching a view keeps its verified reveals bound.
LEMMA RevealKeepsBound ==
    ASSUME NEW r \in Round, NEW m \in Nodes, NEW sc \in Scores, NEW k, NEW t \in Nat,
           \A x \in Nodes : BoundReveal(r, x)
    PROVE  \A x \in Nodes : BoundReveal(SubmitReveal(r, m, sc, k, t), x)
<1> DEFINE s == SubmitReveal(r, m, sc, k, t)
<1>1. /\ s \in Round
      /\ s.snapshot = r.snapshot /\ s.commits = r.commits /\ s.pin = r.pin
      /\ \A x \in Nodes : \/ s.reveals[x] = r.reveals[x]
                          \/ /\ x = m /\ s.commits[x] # None /\ s.reveals[x].scores = sc
                             /\ s.reveals[x].verified <=>
                                   s.commits[x] = CommitHash(sc, k, s.pin, s.snapshot)
  BY SubmitRevealEffect
<1> HIDE DEF s
<1>2. ASSUME NEW x \in Nodes PROVE BoundReveal(s, x)
  <2>1. CASE s.reveals[x] = r.reveals[x]
    BY <1>1, <2>1 DEF BoundReveal
  <2>2. CASE s.reveals[x].verified /\ s.reveals[x] # r.reveals[x]
    <3>1. /\ s.commits[x] = CommitHash(sc, k, s.pin, s.snapshot)
          /\ s.reveals[x].scores = sc
      BY <1>1, <2>2
    <3>2. s.commits[x] # None
      BY <1>1, <2>2
    <3> QED
      BY <3>1, <3>2 DEF BoundReveal, CommitHash
  <2> QED
    BY <2>1, <2>2 DEF BoundReveal
<1> QED
  BY <1>2 DEF s

-----------------------------------------------------------------------------
\* What the invariant says of one open view.
LEMMA ViewFacts ==
    ASSUME RoundInv, NEW n \in Nodes, IsOpen(n)
    PROVE  /\ round[n] \in Round /\ round[n].snapshot = SnapshotHash[n]
           /\ now \in Nat /\ clock[n] \in Nat /\ clock[n] <= now
           /\ \A m \in Nodes : BoundReveal(round[n], m)
BY OpenViewIsRound, ClusterAssumption
   DEF RoundInv, TypeOK, ClocksLag, VerifiedMatchesCommit, BoundReveal

\* A closed commit phase at a node's clock is closed at the orchestrator's time.
LEMMA ClosedByNow ==
    ASSUME NEW r, NEW t \in Nat, NEW u \in Nat, t <= u, CommitsClosed(r, t)
    PROVE  CommitsClosed(r, u)
BY RoundAssumption DEF CommitsClosed

\* ReadResults only moves a view's phase.
LEMMA ReadResultsInv == ASSUME RoundInv, NEW n \in Nodes, ReadResults(n) PROVE RoundInv'
<1> DEFINE s == Advance(round[n], clock[n])
<1>1. /\ IsOpen(n) /\ round' = [round EXCEPT ![n] = s]
      /\ UNCHANGED <<now, clock, nonce, commitMsg, revealMsg>>
  BY DEF ReadResults
<1>2. /\ s \in Round /\ SameBooks(round[n], s)
      /\ s.phase # "open_commit" =>
            round[n].phase # "open_commit" \/ CommitsClosed(round[n], clock[n])
  BY <1>1, ViewFacts, AdvanceEffect
<1> HIDE DEF s
<1>3. s.phase # "open_commit" => round[n].phase # "open_commit" \/ CommitsClosed(s, now)
  <2>1. CommitsClosed(round[n], clock[n]) => CommitsClosed(s, clock[n])
    BY <1>2 DEF SameBooks, CommitsClosed
  <2> QED
    BY <1>1, <1>2, <2>1, ViewFacts, ClosedByNow
<1>4. \A m \in Nodes : BoundReveal(s, m)
  BY <1>1, <1>2, ViewFacts DEF SameBooks, BoundReveal
<1>5. TypeOK'
  BY <1>1, <1>2 DEF RoundInv, TypeOK
<1>6. RevealsCloseCommits'
  BY <1>1 DEF RoundInv, RevealsCloseCommits
<1> QED
  BY <1>1, <1>2, <1>3, <1>4, <1>5, <1>6, ViewStepInv DEF SameBooks

\* A peer's commit arrives.
LEMMA DeliverCommitInv ==
    ASSUME RoundInv, NEW n \in Nodes, NEW m \in Nodes, DeliverCommit(n, m) PROVE RoundInv'
<1> DEFINE h == commitMsg[m].hash
           v == commitMsg[m].version
           s == SubmitCommit(round[n], m, h, v, clock[n])
<1>1. /\ IsOpen(n) /\ commitMsg[m] # None /\ round' = [round EXCEPT ![n] = s]
      /\ UNCHANGED <<now, clock, nonce, commitMsg, revealMsg>>
  BY DEF DeliverCommit
<1>2. h \in Hash /\ v \in Version
  BY <1>1 DEF RoundInv, TypeOK, CommitRequest, Version
<1> HIDE DEF h, v
<1>9. round[n] \in Round /\ clock[n] \in Nat
  BY <1>1, ViewFacts
<1>3. /\ s \in Round /\ s.snapshot = round[n].snapshot
      /\ CommitAccepted(round[n], m, v, clock[n]) =>
            /\ s.commits = [round[n].commits EXCEPT ![m] = h]
            /\ round[n].commits[m] = None
      /\ ~CommitAccepted(round[n], m, v, clock[n]) => s.commits = round[n].commits
      /\ s.phase # "open_commit" =>
            round[n].phase # "open_commit" \/ CommitsClosed(s, clock[n])
  BY <1>2, <1>9, SubmitCommitEffect DEF Version
<1>4. \A x \in Nodes : BoundReveal(s, x)
  BY <1>1, <1>2, ViewFacts, CommitKeepsBound
<1> HIDE DEF s
<1>5. s.phase # "open_commit" => round[n].phase # "open_commit" \/ CommitsClosed(s, now)
  BY <1>1, <1>3, ViewFacts, ClosedByNow
<1>6. \A x \in Nodes : s.commits[x] # round[n].commits[x] =>
         /\ round[n].commits[x] = None
         /\ commitMsg'[x] # None /\ s.commits[x] = commitMsg'[x].hash
  <2>1. round[n].commits \in [Nodes -> Hash \cup {None}]
    BY <1>1, ViewFacts DEF Round
  <2> QED
    BY <1>1, <1>3, <2>1 DEF h
<1>7. TypeOK'
  BY <1>1, <1>3 DEF RoundInv, TypeOK
<1>8. RevealsCloseCommits'
  BY <1>1 DEF RoundInv, RevealsCloseCommits
<1> QED
  BY <1>1, <1>3, <1>4, <1>5, <1>6, <1>7, <1>8, ViewStepInv

\* A peer's reveal arrives.
LEMMA DeliverRevealInv ==
    ASSUME RoundInv, NEW n \in Nodes, NEW m \in Nodes, DeliverReveal(n, m) PROVE RoundInv'
<1> DEFINE sc == revealMsg[m].scores
           k == revealMsg[m].nonce
           s == SubmitReveal(round[n], m, sc, k, clock[n])
<1>1. /\ IsOpen(n) /\ revealMsg[m] # None /\ round' = [round EXCEPT ![n] = s]
      /\ UNCHANGED <<now, clock, nonce, commitMsg, revealMsg>>
  BY DEF DeliverReveal
<1>2. sc \in Scores
  BY <1>1 DEF RoundInv, TypeOK, RevealRequest
<1> HIDE DEF sc, k
<1>3. /\ s \in Round /\ s.snapshot = round[n].snapshot
      /\ s.commits = round[n].commits
      /\ s.phase # "open_commit" =>
            round[n].phase # "open_commit" \/ CommitsClosed(round[n], clock[n])
  BY <1>1, <1>2, ViewFacts, SubmitRevealEffect
<1>4. \A x \in Nodes : BoundReveal(s, x)
  BY <1>1, <1>2, ViewFacts, RevealKeepsBound
<1> HIDE DEF s
<1>5. s.phase # "open_commit" => round[n].phase # "open_commit" \/ CommitsClosed(s, now)
  <2>1. CommitsClosed(round[n], clock[n]) => CommitsClosed(s, clock[n])
    BY <1>3 DEF CommitsClosed
  <2> QED
    BY <1>1, <1>3, <2>1, ViewFacts, ClosedByNow
<1>7. TypeOK'
  BY <1>1, <1>3 DEF RoundInv, TypeOK
<1>8. RevealsCloseCommits'
  BY <1>1 DEF RoundInv, RevealsCloseCommits
<1> QED
  BY <1>1, <1>3, <1>4, <1>5, <1>7, <1>8, ViewStepInv

\* While a view of its own accepts a node's commit, nobody has revealed yet and
\* the node has broadcast no other.
LEMMA FirstCommit ==
    ASSUME RoundInv, NEW n \in Nodes, NEW v \in Version, IsOpen(n),
           CommitAccepted(round[n], n, v, now)
    PROVE  /\ commitMsg[n] = None
           /\ now < CommitDeadline
           /\ \A m \in Nodes : revealMsg[m] = None
<1>1. round[n] \in Round /\ now \in Nat
  BY ViewFacts
<1>3. now < CommitDeadline /\ round[n].commits[n] = None
  <2>1. /\ Advance(round[n], now).phase = "open_commit"
        /\ Advance(round[n], now).commits[n] = None
    BY DEF CommitAccepted, MayCommit
  <2> QED
    BY <1>1, <2>1, AdvanceEffect DEF SameBooks
<1>4. commitMsg[n] = None
  BY <1>3 DEF RoundInv, CommitsAreBroadcast
<1>5. ~(now >= CommitDeadline)
  BY <1>1, <1>3, RoundAssumption
<1> QED
  BY <1>3, <1>4, <1>5 DEF RoundInv, RevealsCloseCommits

\* A node commits to its own scores, or draws a nonce for nothing.
LEMMA LocalCommitInv == ASSUME RoundInv, NEW n \in Nodes, LocalCommit(n) PROVE RoundInv'
<1> DEFINE k == nonce[n] + 1
           v == AlgoVersion[n]
           h == CommitHash(OwnScores[n], [by |-> n, call |-> k], v, round[n].snapshot)
           s == SubmitCommit(round[n], n, h, v, now)
           ok == CommitAccepted(round[n], n, v, now)
           req == [hash |-> h, version |-> v]
<1>1. /\ IsOpen(n) /\ nonce[n] < MaxCommitCalls /\ nonce' = [nonce EXCEPT ![n] = k]
      /\ UNCHANGED <<now, clock, revealMsg>>
  BY DEF LocalCommit
<1>2. nonce'[n] = k /\ k \in 1..MaxCommitCalls
  BY <1>1, ClusterAssumption DEF RoundInv, TypeOK
<1>3. /\ round' = [round EXCEPT ![n] = s]
      /\ commitMsg' = IF ok THEN [commitMsg EXCEPT ![n] = req] ELSE commitMsg
  BY <1>2 DEF LocalCommit
<1> HIDE DEF k
<1>4. /\ round[n] \in Round /\ round[n].snapshot = SnapshotHash[n] /\ now \in Nat
      /\ \A m \in Nodes : BoundReveal(round[n], m)
  BY <1>1, ViewFacts
<1>5. v \in Version /\ h \in Hash /\ OwnRequest(n, req)
  BY <1>2, <1>4, ClusterAssumption DEF CommitHash, Hash, Nonce, Version, OwnRequest
<1>6. req \in CommitRequest
  BY <1>5 DEF CommitRequest, Version
<1> HIDE DEF v, h
<1>7. /\ s \in Round /\ s.snapshot = round[n].snapshot
      /\ ok => round[n].commits[n] = None /\ s.commits = [round[n].commits EXCEPT ![n] = h]
      /\ ~ok => s.commits = round[n].commits
      /\ s.phase # "open_commit" => round[n].phase # "open_commit" \/ CommitsClosed(s, now)
  BY <1>4, <1>5, SubmitCommitEffect DEF Version
<1>8. \A x \in Nodes : BoundReveal(s, x)
  BY <1>4, <1>5, CommitKeepsBound
<1>9. ok => commitMsg[n] = None
  BY <1>1, <1>5, FirstCommit
<1> HIDE DEF s, ok
<1>10. commitMsg' \in [Nodes -> CommitRequest \cup {None}]
  BY <1>3, <1>6 DEF RoundInv, TypeOK
<1>11. TypeOK'
  <2>1. nonce' \in [Nodes -> 0..MaxCommitCalls]
    BY <1>1, <1>2, ClusterAssumption DEF RoundInv, TypeOK
  <2> QED
    BY <1>1, <1>3, <1>7, <1>10, <2>1 DEF RoundInv, TypeOK
<1>12. round[n].commits \in [Nodes -> Hash \cup {None}] /\ h # None
  BY <1>4, <1>5, NoneIsAbsent DEF Round
<1>13. ok => commitMsg'[n] = req
  BY <1>3 DEF RoundInv, TypeOK
<1>14. \A m \in Nodes : commitMsg'[m] # commitMsg[m] =>
         /\ m = n /\ commitMsg[m] = None
         /\ s.commits[m] # None /\ OwnRequest(m, commitMsg'[m])
  <2>1. \A m \in Nodes : commitMsg'[m] # commitMsg[m] => m = n /\ ok
    BY <1>3 DEF RoundInv, TypeOK
  <2>2. ok => s.commits[n] # None
    BY <1>7, <1>12
  <2> QED
    BY <1>5, <1>9, <1>13, <2>1, <2>2
<1>15. \A m \in Nodes : s.commits[m] # round[n].commits[m] =>
         /\ round[n].commits[m] = None
         /\ commitMsg'[m] # None /\ s.commits[m] = commitMsg'[m].hash
  <2>1. \A m \in Nodes : s.commits[m] # round[n].commits[m] => m = n /\ ok
    BY <1>7, <1>12
  <2>2. ok => s.commits[n] = h /\ req.hash = h
    BY <1>7, <1>12
  <2>3. ok => req # None
    BY <1>6, NoneIsAbsent
  <2> QED
    BY <1>7, <1>13, <2>1, <2>2, <2>3
<1>16. RevealsCloseCommits'
  <2>1. \A m \in Nodes : commitMsg[m] # None => commitMsg'[m] # None
    BY <1>14 DEF RoundInv
  <2> QED
    BY <1>1, <2>1 DEF RoundInv, RevealsCloseCommits
<1> QED
  BY <1>1, <1>3, <1>7, <1>8, <1>11, <1>14, <1>15, <1>16, ViewStepInv

\* A copier sends a peer's hash as its own.
LEMMA CopyCommitInv ==
    ASSUME RoundInv, NEW n \in Nodes, NEW m \in Nodes, CopyCommit(n, m) PROVE RoundInv'
<1> DEFINE req == commitMsg[m]
           h == req.hash
           v == req.version
           s == SubmitCommit(round[n], n, h, v, now)
           ok == CommitAccepted(round[n], n, v, now)
<1>1. /\ n \in Copiers /\ IsOpen(n) /\ req # None
      /\ UNCHANGED <<now, clock, nonce, revealMsg>>
      /\ round' = [round EXCEPT ![n] = s]
      /\ commitMsg' = IF ok THEN [commitMsg EXCEPT ![n] = req] ELSE commitMsg
  BY DEF CopyCommit
<1>2. /\ req \in CommitRequest /\ h \in Hash /\ v \in Version /\ OwnRequest(n, req)
  BY <1>1 DEF RoundInv, TypeOK, CommitRequest, Version, CommitsAreBroadcast, OwnRequest
<1> HIDE DEF req, h, v
<1>3. /\ round[n] \in Round /\ now \in Nat
      /\ \A x \in Nodes : BoundReveal(round[n], x)
  BY <1>1, ViewFacts
<1>4. /\ s \in Round /\ s.snapshot = round[n].snapshot
      /\ ok => round[n].commits[n] = None /\ s.commits = [round[n].commits EXCEPT ![n] = h]
      /\ ~ok => s.commits = round[n].commits
      /\ s.phase # "open_commit" => round[n].phase # "open_commit" \/ CommitsClosed(s, now)
  BY <1>2, <1>3, SubmitCommitEffect DEF Version
<1>5. \A x \in Nodes : BoundReveal(s, x)
  BY <1>2, <1>3, CommitKeepsBound
<1>6. ok => commitMsg[n] = None
  BY <1>1, <1>2, FirstCommit
<1> HIDE DEF s, ok
<1>7. TypeOK'
  BY <1>1, <1>2, <1>4 DEF RoundInv, TypeOK
<1>8. /\ \A x \in Nodes : x # n => commitMsg'[x] = commitMsg[x]
      /\ commitMsg'[n] = IF ok THEN req ELSE commitMsg[n]
  BY <1>1 DEF RoundInv, TypeOK
<1>9. round[n].commits \in [Nodes -> Hash \cup {None}] /\ h # None
  BY <1>2, <1>3, NoneIsAbsent DEF Round
<1>10. \A x \in Nodes : commitMsg'[x] # commitMsg[x] =>
         /\ x = n /\ commitMsg[x] = None
         /\ s.commits[x] # None /\ OwnRequest(x, commitMsg'[x])
  BY <1>2, <1>4, <1>6, <1>8, <1>9
<1>11. \A x \in Nodes : s.commits[x] # round[n].commits[x] =>
         /\ round[n].commits[x] = None
         /\ commitMsg'[x] # None /\ s.commits[x] = commitMsg'[x].hash
  BY <1>1, <1>4, <1>8, <1>9 DEF h
<1>12. RevealsCloseCommits'
  <2>1. \A x \in Nodes : commitMsg[x] # None => commitMsg'[x] # None
    BY <1>1, <1>8
  <2> QED
    BY <1>1, <2>1 DEF RoundInv, RevealsCloseCommits
<1> QED
  BY <1>1, <1>4, <1>5, <1>7, <1>10, <1>11, <1>12, ViewStepInv

\* A node reveals: its own view has closed the commit phase.
LEMMA LocalRevealInv == ASSUME RoundInv, NEW n \in Nodes, LocalReveal(n) PROVE RoundInv'
<1> DEFINE sc == OwnScores[n]
           k == LastNonce(n)
           s == SubmitReveal(round[n], n, sc, k, now)
           ok == RevealAccepted(round[n], n, now)
           req == [scores |-> sc, nonce |-> k, version |-> AlgoVersion[n]]
<1>1. /\ IsOpen(n) /\ nonce[n] > 0 /\ round' = [round EXCEPT ![n] = s]
      /\ revealMsg' = IF ok THEN [revealMsg EXCEPT ![n] = req] ELSE revealMsg
      /\ UNCHANGED <<now, clock, nonce, commitMsg>>
  BY DEF LocalReveal
<1>2. sc \in Scores /\ k \in Nonce
  <2>1. nonce[n] \in 0..MaxCommitCalls /\ nonce[n] > 0
    BY <1>1 DEF RoundInv, TypeOK
  <2>2. OwnScores[n] \in Scores
    BY ClusterAssumption
  <2> QED
    BY <2>1, <2>2, ClusterAssumption DEF LastNonce, Nonce
<1> HIDE DEF sc, k
<1>9. req \in RevealRequest
  BY <1>2 DEF RevealRequest
<1> HIDE DEF req
<1>3. /\ round[n] \in Round /\ now \in Nat
      /\ \A m \in Nodes : BoundReveal(round[n], m)
  BY <1>1, ViewFacts
<1>4. /\ s \in Round /\ s.snapshot = round[n].snapshot
      /\ s.commits = round[n].commits
      /\ s.phase # "open_commit" =>
            round[n].phase # "open_commit" \/ CommitsClosed(round[n], now)
      /\ ok => round[n].phase # "open_commit" \/ CommitsClosed(round[n], now)
  BY <1>2, <1>3, SubmitRevealEffect
<1>5. \A x \in Nodes : BoundReveal(s, x)
  BY <1>2, <1>3, RevealKeepsBound
<1> HIDE DEF s, ok
<1>6. CommitsClosed(round[n], now) <=> CommitsClosed(s, now)
  BY <1>4 DEF CommitsClosed
<1>7. TypeOK'
  <2>1. revealMsg' \in [Nodes -> RevealRequest \cup {None}]
    BY <1>1, <1>9 DEF RoundInv, TypeOK
  <2> QED
    BY <1>1, <1>4, <2>1 DEF RoundInv, TypeOK
<1>8. RevealsCloseCommits'
  <2>1. CASE ok
    <3>1. CommitsClosed(round[n], now)
      BY <1>1, <1>4, <2>1 DEF RoundInv, PhaseIsJustified, CommitsClosed
    <3>2. (\A m \in Nodes : commitMsg[m] # None) \/ now >= CommitDeadline
      BY <1>1, <3>1 DEF RoundInv, CommitsAreBroadcast, CommitsClosed
    <3> QED
      BY <1>1, <3>2 DEF RevealsCloseCommits
  <2>2. CASE ~ok
    BY <1>1, <2>2 DEF RoundInv, RevealsCloseCommits
  <2> QED
    BY <2>1, <2>2
<1> QED
  BY <1>1, <1>4, <1>5, <1>6, <1>7, <1>8, ViewStepInv

\* A copier speaks after a peer has revealed.
LEMMA CopyRevealInv ==
    ASSUME RoundInv, NEW n \in Nodes, NEW m \in Nodes, CopyReveal(n, m) PROVE RoundInv'
<1>1. PICK k \in Nonce :
         revealMsg' = [revealMsg EXCEPT ![n] =
            [scores |-> revealMsg[m].scores, nonce |-> k, version |-> None]]
  BY DEF CopyReveal
<1>2. revealMsg[m] # None /\ UNCHANGED <<now, clock, round, nonce, commitMsg>>
  BY DEF CopyReveal
<1>3. TypeOK'
  BY <1>1, <1>2 DEF RoundInv, TypeOK, RevealRequest
<1> QED
  BY <1>1, <1>2, <1>3 DEF RoundInv, ClocksLag, CommitsAreBroadcast, PhaseIsJustified,
     RevealsCloseCommits, VerifiedMatchesCommit, IsOpen

-----------------------------------------------------------------------------
\* The round starts within its invariant.
LEMMA RoundInit == Init => RoundInv
<1> SUFFICES ASSUME Init PROVE RoundInv
  OBVIOUS
<1>1. TypeOK
  BY ClusterAssumption DEF Init, TypeOK
<1> QED
  BY <1>1 DEF Init, RoundInv, ClocksLag, CommitsAreBroadcast,
     PhaseIsJustified, RevealsCloseCommits, VerifiedMatchesCommit, IsOpen

\* The inductive invariant of the round: RoundInv holds initially and every
\* action of node.py's round lifecycle preserves it.
THEOREM RoundInvariant == Spec => []RoundInv
<1>1. Init => RoundInv
  BY RoundInit
<1>2. RoundInv /\ [Next]_vars => RoundInv'
  <2> SUFFICES ASSUME RoundInv, [Next]_vars PROVE RoundInv'
    OBVIOUS
  <2>1. CASE Tick \/ \E n \in Nodes : AdvanceRoundClock(n)
    BY <2>1, TimeInv
  <2>2. CASE \E n \in Nodes : OpenRound(n)
    BY <2>2, OpenRoundInv
  <2>3. CASE \E n \in Nodes : LocalCommit(n)
    BY <2>3, LocalCommitInv
  <2>4. CASE \E n \in Nodes : LocalReveal(n)
    BY <2>4, LocalRevealInv
  <2>5. CASE \E n \in Nodes : ReadResults(n)
    BY <2>5, ReadResultsInv
  <2>6. CASE \E n, m \in Nodes : DeliverCommit(n, m)
    BY <2>6, DeliverCommitInv
  <2>7. CASE \E n, m \in Nodes : DeliverReveal(n, m)
    BY <2>7, DeliverRevealInv
  <2>8. CASE \E n, m \in Nodes : CopyReveal(n, m)
    BY <2>8, CopyRevealInv
  <2>9. CASE \E n, m \in Nodes : CopyCommit(n, m)
    BY <2>9, CopyCommitInv
  <2>10. CASE UNCHANGED vars
    BY <2>10 DEF vars, RoundInv, TypeOK, ClocksLag, CommitsAreBroadcast,
       PhaseIsJustified, RevealsCloseCommits, VerifiedMatchesCommit, IsOpen
  <2> QED
    BY <2>1, <2>2, <2>3, <2>4, <2>5, <2>6, <2>7, <2>8, <2>9, <2>10 DEF Next
<1> QED
  BY <1>1, <1>2, PTL DEF Spec

\* Every variable stays in its domain.
THEOREM RoundTypeCorrect == Spec => []TypeOK
<1>1. RoundInv => TypeOK
  BY DEF RoundInv
<1> QED
  BY <1>1, RoundInvariant, PTL

\* "The commit was published first" (commit_reveal.py): for any cluster, any
\* interleaving and any lag of the nodes' clocks, nobody broadcasts a commit
\* once anybody has broadcast its scores.
THEOREM CommitFirst == Spec => CommitsPrecedeReveals
<1>1. RoundInv /\ [Next]_vars => [NoCommitAfterReveal]_vars
  <2> SUFFICES ASSUME RoundInv, Next PROVE NoCommitAfterReveal
    BY DEF vars, NoCommitAfterReveal
  <2>1. ASSUME NEW n \in Nodes, NEW v \in Version, IsOpen(n),
               CommitAccepted(round[n], n, v, now)
        PROVE  NoCommitAfterReveal
    BY <2>1, FirstCommit DEF NoCommitAfterReveal
  <2>2. CASE \E n \in Nodes : LocalCommit(n)
    <3>1. PICK n \in Nodes : LocalCommit(n)
      BY <2>2
    <3>2. IsOpen(n) /\ AlgoVersion[n] \in Version
      BY <3>1 DEF LocalCommit, Version
    <3>3. ~CommitAccepted(round[n], n, AlgoVersion[n], now) => commitMsg' = commitMsg
      BY <3>1 DEF LocalCommit
    <3> QED
      BY <2>1, <3>2, <3>3 DEF NoCommitAfterReveal
  <2>3. CASE \E n, m \in Nodes : CopyCommit(n, m)
    <3>1. PICK n \in Nodes, m \in Nodes : CopyCommit(n, m)
      BY <2>3
    <3>2. IsOpen(n) /\ commitMsg[m].version \in Version
      BY <3>1 DEF CopyCommit, RoundInv, TypeOK, CommitRequest, Version
    <3>3. ~CommitAccepted(round[n], n, commitMsg[m].version, now) => commitMsg' = commitMsg
      BY <3>1 DEF CopyCommit
    <3> QED
      BY <2>1, <3>2, <3>3 DEF NoCommitAfterReveal
  <2>4. CASE ~(\E n \in Nodes : LocalCommit(n)) /\ ~(\E n, m \in Nodes : CopyCommit(n, m))
    <3>1. commitMsg' = commitMsg
      BY <2>4 DEF Next, Tick, OpenRound, AdvanceRoundClock, LocalReveal, ReadResults,
         DeliverCommit, DeliverReveal, CopyReveal
    <3> QED
      BY <3>1 DEF NoCommitAfterReveal
  <2> QED
    BY <2>2, <2>3, <2>4
<1> QED
  BY <1>1, RoundInvariant, PTL DEF Spec, CommitsPrecedeReveals

\* A verified reveal is what the drawer of the commit's nonce hashed.
LEMMA VerifiedMatchesBroadcast == RoundInv => VerifiedScoresAreCommitted
<1> SUFFICES ASSUME RoundInv, NEW n \in Nodes, IsOpen(n),
                    NEW m \in VerifiedNodes(round[n])
             PROVE  LET k == round[n].commits[m].nonce.by IN
                    /\ round[n].reveals[m].scores = OwnScores[k]
                    /\ round[n].pin = AlgoVersion[k]
                    /\ SnapshotHash[n] = SnapshotHash[k]
                    /\ m \notin Copiers => k = m
  BY DEF VerifiedScoresAreCommitted
<1>1. m \in Nodes /\ round[n].reveals[m] # None /\ round[n].reveals[m].verified
  BY DEF VerifiedNodes, RevealedNodes
<1>2. /\ round[n].commits[m] # None /\ round[n].snapshot = SnapshotHash[n]
      /\ round[n].commits[m].scores = round[n].reveals[m].scores
      /\ round[n].commits[m].version = round[n].pin
      /\ round[n].commits[m].snapshot = round[n].snapshot
  BY <1>1 DEF RoundInv, VerifiedMatchesCommit
<1>3. commitMsg[m] # None /\ round[n].commits[m] = commitMsg[m].hash
  BY <1>1, <1>2 DEF RoundInv, CommitsAreBroadcast
<1>4. OwnRequest(m, commitMsg[m])
  BY <1>1, <1>3 DEF RoundInv, CommitsAreBroadcast, OwnRequest
<1> QED
  BY <1>2, <1>3, <1>4 DEF OwnRequest

\* What any view counts as verified was committed to before any reveal: it is
\* what the node that drew the commit's nonce computed, under one version and
\* one agent set, whichever node sent the hash.  A node that copies nothing
\* counts with its own scores, and any two views that count a node count the
\* same.  (A hash names no node, compute_commit_hash: a copier may send a peer's.)
THEOREM VerifiedIsCommitted == Spec => []VerifiedScoresAreCommitted
BY RoundInvariant, VerifiedMatchesBroadcast, PTL

-----------------------------------------------------------------------------
\* HonestRevealsVerify and SkewIsNotMisbehaviour: FairnessInv is inductive
\* beside RoundInv.

\* What FairnessInv asks of one view.
FairView(n, s, sent, drawn) ==
    /\ \A m \in Nodes :
          /\ s.commits[m] # None => s.commits[m].version = s.pin
          /\ m \in s.mismatched \ Copiers =>
                s.pin \notin {None, AlgoVersion[m]} /\ s.commits[m] = None
          /\ s.reveals[m] # None => s.commits[m] # None
          /\ (/\ m \notin Copiers /\ SnapshotHash[n] = SnapshotHash[m]
              /\ sent[m] # None => sent[m].hash.nonce = [by |-> m, call |-> drawn[m]]
              /\ s.reveals[m] # None) => s.reveals[m].verified

LEMMA FairViews ==
    FairnessInv <=> /\ RevealsAreOwn
                    /\ \A n \in Nodes : IsOpen(n) => FairView(n, round[n], commitMsg, nonce)
BY DEF FairnessInv, FairView, PinIsUniform, RevealsFollowCommits, HonestRevealsVerify,
       KeptItsNonce, LastNonce, RevealedNodes, VerifiedNodes

\* A commit - of its node's version, unless it was copied - keeps a view fair: the pin moves only while no
\* commit is recorded, and a refused node runs another version.
LEMMA CommitKeepsFair ==
    ASSUME NEW n \in Nodes, NEW r \in Round, NEW m \in Nodes, NEW h \in Hash, NEW t \in Nat,
           NEW v \in Version, NEW sent, NEW drawn, h.version = v,
           m \notin Copiers => v = AlgoVersion[m],
           FairView(n, r, sent, drawn)
    PROVE  FairView(n, SubmitCommit(r, m, h, v, t), sent, drawn)
<1> DEFINE s == SubmitCommit(r, m, h, v, t)
<1>1. v # None
  BY NoneIsAbsent DEF Version
<1>2. /\ s \in Round
      /\ s.snapshot = r.snapshot /\ s.reveals = r.reveals
      /\ CommitAccepted(r, m, v, t) => /\ r.commits[m] = None /\ r.pin \in {None, v}
               /\ s.commits = [r.commits EXCEPT ![m] = h] /\ s.pin = v
      /\ ~CommitAccepted(r, m, v, t) => s.commits = r.commits /\ s.pin = r.pin
  BY <1>1, SubmitCommitEffect DEF Version
<1>5. \A x \in s.mismatched : x \notin r.mismatched =>
         x = m /\ r.commits[m] = None /\ r.pin \notin {None, v} /\ ~CommitAccepted(r, m, v, t)
  BY <1>1, ExclusionIsForVersion DEF Version
<1> HIDE DEF s
<1>3. /\ r.commits \in [Nodes -> Hash \cup {None}] /\ h # None
      /\ \A x \in Nodes : r.commits[x] # None => r.commits[x].version # None
  BY NoneIsAbsent DEF Round, Hash
<1>4. ASSUME NEW x \in Nodes
      PROVE  /\ s.commits[x] # None => s.commits[x].version = s.pin
             /\ x \in s.mismatched \ Copiers => s.pin \notin {None, AlgoVersion[x]} /\ s.commits[x] = None
             /\ s.reveals[x] # None => s.commits[x] # None
             /\ s.reveals[x] = r.reveals[x]
  <2>1. /\ r.commits[x] # None => r.commits[x].version = r.pin /\ r.pin # None
        /\ x \in r.mismatched \ Copiers => r.pin \notin {None, AlgoVersion[x]} /\ r.commits[x] = None
        /\ r.reveals[x] # None => r.commits[x] # None
    BY <1>3 DEF FairView
  <2>2. CASE CommitAccepted(r, m, v, t)
    <3>1. x \in s.mismatched => x \in r.mismatched
      BY <1>5, <2>2
    <3>2. s.commits[x] = IF x = m THEN h ELSE r.commits[x]
      BY <1>2, <1>3, <2>2
    <3>3. x \in r.mismatched \ Copiers => x # m
      BY <1>2, <2>1, <2>2
    <3> QED
      BY <1>1, <1>2, <1>3, <2>1, <2>2, <3>1, <3>2, <3>3
  <2>3. CASE ~CommitAccepted(r, m, v, t)
    BY <1>1, <1>2, <1>5, <2>1, <2>3
  <2> QED
    BY <2>2, <2>3
<1> QED
  BY <1>2, <1>4 DEF FairView, s

\* A reveal keeps a view fair, if an honest node's carries its scores and, when
\* it has drawn no other, the nonce of its commit.
LEMMA RevealKeepsFair ==
    ASSUME NEW n \in Nodes, NEW r \in Round, NEW m \in Nodes, NEW sc \in Scores, NEW k,
           NEW t \in Nat, NEW sent, NEW drawn,
           FairView(n, r, sent, drawn),
           (/\ m \notin Copiers /\ SnapshotHash[n] = SnapshotHash[m]
            /\ sent[m] # None => sent[m].hash.nonce = [by |-> m, call |-> drawn[m]]
            /\ r.commits[m] # None)
              => r.commits[m] = CommitHash(sc, k, r.commits[m].version, r.snapshot)
    PROVE  FairView(n, SubmitReveal(r, m, sc, k, t), sent, drawn)
<1> DEFINE s == SubmitReveal(r, m, sc, k, t)
<1>1. /\ s.snapshot = r.snapshot /\ s.commits = r.commits /\ s.pin = r.pin
      /\ s.mismatched = r.mismatched
      /\ \A x \in Nodes : \/ s.reveals[x] = r.reveals[x]
                          \/ /\ x = m /\ s.commits[x] # None
                             /\ s.reveals[x].verified <=>
                                   s.commits[x] = CommitHash(sc, k, s.pin, s.snapshot)
  BY SubmitRevealEffect
<1> HIDE DEF s
<1>2. ASSUME NEW x \in Nodes
      PROVE  /\ s.reveals[x] # None => s.commits[x] # None
             /\ (/\ x \notin Copiers /\ SnapshotHash[n] = SnapshotHash[x]
                 /\ sent[x] # None => sent[x].hash.nonce = [by |-> x, call |-> drawn[x]]
                 /\ s.reveals[x] # None) => s.reveals[x].verified
  BY <1>1 DEF FairView
<1> QED
  BY <1>1, <1>2 DEF FairView, s

\* Where one view changes to a fair one, and nobody but a copier commits or draws
\* a nonce, the invariant survives.
LEMMA FairStep ==
    ASSUME RoundInv, FairnessInv, NEW n \in Nodes, NEW s \in Round,
           round' = [round EXCEPT ![n] = s],
           FairView(n, s, commitMsg, nonce), RevealsAreOwn',
           nonce' = nonce, \A m \in Nodes \ Copiers : commitMsg'[m] = commitMsg[m]
    PROVE  FairnessInv'
<1>1. /\ round'[n] = s
      /\ \A x \in Nodes : x # n => round'[x] = round[x]
  BY DEF RoundInv, TypeOK
<1>2. \A x \in Nodes : IsOpen(x)' => FairView(x, round'[x], commitMsg', nonce')
  <2>1. \A x \in Nodes : IsOpen(x)' => FairView(x, round'[x], commitMsg, nonce)
    BY <1>1, FairViews DEF IsOpen
  <2> SUFFICES ASSUME NEW x \in Nodes, IsOpen(x)'
               PROVE  FairView(x, round'[x], commitMsg', nonce')
    OBVIOUS
  <2> DEFINE v == round'[x]
  <2>2. FairView(x, v, commitMsg, nonce)
    BY <2>1
  <2> HIDE DEF v
  <2>3. FairView(x, v, commitMsg', nonce)
    BY ONLY <2>2, nonce' = nonce, \A m \in Nodes \ Copiers : commitMsg'[m] = commitMsg[m] DEF FairView
  <2> QED
    BY <2>3 DEF v
<1>3. \A x \in Nodes : IsOpen(x)' => FairView(x, round[x], commitMsg, nonce)'
  BY <1>2 DEF FairView
<1>4. PinIsUniform' /\ RevealsFollowCommits'
  BY <1>3 DEF FairView, PinIsUniform, RevealsFollowCommits
<1>5. HonestRevealsVerify'
  BY <1>3 DEF FairView, HonestRevealsVerify, KeptItsNonce, LastNonce, RevealedNodes, VerifiedNodes
<1> QED
  BY <1>4, <1>5 DEF FairnessInv

\* What a view records of a commit: the scores, version and agent set of the
\* node that drew its nonce, which is the sender if that copies nothing.
LEMMA RecordedCommit ==
    ASSUME RoundInv, NEW n \in Nodes, NEW m \in Nodes, IsOpen(n), round[n].commits[m] # None
    PROVE  LET h == commitMsg[m].hash IN
           /\ commitMsg[m] # None /\ round[n].commits[m] = h /\ h \in Hash
           /\ m \notin Copiers =>
                 /\ h.nonce = [by |-> m, call |-> h.nonce.call]
                 /\ h = CommitHash(OwnScores[m], h.nonce, AlgoVersion[m], SnapshotHash[m])
<1> DEFINE h == commitMsg[m].hash
<1>1. commitMsg[m] # None /\ round[n].commits[m] = h
  BY DEF RoundInv, CommitsAreBroadcast
<1>2. h \in Hash
  BY <1>1 DEF RoundInv, TypeOK, CommitRequest
<1>3. OwnRequest(m, commitMsg[m])
  BY <1>1 DEF RoundInv, CommitsAreBroadcast, OwnRequest
<1>4. h = CommitHash(h.scores, h.nonce, h.version, h.snapshot)
  BY <1>2 DEF Hash, CommitHash
<1>5. h.nonce = [by |-> h.nonce.by, call |-> h.nonce.call]
  BY <1>2 DEF Hash, Nonce
<1> QED
  BY <1>1, <1>2, <1>3, <1>4, <1>5 DEF OwnRequest

\* Opening a round, results, time and a copier's reveal.
LEMMA QuietFair ==
    ASSUME RoundInv, FairnessInv, NEW n \in Nodes, NEW m \in Nodes,
           OpenRound(n) \/ ReadResults(n) \/ Tick \/ AdvanceRoundClock(n) \/ CopyReveal(n, m)
    PROVE  FairnessInv'
<1>1. CASE OpenRound(n)
  <2>1. OpenedRound(SnapshotHash[n]) \in Round
    BY DEF OpenedRound, Round
  <2>2. FairView(n, OpenedRound(SnapshotHash[n]), commitMsg, nonce)
    BY DEF OpenedRound, FairView
  <2>3. RevealsAreOwn'
    BY <1>1, FairViews DEF OpenRound, RevealsAreOwn
  <2> QED
    BY <1>1, <2>1, <2>2, <2>3, FairStep DEF OpenRound
<1>2. CASE ReadResults(n)
  <2> DEFINE s == Advance(round[n], clock[n])
  <2>1. s \in Round /\ SameBooks(round[n], s)
    BY <1>2, ViewFacts, AdvanceEffect DEF ReadResults
  <2>2. FairView(n, round[n], commitMsg, nonce)
    BY <1>2, FairViews DEF ReadResults
  <2>3. round' = [round EXCEPT ![n] = s] /\ UNCHANGED <<nonce, commitMsg, revealMsg>>
    BY <1>2 DEF ReadResults
  <2> HIDE DEF s
  <2>4. FairView(n, s, commitMsg, nonce)
    BY <2>1, <2>2 DEF SameBooks, FairView
  <2>5. RevealsAreOwn'
    BY <2>3, FairViews DEF RevealsAreOwn
  <2> QED
    BY <2>1, <2>3, <2>4, <2>5, FairStep
<1>3. CASE Tick \/ AdvanceRoundClock(n)
  BY <1>3 DEF Tick, AdvanceRoundClock, FairnessInv, PinIsUniform, RevealsAreOwn,
     RevealsFollowCommits, HonestRevealsVerify, KeptItsNonce, LastNonce, IsOpen
<1>4. CASE CopyReveal(n, m)
  <2>1. /\ n \in Copiers /\ UNCHANGED <<round, nonce, commitMsg>>
        /\ \A x \in Nodes : x # n => revealMsg'[x] = revealMsg[x]
    BY <1>4 DEF CopyReveal, RoundInv, TypeOK
  <2> QED
    BY <2>1 DEF FairnessInv, PinIsUniform, RevealsAreOwn, RevealsFollowCommits,
       HonestRevealsVerify, KeptItsNonce, LastNonce, IsOpen
<1> QED
  BY <1>1, <1>2, <1>3, <1>4

\* A peer's commit arrives.
LEMMA DeliverCommitFair ==
    ASSUME RoundInv, FairnessInv, NEW n \in Nodes, NEW m \in Nodes, DeliverCommit(n, m)
    PROVE  FairnessInv'
<1> DEFINE h == commitMsg[m].hash
           v == commitMsg[m].version
           s == SubmitCommit(round[n], m, h, v, clock[n])
<1>1. /\ IsOpen(n) /\ commitMsg[m] # None /\ round' = [round EXCEPT ![n] = s]
      /\ UNCHANGED <<now, clock, nonce, commitMsg, revealMsg>>
  BY DEF DeliverCommit
<1>2. /\ h \in Hash /\ v \in Version /\ h.version = v
      /\ m \notin Copiers => v = AlgoVersion[m]
  BY <1>1 DEF RoundInv, TypeOK, CommitRequest, CommitsAreBroadcast, Version
<1> HIDE DEF h, v
<1>3. round[n] \in Round /\ clock[n] \in Nat /\ FairView(n, round[n], commitMsg, nonce)
  BY <1>1, ViewFacts, FairViews
<1>4. s \in Round
  BY <1>2, <1>3, SubmitCommitEffect DEF Version
<1>5. FairView(n, s, commitMsg, nonce)
  BY <1>2, <1>3, CommitKeepsFair
<1> HIDE DEF s
<1>6. RevealsAreOwn'
  BY <1>1, FairViews DEF RevealsAreOwn
<1> QED
  BY <1>1, <1>4, <1>5, <1>6, FairStep

\* A copier sends a peer's hash as its own: no honest node's commit is another.
LEMMA CopyCommitFair ==
    ASSUME RoundInv, FairnessInv, NEW n \in Nodes, NEW m \in Nodes, CopyCommit(n, m)
    PROVE  FairnessInv'
<1> DEFINE h == commitMsg[m].hash
           v == commitMsg[m].version
           s == SubmitCommit(round[n], n, h, v, now)
<1>1. /\ n \in Copiers /\ IsOpen(n) /\ commitMsg[m] # None
      /\ round' = [round EXCEPT ![n] = s] /\ UNCHANGED <<nonce, revealMsg>>
      /\ \A x \in Nodes \ Copiers : commitMsg'[x] = commitMsg[x]
  BY DEF CopyCommit, RoundInv, TypeOK
<1>2. h \in Hash /\ v \in Version /\ h.version = v
  BY <1>1 DEF RoundInv, TypeOK, CommitRequest, CommitsAreBroadcast, Version
<1> HIDE DEF h, v
<1>3. round[n] \in Round /\ now \in Nat /\ FairView(n, round[n], commitMsg, nonce)
  BY <1>1, ViewFacts, FairViews
<1>4. s \in Round
  BY <1>2, <1>3, SubmitCommitEffect DEF Version
<1>5. FairView(n, s, commitMsg, nonce)
  BY <1>1, <1>2, <1>3, CommitKeepsFair
<1> HIDE DEF s
<1>6. RevealsAreOwn'
  BY <1>1, FairViews DEF RevealsAreOwn
<1> QED
  BY <1>1, <1>4, <1>5, <1>6, FairStep

\* A peer's reveal arrives.
LEMMA DeliverRevealFair ==
    ASSUME RoundInv, FairnessInv, NEW n \in Nodes, NEW m \in Nodes, DeliverReveal(n, m)
    PROVE  FairnessInv'
<1> DEFINE sc == revealMsg[m].scores
           k == revealMsg[m].nonce
           s == SubmitReveal(round[n], m, sc, k, clock[n])
<1>1. /\ IsOpen(n) /\ revealMsg[m] # None /\ round' = [round EXCEPT ![n] = s]
      /\ UNCHANGED <<now, clock, nonce, commitMsg, revealMsg>>
  BY DEF DeliverReveal
<1>2. sc \in Scores
  BY <1>1 DEF RoundInv, TypeOK, RevealRequest
<1>3. /\ round[n] \in Round /\ clock[n] \in Nat /\ round[n].snapshot = SnapshotHash[n]
      /\ FairView(n, round[n], commitMsg, nonce)
  BY <1>1, ViewFacts, FairViews
<1>4. ASSUME m \notin Copiers, SnapshotHash[n] = SnapshotHash[m],
             commitMsg[m] # None => commitMsg[m].hash.nonce = LastNonce(m),
             round[n].commits[m] # None
      PROVE  round[n].commits[m] =
               CommitHash(sc, k, round[n].commits[m].version, round[n].snapshot)
  <2> DEFINE h == commitMsg[m].hash
  <2>1. /\ commitMsg[m] # None /\ sc = OwnScores[m] /\ k.by = m
        /\ h.nonce.call <= k.call /\ k.call <= nonce[m]
    BY <1>1, <1>4, FairViews DEF RevealsAreOwn
  <2>2. /\ round[n].commits[m] = h /\ h \in Hash /\ h.nonce = LastNonce(m)
        /\ h = CommitHash(OwnScores[m], h.nonce, AlgoVersion[m], SnapshotHash[m])
    BY <1>1, <1>4, <2>1, RecordedCommit
  <2>3. k \in Nonce /\ nonce[m] \in Nat
    BY <1>1, ClusterAssumption DEF RoundInv, TypeOK, RevealRequest
  <2>4. k = h.nonce
    BY <2>1, <2>2, <2>3, ClusterAssumption DEF Nonce, LastNonce
  <2>5. h.version = AlgoVersion[m]
    BY <2>2 DEF CommitHash
  <2> HIDE DEF h
  <2> QED
    BY <1>3, <1>4, <2>1, <2>2, <2>4, <2>5
<1> HIDE DEF sc, k
<1>5. s \in Round
  BY <1>2, <1>3, SubmitRevealEffect
<1>6. FairView(n, s, commitMsg, nonce)
  BY <1>2, <1>3, <1>4, RevealKeepsFair DEF LastNonce
<1> HIDE DEF s
<1>7. RevealsAreOwn'
  BY <1>1, FairViews DEF RevealsAreOwn
<1> QED
  BY <1>1, <1>5, <1>6, <1>7, FairStep

\* A node reveals: its own view holds its commit, so the nonce is of that time
\* or later.
LEMMA LocalRevealFair ==
    ASSUME RoundInv, FairnessInv, NEW n \in Nodes, LocalReveal(n) PROVE FairnessInv'
<1> DEFINE s == SubmitReveal(round[n], n, OwnScores[n], LastNonce(n), now)
           ok == RevealAccepted(round[n], n, now)
           req == [scores |-> OwnScores[n], nonce |-> LastNonce(n), version |-> AlgoVersion[n]]
<1>1. /\ IsOpen(n) /\ nonce[n] > 0 /\ round' = [round EXCEPT ![n] = s]
      /\ revealMsg' = IF ok THEN [revealMsg EXCEPT ![n] = req] ELSE revealMsg
      /\ UNCHANGED <<now, clock, nonce, commitMsg>>
  BY DEF LocalReveal
<1>2. /\ round[n] \in Round /\ now \in Nat /\ round[n].snapshot = SnapshotHash[n]
      /\ FairView(n, round[n], commitMsg, nonce)
  BY <1>1, ViewFacts, FairViews
<1>3. OwnScores[n] \in Scores /\ nonce[n] \in Nat
  BY ClusterAssumption DEF RoundInv, TypeOK
<1>4. ok => round[n].commits[n] # None
  BY <1>2, AdvanceEffect DEF RevealAccepted, SameBooks
<1>5. ASSUME n \notin Copiers,
             commitMsg[n] # None => commitMsg[n].hash.nonce = LastNonce(n),
             round[n].commits[n] # None
      PROVE  round[n].commits[n] =
               CommitHash(OwnScores[n], LastNonce(n), round[n].commits[n].version,
                          round[n].snapshot)
  <2> DEFINE h == commitMsg[n].hash
  <2>1. /\ commitMsg[n] # None /\ round[n].commits[n] = h
        /\ h = CommitHash(OwnScores[n], h.nonce, AlgoVersion[n], SnapshotHash[n])
    BY <1>1, <1>5, RecordedCommit
  <2>2. h.version = AlgoVersion[n] /\ h.nonce = LastNonce(n)
    BY <1>5, <2>1 DEF CommitHash
  <2> HIDE DEF h
  <2> QED
    BY <1>2, <1>5, <2>1, <2>2
<1>6. s \in Round
  BY <1>2, <1>3, SubmitRevealEffect
<1>7. FairView(n, s, commitMsg, nonce)
  BY <1>2, <1>3, <1>5, RevealKeepsFair DEF LastNonce
<1> HIDE DEF s, ok
<1>8. RevealsAreOwn'
  <2>1. \A m \in Nodes : revealMsg'[m] # revealMsg[m] => m = n /\ ok /\ revealMsg'[m] = req
    BY <1>1 DEF RoundInv, TypeOK
  <2>2. ok /\ n \notin Copiers => /\ commitMsg[n] # None
                               /\ commitMsg[n].hash.nonce.call <= nonce[n]
    BY <1>1, <1>4, RecordedCommit, FairViews DEF RevealsAreOwn
  <2>3. /\ req.scores = OwnScores[n] /\ req.nonce.by = n
        /\ req.nonce.call = nonce[n] /\ nonce[n] <= nonce[n]
    BY <1>3 DEF LastNonce
  <2> HIDE DEF req
  <2>4. ASSUME NEW m \in Nodes \ Copiers, revealMsg'[m] # None
        PROVE  /\ commitMsg[m] # None
               /\ revealMsg'[m].scores = OwnScores[m]
               /\ revealMsg'[m].nonce.by = m
               /\ commitMsg[m].hash.nonce.call <= revealMsg'[m].nonce.call
               /\ revealMsg'[m].nonce.call <= nonce[m]
    <3>1. CASE revealMsg'[m] = revealMsg[m]
      BY <2>4, <3>1, FairViews DEF RevealsAreOwn
    <3>2. CASE revealMsg'[m] # revealMsg[m]
      BY <2>1, <2>2, <2>3, <3>2
    <3> QED
      BY <3>1, <3>2
  <2> QED
    BY <1>1, <2>4, FairViews DEF RevealsAreOwn
<1> QED
  BY <1>1, <1>6, <1>7, <1>8, FairStep

\* A node commits.  The first time nobody has recorded a reveal of it; later it
\* only loses its nonce.
LEMMA LocalCommitFair ==
    ASSUME RoundInv, FairnessInv, RoundInv', NEW n \in Nodes, LocalCommit(n)
    PROVE  FairnessInv'
<1> DEFINE k == nonce[n] + 1
           v == AlgoVersion[n]
           h == CommitHash(OwnScores[n], [by |-> n, call |-> k], v, round[n].snapshot)
           s == SubmitCommit(round[n], n, h, v, now)
           ok == CommitAccepted(round[n], n, v, now)
           req == [hash |-> h, version |-> v]
<1>1. /\ IsOpen(n) /\ nonce[n] < MaxCommitCalls /\ nonce' = [nonce EXCEPT ![n] = k]
      /\ UNCHANGED <<now, clock, revealMsg>>
  BY DEF LocalCommit
<1>2. /\ nonce'[n] = k /\ k \in 1..MaxCommitCalls /\ nonce[n] \in Nat /\ k = nonce[n] + 1
      /\ \A x \in Nodes : nonce[x] \in Nat /\ (x # n => nonce'[x] = nonce[x])
  BY <1>1, ClusterAssumption DEF RoundInv, TypeOK
<1>3. /\ round' = [round EXCEPT ![n] = s]
      /\ commitMsg' = IF ok THEN [commitMsg EXCEPT ![n] = req] ELSE commitMsg
  BY <1>2 DEF LocalCommit
<1> HIDE DEF k
<1>4. /\ round[n] \in Round /\ round[n].snapshot = SnapshotHash[n] /\ now \in Nat
      /\ FairView(n, round[n], commitMsg, nonce)
  BY <1>1, ViewFacts, FairViews
<1>5. v \in Version /\ h \in Hash /\ h.version = AlgoVersion[n] /\ h.nonce.call = k
  BY <1>2, <1>4, ClusterAssumption DEF CommitHash, Hash, Nonce, Version
<1> HIDE DEF h
<1>7. FairView(n, s, commitMsg, nonce)
  BY <1>4, <1>5, CommitKeepsFair
<1> HIDE DEF v
<1>6. s \in Round /\ s.reveals = round[n].reveals
  <2>1. round[n] \in Round /\ now \in Nat /\ h \in Hash /\ v \in Version
    BY <1>4, <1>5
  <2>2. SubmitCommit(round[n], n, h, v, now).reveals = round[n].reveals
    BY <2>1, CommitKeepsReveals
  <2>3. SubmitCommit(round[n], n, h, v, now) \in Round
    BY <2>1, SubmitCommitEffect DEF Version
  <2> QED
    BY <2>2, <2>3
<1>8. ok => commitMsg[n] = None /\ \A m \in Nodes : revealMsg[m] = None
  BY <1>1, <1>5, FirstCommit
<1>9. \A m \in Nodes : commitMsg'[m] # commitMsg[m] => m = n /\ ok
  BY <1>3 DEF RoundInv, TypeOK
<1>10. ok => commitMsg'[n] = req /\ req.hash = h
  BY <1>3 DEF RoundInv, TypeOK
<1> HIDE DEF s, ok, req
<1>11. RevealsAreOwn'
  <2>1. ASSUME NEW m \in Nodes \ Copiers, commitMsg'[m] # None
        PROVE  commitMsg'[m].hash.nonce.call <= nonce'[m]
    <3>1. CASE commitMsg'[m] = commitMsg[m]
      <4>1. /\ commitMsg[m].hash.nonce.call <= nonce[m]
            /\ commitMsg[m].hash.nonce.call \in Nat
        BY <2>1, <3>1, FairViews
           DEF RevealsAreOwn, RoundInv, TypeOK, CommitRequest, Hash, Nonce
      <4> QED
        BY <1>2, <3>1, <4>1
    <3>2. CASE commitMsg'[m] # commitMsg[m]
      BY <1>2, <1>5, <1>9, <1>10, <3>2
    <3> QED
      BY <3>1, <3>2
  <2>2. ASSUME NEW m \in Nodes \ Copiers, revealMsg'[m] # None
        PROVE  /\ commitMsg'[m] # None
               /\ revealMsg'[m].scores = OwnScores[m]
               /\ revealMsg'[m].nonce.by = m
               /\ commitMsg'[m].hash.nonce.call <= revealMsg'[m].nonce.call
               /\ revealMsg'[m].nonce.call <= nonce'[m]
    <3>1. ~ok /\ commitMsg'[m] = commitMsg[m] /\ revealMsg'[m] = revealMsg[m]
      BY <1>1, <1>8, <1>9, <2>2
    <3>2. /\ commitMsg[m] # None /\ revealMsg[m].scores = OwnScores[m]
          /\ revealMsg[m].nonce.by = m
          /\ commitMsg[m].hash.nonce.call <= revealMsg[m].nonce.call
          /\ revealMsg[m].nonce.call <= nonce[m] /\ revealMsg[m].nonce.call \in Nat
      BY <2>2, <3>1, FairViews DEF RevealsAreOwn, RoundInv, TypeOK, RevealRequest, Nonce
    <3> QED
      BY <1>2, <3>1, <3>2
  <2> QED
    BY <2>1, <2>2 DEF RevealsAreOwn
\* In any view: either the node's commit is what it was, or no reveal of it is
\* recorded.
<1>12. ASSUME NEW x \in Nodes, NEW r, FairView(x, r, commitMsg, nonce),
              \A m \in Nodes : r.commits[m] # None => commitMsg'[m] # None,
              \A m \in Nodes : commitMsg[m] = None => r.reveals[m] = None
       PROVE  FairView(x, r, commitMsg', nonce')
  <2>1. ASSUME NEW m \in Nodes, m \notin Copiers, SnapshotHash[x] = SnapshotHash[m],
               commitMsg'[m] # None => commitMsg'[m].hash.nonce = [by |-> m, call |-> nonce'[m]],
               r.reveals[m] # None
        PROVE  r.reveals[m].verified
    <3>1. commitMsg[m] # None
      BY <1>12, <2>1
    <3>2. commitMsg'[m] = commitMsg[m]
      BY <1>8, <1>9, <3>1
    <3>3. /\ commitMsg[m].hash.nonce.call <= nonce[m]
          /\ commitMsg[m].hash.nonce.call \in Nat
      BY <2>1, <3>1, FairViews
         DEF RevealsAreOwn, RoundInv, TypeOK, CommitRequest, Hash, Nonce
    <3>4. m # n
      BY <1>2, <2>1, <3>1, <3>2, <3>3
    <3> QED
      BY <1>2, <1>12, <2>1, <3>2, <3>4 DEF FairView
  <2> QED
    BY <1>12, <2>1 DEF FairView
<1>13. ASSUME NEW x \in Nodes, IsOpen(x)'
       PROVE  FairView(x, round'[x], commitMsg', nonce')
  <2>1. /\ round'[n] = s /\ (x # n => round'[x] = round[x] /\ IsOpen(x))
    BY <1>3, <1>13 DEF RoundInv, TypeOK, IsOpen
  <2>2. FairView(x, round'[x], commitMsg, nonce)
    BY <1>7, <2>1, FairViews
  <2>3. \A m \in Nodes : round'[x].commits[m] # None => commitMsg'[m] # None
    BY <1>13 DEF RoundInv, CommitsAreBroadcast
  <2>4. ASSUME NEW m \in Nodes, commitMsg[m] = None PROVE round'[x].reveals[m] = None
    <3>1. IsOpen(x)
      BY <1>1, <2>1
    <3>2. round[x].commits[m] = None
      BY <2>4, <3>1, RecordedCommit
    <3>3. round[x].reveals[m] = None
      BY <3>1, <3>2 DEF FairnessInv, RevealsFollowCommits
    <3> QED
      BY <1>6, <2>1, <3>3
  <2> QED
    BY <1>12, <2>2, <2>3, <2>4
<1>14. \A x \in Nodes : IsOpen(x)' => FairView(x, round[x], commitMsg, nonce)'
  BY <1>13 DEF FairView
<1> QED
  BY <1>11, <1>14 DEF FairnessInv, FairView, PinIsUniform, RevealsFollowCommits,
     HonestRevealsVerify, KeptItsNonce, LastNonce, RevealedNodes, VerifiedNodes

LEMMA FairInit == Init => FairnessInv
BY DEF Init, FairnessInv, PinIsUniform, RevealsAreOwn, RevealsFollowCommits,
   HonestRevealsVerify, IsOpen

\* FairnessInv is an inductive invariant beside RoundInv: every version pin, every
\* exclusion and every recorded reveal of every view is what an honest node's
\* handlers in node.py can produce.
THEOREM FairnessInvariant == Spec => []FairnessInv
<1>1. Init => FairnessInv
  BY FairInit
<1>2. RoundInv /\ RoundInv' /\ FairnessInv /\ [Next]_vars => FairnessInv'
  <2> SUFFICES ASSUME RoundInv, RoundInv', FairnessInv, [Next]_vars PROVE FairnessInv'
    OBVIOUS
  <2>1. CASE \E n \in Nodes : LocalCommit(n)
    BY <2>1, LocalCommitFair
  <2>2. CASE \E n \in Nodes : LocalReveal(n)
    BY <2>2, LocalRevealFair
  <2>3. CASE \E n, m \in Nodes : DeliverCommit(n, m)
    BY <2>3, DeliverCommitFair
  <2>4. CASE \E n, m \in Nodes : DeliverReveal(n, m)
    BY <2>4, DeliverRevealFair
  <2>5. CASE \E n, m \in Nodes :
               OpenRound(n) \/ ReadResults(n) \/ AdvanceRoundClock(n) \/ CopyReveal(n, m)
    BY <2>5, QuietFair
  <2>6. CASE \E n, m \in Nodes : CopyCommit(n, m)
    BY <2>6, CopyCommitFair
  <2>7. CASE Tick \/ UNCHANGED vars
    BY <2>7 DEF Tick, vars, FairnessInv, PinIsUniform, RevealsAreOwn,
       RevealsFollowCommits, HonestRevealsVerify, KeptItsNonce, LastNonce, IsOpen
  <2> QED
    BY <2>1, <2>2, <2>3, <2>4, <2>5, <2>6, <2>7 DEF Next
<1> QED
  BY <1>1, <1>2, RoundInvariant, PTL DEF Spec

\* An honest node that has not committed again is never recorded as one that "did
\* not compute these scores independently" (commit_reveal.py), in the view of any
\* node that bound the same agent set, whatever is delayed, repeated or lost.
THEOREM HonestRevealsAreVerified == Spec => []HonestRevealsVerify
<1>1. FairnessInv => HonestRevealsVerify
  BY DEF FairnessInv
<1> QED
  BY <1>1, FairnessInvariant, PTL

\* A node a view excludes for its scoring version (commit_reveal_round.py) really
\* runs another one and is no committer there, so the watchdog never counts it
\* among the members that kept silent.
THEOREM ExcludedForVersionOnly == Spec => []SkewIsNotMisbehaviour
<1>1. RoundInv /\ FairnessInv => SkewIsNotMisbehaviour
  <2> SUFFICES ASSUME RoundInv, FairnessInv, NEW n \in Nodes, IsOpen(n),
                      NEW m \in Nodes \ Copiers, m \in round[n].mismatched
               PROVE  AlgoVersion[m] # round[n].pin /\ m \notin CommittedNodes(round[n])
    BY ViewFacts DEF SkewIsNotMisbehaviour, Round
  <2> QED
    BY DEF FairnessInv, PinIsUniform, CommittedNodes
<1> QED
  BY <1>1, FairnessInvariant, RoundInvariant, PTL

-----------------------------------------------------------------------------
\* The driver: RunnerInv is inductive where the nodes are honest and of one
\* version and agent set.

RunnerStages == {"open", "commit", "exchange_commits", "reveal", "exchange_reveals", "report", "done"}

\* Where each stage stands.
LEMMA AfterIs ==
    /\ After("open") = RunnerStages \ {"open"}
    /\ After("commit") = RunnerStages \ {"open", "commit"}
    /\ After("exchange_commits") = {"reveal", "exchange_reveals", "report", "done"}
    /\ After("reveal") = {"exchange_reveals", "report", "done"}
    /\ After("exchange_reveals") = {"report", "done"}
    /\ After("report") = {"done"}
BY DEF After, RunnerStages

\* Time may jump to any later time within the bound.
LEMMA TimeJump ==
    ASSUME RoundInv, FairnessInv, now' \in Nat, now <= now', now' <= MaxTime,
           UNCHANGED <<clock, round, nonce, commitMsg, revealMsg>>
    PROVE  RoundInv' /\ FairnessInv'
<1>1. now \in Nat
  BY DEF RoundInv, TypeOK
<1>2. TypeOK' /\ ClocksLag'
  <2>1. \A n \in Nodes : clock[n] \in Nat /\ clock[n] <= now
    BY DEF RoundInv, TypeOK, ClocksLag
  <2>2. now' \in 0..MaxTime
    BY ClusterAssumption
  <2>3. \A n \in Nodes : clock'[n] <= now'
    BY <1>1, <2>1
  <2> QED
    BY <2>2, <2>3 DEF RoundInv, TypeOK, ClocksLag
<1>3. now >= CommitDeadline => now' >= CommitDeadline
  BY <1>1, RoundAssumption
<1>4. FairnessInv'
  BY DEF FairnessInv, PinIsUniform, RevealsAreOwn, RevealsFollowCommits, HonestRevealsVerify,
     KeptItsNonce, LastNonce, IsOpen
<1> QED
  BY <1>2, <1>3, <1>4 DEF RoundInv, CommitsAreBroadcast, PhaseIsJustified,
     RevealsCloseCommits, VerifiedMatchesCommit, IsOpen

\* Every step of a node keeps both invariants.
LEMMA NodeStep ==
    ASSUME RoundInv, FairnessInv, NEW n \in Nodes, NEW m \in Nodes,
           \/ OpenRound(n) \/ AdvanceRoundClock(n) \/ LocalCommit(n) \/ DeliverCommit(n, m)
           \/ LocalReveal(n) \/ DeliverReveal(n, m) \/ ReadResults(n)
    PROVE  RoundInv' /\ FairnessInv'
<1>1. RoundInv'
  BY OpenRoundInv, TimeInv, LocalCommitInv, DeliverCommitInv, LocalRevealInv,
     DeliverRevealInv, ReadResultsInv
<1> QED
  BY <1>1, QuietFair, LocalCommitFair, DeliverCommitFair, LocalRevealFair, DeliverRevealFair

\* In one cluster a first commit before the deadline is accepted.
LEMMA FirstCommitIsAccepted ==
    ASSUME RoundInv, OneCluster, NEW n \in Nodes, NEW m \in Nodes, NEW h \in Hash, NEW t \in Nat,
           IsOpen(n), t < CommitDeadline, now < CommitDeadline, round[n].commits[m] = None
    PROVE  /\ CommitAccepted(round[n], m, AlgoVersion[m], t)
           /\ SubmitCommit(round[n], m, h, AlgoVersion[m], t).commits
                = [round[n].commits EXCEPT ![m] = h]
           /\ SubmitCommit(round[n], m, h, AlgoVersion[m], t).reveals = round[n].reveals
<1> DEFINE v == AlgoVersion[m]
<1>1. round[n] \in Round /\ now \in Nat
  BY ViewFacts
<1>2. round[n].phase = "open_commit"
  BY <1>1, RoundAssumption DEF RoundInv, PhaseIsJustified
<1>3. v \in Version /\ \A w \in Version : w = v
  BY DEF OneCluster, Version
<1>4. CommitAccepted(round[n], m, v, t)
  <2>1. ~(t >= CommitDeadline)
    BY RoundAssumption
  <2>2. Advance(round[n], t) \in Round /\ SameBooks(round[n], Advance(round[n], t))
        /\ (Advance(round[n], t).phase # "open_commit" =>
              round[n].phase # "open_commit" \/ CommitsClosed(round[n], t))
    BY <1>1, AdvanceEffect
  <2>3. Advance(round[n], t).phase = "open_commit"
    BY <1>2, <2>1, <2>2 DEF CommitsClosed
  <2>4. Advance(round[n], t).commits[m] = None
    BY <2>2 DEF SameBooks
  <2>5. Advance(round[n], t).pin \in {None, v}
    BY <1>3, <2>2 DEF Round, Version
  <2> QED
    BY <2>3, <2>4, <2>5 DEF CommitAccepted, MayCommit
<1> HIDE DEF v
<1>5. SubmitCommit(round[n], m, h, v, t).reveals = round[n].reveals
  BY <1>1, <1>3, CommitKeepsReveals
<1>6. SubmitCommit(round[n], m, h, v, t).commits = [round[n].commits EXCEPT ![m] = h]
  <2> DEFINE s == SubmitCommit(round[n], m, h, v, t)
  <2>1. /\ s \in Round /\ s.snapshot = round[n].snapshot
        /\ CommitAccepted(round[n], m, v, t) =>
              /\ s.commits = [round[n].commits EXCEPT ![m] = h]
              /\ round[n].commits[m] = None
        /\ ~CommitAccepted(round[n], m, v, t) => s.commits = round[n].commits
        /\ s.phase # "open_commit" => round[n].phase # "open_commit" \/ CommitsClosed(s, t)
    BY <1>1, <1>3, SubmitCommitEffect DEF Version
  <2> QED
    BY <1>4, <2>1
<1> QED
  BY <1>4, <1>5, <1>6 DEF v

\* Between the deadlines a first reveal of a committed node is recorded, also by a
\* round that has closed on its quorum.
LEMMA FirstRevealIsRecorded ==
    ASSUME NEW r \in Round, NEW m \in Nodes, NEW sc \in Scores, NEW k, NEW t \in Nat,
           t >= CommitDeadline, t < RevealDeadline, r.commits[m] # None, r.reveals[m] = None
    PROVE  /\ RevealAccepted(r, m, t)
           /\ SubmitReveal(r, m, sc, k, t).commits = r.commits
           /\ SubmitReveal(r, m, sc, k, t).reveals[m] # None
           /\ \A x \in Nodes : x # m => SubmitReveal(r, m, sc, k, t).reveals[x] = r.reveals[x]
<1> DEFINE a == Advance(r, t)
           ok == VerifyReveal(a, m, sc, k)
           rec == [scores |-> sc, verified |-> ok]
           b == [a EXCEPT !.reveals[m] = rec]
           s == SubmitReveal(r, m, sc, k, t)
<1>1. /\ a \in Round /\ SameBooks(r, a)
      /\ a.phase = "open_commit" => r.phase = "open_commit" /\ t < CommitDeadline
  BY AdvanceEffect
<1>2. ~(t < CommitDeadline)
  BY RoundAssumption
<1>3. RevealAccepted(r, m, t)
  BY <1>1, <1>2 DEF RevealAccepted, SameBooks, a
<1>4. s = Advance(b, t)
  BY <1>3 DEF SubmitReveal, a, b, s, ok, rec
<1>5. rec \in [scores : Scores, verified : BOOLEAN] /\ rec # None
  <2>1. ok \in BOOLEAN
    BY DEF VerifyReveal, ok
  <2> HIDE DEF ok
  <2> QED
    BY <2>1, NoneIsAbsent DEF rec
<1> HIDE DEF a, s, rec
<1>6. /\ b \in Round /\ b.commits = a.commits
      /\ b.reveals = [a.reveals EXCEPT ![m] = rec]
  BY <1>1, <1>5 DEF Round, b
<1> HIDE DEF b
<1>7. SameBooks(b, s)
  BY <1>4, <1>6, AdvanceEffect
<1>8. a.reveals \in [Nodes -> [scores : Scores, verified : BOOLEAN] \cup {None}]
  BY <1>1 DEF Round
<1>9. /\ s.commits = r.commits /\ s.reveals[m] # None
      /\ \A x \in Nodes : x # m => s.reveals[x] = r.reveals[x]
  BY <1>1, <1>5, <1>6, <1>7, <1>8 DEF SameBooks
<1> QED
  BY <1>3, <1>9 DEF s

\* What the window allows.
LEMMA Windows ==
    /\ CommitDeadline \in Nat /\ RevealDeadline \in Nat /\ MaxTime \in Nat
    /\ CommitNow \in Nat /\ RevealNow \in Nat /\ CloseNow \in Nat
    /\ CommitNow < CommitDeadline /\ CommitDeadline <= RevealNow /\ CommitNow <= RevealNow
    /\ RevealNow < RevealDeadline /\ RevealNow <= CloseNow /\ CloseNow <= MaxTime
    /\ CommitNow <= MaxTime /\ RevealNow <= MaxTime
BY WindowAssumption, RoundAssumption, ClusterAssumption DEF CommitNow, RevealNow, CloseNow

\* The loops.  Each lemma is one kind of iteration; what a loop leaves behind is
\* told by Over.
LEMMA Ends ==
    ASSUME RunnerInv, OneCluster, NextStage
    PROVE  RunnerInv'
<1> USE DEF RunnerInv
<1>1. UNCHANGED <<clock, round, nonce, commitMsg, revealMsg, dropCommit, dropReveal>>
  BY DEF NextStage, Begin
<1>2. /\ now' = TimeOf(stage') /\ now' \in Nat /\ now <= now' /\ now' <= MaxTime
      /\ todo = {} /\ todo' = ItemsOf(stage') /\ stage' \in RunnerStages
  BY Windows DEF NextStage, Begin, TimeOf, ItemsOf, RunnerTypeOK, RunnerStages
<1>3. RoundInv' /\ FairnessInv'
  BY <1>1, <1>2, TimeJump
<1>4. RunnerTypeOK'
  BY <1>1, <1>2, AfterIs DEF RunnerTypeOK, RunnerStages
<1>5. \A s \in RunnerStages \ {"done"} : \A i \in ItemsOf(s) : Over(s, i)' <=> Over(s, i)
  BY <1>2, AfterIs DEF NextStage, Begin, Over, ItemsOf, RunnerStages, RunnerTypeOK
<1>6. \A n, m \in Nodes : m # n => <<n, m>> \in Pairs
  BY DEF Pairs
<1>7. \A n \in Nodes :
         /\ Over("open", n)' <=> Over("open", n)
         /\ Over("commit", n)' <=> Over("commit", n)
         /\ Over("reveal", n)' <=> Over("reveal", n)
         /\ \A m \in Nodes : m # n =>
               /\ Over("exchange_commits", <<n, m>>)' <=> Over("exchange_commits", <<n, m>>)
               /\ Over("exchange_reveals", <<n, m>>)' <=> Over("exchange_reveals", <<n, m>>)
  BY <1>5, <1>6 DEF ItemsOf, RunnerStages
<1>8. ASSUME NEW n \in Nodes, Over("reveal", n), stage' \notin After("exchange_reveals")
      PROVE  stage \notin After("exchange_reveals") /\ now' = now
  BY <1>2, <1>8, AfterIs DEF NextStage, Begin, Over, RunnerTypeOK, TimeOf
<1>9. Progress'
  BY <1>1, <1>7, <1>8 DEF Progress, Silent, ClocksSet, IsOpen
<1>10. Exchanged'
  BY <1>1, <1>7 DEF Exchanged, IsOpen
<1> QED
  BY <1>3, <1>4, <1>9, <1>10

\* One iteration: what is over grows by it and by nothing else.
LEMMA Iterated ==
    ASSUME RunnerTypeOK, NEW s \in RunnerStages \ {"done"}, NEW i,
           stage = s, i \in todo, todo' = todo \ {i}, UNCHANGED <<stage, dropCommit, dropReveal>>
    PROVE  /\ ~Over(s, i) /\ Over(s, i)' /\ todo' \subseteq ItemsOf(stage')
           /\ \A j : j # i => (Over(s, j)' <=> Over(s, j))
           /\ \A u \in RunnerStages \ {"done", s} : \A j : Over(u, j)' <=> Over(u, j)
<1>1. s \notin After(s)
  BY AfterIs DEF RunnerStages
<1>2. ItemsOf(stage') = ItemsOf(stage)
  OBVIOUS
<1> QED
  BY <1>1, <1>2 DEF Over, RunnerTypeOK

\* Opening.
LEMMA RunOpenKeeps == ASSUME RunnerInv, OneCluster, NEW n \in Nodes, RunOpen(n) PROVE RunnerInv'
<1> USE DEF RunnerInv
<1>1. /\ OpenRound(n) /\ stage = "open" /\ stage' = "open" /\ n \in todo
      /\ dropCommit' = dropCommit /\ dropReveal' = dropReveal
      /\ todo' \subseteq ItemsOf(stage') /\ Over("open", n)'
      /\ \A j : j # n => (Over("open", j)' <=> Over("open", j))
      /\ \A u \in RunnerStages \ {"done", "open"} : \A j : Over(u, j)' <=> Over(u, j)
  <2>1. /\ OpenRound(n) /\ stage = "open" /\ n \in todo /\ todo' = todo \ {n}
        /\ UNCHANGED <<stage, dropCommit, dropReveal>>
    BY DEF RunOpen, Iterate
  <2> QED
    BY <2>1, Iterated DEF RunnerStages
<1>2. RoundInv' /\ FairnessInv'
  BY <1>1, NodeStep
<1>3. RunnerTypeOK'
  BY <1>1 DEF RunnerTypeOK, OpenRound
<1>4. /\ ~IsOpen(n) /\ round'[n] = OpenedRound(SnapshotHash[n])
      /\ \A x \in Nodes : x # n => round'[x] = round[x]
      /\ UNCHANGED <<nonce, commitMsg, revealMsg>>
  BY <1>1 DEF OpenRound, TypeOK, RoundInv
<1>5. \A u \in {"commit", "reveal", "exchange_commits", "exchange_reveals"} : \A j : ~Over(u, j)
  BY <1>1, AfterIs DEF Over, RunnerStages
<1>6. \A u \in {"commit", "reveal", "exchange_commits", "exchange_reveals"} : \A j : ~Over(u, j)'
  BY <1>1, <1>5 DEF RunnerStages
<1>7. IsOpen(n)' /\ \A x \in Nodes : x # n => (IsOpen(x)' <=> IsOpen(x))
  BY <1>4 DEF IsOpen, OpenedRound, Unopened
<1>8. Progress'
  BY <1>1, <1>4, <1>5, <1>6, <1>7 DEF Progress, Silent
<1>9. \A m \in Nodes : commitMsg[m] = None /\ revealMsg[m] = None
  BY <1>5 DEF Progress
<1>10. Exchanged'
  BY <1>4, <1>5, <1>6, <1>7, <1>9 DEF Exchanged, OpenedRound
<1> QED
  BY <1>2, <1>3, <1>8, <1>10

\* Committing: a node that is not dropped commits for the first time, and its
\* own view accepts it.
LEMMA RunCommitKeeps ==
    ASSUME RunnerInv, OneCluster, NEW n \in Nodes, RunCommit(n) PROVE RunnerInv'
<1> USE DEF RunnerInv
<1>1. /\ IF n \in dropCommit THEN UNCHANGED vars ELSE LocalCommit(n)
      /\ stage = "commit" /\ stage' = "commit" /\ ~Over("commit", n)
      /\ dropCommit' = dropCommit /\ dropReveal' = dropReveal
      /\ todo' \subseteq ItemsOf(stage') /\ Over("commit", n)'
      /\ \A j : j # n => (Over("commit", j)' <=> Over("commit", j))
      /\ \A u \in RunnerStages \ {"done", "commit"} : \A j : Over(u, j)' <=> Over(u, j)
  <2>1. /\ IF n \in dropCommit THEN UNCHANGED vars ELSE LocalCommit(n)
        /\ stage = "commit" /\ n \in todo /\ todo' = todo \ {n}
        /\ UNCHANGED <<stage, dropCommit, dropReveal>>
    BY DEF RunCommit, Iterate
  <2>2. /\ ~Over("commit", n) /\ todo' \subseteq ItemsOf(stage') /\ Over("commit", n)'
        /\ \A j : j # n => (Over("commit", j)' <=> Over("commit", j))
        /\ \A u \in RunnerStages \ {"done", "commit"} : \A j : Over(u, j)' <=> Over(u, j)
    BY <2>1, Iterated DEF RunnerStages
  <2> QED
    BY <2>1, <2>2
<1>2. /\ \A u \in {"reveal", "exchange_commits", "exchange_reveals"} : \A j : ~Over(u, j) /\ ~Over(u, j)'
      /\ \A x \in Nodes : Over("open", x) /\ Over("open", x)'
      /\ now = CommitNow
  BY <1>1, AfterIs DEF Over, RunnerStages, RunnerTypeOK, TimeOf
<1>3. commitMsg[n] = None /\ nonce[n] = 0 /\ \A m \in Nodes : IsOpen(m) /\ revealMsg[m] = None
  BY <1>1, <1>2 DEF Progress
<1>4. CASE n \in dropCommit
  <2>1. UNCHANGED vars
    BY <1>1, <1>4
  <2>2. RoundInv' /\ FairnessInv'
    BY <2>1 DEF vars, RoundInv, TypeOK, ClocksLag, CommitsAreBroadcast,
       PhaseIsJustified, RevealsCloseCommits, VerifiedMatchesCommit, IsOpen, FairnessInv,
       PinIsUniform, RevealsAreOwn, RevealsFollowCommits, HonestRevealsVerify, KeptItsNonce, LastNonce
  <2>3. RunnerTypeOK'
    BY <1>1, <2>1 DEF RunnerTypeOK, vars
  <2>4. Progress' /\ Exchanged'
    BY <1>1, <1>2, <1>4, <2>1 DEF Progress, Exchanged, Silent, IsOpen, vars, RunnerStages
  <2> QED
    BY <2>2, <2>3, <2>4
<1>5. CASE n \notin dropCommit
  <2> DEFINE v == AlgoVersion[n]
             h == CommitHash(OwnScores[n], [by |-> n, call |-> 1], v, round[n].snapshot)
             s == SubmitCommit(round[n], n, h, v, now)
             req == [hash |-> h, version |-> v]
  <2>1. LocalCommit(n)
    BY <1>1, <1>5
  <2>2. nonce[n] + 1 = 1
    BY <1>3
  <2>3. nonce' = [nonce EXCEPT ![n] = 1] /\ nonce'[n] = 1 /\ UNCHANGED <<now, clock, revealMsg>>
    BY <2>1, <2>2 DEF LocalCommit, RoundInv, TypeOK
  <2>4. /\ round' = [round EXCEPT ![n] = s]
        /\ commitMsg' = IF CommitAccepted(round[n], n, v, now)
                        THEN [commitMsg EXCEPT ![n] = req] ELSE commitMsg
    BY <2>1, <2>3 DEF LocalCommit
  <2>5. h \in Hash /\ req \in CommitRequest
    <3>1. 1 \in 1..MaxCommitCalls
      BY WindowAssumption, ClusterAssumption
    <3>2. round[n] \in Round
      BY <1>3, ViewFacts
    <3> QED
      BY <3>1, <3>2, ClusterAssumption DEF CommitHash, Hash, Nonce, CommitRequest, Round
  <2> HIDE DEF h
  <2>6. round[n].commits[n] = None /\ now \in Nat
    <3>1. IsOpen(n) /\ commitMsg[n] = None
      BY <1>3
    <3> QED
      BY <1>2, <3>1, Windows DEF Exchanged
  <2>7. /\ CommitAccepted(round[n], n, v, now)
        /\ s.commits = [round[n].commits EXCEPT ![n] = h] /\ s.reveals = round[n].reveals
    BY <1>2, <1>3, <2>5, <2>6, Windows, FirstCommitIsAccepted
  <2>8. commitMsg'[n] = req /\ req # None /\ \A m \in Nodes : m # n => commitMsg'[m] = commitMsg[m]
    BY <2>4, <2>5, <2>7, NoneIsAbsent DEF RoundInv, TypeOK
  <2>9. /\ s.commits[n] # None /\ \A m \in Nodes : m # n => s.commits[m] = round[n].commits[m]
    <3>1. h # None
      BY <2>5, NoneIsAbsent
    <3>2. round[n].commits \in [Nodes -> Hash \cup {None}]
      BY <1>3, ViewFacts DEF Round
    <3> QED
      BY <2>7, <3>1, <3>2
  <2>10. RoundInv' /\ FairnessInv'
    BY <2>1, NodeStep
  <2> HIDE DEF s, req, v
  <2>11. round'[n] = s /\ \A m \in Nodes : m # n => round'[m] = round[m]
    BY <2>4 DEF RoundInv, TypeOK
  <2>12. RunnerTypeOK'
    BY <1>1, <2>3 DEF RunnerTypeOK
  <2>13. \A m \in Nodes : IsOpen(m)'
    BY <1>3, <2>8, <2>10, <2>11 DEF IsOpen, RoundInv, CommitsAreBroadcast
  <2>14. \A m \in Nodes : m # n => nonce'[m] = nonce[m]
    BY <2>3 DEF RoundInv, TypeOK
  <2>15. Progress'
    BY <1>1, <1>2, <1>5, <2>3, <2>8, <2>13, <2>14 DEF Progress, Silent, RunnerStages
  <2>16. Exchanged'
    <3> SUFFICES ASSUME NEW x \in Nodes, NEW m \in Nodes
                 PROVE  /\ round'[x].commits[m] # None <=> (commitMsg'[m] # None /\ m = x)
                        /\ round'[x].reveals[m] = None
      BY <1>2, <2>3, <1>3 DEF Exchanged, RunnerStages
    <3>1. /\ round[x].commits[m] # None <=> (commitMsg[m] # None /\ m = x)
          /\ round[x].reveals[m] = None
      <4>1. ~Over("exchange_commits", <<x, m>>) /\ IsOpen(x) /\ revealMsg[m] = None
        BY <1>2, <1>3
      <4> QED
        BY <4>1 DEF Exchanged
    <3>2. CASE x = n
      BY <1>3, <2>7, <2>8, <2>9, <2>11, <3>1, <3>2
    <3>3. CASE x # n
      BY <1>3, <2>8, <2>11, <3>1, <3>3
    <3> QED
      BY <3>2, <3>3
  <2> QED
    BY <2>10, <2>12, <2>15, <2>16
<1> QED
  BY <1>4, <1>5

\* The clocks are set to the driver's.
LEMMA RunAdvanceKeeps ==
    ASSUME RunnerInv, OneCluster, NEW n \in Nodes, RunAdvanceClock(n) PROVE RunnerInv'
<1> USE DEF RunnerInv
<1>1. /\ AdvanceRoundClock(n) /\ UNCHANGED runnerVars
      /\ UNCHANGED <<now, round, nonce, commitMsg, revealMsg>>
      /\ clock[n] < now /\ clock' = [clock EXCEPT ![n] = now]
  BY DEF RunAdvanceClock, AdvanceRoundClock
<1>2. RoundInv' /\ FairnessInv'
  BY <1>1, NodeStep
<1>3. ~ClocksSet
  <2>1. clock[n] \in Nat /\ now \in Nat
    BY DEF RoundInv, TypeOK
  <2> QED
    BY <1>1, <2>1 DEF ClocksSet
<1>4. RunnerTypeOK' /\ Exchanged'
  BY <1>1 DEF RunnerTypeOK, Exchanged, runnerVars, Over, IsOpen
<1>5. Progress'
  BY <1>1, <1>3 DEF Progress, runnerVars, Over, Silent, IsOpen
<1> QED
  BY <1>2, <1>4, <1>5

\* A view takes a peer's commit: it had none of it, so it accepts it.
LEMMA RunExchangeCommitKeeps ==
    ASSUME RunnerInv, OneCluster, NEW n \in Nodes, NEW m \in Nodes, RunExchangeCommit(n, m)
    PROVE  RunnerInv'
<1> USE DEF RunnerInv
<1> DEFINE i == <<n, m>>
<1>0. /\ clock[n] = now
      /\ IF commitMsg[m] = None THEN UNCHANGED vars ELSE DeliverCommit(n, m)
      /\ stage = "exchange_commits" /\ i \in todo /\ todo' = todo \ {i}
      /\ UNCHANGED <<stage, dropCommit, dropReveal>>
  BY DEF RunExchangeCommit, Iterate
<1>1. m # n /\ \A x, y \in Nodes : <<x, y>> = i <=> (x = n /\ y = m)
  BY <1>0 DEF RunnerTypeOK, ItemsOf, Pairs
<1> HIDE DEF i
<1>2. /\ ~Over("exchange_commits", i) /\ todo' \subseteq ItemsOf(stage') /\ Over("exchange_commits", i)'
      /\ \A j : j # i => (Over("exchange_commits", j)' <=> Over("exchange_commits", j))
      /\ \A u \in RunnerStages \ {"done", "exchange_commits"} : \A j : Over(u, j)' <=> Over(u, j)
  BY <1>0, Iterated DEF RunnerStages
<1>3. /\ \A u \in {"reveal", "exchange_reveals"} : \A j : ~Over(u, j) /\ ~Over(u, j)'
      /\ \A u \in {"open", "commit"} : \A j : Over(u, j) /\ Over(u, j)'
      /\ now = CommitNow
  BY <1>0, <1>2, AfterIs DEF Over, RunnerStages, RunnerTypeOK, TimeOf
<1>4. \A x \in Nodes : IsOpen(x) /\ revealMsg[x] = None
  BY <1>3 DEF Progress
<1>5. CASE commitMsg[m] = None
  <2>1. UNCHANGED vars
    BY <1>0, <1>5
  <2>2. RoundInv' /\ FairnessInv'
    BY <2>1 DEF vars, RoundInv, TypeOK, ClocksLag, CommitsAreBroadcast,
       PhaseIsJustified, RevealsCloseCommits, VerifiedMatchesCommit, IsOpen, FairnessInv,
       PinIsUniform, RevealsAreOwn, RevealsFollowCommits, HonestRevealsVerify, KeptItsNonce, LastNonce
  <2>3. RunnerTypeOK'
    BY <1>0, <1>2, <2>1 DEF RunnerTypeOK, vars
  <2>4. Progress'
    BY <1>0, <1>3, <2>1 DEF Progress, Silent, IsOpen, vars, RunnerStages
  <2>5. Exchanged'
    <3> SUFFICES ASSUME NEW x \in Nodes, NEW y \in Nodes
                 PROVE  /\ round[x].commits[y] # None <=>
                             (commitMsg[y] # None /\ (y = x \/ Over("exchange_commits", <<x, y>>)'))
                        /\ round[x].reveals[y] # None <=>
                             (revealMsg[y] # None /\ (y = x \/ Over("exchange_reveals", <<x, y>>)'))
      BY <2>1 DEF Exchanged, vars, IsOpen
    <3>1. /\ round[x].commits[y] # None <=>
                (commitMsg[y] # None /\ (y = x \/ Over("exchange_commits", <<x, y>>)))
          /\ round[x].reveals[y] # None <=>
                (revealMsg[y] # None /\ (y = x \/ Over("exchange_reveals", <<x, y>>)))
      BY <1>4 DEF Exchanged
    <3>2. y # m => (Over("exchange_commits", <<x, y>>)' <=> Over("exchange_commits", <<x, y>>))
      BY <1>1, <1>2
    <3> QED
      BY <1>4, <1>5, <3>1, <3>2
  <2> QED
    BY <2>2, <2>3, <2>4, <2>5
<1>6. CASE commitMsg[m] # None
  <2> DEFINE h == commitMsg[m].hash
             v == AlgoVersion[m]
             s == SubmitCommit(round[n], m, h, v, clock[n])
  <2>1. DeliverCommit(n, m) /\ UNCHANGED <<now, clock, nonce, commitMsg, revealMsg>>
    BY <1>0, <1>6 DEF DeliverCommit
  <2>2. h \in Hash /\ h # None /\ commitMsg[m].version = v
    BY <1>6, NoneIsAbsent DEF RoundInv, TypeOK, CommitRequest, CommitsAreBroadcast, OneCluster
  <2>3. round' = [round EXCEPT ![n] = s]
    BY <2>1, <2>2 DEF DeliverCommit
  <2> HIDE DEF h
  <2>4. round[n].commits[m] = None
    BY <1>1, <1>2, <1>4 DEF Exchanged, i
  <2>5. s.commits = [round[n].commits EXCEPT ![m] = h] /\ s.reveals = round[n].reveals
    BY <1>0, <1>3, <1>4, <2>2, <2>4, Windows, FirstCommitIsAccepted
  <2>6. RoundInv' /\ FairnessInv'
    BY <2>1, NodeStep
  <2> HIDE DEF s, v
  <2>7. round'[n] = s /\ \A x \in Nodes : x # n => round'[x] = round[x]
    BY <2>3 DEF RoundInv, TypeOK
  <2>8. /\ s.commits[m] # None /\ \A x \in Nodes : x # m => s.commits[x] = round[n].commits[x]
    <3>1. round[n].commits \in [Nodes -> Hash \cup {None}]
      BY <1>4, ViewFacts DEF Round
    <3> QED
      BY <2>2, <2>5, <3>1
  <2>9. \A x \in Nodes : IsOpen(x)'
    <3>2. round[n] \in Round /\ clock[n] \in Nat /\ v \in Version
      BY <1>4, ViewFacts DEF Version, v
    <3>3. s \in Round
      BY <2>2, <3>2, CommitKeepsReveals DEF s
    <3> QED
      BY <1>4, <2>7, <3>3, OpenViewIsRound DEF IsOpen, RoundInv
  <2>10. RunnerTypeOK'
    BY <1>0, <1>2, <2>1 DEF RunnerTypeOK
  <2>11. Progress'
    BY <1>0, <1>3, <1>4, <2>1, <2>9 DEF Progress, Silent, RunnerStages
  <2>12. Exchanged'
    <3> SUFFICES ASSUME NEW x \in Nodes, NEW y \in Nodes
                 PROVE  /\ round'[x].commits[y] # None <=>
                             (commitMsg[y] # None /\ (y = x \/ Over("exchange_commits", <<x, y>>)'))
                        /\ round'[x].reveals[y] # None <=>
                             (revealMsg[y] # None /\ (y = x \/ Over("exchange_reveals", <<x, y>>)'))
      BY <2>1 DEF Exchanged
    <3>1. /\ round[x].commits[y] # None <=>
                (commitMsg[y] # None /\ (y = x \/ Over("exchange_commits", <<x, y>>)))
          /\ round[x].reveals[y] # None <=>
                (revealMsg[y] # None /\ (y = x \/ Over("exchange_reveals", <<x, y>>)))
      BY <1>4 DEF Exchanged
    <3>2. CASE x = n /\ y = m
      BY <1>2, <1>4, <1>6, <2>5, <2>7, <2>8, <3>1, <3>2 DEF i
    <3>3. CASE ~(x = n /\ y = m)
      <4>1. Over("exchange_commits", <<x, y>>)' <=> Over("exchange_commits", <<x, y>>)
        BY <1>1, <1>2, <3>3
      <4>2. round'[x].commits[y] = round[x].commits[y] /\ round'[x].reveals[y] = round[x].reveals[y]
        BY <2>5, <2>7, <2>8, <3>3
      <4> QED
        BY <1>4, <3>1, <4>1, <4>2
    <3> QED
      BY <3>2, <3>3
  <2> QED
    BY <2>6, <2>10, <2>11, <2>12
<1> QED
  BY <1>5, <1>6

\* Stages in which the views hold all commits that were sent.
LEMMA ExchangedCommits ==
    ASSUME RunnerInv, stage \in {"reveal", "exchange_reveals", "report", "done"}
    PROVE  \A n, m \in Nodes :
              /\ IsOpen(n)
              /\ commitMsg[m] # None <=> m \notin dropCommit
              /\ round[n].commits[m] # None <=> m \notin dropCommit
<1>1. /\ \A u \in {"open", "commit", "exchange_commits"} : \A j : Over(u, j)
  BY AfterIs DEF Over, RunnerStages
<1>2. \A n \in Nodes : IsOpen(n) /\ (commitMsg[n] # None <=> n \notin dropCommit)
  BY <1>1 DEF RunnerInv, Progress
<1> QED
  BY <1>1, <1>2 DEF RunnerInv, Exchanged

\* Revealing: the node's own view records it, whatever has closed the view.
LEMMA RunRevealKeeps ==
    ASSUME RunnerInv, OneCluster, NEW n \in Nodes, RunReveal(n) PROVE RunnerInv'
<1> USE DEF RunnerInv
<1>0. /\ ClocksSet
      /\ IF n \in Silent THEN UNCHANGED vars ELSE LocalReveal(n)
      /\ stage = "reveal" /\ n \in todo /\ todo' = todo \ {n}
      /\ UNCHANGED <<stage, dropCommit, dropReveal>>
  BY DEF RunReveal, Iterate
<1>2. /\ ~Over("reveal", n) /\ todo' \subseteq ItemsOf(stage') /\ Over("reveal", n)'
      /\ \A j : j # n => (Over("reveal", j)' <=> Over("reveal", j))
      /\ \A u \in RunnerStages \ {"done", "reveal"} : \A j : Over(u, j)' <=> Over(u, j)
  BY <1>0, Iterated DEF RunnerStages
<1>3. /\ \A j : ~Over("exchange_reveals", j) /\ ~Over("exchange_reveals", j)'
      /\ \A u \in {"open", "commit", "exchange_commits"} : \A j : Over(u, j) /\ Over(u, j)'
      /\ now = RevealNow
  BY <1>0, <1>2, AfterIs DEF Over, RunnerStages, RunnerTypeOK, TimeOf
<1>4. \A x \in Nodes : IsOpen(x) /\ (commitMsg[x] # None <=> x \notin dropCommit)
  BY <1>3 DEF Progress
<1>5. \A x, m \in Nodes :
         /\ round[x].commits[m] # None <=> commitMsg[m] # None
         /\ round[x].reveals[m] # None <=> (revealMsg[m] # None /\ m = x)
  BY <1>3, <1>4 DEF Exchanged
<1>6. CASE n \in Silent
  <2>1. UNCHANGED vars
    BY <1>0, <1>6
  <2>2. RoundInv' /\ FairnessInv'
    BY <2>1 DEF vars, RoundInv, TypeOK, ClocksLag, CommitsAreBroadcast,
       PhaseIsJustified, RevealsCloseCommits, VerifiedMatchesCommit, IsOpen, FairnessInv,
       PinIsUniform, RevealsAreOwn, RevealsFollowCommits, HonestRevealsVerify, KeptItsNonce, LastNonce
  <2>3. RunnerTypeOK'
    BY <1>0, <1>2, <2>1 DEF RunnerTypeOK, vars
  <2>4. Progress'
    BY <1>0, <1>2, <1>3, <1>6, <2>1 DEF Progress, Silent, IsOpen, vars, RunnerStages, ClocksSet
  <2>5. Exchanged'
    BY <1>3, <1>5, <2>1 DEF Exchanged, vars
  <2> QED
    BY <2>2, <2>3, <2>4, <2>5
<1>7. CASE n \notin Silent
  <2> DEFINE s == SubmitReveal(round[n], n, OwnScores[n], LastNonce(n), now)
             req == [scores |-> OwnScores[n], nonce |-> LastNonce(n), version |-> AlgoVersion[n]]
  <2>1. /\ LocalReveal(n) /\ UNCHANGED <<now, clock, nonce, commitMsg>>
        /\ round' = [round EXCEPT ![n] = s]
        /\ revealMsg' = IF RevealAccepted(round[n], n, now)
                        THEN [revealMsg EXCEPT ![n] = req] ELSE revealMsg
    BY <1>0, <1>7 DEF LocalReveal
  <2>2. /\ n \notin dropCommit /\ n \notin dropReveal
    BY <1>7 DEF Silent
  <2>3. /\ commitMsg[n] # None /\ revealMsg[n] = None /\ nonce[n] = 1
    BY <1>2, <1>4, <2>2 DEF Progress
  <2>4. /\ round[n] \in Round /\ now \in Nat /\ OwnScores[n] \in Scores
        /\ round[n].commits[n] # None /\ round[n].reveals[n] = None
        /\ now >= CommitDeadline /\ now < RevealDeadline
    BY <1>3, <1>4, <1>5, <2>3, ViewFacts, Windows, ClusterAssumption
  <2>5. /\ RevealAccepted(round[n], n, now)
        /\ s.commits = round[n].commits /\ s.reveals[n] # None
        /\ \A x \in Nodes : x # n => s.reveals[x] = round[n].reveals[x]
    BY <2>4, FirstRevealIsRecorded
  <2>6. req \in RevealRequest /\ req # None
    <3>1. 1 \in 1..MaxCommitCalls
      BY WindowAssumption, ClusterAssumption
    <3> QED
      BY <2>3, <2>4, <3>1, NoneIsAbsent DEF RevealRequest, LastNonce, Nonce
  <2>7. RoundInv' /\ FairnessInv'
    BY <2>1, NodeStep
  <2>8. s \in Round
    BY <2>4, SubmitRevealEffect
  <2> HIDE DEF s, req
  <2>9. /\ round'[n] = s /\ \A x \in Nodes : x # n => round'[x] = round[x]
        /\ revealMsg'[n] # None /\ \A x \in Nodes : x # n => revealMsg'[x] = revealMsg[x]
    BY <2>1, <2>5, <2>6 DEF RoundInv, TypeOK
  <2>10. \A x \in Nodes : IsOpen(x)'
    BY <1>4, <2>8, <2>9, OpenViewIsRound DEF IsOpen, RoundInv
  <2>11. RunnerTypeOK'
    BY <1>0, <1>2, <2>1 DEF RunnerTypeOK
  <2>12. Silent' = Silent
    BY <1>0 DEF Silent
  <2>13. Progress'
    <3> SUFFICES ASSUME NEW x \in Nodes
                 PROVE  /\ commitMsg[x] # None <=> (x \notin dropCommit /\ Over("commit", x)')
                        /\ nonce[x] = IF commitMsg[x] = None THEN 0 ELSE 1
                        /\ revealMsg'[x] # None <=> (x \notin Silent /\ Over("reveal", x)')
      BY <1>0, <1>3, <2>1, <2>10, <2>12 DEF Progress, ClocksSet
    <3>1. /\ nonce[x] = IF commitMsg[x] = None THEN 0 ELSE 1
          /\ revealMsg[x] # None <=> (x \notin Silent /\ Over("reveal", x))
      BY DEF Progress
    <3>2. Over("commit", x)'
      BY <1>3
    <3> QED
      BY <1>2, <1>4, <1>7, <2>9, <3>1, <3>2
  <2>14. Exchanged'
    <3> SUFFICES ASSUME NEW x \in Nodes, NEW m \in Nodes
                 PROVE  /\ round'[x].commits[m] # None <=> commitMsg[m] # None
                        /\ round'[x].reveals[m] # None <=> (revealMsg'[m] # None /\ m = x)
      BY <1>3, <2>1 DEF Exchanged
    <3> QED
      BY <1>5, <2>5, <2>9
  <2> QED
    BY <2>7, <2>11, <2>13, <2>14
<1> QED
  BY <1>6, <1>7

\* A view takes a peer's reveal: the version is the pinned one, the deadline is
\* not reached and no reveal of the peer is recorded yet.
LEMMA RunExchangeRevealKeeps ==
    ASSUME RunnerInv, OneCluster, NEW n \in Nodes, NEW m \in Nodes, RunExchangeReveal(n, m)
    PROVE  RunnerInv'
<1> USE DEF RunnerInv
<1> DEFINE i == <<n, m>>
<1>0. /\ IF revealMsg[m] = None \/ VersionTagRefused(round[n], revealMsg[m].version)
         THEN UNCHANGED vars ELSE DeliverReveal(n, m)
      /\ stage = "exchange_reveals" /\ i \in todo /\ todo' = todo \ {i}
      /\ UNCHANGED <<stage, dropCommit, dropReveal>>
  BY DEF RunExchangeReveal, Iterate
<1>1. m # n /\ \A x, y \in Nodes : <<x, y>> = i <=> (x = n /\ y = m)
  BY <1>0 DEF RunnerTypeOK, ItemsOf, Pairs
<1> HIDE DEF i
<1>2. /\ ~Over("exchange_reveals", i) /\ todo' \subseteq ItemsOf(stage') /\ Over("exchange_reveals", i)'
      /\ \A j : j # i => (Over("exchange_reveals", j)' <=> Over("exchange_reveals", j))
      /\ \A u \in RunnerStages \ {"done", "exchange_reveals"} : \A j : Over(u, j)' <=> Over(u, j)
  BY <1>0, Iterated DEF RunnerStages
<1>3. /\ \A u \in {"open", "commit", "exchange_commits", "reveal"} : \A j : Over(u, j) /\ Over(u, j)'
      /\ now = RevealNow /\ stage \notin After("exchange_reveals")
  BY <1>0, <1>2, AfterIs DEF Over, RunnerStages, RunnerTypeOK, TimeOf
<1>4. \A x \in Nodes : /\ IsOpen(x)
                       /\ commitMsg[x] # None <=> x \notin dropCommit
                       /\ revealMsg[x] # None <=> x \notin Silent
                       /\ clock[x] = now
  BY <1>3 DEF Progress, ClocksSet
<1>5. \A x, y \in Nodes :
         /\ round[x].commits[y] # None <=> commitMsg[y] # None
         /\ round[x].reveals[y] # None <=>
               (revealMsg[y] # None /\ (y = x \/ Over("exchange_reveals", <<x, y>>)))
  BY <1>3, <1>4 DEF Exchanged
<1>6. CASE revealMsg[m] = None
  <2>1. UNCHANGED vars
    BY <1>0, <1>6
  <2>2. RoundInv' /\ FairnessInv'
    BY <2>1 DEF vars, RoundInv, TypeOK, ClocksLag, CommitsAreBroadcast,
       PhaseIsJustified, RevealsCloseCommits, VerifiedMatchesCommit, IsOpen, FairnessInv,
       PinIsUniform, RevealsAreOwn, RevealsFollowCommits, HonestRevealsVerify, KeptItsNonce, LastNonce
  <2>3. RunnerTypeOK'
    BY <1>0, <1>2, <2>1 DEF RunnerTypeOK, vars
  <2>4. Progress'
    BY <1>0, <1>3, <2>1 DEF Progress, Silent, IsOpen, vars, ClocksSet
  <2>5. Exchanged'
    <3> SUFFICES ASSUME NEW x \in Nodes, NEW y \in Nodes
                 PROVE  /\ round[x].commits[y] # None <=> commitMsg[y] # None
                        /\ round[x].reveals[y] # None <=>
                             (revealMsg[y] # None /\ (y = x \/ Over("exchange_reveals", <<x, y>>)'))
      BY <1>3, <2>1 DEF Exchanged, vars
    <3>1. y # m => (Over("exchange_reveals", <<x, y>>)' <=> Over("exchange_reveals", <<x, y>>))
      BY <1>1, <1>2
    <3> QED
      BY <1>5, <1>6, <3>1
  <2> QED
    BY <2>2, <2>3, <2>4, <2>5
<1>7. CASE revealMsg[m] # None
  <2> DEFINE sc == revealMsg[m].scores
             k == revealMsg[m].nonce
             s == SubmitReveal(round[n], m, sc, k, clock[n])
  <2>1. round[n] \in Round /\ clock[n] \in Nat /\ sc \in Scores
    BY <1>4, <1>7, ViewFacts DEF RoundInv, TypeOK, RevealRequest
  <2>2. ~VersionTagRefused(round[n], revealMsg[m].version)
    <3>1. revealMsg[m].version \in Version \cup {None} /\ round[n].pin \in Version \cup {None}
      BY <1>7, <2>1 DEF RoundInv, TypeOK, RevealRequest, Round, Version
    <3>2. \A v, w \in Version : v = w
      BY DEF OneCluster, Version
    <3> QED
      BY <3>1, <3>2 DEF VersionTagRefused
  <2>3. /\ DeliverReveal(n, m) /\ UNCHANGED <<now, clock, nonce, commitMsg, revealMsg>>
        /\ round' = [round EXCEPT ![n] = s]
    BY <1>0, <1>7, <2>2 DEF DeliverReveal
  <2> HIDE DEF sc, k
  <2>4. /\ round[n].commits[m] # None /\ round[n].reveals[m] = None
        /\ clock[n] >= CommitDeadline /\ clock[n] < RevealDeadline
    <3>1. m \notin dropCommit
      BY <1>4, <1>7 DEF Silent
    <3>2. ~Over("exchange_reveals", <<n, m>>)
      BY <1>2 DEF i
    <3> QED
      BY <1>1, <1>3, <1>4, <1>5, <3>1, <3>2, Windows
  <2>5. /\ s.commits = round[n].commits /\ s.reveals[m] # None
        /\ \A x \in Nodes : x # m => s.reveals[x] = round[n].reveals[x]
    BY <2>1, <2>4, FirstRevealIsRecorded
  <2>6. s \in Round
    BY <2>1, SubmitRevealEffect
  <2>7. RoundInv' /\ FairnessInv'
    BY <2>3, NodeStep
  <2> HIDE DEF s
  <2>8. round'[n] = s /\ \A x \in Nodes : x # n => round'[x] = round[x]
    BY <2>3 DEF RoundInv, TypeOK
  <2>9. \A x \in Nodes : IsOpen(x)'
    BY <1>4, <2>6, <2>8, OpenViewIsRound DEF IsOpen, RoundInv
  <2>10. RunnerTypeOK'
    BY <1>0, <1>2, <2>3 DEF RunnerTypeOK
  <2>11. Progress'
    <3>1. ClocksSet' /\ Silent' = Silent
      BY <1>0, <1>4, <2>3 DEF ClocksSet, Silent
    <3>2. \A x \in Nodes : nonce[x] = IF commitMsg[x] = None THEN 0 ELSE 1
      BY DEF Progress
    <3> QED
      BY <1>3, <1>4, <1>0, <2>3, <2>9, <3>1, <3>2 DEF Progress
  <2>12. Exchanged'
    <3> SUFFICES ASSUME NEW x \in Nodes, NEW y \in Nodes
                 PROVE  /\ round'[x].commits[y] # None <=> commitMsg[y] # None
                        /\ round'[x].reveals[y] # None <=>
                             (revealMsg[y] # None /\ (y = x \/ Over("exchange_reveals", <<x, y>>)'))
      BY <1>3, <2>3 DEF Exchanged
    <3>1. CASE x = n /\ y = m
      BY <1>2, <1>5, <1>7, <2>5, <2>8, <3>1 DEF i
    <3>2. CASE ~(x = n /\ y = m)
      <4>1. Over("exchange_reveals", <<x, y>>)' <=> Over("exchange_reveals", <<x, y>>)
        BY <1>1, <1>2, <3>2
      <4>2. round'[x].commits[y] = round[x].commits[y] /\ round'[x].reveals[y] = round[x].reveals[y]
        BY <2>5, <2>8, <3>2
      <4> QED
        BY <1>5, <4>1, <4>2
    <3> QED
      BY <3>1, <3>2
  <2> QED
    BY <2>7, <2>10, <2>11, <2>12
<1> QED
  BY <1>6, <1>7

\* Reporting only moves the phase.
LEMMA RunReportKeeps ==
    ASSUME RunnerInv, OneCluster, NEW n \in Nodes, RunReport(n) PROVE RunnerInv'
<1> USE DEF RunnerInv
<1>0. /\ ReadResults(n) /\ stage = "report" /\ n \in todo /\ todo' = todo \ {n}
      /\ UNCHANGED <<stage, dropCommit, dropReveal>>
  BY DEF RunReport, Iterate
<1>1. todo' \subseteq ItemsOf(stage') /\ \A u \in RunnerStages \ {"done", "report"} : \A j : Over(u, j)' <=> Over(u, j)
  BY <1>0, Iterated DEF RunnerStages
<1>2. RoundInv' /\ FairnessInv'
  BY <1>0, NodeStep
<1> DEFINE s == Advance(round[n], clock[n])
<1>3. /\ IsOpen(n) /\ round' = [round EXCEPT ![n] = s]
      /\ UNCHANGED <<now, clock, nonce, commitMsg, revealMsg>>
  BY <1>0 DEF ReadResults
<1>4. s \in Round /\ SameBooks(round[n], s)
  BY <1>3, ViewFacts, AdvanceEffect
<1> HIDE DEF s
<1>5. round'[n] = s /\ \A x \in Nodes : x # n => round'[x] = round[x]
  BY <1>3 DEF RoundInv, TypeOK
<1>6. \A x \in Nodes : /\ IsOpen(x)' <=> IsOpen(x)
                       /\ IsOpen(x) => /\ round'[x].commits = round[x].commits
                                       /\ round'[x].reveals = round[x].reveals
  BY <1>3, <1>4, <1>5, OpenViewIsRound DEF IsOpen, RoundInv, SameBooks
<1>7. RunnerTypeOK'
  BY <1>0, <1>1, <1>3 DEF RunnerTypeOK
<1>8. /\ \A u \in {"open", "commit", "reveal", "exchange_commits", "exchange_reveals"} :
            \A j : Over(u, j)' <=> Over(u, j)
      /\ stage' = stage /\ ClocksSet' = ClocksSet /\ Silent' = Silent
  BY <1>0, <1>1, <1>3 DEF RunnerStages, ClocksSet, Silent
<1>9. stage' \in After("exchange_reveals")
  BY <1>0, AfterIs
<1>10. Progress'
  BY <1>0, <1>3, <1>6, <1>8, <1>9 DEF Progress
<1>11. Exchanged'
  BY <1>3, <1>6, <1>8 DEF Exchanged
<1> QED
  BY <1>2, <1>7, <1>10, <1>11

\* Where the report is made, every view has recorded the same reveals, all of
\* them verified.
LEMMA ReportsAgree == ASSUME RunnerInv, OneCluster PROVE EpochReportIsSound
<1> USE DEF RunnerInv
<1> SUFFICES ASSUME stage = "done", NEW n \in Nodes
             PROVE  /\ NonRevealers(round[n]) = dropReveal \ dropCommit
                    /\ Verified(n) = [m \in Nodes \ Silent |-> OwnScores[m]]
  BY DEF EpochReportIsSound, ReportsIdentical, OnlySilentAreStruck
<1>1. \A m \in Nodes : /\ IsOpen(n) /\ (commitMsg[m] # None <=> m \notin dropCommit)
                       /\ round[n].commits[m] # None <=> m \notin dropCommit
  BY ExchangedCommits
<1>2. \A u \in {"reveal", "exchange_reveals"} : \A j : Over(u, j)
  BY AfterIs DEF Over
<1>3. \A m \in Nodes : round[n].reveals[m] # None <=> m \notin Silent
  BY <1>1, <1>2 DEF Progress, Exchanged
<1>4. dropReveal \subseteq Nodes
  BY DEF RunnerTypeOK
<1>5. NonRevealers(round[n]) = dropReveal \ dropCommit
  BY <1>1, <1>3, <1>4 DEF NonRevealers, CommittedNodes, RevealedNodes, Silent
<1>6. ASSUME NEW m \in Nodes PROVE KeptItsNonce(m)
  <2> SUFFICES ASSUME commitMsg[m] # None PROVE commitMsg[m].hash.nonce = LastNonce(m)
    BY DEF KeptItsNonce
  <2> DEFINE k == commitMsg[m].hash.nonce
  <2>1. nonce[m] = 1
    BY DEF Progress
  <2>2. k \in Nonce /\ k.by = m /\ k.call <= nonce[m]
    BY DEF RoundInv, TypeOK, CommitRequest, Hash, CommitsAreBroadcast, FairnessInv,
       RevealsAreOwn, OneCluster
  <2> HIDE DEF k
  <2>3. k = LastNonce(m)
    BY <2>1, <2>2, ClusterAssumption DEF Nonce, LastNonce
  <2> QED
    BY <2>3 DEF k
<1>7. VerifiedNodes(round[n]) = Nodes \ Silent
  <2>1. RevealedNodes(round[n]) = Nodes \ Silent
    BY <1>3 DEF RevealedNodes
  <2>2. RevealedNodes(round[n]) \subseteq VerifiedNodes(round[n])
    BY <1>1, <1>6, <2>1 DEF FairnessInv, HonestRevealsVerify, OneCluster
  <2> QED
    BY <2>1, <2>2 DEF VerifiedNodes
<1>8. \A m \in VerifiedNodes(round[n]) : round[n].reveals[m].scores = OwnScores[m]
  <2>1. VerifiedScoresAreCommitted
    BY VerifiedMatchesBroadcast
  <2>2. VerifiedNodes(round[n]) \subseteq Nodes
    BY <1>7
  <2> QED
    BY <1>1, <2>1, <2>2 DEF VerifiedScoresAreCommitted, OneCluster
<1>9. Verified(n) = [m \in Nodes \ Silent |-> OwnScores[m]]
  BY <1>7, <1>8 DEF Verified
<1> QED
  BY <1>5, <1>9

\* RunnerInv is an inductive invariant of the epoch runner
\* (commit_reveal_runner.py), for honest nodes on one version and agent set and
\* any sets of nodes that fail to commit or to reveal.
THEOREM RunnerInvariant == ASSUME OneCluster PROVE RunnerSpec => []RunnerInv
<1>1. RunnerInit => RunnerInv
  <2> SUFFICES ASSUME RunnerInit PROVE RunnerInv
    OBVIOUS
  <2>1. Init /\ stage = "open" /\ todo = Nodes /\ dropCommit \subseteq Nodes /\ dropReveal \subseteq Nodes
    BY DEF RunnerInit
  <2>2. RoundInv /\ FairnessInv
    BY <2>1, RoundInit, FairInit
  <2>3. RunnerTypeOK
    BY <2>1 DEF RunnerTypeOK, ItemsOf, TimeOf, Init
  <2>4. \A x \in Nodes : ~IsOpen(x) /\ commitMsg[x] = None /\ revealMsg[x] = None /\ nonce[x] = 0
    BY <2>1 DEF Init, IsOpen
  <2>5. \A u \in {"open", "commit", "reveal"} : \A x \in Nodes : ~Over(u, x)
    BY <2>1, AfterIs DEF Over, RunnerStages
  <2>6. Progress /\ Exchanged
    BY <2>4, <2>5 DEF Progress, Exchanged
  <2> QED
    BY <2>2, <2>3, <2>6 DEF RunnerInv
<1>2. RunnerInv /\ [RunnerNext]_allVars => RunnerInv'
  <2> SUFFICES ASSUME RunnerInv, [RunnerNext]_allVars PROVE RunnerInv'
    OBVIOUS
  <2>1. CASE NextStage
    BY <2>1, Ends
  <2>2. CASE \E n \in Nodes : RunOpen(n) \/ RunCommit(n) \/ RunAdvanceClock(n) \/ RunReveal(n) \/ RunReport(n)
    BY <2>2, RunOpenKeeps, RunCommitKeeps, RunAdvanceKeeps, RunRevealKeeps, RunReportKeeps
  <2>3. CASE \E n, m \in Nodes : RunExchangeCommit(n, m) \/ RunExchangeReveal(n, m)
    BY <2>3, RunExchangeCommitKeeps, RunExchangeRevealKeeps
  <2>4. CASE UNCHANGED allVars
    <3>1. UNCHANGED vars /\ UNCHANGED runnerVars
      BY <2>4 DEF allVars
    <3>2. RoundInv' /\ FairnessInv'
      BY <3>1 DEF RunnerInv, vars, RoundInv, TypeOK, ClocksLag, CommitsAreBroadcast,
         PhaseIsJustified, RevealsCloseCommits, VerifiedMatchesCommit, IsOpen, FairnessInv,
         PinIsUniform, RevealsAreOwn, RevealsFollowCommits, HonestRevealsVerify, KeptItsNonce, LastNonce
    <3>3. RunnerTypeOK' /\ Progress' /\ Exchanged'
      BY <3>1 DEF RunnerInv, vars, runnerVars, RunnerTypeOK, Progress, Exchanged, Over, IsOpen,
         Silent, ClocksSet
    <3> QED
      BY <3>2, <3>3 DEF RunnerInv
  <2> QED
    BY <2>1, <2>2, <2>3, <2>4 DEF RunnerNext
<1> QED
  BY <1>1, <1>2, PTL DEF RunnerSpec

\* "Every honest node's report carries the identical aggregated scores"
\* (commit_reveal_runner.py), and the nodes handed to the watchdog as silent are
\* those that committed and did not reveal: in every view, in whatever order the
\* exchange runs and whichever views close on their quorum first.
THEOREM ReportsAreSound == ASSUME OneCluster PROVE RunnerSpec => []EpochReportIsSound
<1>1. RunnerInv => EpochReportIsSound
  BY ReportsAgree
<1>2. RunnerSpec => []RunnerInv
  BY RunnerInvariant
<1> QED
  BY <1>1, <1>2, PTL
=============================================================================
