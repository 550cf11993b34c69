------------------------- MODULE CommitRevealRunner -------------------------
(***************************************************************************)
(* simulate_commit_reveal_epoch (cluster/commit_reveal_runner.py): the one *)
(* driver of the round in the repository.  It runs the nodes' calls of     *)
(* CommitReveal stage by stage - open, commit, exchange, reveal, exchange, *)
(* report - and lets the nodes of dropCommit and dropReveal fail.          *)
(*                                                                         *)
(* Each stage is a loop over the nodes, or over pairs of nodes; todo is    *)
(* what the loop has left.  The code's loops follow the node list; here    *)
(* they may take any order, so what holds does not depend on that list.    *)
(***************************************************************************)
EXTENDS CommitReveal

VARIABLES
    stage,              \* the loop the runner is in
    todo,               \* the iterations it has left
    dropCommit,         \* drop_commit: the nodes that fail to commit
    dropReveal          \* drop_reveal: the nodes that fail to reveal

runnerVars == <<stage, todo, dropCommit, dropReveal>>
allVars == <<vars, runnerVars>>

CommitNow == 1
RevealNow == CommitDeadline + 1
CloseNow  == RevealDeadline + 1

ASSUME WindowAssumption ==
    /\ CommitNow < CommitDeadline
    /\ RevealNow < RevealDeadline
    /\ CloseNow <= MaxTime
    /\ MaxCommitCalls >= 1

Pairs == {p \in Nodes \X Nodes : p[1] # p[2]}
Silent == dropCommit \cup dropReveal

RunnerInit ==
    /\ Init
    /\ stage = "open"
    /\ todo = Nodes
    /\ dropCommit \in SUBSET Nodes
    /\ dropReveal \in SUBSET Nodes

(* One iteration of the current loop, on item i, doing A.                  *)
Iterate(s, i, A) ==
    /\ stage = s
    /\ i \in todo
    /\ A
    /\ todo' = todo \ {i}
    /\ UNCHANGED <<stage, dropCommit, dropReveal>>

(* The current loop is over; the next one starts at time t.                *)
Begin(s, next, items, t) ==
    /\ stage = s
    /\ todo = {}
    /\ stage' = next
    /\ todo' = items
    /\ now' = t
    /\ UNCHANGED <<clock, round, nonce, commitMsg, revealMsg, dropCommit, dropReveal>>

ClocksSet == \A n \in Nodes : clock[n] = now

RunOpen(n) == Iterate("open", n, OpenRound(n))

RunCommit(n) ==
    Iterate("commit", n, IF n \in dropCommit THEN UNCHANGED vars ELSE LocalCommit(n))

(* The receiving loops set the node's clock first; the reveal and report   *)
(* loops find every clock set.                                             *)
RunAdvanceClock(n) ==
    /\ stage \in {"exchange_commits", "reveal", "report"}
    /\ AdvanceRoundClock(n)
    /\ UNCHANGED runnerVars

RunExchangeCommit(n, m) ==
    Iterate("exchange_commits", <<n, m>>,
            /\ clock[n] = now
            /\ IF commitMsg[m] = None THEN UNCHANGED vars ELSE DeliverCommit(n, m))

RunReveal(n) ==
    Iterate("reveal", n,
            /\ ClocksSet
            /\ IF n \in Silent THEN UNCHANGED vars ELSE LocalReveal(n))

RunExchangeReveal(n, m) ==
    Iterate("exchange_reveals", <<n, m>>,
            IF revealMsg[m] = None \/ VersionTagRefused(round[n], revealMsg[m].version)
            THEN UNCHANGED vars
            ELSE DeliverReveal(n, m))

RunReport(n) == Iterate("report", n, ClocksSet /\ ReadResults(n))

NextStage ==
    \/ Begin("open", "commit", Nodes, CommitNow)
    \/ Begin("commit", "exchange_commits", Pairs, CommitNow)
    \/ Begin("exchange_commits", "reveal", Nodes, RevealNow)
    \/ Begin("reveal", "exchange_reveals", Pairs, RevealNow)
    \/ Begin("exchange_reveals", "report", Nodes, CloseNow)
    \/ Begin("report", "done", {}, CloseNow)

RunnerNext ==
    \/ NextStage
    \/ \E n \in Nodes :
          \/ RunOpen(n)
          \/ RunCommit(n)
          \/ RunAdvanceClock(n)
          \/ RunReveal(n)
          \/ RunReport(n)
          \/ \E m \in Nodes : RunExchangeCommit(n, m) \/ RunExchangeReveal(n, m)

RunnerSpec == RunnerInit /\ [][RunnerNext]_allVars

-----------------------------------------------------------------------------
Verified(n) ==
    [m \in VerifiedNodes(round[n]) |-> round[n].reveals[m].scores]

(* "Every honest node's report carries the identical aggregated scores"    *)
(* (commit_reveal_runner.py:163): the median is taken over the verified    *)
(* score sets, so these must be the same in every view.                    *)
ReportsIdentical ==
    stage = "done" => \A n, m \in Nodes : Verified(n) = Verified(m)

(* The watchdog strikes the nodes that committed and then kept silent, and *)
(* no other: in every view, however the exchange interleaved.              *)
OnlySilentAreStruck ==
    stage = "done" =>
       \A n \in Nodes : NonRevealers(round[n]) = dropReveal \ dropCommit

(* What the epoch reports, the same in every view whatever was lost or     *)
(* came late (commit_reveal_runner.py:163, 263).                           *)
EpochReportIsSound == ReportsIdentical /\ OnlySilentAreStruck

-----------------------------------------------------------------------------
(* The inductive invariant behind EpochReportIsSound, for the cluster the  *)
(* driver builds: honest nodes on one version and one agent set.           *)
OneCluster ==
    /\ Copiers = {}
    /\ \A n, m \in Nodes : AlgoVersion[n] = AlgoVersion[m] /\ SnapshotHash[n] = SnapshotHash[m]

(* The stages behind s; the stage s, or the iteration i of it, is over.    *)
After(s) ==
    CASE s = "open" -> {"commit", "exchange_commits", "reveal", "exchange_reveals", "report", "done"}
      [] s = "commit" -> {"exchange_commits", "reveal", "exchange_reveals", "report", "done"}
      [] s = "exchange_commits" -> {"reveal", "exchange_reveals", "report", "done"}
      [] s = "reveal" -> {"exchange_reveals", "report", "done"}
      [] s = "exchange_reveals" -> {"report", "done"}
      [] s = "report" -> {"done"}

Over(s, i) == stage \in After(s) \/ (stage = s /\ i \notin todo)

TimeOf(s) ==
    CASE s = "open" -> 0
      [] s \in {"commit", "exchange_commits"} -> CommitNow
      [] s \in {"reveal", "exchange_reveals"} -> RevealNow
      [] s \in {"report", "done"} -> CloseNow

ItemsOf(s) ==
    IF s \in {"exchange_commits", "exchange_reveals"} THEN Pairs
    ELSE IF s = "done" THEN {} ELSE Nodes

RunnerTypeOK ==
    /\ stage \in {"open"} \cup After("open")
    /\ todo \subseteq ItemsOf(stage)
    /\ dropCommit \subseteq Nodes /\ dropReveal \subseteq Nodes
    /\ now = TimeOf(stage)

(* What the iterations behind the driver have left, on each side.          *)
Progress ==
    \A n \in Nodes :
       /\ IsOpen(n) <=> Over("open", n)
       /\ commitMsg[n] # None <=> (n \notin dropCommit /\ Over("commit", n))
       /\ nonce[n] = IF commitMsg[n] = None THEN 0 ELSE 1
       /\ revealMsg[n] # None <=> (n \notin Silent /\ Over("reveal", n))
       /\ Over("reveal", n) /\ stage \notin After("exchange_reveals") => ClocksSet

Exchanged ==
    \A n, m \in Nodes : IsOpen(n) =>
       /\ round[n].commits[m] # None <=>
             (commitMsg[m] # None /\ (m = n \/ Over("exchange_commits", <<n, m>>)))
       /\ round[n].reveals[m] # None <=>
             (revealMsg[m] # None /\ (m = n \/ Over("exchange_reveals", <<n, m>>)))

RunnerInv == RoundInv /\ FairnessInv /\ RunnerTypeOK /\ Progress /\ Exchanged
=============================================================================
