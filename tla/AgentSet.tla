------------------------------- MODULE AgentSet -------------------------------
(***************************************************************************)
(* The agents a node scores (cluster/agent_set_buffer.py) and the snapshot *)
(* of them it binds to an epoch (cluster/agent_snapshot.py): every node    *)
(* reads the registrations of the chain at its own pace, buffers them, and *)
(* applies them when it starts its next epoch.                             *)
(***************************************************************************)
EXTENDS Naturals, Sequences

CONSTANTS
  Peer,       \* nodes
  Wallet,     \* agents
  Genesis,    \* the set every buffer starts with
  MaxEvents,  \* BOUND: registrations and deregistrations on chain
  MaxStarts   \* BOUND: epochs a node starts

ASSUME AgentSetAssumption == Genesis \subseteq Wallet /\ MaxEvents \in Nat /\ MaxStarts \in Nat

VARIABLES
  chain,       \* registration events, in chain order
  read,        \* events each node has enqueued
  currentSet,  \* AgentSetBuffer._current_set
  pendingSet,  \* AgentSetBuffer._pending: the last kind queued per wallet
  snapshots    \* EpochAgentSnapshot per node, epoch by epoch, with the events read

agentVars == <<chain, read, currentSet, pendingSet, snapshots>>

ChangeKind == {"register", "deregister"}
Change == [kind: ChangeKind, wallet: Wallet]
NoChange == [w \in Wallet |-> "none"]

AgentSetInit ==
  /\ chain = <<>> /\ read = [n \in Peer |-> 0]
  /\ currentSet = [n \in Peer |-> Genesis]
  /\ pendingSet = [n \in Peer |-> NoChange]
  /\ snapshots = [n \in Peer |-> <<>>]

ChainEvent(kind, w) ==
  /\ Len(chain) < MaxEvents
  /\ chain' = Append(chain, [kind |-> kind, wallet |-> w])
  /\ UNCHANGED <<read, currentSet, pendingSet, snapshots>>

\* enqueue: a later change of the same wallet replaces the earlier one.
MutQueued(p, c) == IF p[c.wallet] = "none" THEN [p EXCEPT ![c.wallet] = c.kind] ELSE p
Queued(p, c) == [p EXCEPT ![c.wallet] = c.kind]

Enqueue(n) ==
  /\ read[n] < Len(chain)
  /\ read' = [read EXCEPT ![n] = @ + 1]
  /\ pendingSet' = [pendingSet EXCEPT ![n] = Queued(pendingSet[n], chain[read[n] + 1])]
  /\ UNCHANGED <<chain, currentSet, snapshots>>

Applied(set, p) ==
  {w \in Wallet : p[w] = "register" \/ (w \in set /\ p[w] # "deregister")}

\* compute_snapshot_hash: collision free over the epoch and the sorted set.
HashOf(e, set) == [epoch |-> e, wallets |-> set]

\* apply_pending at the boundary, and the snapshot the node binds.
ApplyPending(n) ==
  LET e == Len(snapshots[n]) + 1
      set == Applied(currentSet[n], pendingSet[n])
  IN  /\ e <= MaxStarts
      /\ currentSet' = [currentSet EXCEPT ![n] = set]
      /\ pendingSet' = [pendingSet EXCEPT ![n] = NoChange]
      /\ snapshots' = [snapshots EXCEPT ![n] =
                         Append(@, [hash |-> HashOf(e, set), read |-> read[n]])]
      /\ UNCHANGED <<chain, read>>

AgentSetNext ==
  \/ \E kind \in ChangeKind, w \in Wallet : ChainEvent(kind, w)
  \/ \E n \in Peer : Enqueue(n) \/ ApplyPending(n)

AgentSetSpec == AgentSetInit /\ [][AgentSetNext]_agentVars

-----------------------------------------------------------------------------
\* The set after the first k events: who was registered, or there at genesis,
\* and not deregistered since.
Joins(w, i) == IF i = 0 THEN w \in Genesis ELSE chain[i] = [kind |-> "register", wallet |-> w]
SetAfter(k) ==
  {w \in Wallet : \E i \in 0..k :
     Joins(w, i) /\ \A j \in (i + 1)..k : chain[j] # [kind |-> "deregister", wallet |-> w]}

\* Buffering, netting out and applying in bulk loses no change and invents
\* none: a node's set is that of the events it had read at the boundary, so
\* two nodes that had read as far start the epoch with equal snapshot hashes
\* - and with what is pending it is always up to date (AgentSetBuffer).
SnapshotsFollowTheChain ==
  \A n \in Peer :
    /\ Applied(currentSet[n], pendingSet[n]) = SetAfter(read[n])
    /\ \A e \in 1..Len(snapshots[n]) :
         snapshots[n][e].hash = HashOf(e, SetAfter(snapshots[n][e].read))

Snapshot == [hash: [epoch: Nat, wallets: SUBSET Wallet], read: Nat]

AgentSetTypeOK ==
  /\ chain \in Seq(Change)
  /\ read \in [Peer -> 0..Len(chain)]
  /\ currentSet \in [Peer -> SUBSET Wallet]
  /\ pendingSet \in [Peer -> [Wallet -> ChangeKind \cup {"none"}]]
  /\ snapshots \in [Peer -> Seq(Snapshot)]

AgentSetInv ==
  /\ AgentSetTypeOK
  /\ \A n \in Peer : \A e \in 1..Len(snapshots[n]) : snapshots[n][e].read <= Len(chain)
  /\ SnapshotsFollowTheChain
=============================================================================
