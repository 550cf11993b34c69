------------------------------- MODULE EventBus -------------------------------
(***************************************************************************)
(* The indexer's event bus: keyed producers, one partitioned topic of the  *)
(* in-memory broker with one consumer group, DetectionConsumers that       *)
(* handle a polled batch record by record, the dead-letter topic, and the  *)
(* certificate gate that reads the group's lag.  Every broker call is one  *)
(* step (they hold the broker's lock); between two calls anything happens. *)
(***************************************************************************)
EXTENDS Naturals, Sequences, FiniteSetsExt, Functions, TLC

CONSTANTS
  Partition,         \* the partitions of the topic, 0..N-1
  PartitionOf,       \* a record key's partition (_partition_for)
  Member,            \* consumer ids, ordered as their sorted strings
  Incoming,          \* BOUND: the records that will be produced
  MaxBatch,          \* max_records of consume
  MaxRetries,        \* DetectionConsumer.DEFAULT_MAX_RETRIES
  MaxDepartures,     \* BOUND: consumers that leave the group or die
  MaxPartitionLag, MaxTotalLag   \* thresholds of ConsumerLagMonitor

ASSUME BusAssumption ==
  /\ Member \subseteq Nat /\ Partition \subseteq Nat /\ IsFiniteSet(Partition)
  /\ Partition = 0..(Cardinality(Partition) - 1)
  /\ MaxBatch \in Nat \ {0} /\ MaxRetries \in Nat /\ MaxDepartures \in Nat
  /\ MaxPartitionLag \in Nat /\ MaxTotalLag \in Nat

VARIABLES
  log,         \* _Partition.records
  committed,   \* _GroupState.committed
  position,    \* _GroupState.position
  group,       \* _GroupState.assignment: [joined members -> SUBSET Partition]
  disturbed,   \* history: partitions taken from a consumer with records of them in hand
  job,         \* each consumer's call of consume in progress
  memory,      \* each consumer's _seen_signatures and _retry_counts
  handled,     \* the positions dealt with: processed, skipped, dead-lettered
  processed,   \* <<agent, signature>> the processor has accepted
  deadLetters, \* the dead-letter topic
  incoming,    \* records not produced yet
  departures,  \* departures so far
  gate         \* one LagGatedSubmit call

brokerVars == <<log, committed, position, group, disturbed>>
busVars == <<brokerVars, job, memory, handled, processed, deadLetters, incoming, departures, gate>>

Idle == [pc |-> "idle", batch |-> {}, frontier |-> [p \in Partition |-> 0],
         back |-> {}]
Blank == [seen |-> {}, tries |-> [x \in {} |-> 0]]
NoCall == [pc |-> "idle", next |-> 0, high |-> 0, total |-> 0, worst |-> 0,
           start |-> [p \in Partition |-> 0]]

BusInit ==
  /\ log = [p \in Partition |-> <<>>]
  /\ committed = [p \in Partition |-> 0]
  /\ position = [p \in Partition |-> 0]
  /\ group = [m \in {} |-> {}] /\ disturbed = {}
  /\ job = [m \in Member |-> Idle]
  /\ memory = [m \in Member |-> Blank]
  /\ handled = {} /\ processed = {} /\ deadLetters = {}
  /\ incoming = Incoming
  /\ departures = 0
  /\ gate = NoCall

-----------------------------------------------------------------------------
(* The broker.                                                             *)

Produce(r) ==
  /\ r \in incoming
  /\ incoming' = incoming \ {r}
  /\ log' = [log EXCEPT ![PartitionOf[r.key]] = Append(@, r)]
  /\ UNCHANGED <<committed, position, group, disturbed, job, memory, handled, processed,
                 deadLetters, departures, gate>>

\* _rebalance: round robin over the sorted members.
Rebalanced(members) ==
  LET rank(m) == Cardinality({c \in members : c < m})
  IN  [m \in members |-> {p \in Partition : p % Cardinality(members) = rank(m)}]

\* A consumer is still busy with records it has read of the partition.
InHand(c, p) ==
  job[c].frontier[p] # 0 \/ p \in job[c].back \/ \E x \in job[c].batch : x[1] = p

\* A rebalance asks nobody: it also takes a partition from a consumer that
\* stays and has records of it in hand, and leaves the position where it is.
Disturbs(members) ==
  {p \in Partition :
     \E c \in DOMAIN group \cap members :
       p \in group[c] \ Rebalanced(members)[c] /\ InHand(c, p)}

\* consume joins when it has not yet, whatever the others are doing.
JoinGroup(m) ==
  /\ m \notin DOMAIN group
  /\ group' = Rebalanced(DOMAIN group \cup {m})
  /\ disturbed' = disturbed \cup Disturbs(DOMAIN group \cup {m})
  /\ UNCHANGED <<log, committed, position, job, memory, handled, processed,
                 deadLetters, incoming, departures, gate>>

\* Mutant: the reads of the one that leaves are not rolled back.
MutRolledBack(orphaned) == position

RolledBack(orphaned) ==
  [p \in Partition |-> IF p \in orphaned THEN committed[p] ELSE position[p]]

\* A consumer shuts down between two calls of consume, or dies anywhere, its
\* memory with it; the group gives its partitions to the others.
LeaveGroup(m) ==
  /\ m \in DOMAIN group
  /\ departures < MaxDepartures
  /\ departures' = departures + 1
  /\ \/ job[m].pc = "idle" /\ UNCHANGED memory
     \/ memory' = [memory EXCEPT ![m] = Blank]
  /\ job' = [job EXCEPT ![m] = Idle]
  /\ position' = RolledBack(group[m])
  /\ group' = Rebalanced(DOMAIN group \ {m})
  /\ disturbed' = disturbed \cup Disturbs(DOMAIN group \ {m})
  /\ UNCHANGED <<log, committed, handled, processed, deadLetters, incoming, gate>>

\* A position is a partition and an offset in it; a batch is read, and
\* handled, in this order.
Before(x, y) == x[1] < y[1] \/ (x[1] = y[1] /\ x[2] < y[2])

Unread(m) == UNION {{<<p, o>> : o \in position[p]..(Len(log[p]) - 1)} : p \in group[m]}

Polled(m) ==
  {x \in Unread(m) : Cardinality({y \in Unread(m) : Before(y, x)}) < MaxBatch}

Poll(m) ==
  /\ m \in DOMAIN group
  /\ job[m].pc = "idle"
  /\ Unread(m) # {}
  /\ job' = [job EXCEPT ![m] = [Idle EXCEPT !.pc = "handle", !.batch = Polled(m)]]
  /\ position' = [p \in Partition |->
                    position[p] + Cardinality({x \in Polled(m) : x[1] = p})]
  /\ UNCHANGED <<log, committed, group, disturbed, memory, handled, processed, deadLetters,
                 incoming, departures, gate>>

-----------------------------------------------------------------------------
(* DetectionConsumer._handle on the next record of the batch.              *)

At(m) == CHOOSE x \in job[m].batch : \A y \in job[m].batch \ {x} : Before(x, y)
Rest(m) == job[m].batch \ {At(m)}
Record(m) == log[At(m)[1]][At(m)[2] + 1]

\* verify_record_headers, then deserialize_transaction.
Authentic(r) == r.kind \notin {"unsigned", "untrusted", "forged"}
Decodes(r) == r.kind # "malformed"

Handling(m) == job[m].pc = "handle" /\ job[m].batch # {}

\* Mutant: the records after one to retry are handled at once.
MutSkipped(m) == FALSE

Skipped(m) == At(m)[1] \in job[m].back

\* The record is done; nothing else of it is looked at again.
Done(m) ==
  /\ job' = [job EXCEPT ![m].batch = Rest(m),
                        ![m].frontier[At(m)[1]] = At(m)[2] + 1]
  /\ handled' = handled \cup {At(m)}
  /\ UNCHANGED <<brokerVars, incoming, departures, gate>>

Tries(m) == IF At(m) \in DOMAIN memory[m].tries THEN memory[m].tries[At(m)] ELSE 0
Forgotten(m) == Restrict(memory[m].tries, DOMAIN memory[m].tries \ {At(m)})

DeadLetter(m) ==
  /\ deadLetters' = deadLetters \cup {Record(m)}
  /\ UNCHANGED processed
  /\ Done(m)

\* A later record of a partition that is being rewound.
Skip(m) ==
  /\ Handling(m) /\ Skipped(m)
  /\ job' = [job EXCEPT ![m].batch = Rest(m)]
  /\ UNCHANGED <<brokerVars, memory, handled, processed, deadLetters, incoming, departures, gate>>

RefuseRecord(m) ==
  /\ Handling(m) /\ ~ Skipped(m)
  /\ ~ Authentic(Record(m)) \/ ~ Decodes(Record(m))
  /\ DeadLetter(m)
  /\ UNCHANGED memory

Processable(m) ==
  /\ Handling(m) /\ ~ Skipped(m)
  /\ Authentic(Record(m)) /\ Decodes(Record(m))

SkipDuplicate(m) ==
  /\ Processable(m)
  /\ Record(m).sig \in memory[m].seen
  /\ Done(m)
  /\ UNCHANGED <<memory, processed, deadLetters>>

Fresh(m) == Processable(m) /\ Record(m).sig \notin memory[m].seen

Process(m) ==
  /\ Fresh(m)
  /\ memory' = [memory EXCEPT ![m] =
                  [seen |-> memory[m].seen \cup {Record(m).sig}, tries |-> Forgotten(m)]]
  /\ processed' = processed \cup {<<Record(m).key, Record(m).sig>>}
  /\ Done(m)
  /\ UNCHANGED deadLetters

\* PoisonMessage, or a retry too many.
GiveUp(m) ==
  /\ Fresh(m)
  /\ memory' = [memory EXCEPT ![m].tries = Forgotten(m)]
  /\ DeadLetter(m)

\* Mutant: the attempts are not counted.
MutRetry(m) ==
  /\ Fresh(m)
  /\ job' = [job EXCEPT ![m].batch = Rest(m), ![m].back = @ \cup {At(m)[1]}]
  /\ UNCHANGED <<brokerVars, memory, handled, processed, deadLetters, incoming,
                 departures, gate>>

Retry(m) ==
  /\ Fresh(m)
  /\ Tries(m) < MaxRetries
  /\ memory' = [memory EXCEPT ![m].tries = (At(m) :> Tries(m) + 1) @@ @]
  /\ job' = [job EXCEPT ![m].batch = Rest(m), ![m].back = @ \cup {At(m)[1]}]
  /\ UNCHANGED <<brokerVars, handled, processed, deadLetters, incoming, departures, gate>>

\* The end of consume: the frontier is committed, never backwards.
CommitBatch(m) ==
  /\ job[m].pc = "handle" /\ job[m].batch = {}
  /\ committed' = [p \in Partition |-> Max({committed[p], job[m].frontier[p]})]
  /\ job' = [job EXCEPT ![m] = [Idle EXCEPT !.pc = IF job[m].back = {} THEN "idle" ELSE "seek",
                                            !.back = job[m].back]]
  /\ UNCHANGED <<log, position, group, disturbed, memory, handled, processed, deadLetters,
                 incoming, departures, gate>>

\* Then the partitions that hold a record to retry are rewound.
SeekToCommitted(m) ==
  /\ job[m].pc = "seek"
  /\ position' = RolledBack(job[m].back)
  /\ job' = [job EXCEPT ![m] = Idle]
  /\ UNCHANGED <<log, committed, group, disturbed, memory, handled, processed, deadLetters,
                 incoming, departures, gate>>

Consume(m) ==
  \/ Poll(m) \/ Skip(m) \/ RefuseRecord(m) \/ SkipDuplicate(m)
  \/ Process(m) \/ GiveUp(m) \/ Retry(m) \/ CommitBatch(m) \/ SeekToCommitted(m)

-----------------------------------------------------------------------------
(* LagGatedSubmit over ConsumerLagMonitor.snapshot: two broker reads for   *)
(* every partition, then the decision.                                     *)

GateStart ==
  /\ gate.pc = "idle"
  /\ gate' = [NoCall EXCEPT !.pc = "high", !.start = [p \in Partition |-> Len(log[p])]]
  /\ UNCHANGED <<brokerVars, job, memory, handled, processed, deadLetters, incoming, departures>>

GateReadHigh ==
  /\ gate.pc = "high" /\ gate.next \in Partition
  /\ gate' = [gate EXCEPT !.pc = "committed", !.high = Len(log[gate.next])]
  /\ UNCHANGED <<brokerVars, job, memory, handled, processed, deadLetters, incoming, departures>>

\* Mutant: the lag is measured to what has been read.
MutCommittedOffset(p) == position[p]

CommittedOffset(p) == committed[p]

Lag(high, acked) == IF high > acked THEN high - acked ELSE 0

GateReadCommitted ==
  /\ gate.pc = "committed"
  /\ LET lag == Lag(gate.high, CommittedOffset(gate.next)) IN
       gate' = [gate EXCEPT !.pc = "high", !.next = @ + 1, !.total = @ + lag,
                            !.worst = Max({@, lag})]
  /\ UNCHANGED <<brokerVars, job, memory, handled, processed, deadLetters, incoming, departures>>

WithinThreshold(g) == g.total <= MaxTotalLag /\ g.worst <= MaxPartitionLag

GateDecide ==
  /\ gate.pc = "high" /\ gate.next \notin Partition
  /\ gate' = [gate EXCEPT !.pc = IF WithinThreshold(gate) THEN "submitted" ELSE "blocked"]
  /\ UNCHANGED <<brokerVars, job, memory, handled, processed, deadLetters, incoming, departures>>

BusNext ==
  \/ \E r \in incoming : Produce(r)
  \/ \E m \in Member : JoinGroup(m) \/ LeaveGroup(m) \/ Consume(m)
  \/ GateStart \/ GateReadHigh \/ GateReadCommitted \/ GateDecide

BusSpec == BusInit /\ [][BusNext]_busVars

-----------------------------------------------------------------------------
\* A record is dealt with when it is in the dead-letter topic or reached the
\* processor.  A consumer knows a transaction by its signature alone, so of two
\* agents' records of one transaction it may drop the second as a duplicate.
SharedWithAnother(r) == \E x \in processed : x[1] # r.key /\ x[2] = r.sig
DealtWith(r) ==
  r \in deadLetters \/ <<r.key, r.sig>> \in processed \/ SharedWithAnother(r)

Kept(p) == \A o \in 1..committed[p] : DealtWith(log[p][o])

\* "KILLING A CONSUMER MID-STREAM LOSES NOTHING" (consumer.py): whatever the
\* group has acknowledged is dealt with, or a consumer still has it in hand to
\* handle or to redeliver.  The code breaks it: see the run rebalance_loss.
StillInHand(p, o) == \E c \in Member : <<p, o>> \in job[c].batch \/ p \in job[c].back
NothingLost ==
  \A p \in Partition : \A o \in 1..committed[p] : DealtWith(log[p][o]) \/ StillInHand(p, o - 1)

\* Same-key records keep their order: no record is dealt with before every
\* record that precedes it in its partition, whatever is retried or killed.
InOrder ==
  \A x \in handled : x[1] \notin disturbed => \A o \in 0..(x[2] - 1) : <<x[1], o>> \in handled

\* Whoever joins, leaves, dies or retries, what the group acknowledges is dealt
\* with, and in order, in every partition no rebalance has taken from a consumer
\* that had records of it in hand.
DeliveryHolds == InOrder /\ \A p \in Partition \ disturbed : Kept(p)

\* What each partition is behind by since the gate was asked, and f summed over
\* the partitions below each.
Behind == [p \in Partition |-> Lag(gate.start[p], committed[p])]
Totals(f) ==
  LET total[k \in 0..Cardinality(Partition)] == IF k = 0 THEN 0 ELSE total[k - 1] + f[k - 1]
  IN  total

\* A certificate goes out only if, of the records on the bus when the gate
\* was asked, at most the thresholds are unacknowledged as it goes out, though
\* the lag was read partition by partition while both sides moved.
GatedOnCaughtUp ==
  [][gate.pc # "submitted" /\ gate'.pc = "submitted" =>
       /\ \A p \in Partition : Behind[p] <= MaxPartitionLag
       /\ Totals(Behind)[Cardinality(Partition)] <= MaxTotalLag]_busVars

\* Every record of such a partition is eventually dealt with, whoever joins,
\* leaves, dies or retries, as long as the consumers left keep calling consume.
EventuallyHandled ==
  <>[](\A p \in Partition \ disturbed : \A o \in 0..(Len(log[p]) - 1) : <<p, o>> \in handled)

-----------------------------------------------------------------------------
(* What DeliveryHolds rests on.                                            *)

\* All that is certain of a record a consumer is done with is that its
\* signature, for whatever agent, reached the processor.
SignatureKnown(s) == \E x \in processed : x[2] = s
Known(r) == r \in deadLetters \/ SignatureKnown(r.sig)

\* The offset up to which c has dealt with p: committed, or yet to be.
Reached(c, p) == IF committed[p] > job[c].frontier[p] THEN committed[p] ELSE job[c].frontier[p]

\* The batch of a consumer is what it has read of its partitions and not yet
\* reached, those it will rewind excepted; of others it has nothing.  Of a
\* disturbed partition nothing is said.
ReadingOK(c) ==
  \A p \in Partition \ disturbed :
    /\ p \in group[c] \ job[c].back =>
         /\ Reached(c, p) <= position[p]
         /\ \A o \in Nat : <<p, o>> \in job[c].batch <=> Reached(c, p) <= o /\ o < position[p]
    /\ p \notin group[c] =>
         /\ job[c].frontier[p] = 0 /\ p \notin job[c].back
         /\ \A o \in Nat : <<p, o>> \notin job[c].batch

\* A partition nobody owns has been rolled back.
Ownership ==
  /\ \A c, d \in DOMAIN group : c # d => group[c] \cap group[d] = {}
  /\ \A p \in Partition \ disturbed :
       (\A c \in DOMAIN group : p \notin group[c]) => position[p] = committed[p]
  /\ \A c \in DOMAIN group : ReadingOK(c)

JobsOK ==
  \A m \in Member :
    /\ m \notin DOMAIN group \/ job[m].pc = "idle" => job[m] = Idle
    /\ job[m].pc = "seek" => job[m].batch = {} /\ job[m].frontier = Idle.frontier
    /\ \A p \in Partition : job[m].frontier[p] # 0 => <<p, job[m].frontier[p] - 1>> \in handled
    /\ \A s \in memory[m].seen : SignatureKnown(s)

HandledOK ==
  /\ \A x \in handled :
       x[1] \notin disturbed => x[2] < Len(log[x[1]]) /\ Known(log[x[1]][x[2] + 1])
  /\ \A p \in Partition \ disturbed :
       /\ position[p] <= Len(log[p])
       /\ \A o \in 0..(committed[p] - 1) : <<p, o>> \in handled

BusTypeOK ==
  /\ incoming \subseteq Incoming /\ log \in [Partition -> Seq(Incoming)]
  /\ committed \in [Partition -> Nat] /\ position \in [Partition -> Nat]
  /\ group \in [DOMAIN group -> SUBSET Partition] /\ disturbed \subseteq Partition
  /\ DOMAIN group \subseteq Member /\ IsFiniteSet(DOMAIN group)
  /\ job \in [Member -> [pc : {"idle", "handle", "seek"}, batch : SUBSET (Partition \X Nat),
                         frontier : [Partition -> Nat], back : SUBSET Partition]]
  /\ \A m \in Member : memory[m] = [seen |-> memory[m].seen, tries |-> memory[m].tries]
  /\ DOMAIN memory = Member /\ handled \subseteq Partition \X Nat
  /\ \A x \in processed : x = <<x[1], x[2]>>

BusInv == BusTypeOK /\ Ownership /\ JobsOK /\ HandledOK /\ InOrder

-----------------------------------------------------------------------------
(* What GatedOnCaughtUp rests on.                                          *)

\* The lag read so far is no less than what those partitions are behind by now:
\* the end was read after the gate was asked, and what is acknowledged only
\* grows.
GateOK ==
  gate.pc \in {"high", "committed"} =>
    /\ gate = [pc |-> gate.pc, next |-> gate.next, high |-> gate.high, total |-> gate.total,
               worst |-> gate.worst, start |-> gate.start]
    /\ gate.next \in 0..Cardinality(Partition) /\ gate.total \in Nat /\ gate.worst \in Nat
    /\ gate.start \in [Partition -> Nat] /\ \A p \in Partition : gate.start[p] <= Len(log[p])
    /\ gate.pc = "committed" =>
         gate.next \in Partition /\ gate.high \in Nat /\ gate.start[gate.next] <= gate.high
    /\ \A p \in 0..(gate.next - 1) : Behind[p] <= gate.worst
    /\ Totals(Behind)[gate.next] <= gate.total
=============================================================================
