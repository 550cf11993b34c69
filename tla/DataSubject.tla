----------------------------- MODULE DataSubject -----------------------------
(***************************************************************************)
(* A data subject's request for one wallet (oracle/data_subject_request,   *)
(* over the policies of data_protection_policy): count, or count and       *)
(* delete, the two tables that have statements, one statement at a time on *)
(* an autocommitting connection, then print one audit event.  Meanwhile    *)
(* the indexer stores what is still in its topic, and the scorer appends.  *)
(* A process that dies in between has printed nothing.                     *)
(***************************************************************************)
EXTENDS Integers, SequencesExt

CONSTANTS
  Delivered,        \* transactions of the wallet the topic delivers
  Scored,           \* score rows of the wallet the epochs append
  Refused           \* refusal records of the wallet

\* RETENTION_POLICIES: where each category is kept, and on request erased.
Policies ==
  { [category |-> "TRANSACTION_HISTORY", location |-> "TIMESCALE", days |-> 180, erasable |-> TRUE],
    [category |-> "TRANSACTION_HISTORY", location |-> "KAFKA", days |-> 7, erasable |-> TRUE],
    [category |-> "SCORE_HISTORY", location |-> "TIMESCALE", days |-> 180, erasable |-> TRUE],
    [category |-> "CERT_HISTORY", location |-> "SOLANA", days |-> 0, erasable |-> FALSE],
    [category |-> "REGISTRATION_METADATA", location |-> "SOLANA", days |-> 0, erasable |-> FALSE],
    [category |-> "REFUSAL_LOG", location |-> "KAFKA", days |-> 30, erasable |-> FALSE],
    [category |-> "CHALLENGE_HISTORY", location |-> "SOLANA", days |-> 0, erasable |-> FALSE],
    [category |-> "OPERATIONAL_TELEMETRY", location |-> "PROMETHEUS", days |-> 30, erasable |-> TRUE] }

\* On chain nothing expires or is erased; elsewhere everything expires, and
\* only the refusals are not erasable.
WellFormed(p) ==
  IF p.location = "SOLANA" THEN ~ p.erasable /\ p.days = 0
  ELSE p.days > 0 /\ (p.erasable \/ p.category = "REFUSAL_LOG")

PoliciesWellFormed ==
  /\ \A p \in Policies : WellFormed(p)
  /\ \A p, q \in Policies : p.category = q.category /\ p.location = q.location => p = q
ASSUME PolicyAssumption == PoliciesWellFormed

\* The slices with statements, in the order of the policies.
Slices == <<"TRANSACTION_HISTORY", "SCORE_HISTORY">>
HasStatements(p) == p.location = "TIMESCALE"

CarveOut(p) ==
  CASE HasStatements(p) -> "none"
    [] p.location = "SOLANA" -> "on_chain"
    [] p.category = "REFUSAL_LOG" -> "refusal_log"
    [] p.location = "KAFKA" /\ p.category # "REFUSAL_LOG" -> "kafka_retention"
    [] OTHER -> "prometheus_retention"

VARIABLES
  topic, unscored,
  rows,          \* [category -> what its table holds]
  refusalLog,
  asked,         \* "none", or the operation under way
  at,            \* the slice it is on, and whether that is counted
  counts,        \* the slices' counts so far
  event,         \* this run's audit event, or NoEvent
  deleted,       \* history: what the deletes of this run took, by slice
  since          \* history: what was stored after this run began, or after its delete

subjectVars == <<topic, unscored, rows, refusalLog, asked, at, counts, event, deleted, since>>

NoEvent == [op |-> "none", counts |-> <<>>, took |-> <<>>, carved |-> {}]

SubjectInit ==
  /\ topic = Delivered /\ unscored = Scored
  /\ rows = [c \in ToSet(Slices) |-> {}]
  /\ refusalLog = Refused
  /\ asked = "none" /\ at = [slice |-> 0, counted |-> FALSE] /\ counts = <<>>
  /\ event = NoEvent
  /\ deleted = <<>> /\ since = [c \in ToSet(Slices) |-> {}]

\* The command line: an erasure without a reason is refused before any
\* statement runs.
Ask(op, justified) ==
  /\ asked = "none"
  /\ op = "erase" => justified
  /\ asked' = op /\ at' = [slice |-> 1, counted |-> FALSE]
  /\ counts' = <<>> /\ deleted' = <<>> /\ event' = NoEvent
  /\ since' = [c \in ToSet(Slices) |-> {}]
  /\ UNCHANGED <<topic, unscored, rows, refusalLog>>

CountSlice ==
  /\ asked # "none" /\ at.slice <= Len(Slices) /\ ~ at.counted
  /\ counts' = Append(counts, Cardinality(rows[Slices[at.slice]]))
  /\ at' = IF asked = "erase" THEN [at EXCEPT !.counted = TRUE]
                              ELSE [slice |-> at.slice + 1, counted |-> FALSE]
  /\ UNCHANGED <<topic, unscored, rows, refusalLog, asked, event, deleted, since>>

\* Mutant: only as many rows as were counted are deleted.
MutDeleteSlice ==
  LET c == Slices[at.slice]
      some == CHOOSE s \in SUBSET rows[c] : Cardinality(s) = counts[at.slice] IN
  /\ asked = "erase" /\ at.slice <= Len(Slices) /\ at.counted
  /\ rows' = [rows EXCEPT ![c] = @ \ some]
  /\ deleted' = Append(deleted, some)
  /\ since' = [since EXCEPT ![c] = {}]
  /\ at' = [slice |-> at.slice + 1, counted |-> FALSE]
  /\ UNCHANGED <<topic, unscored, refusalLog, asked, counts, event>>

DeleteSlice ==
  LET c == Slices[at.slice] IN
  /\ asked = "erase" /\ at.slice <= Len(Slices) /\ at.counted
  /\ rows' = [rows EXCEPT ![c] = {}]
  /\ deleted' = Append(deleted, rows[c])
  /\ since' = [since EXCEPT ![c] = {}]
  /\ at' = [slice |-> at.slice + 1, counted |-> FALSE]
  /\ UNCHANGED <<topic, unscored, refusalLog, asked, counts, event>>

WriteEvent ==
  /\ asked # "none" /\ at.slice > Len(Slices)
  /\ event' = [op |-> asked, counts |-> counts, took |-> deleted,
               carved |-> {p \in Policies : CarveOut(p) # "none"}]
  /\ asked' = "none"
  /\ UNCHANGED <<topic, unscored, rows, refusalLog, at, counts, deleted, since>>

Die ==
  /\ asked # "none" /\ asked' = "none"
  /\ UNCHANGED <<topic, unscored, rows, refusalLog, at, counts, event, deleted, since>>

\* The writers.  A topic record stays until its retention ends, so it may be
\* stored again after it was deleted.
Store(c, r) ==
  /\ r \notin rows[c]
  /\ rows' = [rows EXCEPT ![c] = @ \cup {r}]
  /\ since' = [since EXCEPT ![c] = @ \cup {r}]
  /\ UNCHANGED <<refusalLog, asked, at, counts, event, deleted>>

StoreTransaction(r) == r \in topic /\ Store("TRANSACTION_HISTORY", r) /\ UNCHANGED <<topic, unscored>>
AppendScore(r) ==
  r \in unscored /\ Store("SCORE_HISTORY", r) /\ unscored' = unscored \ {r} /\ UNCHANGED topic
Expire(r) ==
  /\ r \in topic /\ topic' = topic \ {r}
  /\ UNCHANGED <<unscored, rows, refusalLog, asked, at, counts, event, deleted, since>>

SubjectNext ==
  \/ \E op \in {"query", "erase"}, justified \in BOOLEAN : Ask(op, justified)
  \/ CountSlice \/ DeleteSlice \/ WriteEvent \/ Die
  \/ \E r \in Delivered : StoreTransaction(r) \/ Expire(r)
  \/ \E r \in Scored : AppendScore(r)

-----------------------------------------------------------------------------
\* An erasure that printed its event erased: whatever the two tables hold was
\* stored after they were emptied, a transaction only while its topic still
\* had it, the event counted no row it did not remove, and what is carved out
\* is named and untouched - whoever stores meanwhile and whichever earlier
\* runs died half way.
EraseIsTrue ==
  event.op = "erase" =>
    /\ Len(event.took) = Len(Slices)
    /\ \A i \in 1..Len(Slices) : /\ event.counts[i] <= Cardinality(event.took[i])
                                 /\ rows[Slices[i]] \subseteq since[Slices[i]]
    /\ refusalLog = Refused
    /\ \A p \in event.carved : ~ p.erasable \/ p.location \in {"KAFKA", "PROMETHEUS"}
=============================================================================
