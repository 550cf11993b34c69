----------------------------- MODULE MCIndexer -----------------------------
(***************************************************************************)
(* Three stories.  "deliver": two consumers on a topic of two partitions,  *)
(* that come, go and die, two records of one agent, one of them poison for *)
(* the processor or not as it likes, a redelivered copy of the first, and  *)
(* a forged record of another agent.  "gate": a certificate asks for the   *)
(* lag meanwhile.  "ingest": three endpoints, one of which reports a       *)
(* transaction with other fields, with another time, one that did not      *)
(* happen; two agents, one leaving or back; a webhook first or last.       *)
(***************************************************************************)
EXTENDS EventBus, Ingestion

CONSTANTS a1, a2, s1, s2, s3, h1, h2, f1, t1, t2, fake

VARIABLE story

MCPartitionOf == (a1 :> 0) @@ (a2 :> 1)

Rec(i, key, sig, kind) == [id |-> i, key |-> key, sig |-> sig, kind |-> kind]

MCIncoming ==
  { Rec(1, a1, s1, "tx"), Rec(2, a1, s2, "tx"), Rec(3, a2, s1, "tx"),
    Rec(4, a2, s3, "forged") }

MCTouches == (t1 :> {1, 2}) @@ (t2 :> {2}) @@ (fake :> {1})

\* What the faulty endpoint signs.
Lies == { [Truth(t1) EXCEPT !.time = "other"], [Truth(t1) EXCEPT !.canonical = "fields"],
          [Truth(t2) EXCEPT !.canonical = "status"], Truth(fake) }

BusTold ==
  /\ story = "deliver" => UNCHANGED gate /\ \A r \in incoming \ incoming' : r.id # 4
  /\ story = "gate" =>
       /\ UNCHANGED <<departures, disturbed>>
       /\ \A r \in incoming \ incoming' : r.id # 2
       /\ \A r \in deadLetters' : r.kind = "forged"

IngestTold ==
  /\ \A r \in reports' \ reports : r[1] = f1 => r[2] \in Lies
  /\ pending' \subseteq {Truth(t1)}
  /\ pending' # pending => arrivals \in {0, MaxUpdates}
  /\ wallets' # wallets => arrivals = 2 /\ 1 \in wallets

BusStep == story \in {"deliver", "gate"} /\ BusNext /\ BusTold /\ UNCHANGED <<ingestVars, story>>
IngestStep == story = "ingest" /\ IngestNext /\ IngestTold /\ UNCHANGED <<busVars, story>>

vars == <<busVars, ingestVars, story>>
Init ==
  /\ BusInit /\ IngestInit /\ Configured
  /\ story \in {"deliver", "gate", "ingest"}
  /\ wallets = {1, 2}
IndexerSpec ==
  /\ Init /\ [][BusStep \/ IngestStep]_vars
  /\ \A m \in Member : WF_busVars(Consume(m)) /\ WF_busVars(JoinGroup(m))

\* Every record is eventually dealt with, where the story has consumers that
\* fail or leave.
EveryRecordHandled == story = "deliver" => EventuallyHandled
=============================================================================
