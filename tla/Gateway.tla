------------------------------- MODULE Gateway -------------------------------
(***************************************************************************)
(* The read API (phylanx-api/api): the rate limiter in front of it, the    *)
(* key check, the score reads, the guarded score read with its webhook,    *)
(* the operational reads and the integrators' leaderboard.  The limiter    *)
(* runs in a coroutine without an await, so a request is admitted in one   *)
(* step; the handlers are plain functions in a thread pool, so each of     *)
(* their reads of a repository is a step of its own.  What fills the       *)
(* repositories is outside this package: records come in epoch order, and  *)
(* one that is stored again is the same certificate.                       *)
(***************************************************************************)
EXTENDS Integers, SequencesExt

CONSTANTS
  Worker,                    \* threads of the pool
  ApiKey, Ip,
  NoKey,                     \* no key, or one the registry does not know
  LimitOf, PublicLimit,      \* rate_limit_per_minute, by key and for an ip
  Partner, PartnerOf,        \* [ApiKey -> Partner or NoPartner]
  NoPartner,
  Hooked,                    \* partners with a webhook
  TrustProxy,                \* PHYLANX_TRUST_PROXY
  WindowSeconds,
  CertMaxAge, MaxVelocity, WindowEpochs,
  Points,                    \* scores a record may carry
  Operator,                  \* node ids in the operational repositories
  ReadLimit,                 \* the limit an operational read asks for
  LastEpoch, LastSecond      \* BOUND: epochs indexed, and the clock

GatewayAssumption ==
  /\ WindowSeconds \in Nat \ {0} /\ PublicLimit \in Nat \ {0}
  /\ LimitOf \in [ApiKey -> Nat \ {0}] /\ PartnerOf \in [ApiKey -> Partner \cup {NoPartner}]
  /\ NoKey \notin ApiKey /\ ApiKey \cap Ip = {}
  /\ IsFiniteSet(ApiKey) /\ IsFiniteSet(Worker)
  /\ WindowEpochs \in Nat /\ WindowEpochs >= 2 /\ CertMaxAge \in Nat \ {0}
  /\ MaxVelocity \in Nat /\ Points \subseteq Nat /\ (\A p \in Points : p <= 1000)
  /\ ReadLimit \in 1..1000
ASSUME GatewayAssumption

VARIABLES
  second,
  hits,        \* [Bucket -> the times its queue holds]
  admitted,    \* history: [Bucket -> the times of all requests let through]
  indexed,     \* the wallet's score records, by epoch
  flagged, summaries,   \* operational repositories: flags, and epoch summaries
  task,        \* [Worker -> the request it serves]
  fired,       \* CertDegradingTracker: (partner, epoch) seen
  posted,      \* the webhooks dispatched
  calls        \* safe_reader_share_total: [Partner -> [surface -> count]]

gatewayVars == <<second, hits, admitted, indexed, flagged, summaries, task, fired, posted, calls>>

Bucket == ApiKey \cup Ip
Routes == {"liveness", "leaderboard", "flags", "epochs", "raw", "history", "safe"}
Operational == {"flags", "epochs"}
Unmetered == {"liveness"}
Surface(route) == CASE route \in {"raw", "history"} -> "raw" [] route = "safe" -> "safe" [] OTHER -> "none"

Idle == [phase |-> "idle"]
Answer(r, status, body) == [phase |-> "answered", key |-> r.key, route |-> r.route, status |-> status, body |-> body]

-----------------------------------------------------------------------------
(* Admission.                                                              *)

LimitOn(b) == IF b \in ApiKey THEN LimitOf[b] ELSE PublicLimit

ClientIp(host, forwarded) == IF TrustProxy /\ forwarded \in Ip THEN forwarded ELSE host

\* Mutant: one expired entry empties the queue, as a fixed window would.
MutLive(queue) == IF queue # <<>> /\ Head(queue) <= second - WindowSeconds THEN <<>> ELSE queue

\* What is left of a bucket's queue once the expired are popped from its head.
Live(queue) ==
  LET expired == {i \in DOMAIN queue : \A j \in 1..i : queue[j] <= second - WindowSeconds}
  IN SubSeq(queue, Cardinality(expired) + 1, Len(queue))

\* The handler's own checks, in order: key, wallet, arguments.
Served(r, valid) ==
  CASE r.route \in Operational /\ r.key = NoKey -> Answer(r, 401, <<>>)
    [] r.route \notin Operational \cup {"leaderboard"} /\ ~valid -> Answer(r, 400, <<>>)
    [] OTHER -> [phase |-> "handler", key |-> r.key, route |-> r.route, now |-> second]

Arrive(w) ==
  /\ task[w] = Idle
  /\ \E key \in ApiKey \cup {NoKey}, host \in Ip, forwarded \in Ip \cup {"none"}, route \in Routes, valid \in BOOLEAN :
       LET r == [key |-> key, route |-> route]
           b == IF key \in ApiKey THEN key ELSE ClientIp(host, forwarded)
           q == Live(hits[b])
       IN IF route \in Unmetered
          THEN /\ task' = [task EXCEPT ![w] = Answer([r EXCEPT !.key = NoKey], 200, <<>>)]
               /\ UNCHANGED <<hits, admitted>>
          ELSE IF Len(q) >= LimitOn(b)
          THEN /\ hits' = [hits EXCEPT ![b] = q]
               /\ task' = [task EXCEPT ![w] = Answer(r, 429, <<>>)]
               /\ UNCHANGED admitted
          ELSE /\ hits' = [hits EXCEPT ![b] = Append(q, second)]
               /\ admitted' = [admitted EXCEPT ![b] = Append(@, second)]
               /\ task' = [task EXCEPT ![w] = Served(r, valid)]
  /\ UNCHANGED <<second, indexed, flagged, summaries, fired, posted, calls>>

-----------------------------------------------------------------------------
(* The repositories: records by epoch, the newest first when listed.       *)

Latest == IF indexed = <<>> THEN {} ELSE {Last(indexed)}

\* The index is sorted, so the records of a range are a stretch of it.
Newest(found, limit) == [j \in 1..Min({limit, Cardinality(found)}) |-> indexed[Max(found) - j + 1]]

\* Mutant: the upper end of the range is left open.
MutScoreHistory(from, to, limit) == Newest({i \in DOMAIN indexed : indexed[i].epoch >= from}, limit)

ScoreHistory(from, to, limit) == Newest({i \in DOMAIN indexed : indexed[i].epoch \in from..to}, limit)

NewestFirst(S, Above(_, _)) == SetToSortSeq(S, Above)
RecentFlags(since) ==
  LET out == NewestFirst({f \in flagged : f.epoch >= since},
                         LAMBDA f, g : f.epoch > g.epoch \/ (f.epoch = g.epoch /\ f.node > g.node))
  IN SubSeq(out, 1, Min({ReadLimit, Len(out)}))
RecentEpochs ==
  LET out == NewestFirst(summaries, LAMBDA e, f : e.epoch > f.epoch) IN SubSeq(out, 1, Min({ReadLimit, Len(out)}))

AddRecord ==
  /\ \E score \in Points, skip \in 1..2 :
       LET epoch == skip + IF indexed = <<>> THEN 0 ELSE Last(indexed).epoch
       IN /\ epoch <= LastEpoch
          /\ indexed' = Append(indexed, [epoch |-> epoch, score |-> score, at |-> second])
  /\ UNCHANGED <<second, hits, admitted, flagged, summaries, task, fired, posted, calls>>

AddFlag ==
  /\ \E node \in Operator, epoch \in 1..LastEpoch : flagged' = flagged \cup {[node |-> node, epoch |-> epoch]}
  /\ UNCHANGED <<second, hits, admitted, indexed, summaries, task, fired, posted, calls>>

\* An epoch summarised again replaces its summary.
AddEpoch ==
  /\ \E epoch \in 1..LastEpoch, byzantine \in SUBSET Operator :
       summaries' = {e \in summaries : e.epoch # epoch} \cup {[epoch |-> epoch, byzantine |-> byzantine]}
  /\ UNCHANGED <<second, hits, admitted, indexed, flagged, task, fired, posted, calls>>

-----------------------------------------------------------------------------
(* The handlers.                                                           *)

Total(p) == calls[p].safe + calls[p].raw

\* By safe share, then traffic, then name; those without traffic last.
Ranking ==
  LET Above(p, q) ==
        \/ calls[p].safe * Total(q) > calls[q].safe * Total(p)
        \/ /\ calls[p].safe * Total(q) = calls[q].safe * Total(p)
           /\ (Total(p) > Total(q) \/ (Total(p) = Total(q) /\ p < q))
      Ranked(S) == SetToSortSeq(S, Above)
      registered == {PartnerOf[k] : k \in ApiKey} \ {NoPartner}
      observed == {p \in registered : Total(p) > 0}
  IN Ranked(observed) \o SetToSortSeq(registered \ observed, <)

\* One read of one repository, at once: the latest score or one epoch's, a
\* range of them, the flags since an epoch, the epochs or the ranking.
ReadOnce(w) ==
  LET t == task[w]
      Reply(status, body) == task' = [task EXCEPT ![w] = Answer(t, status, body)]
  IN /\ t.phase = "handler" /\ t.route # "safe"
     /\ \/ /\ t.route = "raw"
           /\ \E found \in {Latest} \cup {ToSet(ScoreHistory(e, e, 1)) : e \in 1..LastEpoch} :
                IF found = {} THEN Reply(404, <<>>) ELSE Reply(200, SetToSeq(found))
        \/ /\ t.route = "history"
           /\ \E from, to \in 1..LastEpoch :
                IF to < from THEN Reply(400, <<>>) ELSE Reply(200, ScoreHistory(from, to, ReadLimit))
        \/ t.route = "flags" /\ \E since \in 1..LastEpoch : Reply(200, RecentFlags(since))
        \/ t.route = "epochs" /\ Reply(200, RecentEpochs)
        \/ t.route = "leaderboard" /\ Reply(200, Ranking)
     /\ UNCHANGED <<second, hits, admitted, indexed, flagged, summaries, fired, posted, calls>>

Rejected(t, reason) == Answer(t, 200, <<[ok |-> FALSE, reason |-> reason]>>)

\* compute_safe_score, first read.
ReadLatest(w) ==
  LET t == task[w]
  IN /\ t.phase = "handler" /\ t.route = "safe"
     /\ task' = [task EXCEPT ![w] =
                   IF Latest = {} THEN Rejected(t, "INSUFFICIENT_HISTORY")
                   ELSE [phase |-> "window", key |-> t.key, route |-> "safe", now |-> t.now, latest |-> Last(indexed)]]
     /\ UNCHANGED <<second, hits, admitted, indexed, flagged, summaries, fired, posted, calls>>

\* compute_safe_score, second read and verdict.
JudgeWindow(w) ==
  LET t == task[w]
      e == t.latest.epoch
      seen == ScoreHistory(Max({1, e - (WindowEpochs - 1)}), e, WindowEpochs)
      scores == {r.score : r \in ToSet(seen)}
      ok == [ok |-> TRUE, score |-> t.latest.score, epoch |-> e, at |-> t.latest.at, now |-> t.now,
             low |-> Min(scores), high |-> Max(scores)]
  IN /\ t.phase = "window"
     /\ task' = [task EXCEPT ![w] =
                   CASE Len(seen) < 2 -> Rejected(t, "INSUFFICIENT_HISTORY")
                     [] Len(seen) >= 2 /\ t.now - t.latest.at > CertMaxAge -> Rejected(t, "STALE_CERT")
                     [] /\ Len(seen) >= 2 /\ t.now - t.latest.at <= CertMaxAge
                        /\ ok.high - ok.low > MaxVelocity -> Rejected(t, "VELOCITY_EXCEEDED")
                     [] OTHER -> [phase |-> "ok", key |-> t.key, route |-> "safe", body |-> ok]]
     /\ UNCHANGED <<second, hits, admitted, indexed, flagged, summaries, fired, posted, calls>>

Degrading(age) == age >= (3 * CertMaxAge) \div 4 /\ age < CertMaxAge
Hook(t) == IF t.key \in ApiKey /\ PartnerOf[t.key] \in Hooked THEN {PartnerOf[t.key]} ELSE {}

\* The webhook's conditions, up to the tracker's membership test.
TestTracker(w) ==
  LET t == task[w]
  IN /\ t.phase = "ok"
     /\ task' = [task EXCEPT ![w] =
                   IF \E p \in Hook(t) : Degrading(second - t.body.at) /\ <<p, t.body.epoch>> \notin fired
                   THEN [phase |-> "fire", key |-> t.key, route |-> t.route, body |-> t.body] ELSE Answer(t, 200, <<t.body>>)]
     /\ UNCHANGED <<second, hits, admitted, indexed, flagged, summaries, fired, posted, calls>>

\* The tracker's add, and the dispatch after it.
Fire(w) ==
  LET t == task[w]
  IN /\ t.phase = "fire"
     /\ fired' = fired \cup {<<p, t.body.epoch>> : p \in Hook(t)}
     /\ posted' = posted \cup {[to |-> p, epoch |-> t.body.epoch, at |-> t.body.at] : p \in Hook(t)}
     /\ task' = [task EXCEPT ![w] = Answer(t, 200, <<t.body>>)]
     /\ UNCHANGED <<second, hits, admitted, indexed, flagged, summaries, calls>>

\* The metrics middleware, outermost, sees every answer.
Respond(w) ==
  LET t == task[w]
  IN /\ t.phase = "answered"
     /\ calls' = [p \in Partner |->
                    IF t.key \in ApiKey /\ PartnerOf[t.key] = p /\ t.status = 200 /\ Surface(t.route) # "none"
                    THEN [calls[p] EXCEPT ![Surface(t.route)] = @ + 1] ELSE calls[p]]
     /\ task' = [task EXCEPT ![w] = Idle]
     /\ UNCHANGED <<second, hits, admitted, indexed, flagged, summaries, fired, posted>>

Second ==
  /\ second < LastSecond
  /\ second' = second + 1
  /\ UNCHANGED <<hits, admitted, indexed, flagged, summaries, task, fired, posted, calls>>

GatewayInit ==
  /\ second = 0
  /\ hits = [b \in Bucket |-> <<>>]
  /\ admitted = [b \in Bucket |-> <<>>]
  /\ indexed = <<>> /\ flagged = {} /\ summaries = {}
  /\ task = [w \in Worker |-> Idle]
  /\ fired = {} /\ posted = {}
  /\ calls = [p \in Partner |-> [safe |-> 0, raw |-> 0]]

Serve(w) == ReadOnce(w) \/ ReadLatest(w) \/ JudgeWindow(w) \/ TestTracker(w) \/ Fire(w) \/ Respond(w)

GatewayNext == Second \/ AddRecord \/ AddFlag \/ AddEpoch \/ \E w \in Worker : Arrive(w) \/ Serve(w)

-----------------------------------------------------------------------------
(* Properties.                                                             *)

\* A score served as safe was fresh when the request came in, and the index
\* holds no record of its window from which it swung more than allowed, the
\* records that arrived between the handler's two reads included.
SafeAnswersAreSafe ==
  \A w \in Worker : task[w].phase = "ok" =>
    LET a == task[w].body
    IN /\ a.now - a.at <= CertMaxAge
       /\ \A i \in DOMAIN indexed :
            indexed[i].epoch \in (a.epoch - WindowEpochs + 1)..a.epoch =>
              indexed[i].score - a.score \in -MaxVelocity..MaxVelocity

\* No sliding window of WindowSeconds lets a key or an address through more
\* often than its limit: the requests that many apart are a window apart.  And
\* no partner is credited with a read that the limiter did not let through.
RateIsBounded ==
  /\ \A b \in Bucket : \A i \in DOMAIN admitted[b] :
       i > LimitOn(b) => admitted[b][i] - admitted[b][i - LimitOn(b)] >= WindowSeconds
  /\ \A p \in Partner :
       Total(p) <= Cardinality(UNION {{k} \X DOMAIN admitted[k] : k \in {k \in ApiKey : PartnerOf[k] = p}})

\* The guarded read's answers are fresh and swing-free (safe_score.py), and the
\* limiter's sliding window holds (rate_limit.py).
GatewayIsSound == SafeAnswersAreSafe /\ RateIsBounded
=============================================================================
