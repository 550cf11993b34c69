------------------------------ MODULE MCGuards ------------------------------
(***************************************************************************)
(* TLC instance of the policies around the cluster.  story says which of   *)
(* them moves: "scores" are the guards a score passes, "fleet" proposes    *)
(* any rotation and "prompt" the one the warning asks for, "read" reads    *)
(* the chain, "fresh" mints and uses certificates while time passes,       *)
(* "subject" serves a data subject, and the read API answers guarded score *)
(* reads ("safe"), metered ones ("traffic") and operational ones ("watch"); *)
(* "epochs" runs the scoring epochs of a node, "window", "series" and "kin" *)
(* let the evidence of its detectors grow, "baselines" computes baselines   *)
(* from what is stored, "backfill" copies an old table into it, and "start" *)
(* and "plugin" start a host's services.                                    *)
(***************************************************************************)
EXTENDS ScoreDefences, FleetPolicy, CertFreshness, DataSubject, Gateway, ScoreEpoch, Features, StartUp

CONSTANTS a1, a3, w1, f1, f2, f3, t1, t3, b1

VARIABLE story

MCGenesis == [a \in Agent |-> 10]
\* a3 joins in the second epoch.
MCRegistered ==
  [a \in Agent |-> IF a = a3 THEN [at |-> 2, epoch |-> 2] ELSE [at |-> 0, epoch |-> 1]]
MCElapsed == {-1, 1, 2}

MCPinned == [solders |-> 27]
Declares(o, c, cl, r, h, s) ==
  [org |-> o, country |-> c, cloud |-> cl, region |-> r, host |-> h,
   attested |-> TRUE, paid |-> "flat", aml |-> "none", conflicts |-> {"related"}, network |-> "mainnet-beta",
   mainnetOk |-> TRUE, inProcessOk |-> FALSE, signer |-> s, libraries |-> MCPinned]
\* f1..f3 found the cluster; t1 and t3 may take over f1's and f3's place, t3
\* with a key in its process; b1 doubles the cloud of f1 and the region of f2.
MCDeclared ==
  [k \in Key |-> CASE k = f1 -> Declares(1, 1, 1, 1, 1, "hsm")
                   [] k = f2 -> Declares(2, 1, 2, 2, 2, "hsm")
                   [] k = f3 -> Declares(3, 2, 3, 3, 3, "hsm")
                   [] k = t1 -> Declares(1, 1, 1, 1, 4, "hsm")
                   [] k = t3 -> Declares(3, 2, 3, 3, 5, "in-process")
                   [] k = b1 -> Declares(4, 2, 1, 2, 6, "hsm")]
MCProvider == [e \in RpcEndpoint |-> IF e = 3 THEN "p2" ELSE "p1"]

MCMaxAge == [op \in Operation |-> CASE op = "LOAN_ISSUE" -> 1 [] op = "LIQUIDATION_CHECK" -> 3 [] OTHER -> 5]

AnyRotationUntil == 3   \* BOUND: hours of the "fleet" story

\* A developer's machine as it comes, and a production host.
Py(v, libraries) == [python |-> v, cpython |-> TRUE, ieee |-> TRUE, backends |-> libraries]
MCDev ==
  [network |-> Absent, mainnetOk |-> FALSE, bootstrap |-> TRUE, protocol |-> Absent, mechanism |-> Absent,
   username |-> FALSE, password |-> FALSE, plaintextOk |-> FALSE, tls |-> {}, runtime |-> Py(12, {}), determinismOk |-> FALSE]
MCProd ==
  [MCDev EXCEPT !.network = "mainnet-beta", !.mainnetOk = TRUE, !.protocol = "SASL_SSL", !.mechanism = "PLAIN",
                !.username = TRUE, !.password = TRUE, !.tls = Tls]
MCSettings == {MCDev, MCProd}
MCEditable ==
  [network |-> {"", "devnet", "mainnet", "mainnet-beta", "Mainnet-Beta"}, mainnetOk |-> {TRUE},
   protocol |-> {Absent, "PLAINTEXT", "SSL"}, plaintextOk |-> {TRUE}, password |-> {FALSE}, tls |-> {{"cert"}, {}, Tls},
   runtime |-> {Py(12, {"numpy"})}, determinismOk |-> {TRUE}]
MCPins == {[version |-> v, binary |-> v, signer |-> s] : v \in {1, 2}, s \in {"ours", "theirs"}}

MCInit ==
  /\ ScoreInit /\ FleetInit /\ FreshInit /\ SubjectInit
  /\ GatewayInit /\ EpochInit /\ EvidenceInit /\ BaselineInit /\ StartInit
  /\ story \in {"scores", "fleet", "prompt", "read", "fresh", "subject", "safe", "traffic", "watch", "epochs", "window", "series", "kin", "baselines", "backfill", "start", "plugin"}
  /\ story # "start" => setting = MCDev

\* BOUND: the consumer acts on the agent that joins later alone.
ActsOnTheLateOne == \A a \in Agent \ {a3} : trusted'[a] = 0

PolicyNext ==
  /\ \/ story = "scores" /\ ScoreNext /\ ActsOnTheLateOne /\ UNCHANGED <<fleetVars, freshVars, subjectVars>>
     \/ story = "fleet" /\ FleetNext /\ hour' <= AnyRotationUntil /\ UNCHANGED <<scoreVars, freshVars, subjectVars>>
     \/ story = "prompt" /\ PromptNext /\ UNCHANGED <<scoreVars, freshVars, subjectVars>>
     \/ story = "read" /\ ReadNext /\ UNCHANGED <<scoreVars, freshVars, subjectVars>>
     \/ story = "fresh" /\ FreshNext /\ UNCHANGED <<scoreVars, fleetVars, subjectVars>>
     \/ story = "subject" /\ SubjectNext /\ UNCHANGED <<scoreVars, fleetVars, freshVars>>

\* Three programs, 3 unknown to the action map and on the denylist.
MCActionOf == [p \in 1..3 |-> CASE p = 1 -> "swap" [] p = 2 -> "transfer" [] OTHER -> "other"]
MCProfiles == [trading |-> [swap |-> 75, transfer |-> 20, other |-> 5]]
MCKernel == [from |-> 0, to |-> 9, loop |-> 3, loopSpan |-> 2, drain |-> 3, drainSpan |-> 2, sample |-> 2, gap |-> 1,
             top |-> 2, cost |-> 3, failed |-> 2, failedShare |-> 30, typed |-> 2, peerShare |-> 80, distance |-> 60]
MCScanner == [manifest |-> {1, 2}, denied |-> {3}, fee |-> 2, idle |-> 1, drains |-> 2, dust |-> 1, storm |-> 3,
              outflow |-> 2, value |-> 2, seen |-> 1, variety |-> 1]
MCLibrary == [off_manifest |-> 3, denylisted |-> 4, fee_drain |-> 3, dust_storm |-> 2, rapid_drain |-> 4, new_program |-> 3, variety |-> 2, role_override |-> 5]
Tx(s, when, p, flow) ==
  [sig |-> s, at |-> when, slot |-> (2 * when) + (IF s > 3 THEN 0 ELSE 1), programs |-> p, flow |-> flow,
   ok |-> s % 3 # 0, cost |-> (s % 2) + 1, peer |-> s % 2]
MCTransaction == {Tx(1, 0, <<1>>, -2), Tx(2, 1, <<1>>, 3), Tx(3, 2, <<1>>, -2), Tx(4, 1, <<2>>, 1), Tx(5, 3, <<1>>, -1), Tx(6, 10, <<1>>, -2), Tx(7, 2, <<>>, 0), Tx(8, 3, <<3, 1>>, -2)}
MCCutMargin(n, k) == IF Min({n, k}) > 1 THEN 50 ELSE <<100, 70, 65, 44, 44, 44>>[Max({n, k})]
MCDeviation(p, i) == IF p \in {0, 100} THEN 0 ELSE 20 \div i
MCFunder == [w \in Cohort |-> IF w \in {1, 4} THEN 9 ELSE 0]
MCDealt == [w \in Cohort |-> IF w \in {3, 4} THEN {6, 7, 8} ELSE {6, 7}]

\* Evidence of an agent at rest, and what may become of it: it drifts far
\* enough for the anomaly dimension's fast path, its text overrides a role, it
\* joins a cluster, its baseline is of another engine, its code changes.
Calm ==
  [compatible |-> TRUE, provisional |-> FALSE, psi |-> 5, outliers |-> 0, active |-> 90,
   days |-> <<100, 100, 90, 100>>, mean |-> 98, sigma |-> 5, magnitudes |-> <<1, 8, 1, 1, 4>>, isolation |-> 45,
   claimed |-> 5, market |-> 8, exposure |-> 1, returnZ |-> 0, fading |-> 3,
   domain |-> "trading", strayed |-> 9, tooling |-> 6, rhythm |-> 1, repeats |-> 50, volatility |-> 10,
   txs |-> <<>>, text |-> <<>>, declared |-> 1, recorded |-> 1, shifted |-> 0, leaving |-> 50, churn |-> 10,
   wallet |-> 2, ties |-> {}]
MCReadings ==
  [x |-> {ReadingOf(Calm),
          ReadingOf([Calm EXCEPT !.psi = 30, !.days = <<100, 20, 0, 10>>, !.magnitudes = <<9, 40, 8, 6, 40>>, !.isolation = 100]),
          ReadingOf([Calm EXCEPT !.text = [role_override |-> 95]]),
          ReadingOf([Calm EXCEPT !.ties = {<<2, 3>>, <<3, 5>>}]),
          ReadingOf([Calm EXCEPT !.compatible = FALSE])},
   y |-> {ReadingOf(Calm), ReadingOf([Calm EXCEPT !.declared = 2])}]
MCRoster == <<"x", "y">>
\* No previous score, and two that the rail may hold the score to.
MCEarlier == {None, 300, 950}

MCLimitOf == [k \in ApiKey |-> 2]
MCPartnerOf == [k \in ApiKey |-> 1]

Only(routes) == \A w \in Worker : task'[w] # Idle => task'[w].route \in routes
Alone == \A w \in Worker \ {1} : task'[w] = Idle
\* BOUND: the guarded reads race each other and the indexer; the other stories
\* have one thread, the metered one a single record.
GatewayStory ==
  /\ GatewayNext
  /\ story = "safe" =>
       /\ Only({"safe"}) /\ UNCHANGED <<flagged, summaries>>
       /\ \A k \in ApiKey : Len(admitted'[k]) <= 2
       /\ \A w \in Worker : task[w] = Idle /\ task'[w] # Idle =>
            /\ task'[w].phase = "handler" /\ task'[w].key \in ApiKey
            /\ \A v \in 1..(w - 1) : task[v] # Idle    \* they are alike: the first idle one is taken
  /\ story = "traffic" =>
       /\ Only({"raw", "history", "leaderboard", "liveness"}) /\ Alone
       /\ UNCHANGED <<flagged, summaries>> /\ Len(indexed') <= 1
  /\ story = "watch" => Only({"flags", "epochs"}) /\ Alone /\ UNCHANGED <<second, indexed>>

\* BOUND: the peers give their verdicts on the first agent of the first run.
EpochStory == EpochNext /\ (turn > 1 \/ run > 1 => Cardinality(verdicts') <= 1)

\* Days of two ticks, windows of two days, and transactions that share a tick
\* or sit at a day's edge.
MCScale == [day |-> 2, recent |-> 2, night |-> {0}, business |-> {1}, weekend |-> {5, 6}, rapid |-> 1, idle |-> 2]
Row(a, t) == [agent |-> a, tx |-> t]
MCLive == {Row(1, Tx(2, 1, <<1>>, 3)), Row(1, Tx(3, 2, <<1>>, -2)), Row(1, Tx(4, 1, <<2>>, 1)), Row(1, Tx(8, 3, <<3, 1>>, -2)),
           Row(2, Tx(3, 2, <<1>>, 1)), Row(2, Tx(8, 3, <<3, 1>>, 2))}
\* The transaction of signature 3 is of both agents.
MCOldTable == <<Row(1, Tx(3, 2, <<1>>, -2)), Row(1, Tx(4, 1, <<2>>, 1)), Row(2, Tx(3, 2, <<1>>, 1)), Row(2, Tx(5, 1, <<1>>, 1))>>
BaselineStory ==
  \/ story = "baselines" /\ BaselineNext
  \/ /\ story \in {"baselines", "backfill"} /\ StoreNext
     /\ story = "baselines" => UNCHANGED backfill /\ \A i \in DOMAIN table' : table'[i].agent = Rated

\* BOUND: two services run at a time, what they agree on being about pairs.
StartStory ==
  /\ story \in {"start", "plugin"} /\ StartNext
  /\ Cardinality(DOMAIN services') <= 2
  /\ story = "start" => UNCHANGED manifest
  /\ story = "plugin" => UNCHANGED <<setting, services>>

EvidenceStory ==
  /\ story \in {"window", "series", "kin"} /\ EvidenceNext
  /\ story # "window" => UNCHANGED arrived
  /\ story # "series" => UNCHANGED days
  /\ story # "kin" => UNCHANGED links

restVars == <<scoreVars, fleetVars, freshVars, subjectVars, gatewayVars, epochVars, evidenceVars, baselineVars, startVars>>

MCNext ==
  /\ UNCHANGED story
  /\ \/ PolicyNext /\ UNCHANGED <<gatewayVars, epochVars, evidenceVars, baselineVars, startVars>>
     \/ /\ story = "epochs" /\ EpochStory
        /\ UNCHANGED <<scoreVars, fleetVars, freshVars, subjectVars, gatewayVars, evidenceVars, baselineVars, startVars>>
     \/ /\ EvidenceStory
        /\ UNCHANGED <<scoreVars, fleetVars, freshVars, subjectVars, gatewayVars, epochVars, baselineVars, startVars>>
     \/ /\ BaselineStory
        /\ UNCHANGED <<scoreVars, fleetVars, freshVars, subjectVars, gatewayVars, epochVars, evidenceVars, startVars>>
     \/ /\ StartStory
        /\ UNCHANGED <<scoreVars, fleetVars, freshVars, subjectVars, gatewayVars, epochVars, evidenceVars, baselineVars>>
     \/ /\ story \in {"safe", "traffic", "watch"}
        /\ GatewayStory
        /\ UNCHANGED <<scoreVars, fleetVars, freshVars, subjectVars, epochVars, evidenceVars, baselineVars, startVars>>

MCSpec == MCInit /\ [][MCNext]_<<restVars, story>>

\* What the theorem about prompt rotations supposes of the ages and the window.
ASSUME RotationHypothesis == WindowIsWide

\* Each part is evaluated in the story that can break it.

\* What is read out of the evidence is there, in whatever order it came: what
\* the detectors and the kernel find, all of it where the code says so; a
\* baseline, the same for whoever stored the same transactions, of which a late
\* one disturbs only its own day; and what the features say of failures
\* (diagnosis/detectors, security_scan.py, _sybil_graph.py, _drift_math.py,
\* extractor.py, engine.py).
EvidenceIsExact ==
  /\ story = "window" => OrderIsImmaterial /\ BurstsAreReal
  /\ story = "series" => ShiftsAreFound({50, 90}, {10, 25})
  /\ story = "kin" => ClustersAreComponents
  /\ story = "baselines" /\ pending = {} /\ history = {} => DaysAreDisjoint /\ StreaksAreReal
=============================================================================
