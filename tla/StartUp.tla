------------------------------- MODULE StartUp -------------------------------
(***************************************************************************)
(* What the services of a host refuse to start with: the oracle node       *)
(* (cluster/run_cluster_node.py), the API and its synthetic twin           *)
(* (api/main.py, api/synthetic_main.py), the event bus (eventbus/          *)
(* kafka_security.py, confluent_adapter.py) and the validator's plugin     *)
(* (indexer/plugin_pin.py).  All read one environment, which an operator   *)
(* edits while some of them run; each keeps what it read when it started.  *)
(***************************************************************************)
EXTENDS Integers, FiniteSets

CONSTANTS
  Settings,       \* environments the host may start from
  Editable,        \* [variable -> values an operator may set]
  Pins,           \* signed releases: [version, binary, signer]
  TrustedSigners, \* TrustedReleaseSignerSet
  Binaries,       \* binaries found on disk
  Edits           \* BOUND: edits of the environment

VARIABLES
  setting,      \* the environment
  edits,
  services,     \* [service -> what it started with], those that run
  manifest      \* PluginPinManifest: [version -> [binary, signer, signed]]

startVars == <<setting, edits, services, manifest>>

NodeService == {"node1", "node2"}
Absent == "unset"
Tls == {"cert", "key", "ca"}

-----------------------------------------------------------------------------
(* oracle/network_guard.py.                                                *)

GuardNetwork(env) == IF env.network = Absent THEN "localnet" ELSE env.network
Supported == {"localnet", "devnet", "testnet", "mainnet-beta"}
OnMainnet(env) == GuardNetwork(env) = "mainnet-beta"

\* Mutant: an unknown name is not a production network, so it may pass.
MutNetworkGuard(env) == OnMainnet(env) => env.mainnetOk
NetworkGuard(env) ==
  /\ GuardNetwork(env) \in Supported
  /\ OnMainnet(env) => env.mainnetOk

-----------------------------------------------------------------------------
(* eventbus/kafka_security.py: its own reading of the network.             *)

KafkaNetwork(env) == IF env.network \in {Absent, ""} THEN "localnet" ELSE env.network
Lower(network) == IF network = "Mainnet-Beta" THEN "mainnet-beta" ELSE network
BusOnMainnet(env) == Lower(KafkaNetwork(env)) = "mainnet-beta"

Sasl(env) == env.protocol \in {"SASL_PLAINTEXT", "SASL_SSL"}
Encrypted(env) == env.protocol \in {"SSL", "SASL_SSL"}
SecurityEvaluates(env) ==
  /\ Sasl(env) \/ env.protocol \in {Absent, "PLAINTEXT", "SSL"}
  /\ env.mechanism \in {Absent, "PLAIN", "SCRAM-SHA-256", "SCRAM-SHA-512", "GSSAPI", "OAUTHBEARER"}
  /\ Sasl(env) => env.mechanism # Absent /\ env.username /\ env.password

\* enforce_kafka_security, and from_env around it.
KafkaGate(env) == SecurityEvaluates(env) /\ (BusOnMainnet(env) /\ ~Encrypted(env) => env.plaintextOk)
BusStarts(env) == env.bootstrap /\ KafkaGate(env)

-----------------------------------------------------------------------------
(* scoring/determinism.py.                                                 *)

Failures(runtime) ==
  {f \in {"python"} : runtime.python \notin {12, 13}} \cup {f \in {"implementation"} : ~runtime.cpython}
    \cup {f \in {"float"} : ~runtime.ieee} \cup {f \in {"backends"} : runtime.backends # {}}
Deterministic(env, production) == production /\ Failures(env.runtime) # {} => env.determinismOk

-----------------------------------------------------------------------------
(* The entry points.                                                       *)

\* Mutant: TLS is wanted in production, but some of its files will do.
MutNodeStarts(env) ==
  /\ NetworkGuard(env) /\ Deterministic(env, OnMainnet(env))
  /\ OnMainnet(env) => env.tls # {}
NodeStarts(env) ==
  /\ NetworkGuard(env) /\ Deterministic(env, OnMainnet(env))
  /\ env.tls \in {{}, Tls}
  /\ OnMainnet(env) => env.tls = Tls

ApiStarts(env) == NetworkGuard(env)
SyntheticStarts(env) == NetworkGuard(env) /\ ~OnMainnet(env)

Starts(service, env) ==
  CASE service \in NodeService -> NodeStarts(env)
    [] service = "api" -> ApiStarts(env)
    [] service = "synthetic" -> SyntheticStarts(env)
    [] service = "bus" -> BusStarts(env)

\* verify_plugin_binary: the signature covers the binary's hash and version.
\* Mutant: it covers the hash alone.
MutPluginTrusted(version, binary) ==
  /\ version \in DOMAIN manifest
  /\ LET pin == manifest[version]
     IN  /\ pin.binary = binary /\ pin.signer \in TrustedSigners
         /\ pin.signed.binary = binary /\ pin.signed.signer = pin.signer
PluginTrusted(version, binary) ==
  /\ version \in DOMAIN manifest
  /\ LET pin == manifest[version]
     IN  /\ pin.binary = binary /\ pin.signer \in TrustedSigners
         /\ pin.signed = [version |-> version, binary |-> binary, signer |-> pin.signer]

-----------------------------------------------------------------------------
StartInit ==
  /\ setting \in Settings /\ edits = 0
  /\ services = [s \in {} |-> setting]
  /\ manifest = [v \in {} |-> 0]

\* External: the operator.
Edit(name, value) ==
  /\ edits < Edits /\ setting[name] # value
  /\ setting' = [setting EXCEPT ![name] = value] /\ edits' = edits + 1
  /\ UNCHANGED <<services, manifest>>

\* External: an entry is written to the manifest, perhaps with the signature
\* of another release.
Pin(version, binary, signed) ==
  /\ version \notin DOMAIN manifest
  /\ manifest' = [v \in DOMAIN manifest \cup {version} |->
       IF v = version THEN [binary |-> binary, signer |-> signed.signer, signed |-> signed] ELSE manifest[v]]
  /\ UNCHANGED <<setting, edits, services>>

StartService(s) ==
  /\ s \notin DOMAIN services /\ Starts(s, setting)
  /\ services' = [t \in DOMAIN services \cup {s} |-> IF t = s THEN setting ELSE services[t]]
  /\ UNCHANGED <<setting, edits, manifest>>

\* SIGTERM, or a crash.
StopService(s) ==
  /\ s \in DOMAIN services
  /\ services' = [t \in DOMAIN services \ {s} |-> services[t]]
  /\ UNCHANGED <<setting, edits, manifest>>

StartNext ==
  \/ \E name \in DOMAIN Editable : \E value \in Editable[name] : Edit(name, value)
  \/ \E s \in NodeService \cup {"api", "synthetic", "bus"} : StartService(s) \/ StopService(s)
  \/ \E release \in Pins : \E v \in {p.version : p \in Pins}, b \in Binaries : Pin(v, b, release)

-----------------------------------------------------------------------------
\* What a running service believes of its network, by its own reading.
BelievesMainnet(s) == IF s = "bus" THEN BusOnMainnet(services[s]) ELSE OnMainnet(services[s])

\* A node serves and dials with its TLS files or in the clear.
Reaches(n, m) == (services[n].tls = Tls) = (services[m].tls = Tls)

\* Two hand-kept readings of one variable: services started from the same
\* value never disagree on whether it is production, whatever the spelling
\* (network_guard.py, kafka_security.py); in production any two nodes can talk
\* and do so under TLS, the bus is encrypted or opted out of it, no score is
\* synthetic or of unpinned arithmetic (run_cluster_node.py, synthetic_main.py).
GatesAgree ==
  \A s, t \in DOMAIN services :
    services[s].network = services[t].network =>
      /\ BelievesMainnet(s) = BelievesMainnet(t)
      /\ BelievesMainnet(s) /\ {s, t} \subseteq NodeService => Reaches(s, t) /\ services[s].tls = Tls
      /\ BelievesMainnet(s) /\ t = "bus" => Encrypted(services[t]) \/ services[t].plaintextOk
      /\ BelievesMainnet(s) => t # "synthetic"
      /\ BelievesMainnet(s) /\ t \in NodeService /\ Failures(services[t].runtime) # {} => services[t].determinismOk

\* Whatever is written into the manifest, a plugin that loads is a release of
\* that very version by a trusted signer (plugin_pin.py).
LoadedIsReleased ==
  \A release \in Pins, b \in Binaries :
    PluginTrusted(release.version, b) =>
      \E p \in Pins : p.version = release.version /\ p.binary = b /\ p.signer \in TrustedSigners

\* The services of a host, each with its own reading of the environment, agree
\* on what production is and start safely there, and the validator's plugin is
\* a released one (network_guard.py, kafka_security.py, plugin_pin.py).
StartUpIsSafe == GatesAgree /\ LoadedIsReleased
=============================================================================
