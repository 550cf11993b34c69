--------------------------- MODULE CertificateProofs ---------------------------
(***************************************************************************)
(* What holds of baselines, of the processes that commit them and of the   *)
(* certificates built on them, for any agents, keys, clusters, windows and *)
(* any number of committers, nonces and epochs.                            *)
(***************************************************************************)
EXTENDS Certificates, FiniteSetTheorems, TLAPS

-----------------------------------------------------------------------------
(* The baseline chain.                                                     *)

LEMMA BaselineInitInv == BaselineInit => BaselineInv
<1> SUFFICES ASSUME BaselineInit
             PROVE  BaselineInv
  OBVIOUS
<1>1. today \in Nat /\ today > 0
  BY ClockAssumption DEF BaselineInit, ClockInit
<1>2. \A a \in Wallet : reg[a] \in Registration /\ reg[a].nonce = 0 /\ reg[a].at = 0
  <2>1. TAKE a \in Wallet
  <2>2. PICK l \in 1..CurrentLayout :
          reg[a] = [layout |-> l, active |-> TRUE, hash |-> NoHash, nonce |-> 0, at |-> 0]
    BY DEF BaselineInit
  <2> QED
    BY <2>2 DEF Registration
<1>3. reg \in [Wallet -> Registration]
  BY <1>2 DEF BaselineInit
<1>4. BaselineChain
  BY <1>2 DEF BaselineInit, BaselineChain, Chain
<1> QED
  BY <1>1, <1>2, <1>3, <1>4 DEF BaselineInv, BaselineTypeOK, BaselineInit

\* A registration names its newest commitment, so what it says is published.
LEMMA NewestIsPublished ==
  ASSUME BaselineInv, NEW a \in Wallet, Committed(a)
  PROVE  \E d \in data : /\ d.agent = a /\ d.nonce = reg[a].nonce
                         /\ d.hash = reg[a].hash
<1>1. reg[a].nonce \in Nat
  BY DEF BaselineInv, BaselineTypeOK, Registration
<1>2. reg[a].nonce \in {d.nonce : d \in Chain(a)}
  BY <1>1 DEF Committed, BaselineInv, BaselineChain
<1>3. PICK d \in Chain(a) : d.nonce = reg[a].nonce
  BY <1>2
<1> QED
  BY <1>3 DEF Chain, BaselineInv, BaselineChain

\* One landed commitment extends the chain by its next link.
LEMMA WriteCommitInv ==
  ASSUME BaselineInv, NEW a \in Wallet, NEW kind \in CommitterKind, NEW hash \in Hash,
         NEW nonce \in Nat, NEW writer \in Writer,
         CanCommit(a, kind, nonce), WriteCommit(a, kind, hash, nonce, writer)
  PROVE  BaselineInv'
<1> DEFINE link == [agent |-> a, nonce |-> nonce, hash |-> hash, kind |-> kind,
                    at |-> today, writer |-> writer]
<1>1. /\ data' = data \cup {link} /\ today' = today
      /\ reg' = [reg EXCEPT ![a].hash = hash, ![a].nonce = nonce, ![a].at = today]
  BY DEF WriteCommit
<1>2. today \in Nat /\ reg \in [Wallet -> Registration] /\ data \subseteq DataAccount
  BY DEF BaselineInv, BaselineTypeOK
<1>3. link \in DataAccount
  BY <1>2 DEF DataAccount
<1>4. /\ reg'[a] = [reg[a] EXCEPT !.hash = hash, !.nonce = nonce, !.at = today]
      /\ \A b \in Wallet : b # a => reg'[b] = reg[b]
      /\ DOMAIN reg' = Wallet /\ reg' = [b \in Wallet |-> reg'[b]]
  BY <1>1, <1>2
<1>5. reg'[a] \in Registration
  BY <1>2, <1>4 DEF Registration
<1>6. BaselineTypeOK'
  BY <1>1, <1>2, <1>3, <1>4, <1>5 DEF BaselineTypeOK
<1>7. nonce = reg[a].nonce + 1 /\ reg[a].nonce \in Nat /\ reg[a].at \in Nat
  BY <1>2 DEF CanCommit, StrictSuccessor, Registration
<1>8. \A b \in Wallet : reg'[b].at <= today'
  BY <1>1, <1>2, <1>4 DEF BaselineInv, Registration
<1>9. /\ Chain(a)' = Chain(a) \cup {link}
      /\ \A b \in Wallet : b # a => Chain(b)' = Chain(b)
  BY <1>1 DEF Chain
<1>10. BaselineChain'
  <2>1. SUFFICES ASSUME NEW b \in Wallet
                 PROVE  /\ {d.nonce : d \in Chain(b)'} = 1..reg'[b].nonce
                        /\ \A d, e \in Chain(b)' :
                             /\ d.nonce = e.nonce => d = e
                             /\ d.nonce = e.nonce + 1 =>
                                  d.at >= e.at + (IF d.kind = "oracle" THEN OracleCooldown ELSE 0)
                        /\ \A d \in Chain(b)' : d.nonce = reg'[b].nonce =>
                             d.hash = reg'[b].hash /\ d.at = reg'[b].at
    BY DEF BaselineChain, Chain
  <2>2. CASE b # a
    BY <1>4, <1>9, <2>2 DEF BaselineInv, BaselineChain
  <2>3. CASE b = a
    <3>1. /\ {d.nonce : d \in Chain(a)} = 1..reg[a].nonce
          /\ \A d, e \in Chain(a) :
               /\ d.nonce = e.nonce => d = e
               /\ d.nonce = e.nonce + 1 =>
                    d.at >= e.at + (IF d.kind = "oracle" THEN OracleCooldown ELSE 0)
          /\ \A d \in Chain(a) : d.nonce = reg[a].nonce =>
               d.hash = reg[a].hash /\ d.at = reg[a].at
      BY DEF BaselineInv, BaselineChain
    <3>2. \A d \in Chain(a) : d \in DataAccount /\ d.nonce \in 1..reg[a].nonce
      BY <1>2, <3>1 DEF Chain
    <3>3. {d.nonce : d \in Chain(a) \cup {link}} = 1..nonce
      <4>0. link.nonce = nonce
        OBVIOUS
      <4>1. {d.nonce : d \in Chain(a) \cup {link}} = {d.nonce : d \in Chain(a)} \cup {nonce}
        <5> HIDE DEF link
        <5> QED
          BY <4>0
      <4>2. 1..reg[a].nonce \cup {reg[a].nonce + 1} = 1..(reg[a].nonce + 1)
        BY <1>7
      <4> QED
        BY <1>7, <3>1, <4>1, <4>2
    <3>4. \A d \in Chain(a) : d.nonce # link.nonce /\ d.nonce # link.nonce + 1
      BY <1>7, <3>2
    <3>5. reg[a].at <= today
      BY DEF BaselineInv
    <3>6. \A e \in Chain(a) : link.nonce = e.nonce + 1 =>
            link.at >= e.at + (IF link.kind = "oracle" THEN OracleCooldown ELSE 0)
      <4>1. SUFFICES ASSUME NEW e \in Chain(a), link.nonce = e.nonce + 1
                     PROVE  today >= e.at + (IF kind = "oracle" THEN OracleCooldown ELSE 0)
        OBVIOUS
      <4>2. e.nonce = reg[a].nonce /\ e.at = reg[a].at /\ reg[a].nonce > 0
        BY <1>7, <3>1, <3>2, <4>1
      <4>3. kind = "oracle" => today >= reg[a].at + OracleCooldown
        BY <4>2 DEF CanCommit, CooldownOver, Committed
      <4> QED
        BY <1>2, <1>7, <3>5, <4>2, <4>3, BaselineAssumption
    <3>7. \A d \in Chain(a) \cup {link} : d.nonce = nonce =>
            d.hash = hash /\ d.at = today
      BY <3>4
    <3>8. reg'[a].nonce = nonce /\ reg'[a].hash = hash /\ reg'[a].at = today
      BY <1>2, <1>4 DEF Registration
    <3>9. link.nonce # link.nonce + 1
      BY <1>7
    <3>10. \A d, e \in Chain(a) \cup {link} :
              /\ d.nonce = e.nonce => d = e
              /\ d.nonce = e.nonce + 1 =>
                   d.at >= e.at + (IF d.kind = "oracle" THEN OracleCooldown ELSE 0)
      <4> HIDE DEF link
      <4> QED
        BY <3>1, <3>4, <3>6, <3>9
    <3> QED
      BY <1>9, <2>3, <3>3, <3>7, <3>8, <3>10
  <2> QED
    BY <2>2, <2>3
<1> QED
  BY <1>6, <1>8, <1>10 DEF BaselineInv

\* The steps of a baseline that commit nothing.
LEMMA QuietBaselineInv ==
  ASSUME BaselineInv
  PROVE  /\ \A a \in Wallet : Deactivate(a) \/ MigrateRegistration(a) => BaselineInv'
         /\ BaselineTick => BaselineInv'
         /\ UNCHANGED <<today, reg, data>> => BaselineInv'
<1>1. today \in Nat /\ reg \in [Wallet -> Registration] /\ data \subseteq DataAccount
  BY DEF BaselineInv, BaselineTypeOK
<1>2. ASSUME NEW a \in Wallet, Deactivate(a) \/ MigrateRegistration(a)
      PROVE  BaselineInv'
  <2>1. today' = today /\ data' = data
    BY <1>2 DEF Deactivate, MigrateRegistration
  <2>2. PICK r : /\ reg' = [reg EXCEPT ![a] = r] /\ r \in Registration
                 /\ r.nonce = reg[a].nonce /\ r.hash = reg[a].hash /\ r.at = reg[a].at
    <3>1. CASE Deactivate(a)
      <4> DEFINE r == [reg[a] EXCEPT !.active = FALSE]
      <4>1. reg' = [reg EXCEPT ![a] = r]
        BY <3>1 DEF Deactivate
      <4>2. /\ r \in Registration
            /\ r.nonce = reg[a].nonce /\ r.hash = reg[a].hash /\ r.at = reg[a].at
        BY <1>1 DEF Registration
      <4> HIDE DEF r
      <4> QED
        BY <4>1, <4>2
    <3>2. CASE MigrateRegistration(a)
      <4> DEFINE r == [reg[a] EXCEPT !.layout = CurrentLayout]
      <4>1. reg' = [reg EXCEPT ![a] = r]
        BY <3>2 DEF MigrateRegistration
      <4>2. /\ r \in Registration
            /\ r.nonce = reg[a].nonce /\ r.hash = reg[a].hash /\ r.at = reg[a].at
        BY <1>1 DEF Registration, CurrentLayout
      <4> HIDE DEF r
      <4> QED
        BY <4>1, <4>2
    <3> QED
      BY <1>2, <3>1, <3>2
  <2>3. /\ reg' \in [Wallet -> Registration]
        /\ \A b \in Wallet : /\ reg'[b].nonce = reg[b].nonce /\ reg'[b].hash = reg[b].hash
                            /\ reg'[b].at = reg[b].at
    BY <1>1, <2>2
  <2> QED
    BY <1>1, <2>1, <2>3 DEF BaselineInv, BaselineTypeOK, BaselineChain, Chain
<1>3. ASSUME BaselineTick
      PROVE  BaselineInv'
  BY <1>1, <1>3 DEF BaselineTick, DayPasses, BaselineInv, BaselineTypeOK, BaselineChain, Chain, Registration
<1>4. ASSUME UNCHANGED <<today, reg, data>>
      PROVE  BaselineInv'
  BY <1>4 DEF BaselineInv, BaselineTypeOK, BaselineChain, Chain
<1> QED
  BY <1>2, <1>3, <1>4

LEMMA BaselineNextInv ==
  ASSUME BaselineInv, [BaselineNext]_baselineVars
  PROVE  BaselineInv'
<1>1. ASSUME NEW a \in Wallet, NEW k \in CommitterKind, NEW h \in Hash, NEW n \in 1..MaxNonce,
             CommitBaseline(a, k, h, n, "direct")
      PROVE  BaselineInv'
  <2>1. n \in Nat
    BY BaselineAssumption
  <2>2. "direct" \in Writer
    BY DEF Writer
  <2> QED
    BY <1>1, <2>1, <2>2, WriteCommitInv DEF CommitBaseline
<1>2. CASE \E a \in Wallet : Deactivate(a) \/ MigrateRegistration(a)
  BY <1>2, QuietBaselineInv
<1>3. CASE BaselineTick
  BY <1>3, QuietBaselineInv
<1>4. CASE UNCHANGED baselineVars
  BY <1>4, QuietBaselineInv DEF baselineVars
<1> QED
  BY <1>1, <1>2, <1>3, <1>4 DEF BaselineNext

\* Whoever commits in whatever order, each agent's baselines form one chain
\* without gap or fork and the registration is its newest link
\* (commit_baseline.rs), for any number of agents, nonces and any cooldown.
THEOREM BaselineIsChain == BaselineSpec => []BaselineChain
<1>1. BaselineSpec => []BaselineInv
  BY BaselineInitInv, BaselineNextInv, PTL DEF BaselineSpec
<1>2. BaselineInv => BaselineChain
  BY DEF BaselineInv
<1> QED
  BY <1>1, <1>2, PTL

-----------------------------------------------------------------------------
(* The committers.                                                         *)

\* A committer's step gives its call the value k and lands at most the
\* transaction of the call; the lemma says what must hold of k.
LEMMA CallStepInv ==
  ASSUME CommitterInv, BaselineInv', NEW c \in Committer, NEW k \in Call,
         call' = [call EXCEPT ![c] = k],
         k.pc = "send" => k.attempts < MaxAttempts,
         data \subseteq data',
         \A d \in data' : \/ d \in data
                          \/ /\ d.writer = c /\ d.agent = call[c].agent
                             /\ d.nonce = call[c].nonce,
         \/ k.agent = call[c].agent /\ k.nonce = call[c].nonce
         \/ data' = data /\ k.nonce = reg[k.agent].nonce + 1,
         k.outcome \in {"ok", "skipped"} =>
           \E d \in data' : d.agent = k.agent /\ d.hash = k.hash
  PROVE  CommitterInv'
<1>1. /\ call'[c] = k
      /\ \A c2 \in Committer : c2 # c => call'[c2] = call[c2]
      /\ call' \in [Committer -> Call]
  BY DEF CommitterInv, CommitterTypeOK
<1>2. CommitterTypeOK'
  BY <1>1 DEF CommitterInv, CommitterTypeOK
<1>3. ReportsSuccessTruly'
  BY <1>1 DEF CommitterInv, ReportsSuccessTruly
<1>4. FixedNonce'
  <2>1. SUFFICES ASSUME NEW c2 \in Committer, NEW d \in data',
                        d.writer = c2, d.agent = call'[c2].agent
                 PROVE  d.nonce <= call'[c2].nonce
    BY DEF FixedNonce
  <2>2. call'[c2].nonce \in Nat
    BY <1>1 DEF Call
  <2>3. CASE d \notin data
    BY <1>1, <2>1, <2>2, <2>3
  <2>4. CASE d \in data /\ call'[c2].agent = call[c2].agent /\ call'[c2].nonce = call[c2].nonce
    BY <2>1, <2>4 DEF CommitterInv, FixedNonce
  <2>5. CASE d \in data /\ c2 = c /\ k.nonce = reg[k.agent].nonce + 1
    <3>1. k.agent \in Wallet /\ d \in Chain(k.agent)
      BY <1>1, <2>1, <2>5 DEF Call, Chain
    <3>2. d.nonce \in 1..reg[k.agent].nonce /\ reg[k.agent].nonce \in Nat
      BY <3>1 DEF CommitterInv, BaselineInv, BaselineChain, BaselineTypeOK, Registration
    <3> QED
      BY <1>1, <2>5, <3>2
  <2> QED
    BY <1>1, <2>3, <2>4, <2>5
<1> QED
  BY <1>2, <1>3, <1>4 DEF CommitterInv

LEMMA CommitterInitInv == CommitterInit => CommitterInv
<1> SUFFICES ASSUME CommitterInit
             PROVE  CommitterInv
  OBVIOUS
<1>1. BaselineInv /\ data = {}
  BY BaselineInitInv DEF CommitterInit, BaselineInit
<1>2. \A c \in Committer : call[c] \in Call /\ call[c].pc = "idle" /\ call[c].outcome = "none"
  <2>1. TAKE c \in Committer
  <2>2. call[c] \in [pc: {"idle"}, agent: Wallet, hash: Hash, nonce: {0}, attempts: {0},
                     refused: {FALSE}, floating: {FALSE}, outcome: {"none"}]
    BY DEF CommitterInit
  <2>3. 0 \in Nat /\ 0 \in 0..MaxAttempts
    BY CommitterAssumption
  <2> QED
    BY <2>2, <2>3 DEF Call, Outcome
<1>3. call \in [Committer -> Call]
  BY <1>2 DEF CommitterInit
<1> QED
  BY <1>1, <1>2, <1>3 DEF CommitterInv, CommitterTypeOK, FixedNonce, ReportsSuccessTruly

\* A transaction that lands extends the chain by the commitment of its call.
LEMMA LandsInv ==
  ASSUME CommitterInv, NEW c \in Committer, Lands(c, call[c].nonce)
  PROVE  /\ BaselineInv' /\ data \subseteq data'
         /\ \A d \in data' : \/ d \in data
                             \/ /\ d.writer = c /\ d.agent = call[c].agent
                                /\ d.nonce = call[c].nonce
<1>1. /\ call[c].agent \in Wallet /\ call[c].hash \in Hash /\ call[c].nonce \in Nat
      /\ KindOf[c] \in CommitterKind /\ c \in Writer
  BY CommitterAssumption DEF CommitterInv, CommitterTypeOK, Call, Writer
<1>2. BaselineInv'
  BY <1>1, WriteCommitInv DEF Lands, CommitterInv
<1> QED
  BY <1>2 DEF Lands, WriteCommit

LEMMA FailedInv ==
  ASSUME CommitterInv, NEW c \in Committer, NEW refusal \in BOOLEAN, NEW delayed \in BOOLEAN,
         call[c].pc = "send", Failed(c, refusal, delayed),
         BaselineInv', data \subseteq data',
         \A d \in data' : \/ d \in data
                          \/ /\ d.writer = c /\ d.agent = call[c].agent
                             /\ d.nonce = call[c].nonce
  PROVE  CommitterInv'
<1> DEFINE last == call[c].attempts + 1 = MaxAttempts
           k == [call[c] EXCEPT !.attempts = @ + 1, !.refused = refusal,
                                !.floating = @ \/ delayed,
                                !.pc = IF last THEN "idle" ELSE "send",
                                !.outcome = IF last THEN "error" ELSE "none"]
<1>1. call[c] \in Call /\ call[c].attempts < MaxAttempts
  BY DEF CommitterInv, CommitterTypeOK
<1>2. call' = [call EXCEPT ![c] = k]
  BY DEF Failed
<1>3. call[c].attempts + 1 \in 0..MaxAttempts /\ (~ last => call[c].attempts + 1 < MaxAttempts)
  BY <1>1, CommitterAssumption DEF Call
<1>4. (call[c].floating \/ delayed) \in BOOLEAN
  BY <1>1 DEF Call
<1>5. /\ k \in Call /\ k.agent = call[c].agent /\ k.nonce = call[c].nonce
      /\ k.outcome \in {"error", "none"} /\ (k.pc = "send" => k.attempts < MaxAttempts)
  <2> HIDE DEF last
  <2> QED
    BY <1>1, <1>3, <1>4 DEF Call, Outcome
<1> HIDE DEF k
<1> QED
  BY <1>2, <1>5, CallStepInv

\* Reading, verifying and expiring write only the call.
LEMMA QuietCallInv ==
  ASSUME CommitterInv, NEW c \in Committer, NEW k \in Call, UNCHANGED <<today, reg, data>>,
         call' = [call EXCEPT ![c] = k],
         k.pc = "send" => k.attempts < MaxAttempts,
         \/ k.agent = call[c].agent /\ k.nonce = call[c].nonce
         \/ k.nonce = reg[k.agent].nonce + 1,
         k.outcome \in {"ok", "skipped"} =>
           \E d \in data : d.agent = k.agent /\ d.hash = k.hash
  PROVE  CommitterInv'
<1>1. BaselineInv'
  BY QuietBaselineInv DEF CommitterInv
<1> QED
  BY <1>1, CallStepInv

LEMMA CommitterStepInv ==
  ASSUME CommitterInv, NEW c \in Committer, CommitterStep(c)
  PROVE  CommitterInv'
<1>0. call[c] \in Call /\ BaselineInv
  BY DEF CommitterInv, CommitterTypeOK
<1>r. call[c].outcome \in {"ok", "skipped"} =>
        \E d \in data : d.agent = call[c].agent /\ d.hash = call[c].hash
  BY DEF CommitterInv, ReportsSuccessTruly
<1>1. CASE Fetch(c)
  <2>1. PICK a \in Wallet, h \in Hash :
          call' = [call EXCEPT ![c] =
            [pc |-> IF Committed(a) /\ reg[a].hash = h THEN "idle" ELSE "send",
             agent |-> a, hash |-> h, nonce |-> reg[a].nonce + 1,
             attempts |-> 0, refused |-> FALSE, floating |-> FALSE,
             outcome |-> IF Committed(a) /\ reg[a].hash = h THEN "skipped" ELSE "none"]]
    BY <1>1 DEF Fetch
  <2> DEFINE done == Committed(a) /\ reg[a].hash = h
             k == [pc |-> IF done THEN "idle" ELSE "send",
                   agent |-> a, hash |-> h, nonce |-> reg[a].nonce + 1,
                   attempts |-> 0, refused |-> FALSE, floating |-> FALSE,
                   outcome |-> IF done THEN "skipped" ELSE "none"]
  <2>2. done => \E d \in data : d.agent = a /\ d.hash = h
    BY <1>0, NewestIsPublished
  <2>3. reg[a].nonce \in Nat
    BY <1>0 DEF BaselineInv, BaselineTypeOK, Registration
  <2>4. 0 \in 0..MaxAttempts /\ 0 < MaxAttempts
    BY CommitterAssumption
  <2>5. call' = [call EXCEPT ![c] = k]
    BY <2>1
  <2> HIDE DEF done
  <2>6. /\ k \in Call /\ k.agent = a /\ k.hash = h /\ k.nonce = reg[a].nonce + 1
        /\ k.attempts = 0 /\ (k.outcome \in {"ok", "skipped"} => done)
    BY <2>3, <2>4 DEF Call, Outcome
  <2> HIDE DEF k
  <2> QED
    BY <1>1, <2>2, <2>4, <2>5, <2>6, QuietCallInv DEF Fetch
<1>2. CASE SendConfirmed(c)
  <2> DEFINE k == [call[c] EXCEPT !.pc = "verify"]
  <2>1. call' = [call EXCEPT ![c] = k] /\ Lands(c, call[c].nonce)
    BY <1>2 DEF SendConfirmed, NonceSent
  <2>2. /\ k \in Call /\ k.agent = call[c].agent /\ k.nonce = call[c].nonce
        /\ k.hash = call[c].hash /\ k.pc = "verify" /\ k.outcome = call[c].outcome
    BY <1>0 DEF Call
  <2> HIDE DEF k
  <2>3. /\ BaselineInv' /\ data \subseteq data'
        /\ \A d \in data' : \/ d \in data
                            \/ /\ d.writer = c /\ d.agent = call[c].agent
                               /\ d.nonce = call[c].nonce
    BY <2>1, LandsInv
  <2>4. k.outcome \in {"ok", "skipped"} => \E d \in data' : d.agent = k.agent /\ d.hash = k.hash
    BY <1>r, <2>2, <2>3
  <2> QED
    BY <2>1, <2>2, <2>3, <2>4, CallStepInv
<1>3. CASE SendUnconfirmed(c)
  BY <1>3, LandsInv, FailedInv DEF SendUnconfirmed, NonceSent
<1>4. CASE SendLost(c)
  BY <1>0, <1>4, QuietBaselineInv, FailedInv DEF SendLost
<1>5. CASE SendRefused(c)
  <2>1. CASE call' = [call EXCEPT ![c].pc = "idle", ![c].outcome = "stale"]
    <3> DEFINE k == [call[c] EXCEPT !.pc = "idle", !.outcome = "stale"]
    <3>1. call' = [call EXCEPT ![c] = k]
      BY <2>1
    <3>2. /\ k \in Call /\ k.agent = call[c].agent /\ k.nonce = call[c].nonce
          /\ k.pc = "idle" /\ k.outcome = "stale"
      BY <1>0 DEF Call, Outcome
    <3> HIDE DEF k
    <3> QED
      BY <1>5, <3>1, <3>2, QuietCallInv DEF SendRefused
  <2>2. CASE Failed(c, TRUE, FALSE)
    BY <1>0, <1>5, <2>2, QuietBaselineInv, FailedInv DEF SendRefused
  <2> QED
    BY <1>5, <2>1, <2>2 DEF SendRefused, Return
<1>6. CASE FloatingLands(c) \/ FloatingExpires(c)
  <2> DEFINE k == [call[c] EXCEPT !.floating = FALSE]
  <2>1. call' = [call EXCEPT ![c] = k]
    BY <1>6 DEF FloatingLands, FloatingExpires
  <2>2. /\ k \in Call /\ k.agent = call[c].agent /\ k.nonce = call[c].nonce
        /\ k.hash = call[c].hash /\ k.pc = call[c].pc /\ k.attempts = call[c].attempts
        /\ k.outcome = call[c].outcome
    BY <1>0 DEF Call
  <2>3. call[c].pc = "send" => call[c].attempts < MaxAttempts
    BY DEF CommitterInv, CommitterTypeOK
  <2> HIDE DEF k
  <2>4. CASE FloatingLands(c)
    <3>1. /\ BaselineInv' /\ data \subseteq data'
          /\ \A d \in data' : \/ d \in data
                              \/ /\ d.writer = c /\ d.agent = call[c].agent
                                 /\ d.nonce = call[c].nonce
      BY <2>4, LandsInv DEF FloatingLands
    <3>2. k.outcome \in {"ok", "skipped"} => \E d \in data' : d.agent = k.agent /\ d.hash = k.hash
      BY <1>r, <2>2, <3>1
    <3> QED
      BY <2>1, <2>2, <2>3, <3>1, <3>2, CallStepInv
  <2>5. CASE FloatingExpires(c)
    <3>1. k.outcome \in {"ok", "skipped"} => \E d \in data : d.agent = k.agent /\ d.hash = k.hash
      BY <1>r, <2>2
    <3>2. UNCHANGED <<today, reg, data>>
      BY <2>5 DEF FloatingExpires
    <3> QED
      BY <2>1, <2>2, <2>3, <3>1, <3>2, QuietCallInv
  <2> QED
    BY <1>6, <2>4, <2>5
<1>7. CASE VerifyCommitted(c)
  <2> DEFINE r == reg[call[c].agent]
             ok == /\ r.hash = call[c].hash /\ r.nonce = call[c].nonce
                   /\ \E d \in data : d.agent = call[c].agent /\ d.nonce = r.nonce
                                      /\ KindOf[c] = d.kind
             k == [call[c] EXCEPT !.pc = "idle", !.outcome = IF ok THEN "ok" ELSE "mismatch"]
  <2>1. call' = [call EXCEPT ![c] = k]
    BY <1>7 DEF VerifyCommitted, Return
  <2>2. ok => \E d \in data : d.agent = call[c].agent /\ d.hash = call[c].hash
    <3> SUFFICES ASSUME ok
                 PROVE  \E d \in data : d.agent = call[c].agent /\ d.hash = call[c].hash
      OBVIOUS
    <3>1. PICK d \in data : d.agent = call[c].agent /\ d.nonce = r.nonce
      OBVIOUS
    <3>2. d.hash = r.hash
      BY <1>0, <3>1 DEF BaselineInv, BaselineChain, Chain, Call
    <3> QED
      BY <3>1, <3>2
  <2> HIDE DEF ok
  <2>3. /\ k \in Call /\ k.agent = call[c].agent /\ k.nonce = call[c].nonce
        /\ k.hash = call[c].hash /\ k.pc = "idle" /\ (k.outcome \in {"ok", "skipped"} => ok)
    BY <1>0 DEF Call, Outcome
  <2> HIDE DEF k
  <2> QED
    BY <1>7, <2>1, <2>2, <2>3, QuietCallInv DEF VerifyCommitted
<1> QED
  BY <1>1, <1>2, <1>3, <1>4, <1>5, <1>6, <1>7 DEF CommitterStep

LEMMA CommitterNextInv ==
  ASSUME CommitterInv, [CommitterNext]_committerVars
  PROVE  CommitterInv'
<1>1. CASE \E c \in Committer : CommitterStep(c)
  BY <1>1, CommitterStepInv
<1>2. ASSUME UNCHANGED <<data, call>>, BaselineInv'
      PROVE  CommitterInv'
  BY <1>2 DEF CommitterInv, CommitterTypeOK, FixedNonce, ReportsSuccessTruly
<1>3. CASE (\E a \in Wallet : Deactivate(a) \/ MigrateRegistration(a)) /\ UNCHANGED call
  BY <1>2, <1>3, QuietBaselineInv DEF Deactivate, MigrateRegistration, CommitterInv
<1>4. CASE BaselineTick /\ UNCHANGED call
  BY <1>2, <1>4, QuietBaselineInv DEF BaselineTick, CommitterInv
<1>5. CASE UNCHANGED committerVars
  BY <1>2, <1>5, QuietBaselineInv DEF committerVars, CommitterInv
<1> QED
  BY <1>1, <1>3, <1>4, <1>5 DEF CommitterNext

\* One call publishes at most one baseline: the copies of its transaction all
\* carry one nonce, and the chain has one link at it.
LEMMA CommitterInvOncePerCall == CommitterInv => OncePerCall
<1> SUFFICES ASSUME CommitterInv, NEW c \in Committer
             PROVE  Cardinality({d \in data : /\ d.writer = c /\ d.agent = call[c].agent
                                              /\ d.nonce >= call[c].nonce}) <= 1
  BY DEF OncePerCall, CommitterInv, ReportsSuccessTruly
<1> DEFINE mine == {d \in data : /\ d.writer = c /\ d.agent = call[c].agent
                                 /\ d.nonce >= call[c].nonce}
<1>1. \A d, e \in mine : d = e
  <2>1. TAKE d, e \in mine
  <2>2. d.nonce \in Nat /\ e.nonce \in Nat /\ call[c].nonce \in Nat /\ call[c].agent \in Wallet
    BY DEF CommitterInv, CommitterTypeOK, BaselineInv, BaselineTypeOK, DataAccount, Call
  <2>3. d.nonce <= call[c].nonce /\ e.nonce <= call[c].nonce
    BY DEF CommitterInv, FixedNonce
  <2> QED
    BY <2>2, <2>3 DEF CommitterInv, BaselineInv, BaselineChain, Chain
<1>2. CASE mine = {}
  BY <1>2, FS_EmptySet
<1>3. CASE mine # {}
  <2>1. PICK d : d \in mine
    BY <1>3
  <2>2. mine = {d}
    BY <1>1, <2>1
  <2> QED
    BY <2>2, FS_Singleton
<1> QED
  BY <1>2, <1>3

\* Whatever committers race, re-send and lose track of, an agent's baselines
\* form one chain, a committer that reports success has published its hash,
\* and one call publishes at most once, for any number of committers, agents,
\* attempts and nonces (commit_baseline.rs, commit_baseline.py).
THEOREM CommittersPublishOnce == CommitterSpec => []BaselinesPublishedOnce
<1>1. CommitterSpec => []CommitterInv
  BY CommitterInitInv, CommitterNextInv, PTL DEF CommitterSpec
<1>2. CommitterInv => BaselinesPublishedOnce
  BY CommitterInvOncePerCall DEF BaselinesPublishedOnce, CommitterInv, BaselineInv
<1> QED
  BY <1>1, <1>2, PTL

-----------------------------------------------------------------------------
(* The issuer's configuration.                                             *)

LEMMA KeysOfCluster ==
  ASSUME NEW c \in Cluster
  PROVE  KeySeq(c) \in Seq(Key) /\ Keys(c) \subseteq Key
<1>1. c.members \in Seq(Member) /\ DOMAIN c.members = 1..Len(c.members)
  BY DEF Cluster
<1>2. \A i \in DOMAIN c.members : c.members[i].key \in Key
  <2>1. TAKE i \in DOMAIN c.members
  <2>2. c.members[i] \in Member
    BY <1>1
  <2> QED
    BY <2>2 DEF Member
<1>3. KeySeq(c) \in [1..Len(c.members) -> Key] /\ Len(c.members) \in Nat
  BY <1>1, <1>2 DEF KeySeq
<1>4. KeySeq(c) \in Seq(Key)
  BY <1>3
<1> QED
  BY <1>2, <1>4 DEF Keys

LEMMA IssuerInitInv == IssuerInit => IssuerTypeOK /\ LineageInv
<1> SUFFICES ASSUME IssuerInit
             PROVE  IssuerTypeOK /\ LineageInv
  OBVIOUS
<1>1. PICK g \in GenesisArgs :
        /\ ValidCluster(g.cluster)
        /\ ValidAttesters(g.attesters, g.cluster)
        /\ issuer = [authority |-> g.authority, cluster |-> g.cluster,
                     attesters |-> g.attesters, version |-> 1,
                     pending |-> NoKey, eta |-> 0]
        /\ clusters = <<g.cluster>>
  BY DEF IssuerInit
<1>2. g.authority \in Key /\ g.cluster \in Cluster /\ g.attesters \in Attesters
  BY IssuerAssumption
<1>3. issuer \in Issuer /\ clusters \in Seq(Cluster) /\ Len(clusters) = 1
  BY <1>1, <1>2 DEF Issuer
<1>4. consented = {} /\ badge \in [Partner -> {"none", "active"} \cup RevokeReason]
  BY DEF IssuerInit
<1>5. Keys(g.cluster) \cap g.attesters.keys = {}
  BY <1>1 DEF ValidAttesters
<1> QED
  BY <1>1, <1>3, <1>4, <1>5 DEF IssuerTypeOK, LineageInv

\* Governance only appends to the history of clusters, and the attesters stay
\* what they were (no instruction rotates them).
LEMMA GovernanceInv ==
  ASSUME IssuerTypeOK, LineageInv, GovernanceStep, today \in Nat
  PROVE  /\ IssuerTypeOK' /\ LineageInv'
         /\ issuer'.attesters = issuer.attesters
         /\ Len(clusters) <= Len(clusters')
         /\ \A v \in 1..Len(clusters) : clusters'[v] = clusters[v]
<1>1. /\ issuer \in Issuer /\ clusters \in Seq(Cluster)
      /\ consented \subseteq [from: Nat, keys: Seq(Key), threshold: Nat]
      /\ badge \in [Partner -> {"none", "active"} \cup RevokeReason]
  BY DEF IssuerTypeOK
<1>2. /\ Len(clusters) = issuer.version /\ issuer.version > 0
      /\ clusters[issuer.version] = issuer.cluster
      /\ \A v \in 1..Len(clusters) : Keys(clusters[v]) \cap issuer.attesters.keys = {}
  BY DEF LineageInv
<1>3. ASSUME NEW c \in ClusterRotationArgs, ConsentToRotation(c)
      PROVE  IssuerTypeOK' /\ UNCHANGED <<issuer, clusters>>
  <2>1. c \in Cluster
    BY IssuerAssumption
  <2>2. KeySeq(c) \in Seq(Key) /\ c.threshold \in Nat /\ issuer.version \in Nat
    BY <1>1, <2>1, KeysOfCluster DEF Cluster, Issuer
  <2> QED
    BY <1>1, <1>3, <2>2 DEF ConsentToRotation, IssuerTypeOK
<1>4. ASSUME NEW k \in Key, NEW c \in ClusterRotationArgs, RotateClusterKeys(k, c)
      PROVE  /\ IssuerTypeOK' /\ LineageInv'
             /\ issuer'.attesters = issuer.attesters
             /\ Len(clusters) <= Len(clusters')
             /\ \A v \in 1..Len(clusters) : clusters'[v] = clusters[v]
  <2>1. c \in Cluster
    BY IssuerAssumption
  <2>2. /\ issuer' = [issuer EXCEPT !.cluster = c, !.version = @ + 1]
        /\ clusters' = Append(clusters, c) /\ UNCHANGED <<consented, badge>>
        /\ Keys(c) \cap issuer.attesters.keys = {}
    BY <1>4 DEF RotateClusterKeys
  <2>3. /\ issuer' \in Issuer /\ issuer'.attesters = issuer.attesters
        /\ issuer'.version = issuer.version + 1 /\ issuer'.cluster = c
    <3>1. issuer.version + 1 \in Nat
      BY <1>1 DEF Issuer
    <3>2. issuer' = [issuer EXCEPT !.cluster = c, !.version = issuer.version + 1]
      BY <2>2
    <3> QED
      BY <1>1, <2>1, <3>1, <3>2 DEF Issuer
  <2>4. /\ clusters' \in Seq(Cluster) /\ Len(clusters') = Len(clusters) + 1
        /\ clusters'[Len(clusters) + 1] = c
        /\ \A v \in 1..Len(clusters) : clusters'[v] = clusters[v]
    BY <1>1, <2>1, <2>2
  <2>5. \A v \in 1..Len(clusters') : Keys(clusters'[v]) \cap issuer'.attesters.keys = {}
    <3>1. TAKE v \in 1..Len(clusters')
    <3>2. v \in 1..Len(clusters) \/ v = Len(clusters) + 1
      BY <1>1, <2>4
    <3> QED
      BY <1>2, <2>2, <2>3, <2>4, <3>2
  <2> QED
    BY <1>1, <1>2, <2>2, <2>3, <2>4, <2>5 DEF IssuerTypeOK, LineageInv
<1>5. ASSUME NEW i, i \in Issuer, issuer' = i, UNCHANGED <<consented, badge, clusters>>,
             i.attesters = issuer.attesters, i.version = issuer.version,
             i.cluster = issuer.cluster
      PROVE  IssuerTypeOK' /\ LineageInv' /\ issuer'.attesters = issuer.attesters
  BY <1>1, <1>2, <1>5 DEF IssuerTypeOK, LineageInv
<1>6. ASSUME NEW k \in Key, NEW s \in SuccessorArgs, ProposeAuthorityTransfer(k, s)
      PROVE  IssuerTypeOK' /\ LineageInv' /\ issuer'.attesters = issuer.attesters
  <2> DEFINE i == [issuer EXCEPT !.pending = s, !.eta = TransferEta]
  <2>1. issuer' = i /\ UNCHANGED <<consented, badge, clusters>>
    BY <1>6 DEF ProposeAuthorityTransfer
  <2>2. s \in Key /\ TransferEta \in Nat
    BY IssuerAssumption DEF TransferEta
  <2>3. /\ i \in Issuer /\ i.attesters = issuer.attesters /\ i.version = issuer.version
        /\ i.cluster = issuer.cluster
    BY <1>1, <2>2 DEF Issuer
  <2> HIDE DEF i
  <2> QED
    BY <1>5, <2>1, <2>3
<1>7. ASSUME NEW k \in Key, AcceptAuthorityTransfer(k)
      PROVE  IssuerTypeOK' /\ LineageInv' /\ issuer'.attesters = issuer.attesters
  <2> DEFINE i == [issuer EXCEPT !.authority = k, !.pending = NoKey, !.eta = 0]
  <2>1. issuer' = i /\ UNCHANGED <<consented, badge, clusters>>
    BY <1>7 DEF AcceptAuthorityTransfer
  <2>2. /\ i \in Issuer /\ i.attesters = issuer.attesters /\ i.version = issuer.version
        /\ i.cluster = issuer.cluster
    BY <1>1 DEF Issuer
  <2> HIDE DEF i
  <2> QED
    BY <1>5, <2>1, <2>2
<1>8. ASSUME NEW k \in Key, CancelAuthorityTransfer(k)
      PROVE  IssuerTypeOK' /\ LineageInv' /\ issuer'.attesters = issuer.attesters
  <2> DEFINE i == [issuer EXCEPT !.pending = NoKey, !.eta = 0]
  <2>1. issuer' = i /\ UNCHANGED <<consented, badge, clusters>>
    BY <1>8 DEF CancelAuthorityTransfer
  <2>2. /\ i \in Issuer /\ i.attesters = issuer.attesters /\ i.version = issuer.version
        /\ i.cluster = issuer.cluster
    BY <1>1 DEF Issuer
  <2> HIDE DEF i
  <2> QED
    BY <1>5, <2>1, <2>2
<1>9. ASSUME NEW p \in Partner,
             \/ RegisterVerifiedConsumer(p)
             \/ \E b \in BOOLEAN, r \in RevokeReason : RevokeVerifiedConsumer(p, b, r)
      PROVE  IssuerTypeOK' /\ UNCHANGED <<issuer, clusters>>
  BY <1>1, <1>9 DEF RegisterVerifiedConsumer, RevokeVerifiedConsumer, IssuerTypeOK
<1>10. ASSUME UNCHANGED <<issuer, clusters>>
       PROVE  LineageInv'
  BY <1>2, <1>10 DEF LineageInv
<1>11. ASSUME UNCHANGED clusters
       PROVE  /\ Len(clusters) <= Len(clusters')
              /\ \A v \in 1..Len(clusters) : clusters'[v] = clusters[v]
  BY <1>1, <1>11
<1>12. CASE \E c \in ClusterRotationArgs : ConsentToRotation(c)
  BY <1>3, <1>10, <1>11, <1>12
<1>13. CASE \E k \in Key, c \in ClusterRotationArgs : RotateClusterKeys(k, c)
  BY <1>4, <1>13
<1>14. CASE \E k \in Key, s \in SuccessorArgs : ProposeAuthorityTransfer(k, s)
  BY <1>6, <1>11, <1>14 DEF ProposeAuthorityTransfer
<1>15. CASE \E k \in Key : AcceptAuthorityTransfer(k) \/ CancelAuthorityTransfer(k)
  BY <1>7, <1>8, <1>11, <1>15 DEF AcceptAuthorityTransfer, CancelAuthorityTransfer
<1>16. CASE \E p \in Partner :
              \/ RegisterVerifiedConsumer(p)
              \/ \E b \in BOOLEAN, r \in RevokeReason : RevokeVerifiedConsumer(p, b, r)
  BY <1>9, <1>10, <1>11, <1>16
<1> QED
  BY <1>12, <1>13, <1>14, <1>15, <1>16 DEF GovernanceStep

-----------------------------------------------------------------------------
(* The certificates.                                                       *)

LEMMA CertInitInv == IssuanceInit => CertInv
<1> SUFFICES ASSUME IssuanceInit
             PROVE  CertInv
  OBVIOUS
<1>1. BaselineInv /\ IssuerTypeOK /\ LineageInv
  BY BaselineInitInv, IssuerInitInv DEF IssuanceInit
<1>2. epoch \in 1..MaxEpoch /\ bundles = {} /\ escrow = {}
  BY CertificateAssumption DEF IssuanceInit
<1>3. stats \in [Wallet -> Stats]
  BY DEF IssuanceInit, Stats
<1>4. cert \in [Wallet \X (1..MaxEpoch) -> HealthCertificate \cup {NoCert}] /\ Issued = {}
  BY DEF IssuanceInit, Issued
<1>5. CertTypeOK
  BY <1>1, <1>2, <1>3, <1>4 DEF CertTypeOK, BaselineInv
<1> QED
  BY <1>1, <1>2, <1>4, <1>5
     DEF CertInv, BundlesAreSigned, CertificatesAreBundled, CertificateBacked,
         EscrowedScoreIsAuditable

\* What CertInv says of a certificate that was issued.
LEMMA IssuedFacts ==
  ASSUME CertInv, NEW x \in Issued
  PROVE  /\ x \in Wallet \X (1..MaxEpoch) /\ cert[x] \in HealthCertificate
         /\ cert[x].bundle \in bundles
         /\ cert[x].bundle.payload.version = cert[x].version
         /\ cert[x].version \in 1..Len(clusters)
         /\ cert[x].bundle.all \subseteq Keys(clusters[cert[x].version])
<1>1. x \in Wallet \X (1..MaxEpoch) /\ cert[x] \in HealthCertificate
  BY DEF CertInv, CertTypeOK, Issued
<1>2. cert[x].bundle \in bundles /\ cert[x].bundle.payload \in Payload
  BY <1>1 DEF CertInv, CertificatesAreBundled, CertTypeOK, Bundle
<1>3. [cert[x].bundle.payload EXCEPT !.anchor = 0].version = cert[x].version
  BY DEF CertInv, CertificateBacked
<1>4. cert[x].bundle.payload.version = cert[x].version
  BY <1>2, <1>3 DEF Payload
<1> QED
  BY <1>1, <1>2, <1>4 DEF CertInv, BundlesAreSigned

\* Steps that leave the certificates and the escrows alone.
LEMMA CertUnchangedInv ==
  ASSUME CertInv, UNCHANGED <<cert, escrow>>, bundles \subseteq bundles', data \subseteq data',
         issuer'.attesters = issuer.attesters,
         \A v \in 1..Len(clusters) : clusters'[v] = clusters[v],
         BaselineInv', IssuerTypeOK', LineageInv', BundlesAreSigned',
         epoch' \in 1..MaxEpoch, stats' \in [Wallet -> Stats], bundles' \subseteq Bundle
  PROVE  CertInv'
<1>1. Issued' = Issued
  BY DEF Issued
<1>2. CertTypeOK'
  BY DEF CertInv, CertTypeOK, BaselineInv
<1>3. CertificatesAreBundled'
  BY <1>1 DEF CertInv, CertificatesAreBundled
<1>4. CertificateBacked'
  BY <1>1, IssuedFacts DEF CertInv, CertificateBacked
<1>5. EscrowedScoreIsAuditable'
  BY <1>1 DEF CertInv, EscrowedScoreIsAuditable
<1> QED
  BY <1>2, <1>3, <1>4, <1>5 DEF CertInv

LEMMA BaselineKeepsData == ASSUME [BaselineNext]_baselineVars PROVE data \subseteq data'
BY DEF BaselineNext, baselineVars, Deactivate, MigrateRegistration, BaselineTick,
       CommitBaseline, WriteCommit

LEMMA BaselineCertInv ==
  ASSUME CertInv, [BaselineNext]_baselineVars, UNCHANGED <<issuerVars, certVars>>
  PROVE  CertInv'
<1>1. BaselineInv' /\ data \subseteq data'
  BY BaselineNextInv, BaselineKeepsData DEF CertInv
<1>2. IssuerTypeOK' /\ LineageInv' /\ BundlesAreSigned'
  BY DEF CertInv, CertTypeOK, IssuerTypeOK, LineageInv, BundlesAreSigned, issuerVars, certVars
<1> QED
  BY <1>1, <1>2, CertUnchangedInv DEF issuerVars, certVars, CertInv, CertTypeOK

LEMMA GovernanceCertInv ==
  ASSUME CertInv, GovernanceStep, UNCHANGED <<today, reg, data, certVars>>
  PROVE  CertInv'
<1>1. BaselineInv' /\ today \in Nat
  BY QuietBaselineInv DEF CertInv, BaselineInv, BaselineTypeOK
<1>2. /\ IssuerTypeOK' /\ LineageInv' /\ issuer'.attesters = issuer.attesters
      /\ Len(clusters) <= Len(clusters')
      /\ \A v \in 1..Len(clusters) : clusters'[v] = clusters[v]
  BY <1>1, GovernanceInv DEF CertInv, CertTypeOK
<1>3. Len(clusters) \in Nat /\ Len(clusters') \in Nat
  BY <1>2 DEF CertInv, CertTypeOK, IssuerTypeOK
<1>4. BundlesAreSigned'
  BY <1>2, <1>3 DEF CertInv, BundlesAreSigned, certVars
<1> QED
  BY <1>1, <1>2, <1>4, CertUnchangedInv DEF certVars, CertInv, CertTypeOK

\* The parts of the invariant that a step of the certificates never touches.
LEMMA QuietChainInv ==
  ASSUME CertInv, UNCHANGED <<today, reg, data, issuerVars>>
  PROVE  /\ BaselineInv' /\ IssuerTypeOK' /\ LineageInv'
         /\ issuer'.attesters = issuer.attesters
         /\ data \subseteq data'
         /\ \A v \in 1..Len(clusters) : clusters'[v] = clusters[v]
<1>1. BaselineInv'
  BY QuietBaselineInv DEF CertInv
<1> QED
  BY <1>1 DEF CertInv, CertTypeOK, IssuerTypeOK, LineageInv, issuerVars

LEMMA RecordInv ==
  ASSUME CertInv, UNCHANGED <<today, reg, data, issuerVars>>,
         \/ AdvanceEpoch
         \/ \E a \in Wallet, h \in Hash, e \in 1..MaxEpoch, n \in 1..MaxNonce :
              RecordBaseline(a, h, e, n)
  PROVE  CertInv'
<1>1. UNCHANGED <<bundles, cert, escrow>>
  BY DEF AdvanceEpoch, RecordBaseline
<1>2. epoch' \in 1..MaxEpoch
  BY CertificateAssumption DEF AdvanceEpoch, RecordBaseline, CertInv
<1>3. stats' \in [Wallet -> Stats]
  <2>1. CASE AdvanceEpoch
    BY <2>1 DEF AdvanceEpoch, CertInv, CertTypeOK
  <2>2. ASSUME NEW a \in Wallet, NEW h \in Hash, NEW e \in 1..MaxEpoch, NEW n \in 1..MaxNonce,
               RecordBaseline(a, h, e, n)
        PROVE  stats' \in [Wallet -> Stats]
    <3>1. stats[a] \in Stats /\ today \in Nat /\ e \in Nat /\ n \in Nat
      BY BaselineAssumption, CertificateAssumption DEF CertInv, CertTypeOK, BaselineTypeOK
    <3>2. FirstRecorded(a) \in Nat
      BY <3>1 DEF FirstRecorded, Stats
    <3>3. [hash |-> h, nonce |-> n, epoch |-> e, first |-> FirstRecorded(a)] \in Stats
      BY <3>1, <3>2 DEF Stats
    <3> QED
      BY <2>2, <3>3 DEF RecordBaseline, CertInv, CertTypeOK
  <2> QED
    BY <2>1, <2>2
<1>4. BundlesAreSigned'
  BY <1>1 DEF CertInv, BundlesAreSigned, issuerVars
<1> QED
  BY <1>1, <1>2, <1>3, <1>4, QuietChainInv, CertUnchangedInv DEF CertInv, CertTypeOK

LEMMA CollectInv ==
  ASSUME CertInv, UNCHANGED <<today, reg, data, issuerVars>>, NEW a \in Wallet,
         NEW alert \in Alert, NEW s \in SUBSET Keys(issuer.cluster),
         CollectSignatures(a, alert, s)
  PROVE  CertInv'
<1> DEFINE p == CurrentPayload(a, epoch, alert)
           b == [payload |-> p, all |-> s,
                 signers |-> Aggregate(s, issuer.cluster.threshold)]
<1>1. bundles' = bundles \cup {b} /\ UNCHANGED <<epoch, stats, cert, escrow>>
  BY DEF CollectSignatures
<1>2. issuer \in Issuer /\ stats[a] \in Stats /\ today \in Nat /\ epoch \in 1..MaxEpoch
  BY DEF CertInv, CertTypeOK, IssuerTypeOK, BaselineTypeOK
<1>3. p \in Payload /\ p.version = issuer.version /\ p.epoch = epoch
  <2>1. epoch \in Nat
    BY <1>2, CertificateAssumption
  <2> QED
    BY <1>2, <2>1, CertificateAssumption, BaselineAssumption
       DEF CurrentPayload, Payload, Stats, Issuer, CollectSignatures
<1>4. s \subseteq Key /\ Aggregate(s, issuer.cluster.threshold) \subseteq Key
  BY <1>2, KeysOfCluster DEF Issuer, Aggregate
<1>5. b \in Bundle /\ b.payload = p /\ b.all = s
  <2> HIDE DEF p
  <2> QED
    BY <1>3, <1>4 DEF Bundle
<1>6. issuer.version \in 1..Len(clusters) /\ clusters[issuer.version] = issuer.cluster
  <2>1. clusters \in Seq(Cluster)
    BY DEF CertInv, CertTypeOK, IssuerTypeOK
  <2> QED
    BY <2>1 DEF CertInv, LineageInv
<1> HIDE DEF b, p
<1>7. BundlesAreSigned'
  BY <1>1, <1>2, <1>3, <1>5, <1>6 DEF CertInv, BundlesAreSigned, issuerVars
<1>8. bundles' \subseteq Bundle
  BY <1>1, <1>5 DEF CertInv, CertTypeOK
<1> QED
  BY <1>1, <1>2, <1>7, <1>8, QuietChainInv, CertUnchangedInv DEF CertInv, CertTypeOK

\* Every step that writes a certificate either fills an empty slot from a
\* signed bundle or gives an open certificate its verdict: c is what the slot
\* holds afterwards.
LEMMA WriteCertInv ==
  ASSUME CertInv, UNCHANGED <<today, reg, data, issuerVars, epoch, stats, bundles>>,
         NEW x \in Wallet \X (1..MaxEpoch), NEW c \in HealthCertificate,
         cert' = [cert EXCEPT ![x] = c],
         c.bundle \in bundles, c.attesters \subseteq issuer.attesters.keys,
         [c.bundle.payload EXCEPT !.anchor = 0] =
           [agent |-> x[1], epoch |-> x[2], alert |-> c.alert, hash |-> c.hash,
            nonce |-> c.nonce, version |-> c.version, anchor |-> 0],
         Cardinality(c.bundle.signers \cap Keys(clusters[c.version]))
           >= clusters[c.version].threshold,
         Cardinality(Domains(clusters[c.version], c.bundle.signers))
           >= clusters[c.version].threshold,
         cert[x] = NoCert \/ c.hash = cert[x].hash,
         \/ escrow' = escrow
         \/ escrow' = escrow \cup {x} /\ \E d \in data : d.agent = x[1] /\ d.hash = c.hash
  PROVE  CertInv'
<1>1. cert \in [Wallet \X (1..MaxEpoch) -> HealthCertificate \cup {NoCert}]
  BY DEF CertInv, CertTypeOK
<1>2. c # NoCert
  BY DEF HealthCertificate, Verdict, NoCert
<1>3. /\ cert'[x] = c /\ \A y \in Wallet \X (1..MaxEpoch) : y # x => cert'[y] = cert[y]
      /\ cert' \in [Wallet \X (1..MaxEpoch) -> HealthCertificate \cup {NoCert}]
  BY <1>1
<1>4. Issued' = Issued \cup {x} /\ \A y \in Issued' : y \in Wallet \X (1..MaxEpoch)
  BY <1>1, <1>2, <1>3 DEF Issued
<1>5. CertTypeOK'
  BY <1>3, QuietChainInv DEF CertInv, CertTypeOK, BaselineInv
<1>6. BundlesAreSigned'
  BY DEF CertInv, BundlesAreSigned, issuerVars
<1>7. CertificatesAreBundled'
  BY <1>3, <1>4 DEF CertInv, CertificatesAreBundled, issuerVars
<1>8. CertificateBacked'
  <2>1. SUFFICES ASSUME NEW y \in Issued'
                 PROVE  /\ [cert'[y].bundle.payload EXCEPT !.anchor = 0] =
                             [agent |-> y[1], epoch |-> y[2], alert |-> cert'[y].alert,
                              hash |-> cert'[y].hash, nonce |-> cert'[y].nonce,
                              version |-> cert'[y].version, anchor |-> 0]
                        /\ Cardinality(cert'[y].bundle.signers
                             \cap Keys(clusters[cert'[y].version]))
                             >= clusters[cert'[y].version].threshold
                        /\ Cardinality(Domains(clusters[cert'[y].version],
                             cert'[y].bundle.signers))
                             >= clusters[cert'[y].version].threshold
    BY DEF CertificateBacked, issuerVars
  <2>2. CASE y = x
    BY <1>3, <2>2
  <2>3. CASE y # x
    <3>1. y \in Issued /\ cert'[y] = cert[y]
      BY <1>3, <1>4, <2>3
    <3> QED
      BY <3>1 DEF CertInv, CertificateBacked
  <2> QED
    BY <2>2, <2>3
<1>9. EscrowedScoreIsAuditable'
  <2>1. SUFFICES ASSUME NEW y \in escrow'
                 PROVE  y \in Issued' /\ \E d \in data : d.agent = y[1] /\ d.hash = cert'[y].hash
    BY DEF EscrowedScoreIsAuditable
  <2>2. CASE y \in escrow /\ y # x
    BY <1>3, <1>4, <2>2 DEF CertInv, EscrowedScoreIsAuditable
  <2>3. CASE y \in escrow /\ y = x
    <3>1. x \in Issued /\ \E d \in data : d.agent = x[1] /\ d.hash = cert[x].hash
      BY <2>3 DEF CertInv, EscrowedScoreIsAuditable
    <3>2. c.hash = cert[x].hash
      BY <3>1 DEF Issued
    <3> QED
      BY <1>3, <1>4, <2>3, <3>1, <3>2
  <2>4. CASE y \notin escrow
    BY <1>3, <1>4, <2>1, <2>4
  <2> QED
    BY <2>2, <2>3, <2>4
<1> QED
  BY <1>5, <1>6, <1>7, <1>8, <1>9, QuietChainInv DEF CertInv

LEMMA IssueInv ==
  ASSUME CertInv, UNCHANGED <<today, reg, data, issuerVars>>, NEW b \in bundles,
         IssueDirectly(b) \/ SubmitScore(b)
  PROVE  CertInv'
<1> DEFINE p == b.payload
           x == <<p.agent, p.epoch>>
           c == [alert |-> p.alert, hash |-> stats[p.agent].hash,
                 nonce |-> stats[p.agent].nonce, version |-> issuer.version, at |-> today,
                 verdict |-> "none", bundle |-> b, attesters |-> {}]
<1>1. /\ cert' = [cert EXCEPT ![x] = c] /\ cert[x] = NoCert
      /\ DigestMatches(p) /\ ThresholdSigned(b.signers) /\ UNCHANGED <<epoch, stats, bundles>>
      /\ stats[p.agent].hash # NoHash
  BY DEF IssueDirectly, SubmitScore, Issue
<1>2. /\ b \in Bundle /\ p \in Payload /\ p.agent \in Wallet /\ p.alert \in Alert
      /\ x \in Wallet \X (1..MaxEpoch)
  BY DEF CertInv, CertTypeOK, BundlesAreSigned, Bundle, Payload
<1>3. stats[p.agent] \in Stats /\ today \in Nat /\ issuer \in Issuer
  BY <1>2 DEF CertInv, CertTypeOK, BaselineTypeOK, IssuerTypeOK
<1>4. /\ stats[p.agent].hash \in Hash /\ stats[p.agent].nonce \in Nat /\ issuer.version \in Nat
  BY <1>1, <1>3 DEF Stats, Issuer
<1>5. c \in HealthCertificate
  BY <1>2, <1>3, <1>4 DEF HealthCertificate, Verdict
<1>6. /\ p.hash = stats[p.agent].hash /\ p.nonce = stats[p.agent].nonce
      /\ p.version = issuer.version
  BY <1>1 DEF DigestMatches
<1>7. [p EXCEPT !.anchor = 0] =
        [agent |-> p.agent, epoch |-> p.epoch, alert |-> p.alert, hash |-> p.hash,
         nonce |-> p.nonce, version |-> p.version, anchor |-> 0]
  BY <1>2 DEF Payload
<1>8. clusters[issuer.version] = issuer.cluster
  BY DEF CertInv, LineageInv
<1>9. /\ Cardinality(b.signers \cap Keys(clusters[issuer.version]))
           >= clusters[issuer.version].threshold
      /\ Cardinality(Domains(clusters[issuer.version], b.signers))
           >= clusters[issuer.version].threshold
  BY <1>1, <1>8 DEF ThresholdSigned
<1>10. \/ escrow' = escrow
       \/ /\ escrow' = escrow \cup {x}
          /\ \E d \in data : d.agent = p.agent /\ d.hash = stats[p.agent].hash
  <2>1. CASE IssueDirectly(b)
    BY <2>1 DEF IssueDirectly
  <2>2. CASE SubmitScore(b)
    <3>1. /\ Committed(p.agent) /\ stats[p.agent].hash = reg[p.agent].hash
          /\ b.payload.epoch = epoch /\ escrow' = escrow \cup {<<p.agent, epoch>>}
      BY <2>2 DEF SubmitScore
    <3>2. \E d \in data : d.agent = p.agent /\ d.hash = reg[p.agent].hash
      BY <1>2, <3>1, NewestIsPublished DEF CertInv
    <3> QED
      BY <3>1, <3>2
  <2> QED
    BY <2>1, <2>2
<1>11. /\ c.bundle = b /\ c.attesters = {} /\ c.version = issuer.version
       /\ c.alert = p.alert /\ c.hash = p.hash /\ c.nonce = p.nonce
       /\ x[1] = p.agent /\ x[2] = p.epoch
  BY <1>6
<1>12. [c.bundle.payload EXCEPT !.anchor = 0] =
           [agent |-> x[1], epoch |-> x[2], alert |-> c.alert, hash |-> c.hash,
            nonce |-> c.nonce, version |-> c.version, anchor |-> 0]
  <2> HIDE DEF c, x
  <2> QED
    BY <1>6, <1>7, <1>11
<1>13. x \in Wallet \X (1..MaxEpoch) /\ c \in HealthCertificate
  BY <1>2, <1>5
<1>14. cert' = [cert EXCEPT ![x] = c] /\ cert[x] = NoCert
  BY <1>1
<1> HIDE DEF c, x
<1>15. /\ c.bundle \in bundles /\ c.attesters \subseteq issuer.attesters.keys
       /\ Cardinality(c.bundle.signers \cap Keys(clusters[c.version]))
            >= clusters[c.version].threshold
       /\ Cardinality(Domains(clusters[c.version], c.bundle.signers))
            >= clusters[c.version].threshold
  BY <1>9, <1>11
<1>16. \/ escrow' = escrow
       \/ escrow' = escrow \cup {x} /\ \E d \in data : d.agent = x[1] /\ d.hash = c.hash
  BY <1>6, <1>10, <1>11
<1> QED
  BY <1>1, <1>12, <1>13, <1>14, <1>15, <1>16, WriteCertInv

LEMMA JudgeInv ==
  ASSUME CertInv, UNCHANGED <<today, reg, data, issuerVars>>,
         NEW a \in Wallet, NEW e \in 1..MaxEpoch,
         \/ \E same \in BOOLEAN, s \in SUBSET issuer.attesters.keys :
              ChallengeCertificate(a, e, same, s)
         \/ InvalidateCertificate(a, e)
  PROVE  CertInv'
<1> DEFINE x == <<a, e>>
<1>1. UNCHANGED <<epoch, stats, bundles, escrow>> /\ Standing(cert[x])
  BY DEF ChallengeCertificate, InvalidateCertificate
<1>2. PICK v \in Verdict, s \in SUBSET issuer.attesters.keys :
        cert' = [cert EXCEPT ![x] = [cert[x] EXCEPT !.verdict = v, !.attesters = s]]
  <2>1. CASE InvalidateCertificate(a, e)
    <3>1. cert[x].attesters \subseteq issuer.attesters.keys /\ cert[x] \in HealthCertificate
      BY <1>1 DEF CertInv, CertTypeOK, CertificatesAreBundled, Issued, Standing
    <3>2. [cert[x] EXCEPT !.verdict = "invalidated"] =
            [cert[x] EXCEPT !.verdict = "invalidated", !.attesters = cert[x].attesters]
      BY <3>1 DEF HealthCertificate
    <3>3. cert' = [cert EXCEPT ![x] = [cert[x] EXCEPT !.verdict = "invalidated"]]
      BY <2>1 DEF InvalidateCertificate
    <3>4. "invalidated" \in Verdict
      BY DEF Verdict
    <3> QED
      BY <3>1, <3>2, <3>3, <3>4
  <2>2. ASSUME NEW same \in BOOLEAN, NEW s \in SUBSET issuer.attesters.keys,
               ChallengeCertificate(a, e, same, s)
        PROVE  \E v \in Verdict, t \in SUBSET issuer.attesters.keys :
                 cert' = [cert EXCEPT ![x] = [cert[x] EXCEPT !.verdict = v, !.attesters = t]]
    <3> DEFINE v == IF same THEN "rejected" ELSE "upheld"
    <3>1. v \in Verdict
      BY DEF Verdict
    <3>2. cert' = [cert EXCEPT ![x] = [cert[x] EXCEPT !.verdict = v, !.attesters = s]]
      BY <2>2 DEF ChallengeCertificate
    <3> HIDE DEF v
    <3> QED
      BY <3>1, <3>2
  <2> QED
    BY <2>1, <2>2
<1> DEFINE c == [cert[x] EXCEPT !.verdict = v, !.attesters = s]
<1>3. x \in Issued
  BY <1>1 DEF CertInv, CertTypeOK, Issued, Standing
<1>4. cert[x] \in HealthCertificate /\ cert[x].bundle \in bundles
  BY <1>3, IssuedFacts
<1>5. s \in SUBSET Key
  BY DEF CertInv, CertTypeOK, IssuerTypeOK, Issuer, Attesters
<1>6. /\ c \in HealthCertificate /\ c.bundle = cert[x].bundle /\ c.attesters = s
      /\ c.alert = cert[x].alert /\ c.hash = cert[x].hash /\ c.nonce = cert[x].nonce
      /\ c.version = cert[x].version
  BY <1>4, <1>5 DEF HealthCertificate
<1>7. cert' = [cert EXCEPT ![x] = c]
  BY <1>2
<1>8. /\ [cert[x].bundle.payload EXCEPT !.anchor = 0] =
             [agent |-> x[1], epoch |-> x[2], alert |-> cert[x].alert, hash |-> cert[x].hash,
              nonce |-> cert[x].nonce, version |-> cert[x].version, anchor |-> 0]
      /\ Cardinality(cert[x].bundle.signers \cap Keys(clusters[cert[x].version]))
           >= clusters[cert[x].version].threshold
      /\ Cardinality(Domains(clusters[cert[x].version], cert[x].bundle.signers))
           >= clusters[cert[x].version].threshold
  BY <1>3 DEF CertInv, CertificateBacked
<1>9. x \in Wallet \X (1..MaxEpoch)
  OBVIOUS
<1> HIDE DEF c, x
<1> QED
  BY <1>1, <1>4, <1>6, <1>7, <1>8, <1>9, WriteCertInv

LEMMA CertNextInv ==
  ASSUME CertInv, [IssuanceNext]_issuanceVars
  PROVE  CertInv'
<1>1. CASE CertificateStep /\ UNCHANGED <<today, reg, data, issuerVars>>
  <2>1. CASE \/ AdvanceEpoch
             \/ \E a \in Wallet, h \in Hash, e \in 1..MaxEpoch, n \in 1..MaxNonce :
                  RecordBaseline(a, h, e, n)
    BY <1>1, <2>1, RecordInv
  <2>2. CASE \E a \in Wallet, alert \in Alert, s \in SUBSET Keys(issuer.cluster) :
               CollectSignatures(a, alert, s)
    BY <1>1, <2>2, CollectInv
  <2>3. CASE \E b \in bundles : IssueDirectly(b) \/ SubmitScore(b)
    BY <1>1, <2>3, IssueInv
  <2>4. CASE \E a \in Wallet, e \in 1..MaxEpoch :
               \/ \E same \in BOOLEAN, s \in SUBSET issuer.attesters.keys :
                    ChallengeCertificate(a, e, same, s)
               \/ InvalidateCertificate(a, e)
    BY <1>1, <2>4, JudgeInv
  <2> QED
    BY <1>1, <2>1, <2>2, <2>3, <2>4 DEF CertificateStep
<1>2. CASE GovernanceStep /\ UNCHANGED <<today, reg, data, certVars>>
  BY <1>2, GovernanceCertInv
<1>3. CASE BaselineNext /\ UNCHANGED <<issuerVars, certVars>>
  BY <1>3, BaselineCertInv
<1>4. CASE UNCHANGED issuanceVars
  BY <1>4, BaselineCertInv DEF issuanceVars, baselineVars
<1> QED
  BY <1>1, <1>2, <1>3, <1>4 DEF IssuanceNext

\* The inductive invariant: the types, the baseline chain, that signatures
\* come from the cluster whose version they name, that no cluster ever shared
\* a key with the attesters, and that a certificate keeps its bundle.
THEOREM CertificateInvariant == IssuanceSpec => []CertInv
BY CertInitInv, CertNextInv, PTL DEF IssuanceSpec

\* Every reachable account of the certificate programs is well formed, for
\* any agents, keys, epochs, thresholds and windows (certificate-issuer and
\* health-oracle).
THEOREM CertificateTypes == IssuanceSpec => []CertTypeOK
<1>1. CertInv => CertTypeOK
  BY DEF CertInv
<1> QED
  BY <1>1, CertificateInvariant, PTL

\* Every certificate says what the cluster of its own version signed, by
\* enough keys in enough fault domains, whatever was rotated or re-recorded
\* between the signing and the submission (issue_certificate.rs), for any
\* clusters, thresholds and number of rotations.
THEOREM CertificatesAreBacked == IssuanceSpec => []CertificateBacked
<1>1. CertInv => CertificateBacked
  BY DEF CertInv
<1> QED
  BY <1>1, CertificateInvariant, PTL

\* No key judges a certificate it signed, whenever either cluster was
\* configured (initialize_config and rotate_cluster_keys keep them disjoint).
THEOREM ChallengesAreIndependent == IssuanceSpec => []ChallengeIsIndependent
<1>1. ASSUME CertInv
      PROVE  ChallengeIsIndependent
  <2>1. SUFFICES ASSUME NEW x \in Issued
                 PROVE  cert[x].attesters \cap cert[x].bundle.all = {}
    BY DEF ChallengeIsIndependent
  <2>2. /\ cert[x].version \in 1..Len(clusters)
        /\ cert[x].bundle.all \subseteq Keys(clusters[cert[x].version])
    BY <1>1, IssuedFacts
  <2>3. Keys(clusters[cert[x].version]) \cap issuer.attesters.keys = {}
    BY <1>1, <2>2 DEF CertInv, LineageInv
  <2>4. cert[x].attesters \subseteq issuer.attesters.keys
    BY <1>1 DEF CertInv, CertificatesAreBundled
  <2> QED
    BY <2>2, <2>3, <2>4
<1> QED
  BY <1>1, CertificateInvariant, PTL

\* A score that was paid for names a baseline whose payload is on chain
\* (submit_score's accounts, atomic with issue_certificate).
THEOREM EscrowedScoresAreAuditable == IssuanceSpec => []EscrowedScoreIsAuditable
<1>1. CertInv => EscrowedScoreIsAuditable
  BY DEF CertInv
<1> QED
  BY <1>1, CertificateInvariant, PTL

-----------------------------------------------------------------------------
(* The certificates implement the register: issuing writes a slot, a       *)
(* challenge or an invalidation judges it, and every other step stutters.  *)

\* Issuing fills an empty slot with an open certificate.
LEMMA FillIsWrite ==
  ASSUME CertTypeOK, NEW x \in Wallet \X (1..MaxEpoch), NEW c \in HealthCertificate,
         cert[x] = NoCert, cert' = [cert EXCEPT ![x] = c], c.verdict = "none"
  PROVE  Register!Write(x)
<1> DEFINE k == [alert |-> c.alert, hash |-> c.hash, nonce |-> c.nonce,
                 version |-> c.version, at |-> c.at]
           Slots == Wallet \X (1..MaxEpoch)
<1>1. /\ DOMAIN cert = Slots /\ DOMAIN cert' = Slots
      /\ cert'[x] = c /\ \A y \in Slots : y # x => cert'[y] = cert[y]
  BY DEF CertTypeOK
<1>2. c # NoCert
  BY DEF HealthCertificate, NoCert
<1>3. Written(c) = {k} /\ Written(cert[x]) = {}
  BY <1>2 DEF Written
<1>4. k \in [alert: Alert, hash: Hash, nonce: Nat, version: Nat, at: Nat]
  BY DEF HealthCertificate
<1>5. VerdictOn(c) = VerdictOn(cert[x])
  BY <1>2 DEF VerdictOn
<1> HIDE DEF k, Slots
<1>6. /\ [y \in DOMAIN cert |-> Written(cert[y])][x] = {}
      /\ [y \in DOMAIN cert' |-> Written(cert'[y])] =
           [[y \in DOMAIN cert |-> Written(cert[y])] EXCEPT ![x] = {k}]
      /\ k \in [y \in DOMAIN cert' |-> Written(cert'[y])][x]
      /\ [y \in DOMAIN cert' |-> VerdictOn(cert'[y])] = [y \in DOMAIN cert |-> VerdictOn(cert[y])]
  <2>1. x \in Slots
    BY DEF Slots
  <2> QED
    BY <1>1, <1>3, <1>5, <2>1
<1> QED
  BY <1>4, <1>6 DEF Register!Write

\* A challenge or an invalidation closes an open certificate, once, and keeps
\* what it says.
LEMMA CloseIsJudge ==
  ASSUME CertTypeOK, NEW x \in Wallet \X (1..MaxEpoch), NEW c \in HealthCertificate,
         cert[x] # NoCert, cert[x].verdict = "none", cert' = [cert EXCEPT ![x] = c],
         c.verdict \in {"upheld", "rejected", "invalidated"}, Written(c) = Written(cert[x])
  PROVE  Register!Judge(x)
<1> DEFINE Slots == Wallet \X (1..MaxEpoch)
           o == c.verdict
<1>1. /\ DOMAIN cert = Slots /\ DOMAIN cert' = Slots
      /\ cert'[x] = c /\ \A y \in Slots : y # x => cert'[y] = cert[y]
  BY DEF CertTypeOK
<1>2. c # NoCert
  BY DEF HealthCertificate, NoCert
<1>3. VerdictOn(c) = o /\ VerdictOn(cert[x]) = "none" /\ Written(cert[x]) # {}
  BY <1>2 DEF VerdictOn, Written
<1>4. o \in Register!Outcome
  BY DEF Register!Outcome
<1>5. x \in Slots
  OBVIOUS
<1> HIDE DEF Slots, o
<1>6. /\ [y \in DOMAIN cert |-> Written(cert[y])][x] # {}
      /\ [y \in DOMAIN cert |-> VerdictOn(cert[y])][x] = "none"
      /\ [y \in DOMAIN cert' |-> VerdictOn(cert'[y])] =
           [[y \in DOMAIN cert |-> VerdictOn(cert[y])] EXCEPT ![x] = o]
      /\ [y \in DOMAIN cert' |-> Written(cert'[y])] = [y \in DOMAIN cert |-> Written(cert[y])]
  BY <1>1, <1>3, <1>5
<1> QED
  BY <1>4, <1>6 DEF Register!Judge

LEMMA IssueIsWrite ==
  ASSUME CertInv, NEW b \in bundles, Issue(b)
  PROVE  Register!Next
<1> DEFINE p == b.payload
           x == <<p.agent, p.epoch>>
           c == [alert |-> p.alert, hash |-> stats[p.agent].hash,
                 nonce |-> stats[p.agent].nonce, version |-> issuer.version, at |-> today,
                 verdict |-> "none", bundle |-> b, attesters |-> {}]
<1>1. cert' = [cert EXCEPT ![x] = c] /\ cert[x] = NoCert /\ stats[p.agent].hash # NoHash
  BY DEF Issue
<1>2. /\ b \in Bundle /\ p.agent \in Wallet /\ p.alert \in Alert
      /\ x \in Wallet \X (1..MaxEpoch)
  BY DEF CertInv, CertTypeOK, BundlesAreSigned, Bundle, Payload
<1>3. stats[p.agent] \in Stats /\ today \in Nat /\ issuer \in Issuer /\ CertTypeOK
  BY <1>2 DEF CertInv, CertTypeOK, BaselineTypeOK, IssuerTypeOK
<1>4. /\ stats[p.agent].hash \in Hash /\ stats[p.agent].nonce \in Nat /\ issuer.version \in Nat
  BY <1>1, <1>3 DEF Stats, Issuer
<1>5. c \in HealthCertificate /\ c.verdict = "none"
  BY <1>2, <1>3, <1>4 DEF HealthCertificate, Verdict
<1> HIDE DEF c, x
<1> QED
  BY <1>1, <1>2, <1>3, <1>5, FillIsWrite DEF Register!Next

LEMMA JudgeIsJudge ==
  ASSUME CertInv, CertInv', NEW a \in Wallet, NEW e \in 1..MaxEpoch,
         \/ \E same \in BOOLEAN, s \in SUBSET issuer.attesters.keys :
              ChallengeCertificate(a, e, same, s)
         \/ InvalidateCertificate(a, e)
  PROVE  Register!Next
<1> DEFINE x == <<a, e>>
<1>1. CertTypeOK /\ cert[x] # NoCert /\ cert[x].verdict = "none" /\ x \in Wallet \X (1..MaxEpoch)
  BY DEF CertInv, ChallengeCertificate, InvalidateCertificate, Standing
<1>2. cert[x] \in HealthCertificate
  BY <1>1 DEF CertTypeOK
<1> DEFINE Judged == /\ cert'[x] \in HealthCertificate \cup {NoCert}
                     /\ cert' = [cert EXCEPT ![x] = cert'[x]]
                     /\ cert'[x].verdict \in {"upheld", "rejected", "invalidated"}
                     /\ cert'[x].alert = cert[x].alert /\ cert'[x].hash = cert[x].hash
                     /\ cert'[x].nonce = cert[x].nonce /\ cert'[x].version = cert[x].version
                     /\ cert'[x].at = cert[x].at
<1>3. Judged
  <2>0. cert'[x] \in HealthCertificate \cup {NoCert}
    BY <1>1 DEF CertInv, CertTypeOK
  <2>1. CASE InvalidateCertificate(a, e)
    <3>1. cert' = [cert EXCEPT ![x] = [cert[x] EXCEPT !.verdict = "invalidated"]]
      BY <2>1 DEF InvalidateCertificate
    <3>2. cert'[x] = [cert[x] EXCEPT !.verdict = "invalidated"]
      BY <1>1, <3>1 DEF CertTypeOK
    <3>3. cert' = [cert EXCEPT ![x] = cert'[x]]
      BY <3>1, <3>2
    <3> QED
      BY <1>2, <2>0, <3>2, <3>3 DEF HealthCertificate
  <2>2. ASSUME NEW same \in BOOLEAN, NEW s \in SUBSET issuer.attesters.keys,
               ChallengeCertificate(a, e, same, s)
        PROVE  Judged
    <3> DEFINE v == IF same THEN "rejected" ELSE "upheld"
    <3>1. cert' = [cert EXCEPT ![x] = [cert[x] EXCEPT !.verdict = v, !.attesters = s]]
      BY <2>2 DEF ChallengeCertificate
    <3>2. cert'[x] = [cert[x] EXCEPT !.verdict = v, !.attesters = s]
      BY <1>1, <3>1 DEF CertTypeOK
    <3>3. v \in {"upheld", "rejected"}
      OBVIOUS
    <3> HIDE DEF v
    <3>4. cert' = [cert EXCEPT ![x] = cert'[x]]
      BY <3>1, <3>2
    <3>5. cert'[x].verdict = v
      BY <1>2, <3>2 DEF HealthCertificate
    <3>6. /\ cert'[x].alert = cert[x].alert /\ cert'[x].hash = cert[x].hash
          /\ cert'[x].nonce = cert[x].nonce /\ cert'[x].version = cert[x].version
          /\ cert'[x].at = cert[x].at
      BY <1>2, <3>2 DEF HealthCertificate
    <3> QED
      BY <2>0, <3>3, <3>4, <3>5, <3>6
  <2> QED
    BY <2>1, <2>2
<1>4. cert'[x] # NoCert
  BY <1>3 DEF NoCert
<1>5. Written(cert'[x]) = Written(cert[x])
  BY <1>1, <1>3, <1>4 DEF Written
<1>6. cert'[x] \in HealthCertificate
  BY <1>3, <1>4
<1> HIDE DEF x
<1> QED
  BY <1>1, <1>3, <1>5, <1>6, CloseIsJudge DEF Register!Next

LEMMA NextIsRegister ==
  ASSUME CertInv, CertInv', [IssuanceNext]_issuanceVars
  PROVE  \/ Register!Next
         \/ UNCHANGED <<[x \in DOMAIN cert |-> Written(cert[x])],
                        [x \in DOMAIN cert |-> VerdictOn(cert[x])]>>
<1>1. CASE UNCHANGED cert
  BY <1>1
<1>2. CASE \E b \in bundles : IssueDirectly(b) \/ SubmitScore(b)
  BY <1>2, IssueIsWrite DEF IssueDirectly, SubmitScore
<1>3. CASE \E a \in Wallet, e \in 1..MaxEpoch :
             \/ \E same \in BOOLEAN, s \in SUBSET issuer.attesters.keys :
                  ChallengeCertificate(a, e, same, s)
             \/ InvalidateCertificate(a, e)
  BY <1>3, JudgeIsJudge
<1> QED
  BY <1>1, <1>2, <1>3
     DEF IssuanceNext, CertificateStep, AdvanceEpoch, RecordBaseline, CollectSignatures, certVars, issuanceVars

\* The certificates implement a register whose slots are written once and
\* whose entries are judged at most once: no re-issuance, re-challenge or
\* invalidation after a verdict rewrites one, whatever the order
\* (issue_certificate, challenge_certificate, invalidate_certificate).
THEOREM CertificatesImplementRegister == IssuanceSpec => ImplementsRegister
<1>1. IssuanceInit => Register!Init
  BY DEF IssuanceInit, Register!Init, Written, VerdictOn
<1>2. CertInv /\ CertInv' /\ [IssuanceNext]_issuanceVars => [Register!Next]_(Register!registerVars)
  BY NextIsRegister DEF Register!registerVars
<1>3. IssuanceSpec => Register!Init /\ [][Register!Next]_(Register!registerVars)
  BY <1>1, <1>2, CertificateInvariant, PTL DEF IssuanceSpec
<1> QED
  BY <1>3 DEF ImplementsRegister, Register!Spec
=============================================================================
