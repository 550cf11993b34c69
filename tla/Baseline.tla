------------------------------ MODULE Baseline ------------------------------
(***************************************************************************)
(* health-oracle's baseline chain: each AgentRegistration carries the      *)
(* nonce of its newest commitment, and each commitment leaves a write-once *)
(* BaselineDataAccount at the address (agent, nonce).  One instruction is  *)
(* one atomic step.  A baseline is named by its hash; that the payload     *)
(* hashes to it, its size and its algorithm version are abstracted.  The   *)
(* Solana clock of the programs that compose is here too.                  *)
(*                                                                         *)
(* Then oracle/commit_baseline.py: one call of submit_baseline_commitment  *)
(* reads the registration, sends a commit for the nonce after the one it   *)
(* read with bounded retries, and reads the account back.  Several         *)
(* committers run it against the same agent, and a transaction whose       *)
(* confirmation was lost may have landed, or may land later.               *)
(***************************************************************************)
EXTENDS Integers, FiniteSets

CONSTANTS
  Wallet,             \* registered agent wallets
  Hash,               \* baseline hashes
  NoHash,             \* the all-zero hash
  MaxNonce,           \* BOUND: u64::MAX of the nonce space
  OracleCooldown,     \* MIN_SECONDS_BETWEEN_ORACLE_COMMITS (24h)
  ClockStart,         \* chain time of the first step
  ClockEnd            \* BOUND: the clock stops here

ASSUME ClockAssumption == ClockStart \in Nat \ {0} /\ ClockEnd \in Nat

ASSUME BaselineAssumption ==
  /\ NoHash \notin Hash
  /\ MaxNonce \in Nat /\ OracleCooldown \in Nat

VARIABLES
  today,   \* Clock::get()?.unix_timestamp
  reg,     \* the AgentRegistration accounts
  data     \* the BaselineDataAccounts

baselineVars == <<today, reg, data>>

ClockInit == today = ClockStart
DayPasses == today < ClockEnd /\ today' = today + 1

CommitterKind == {"oracle", "owner"}
CurrentLayout == 2

Registration == [layout: 1..CurrentLayout, active: BOOLEAN, hash: Hash \cup {NoHash},
                 nonce: Nat, at: Nat]
\* A process of the committer below, or any other client.
Writer == {"direct"} \cup STRING
DataAccount == [agent: Wallet, nonce: Nat, hash: Hash, kind: CommitterKind,
                at: Nat, writer: Writer]

Committed(a) == reg[a].nonce > 0

BaselineInit ==
  /\ ClockInit
  /\ reg \in [Wallet -> {[layout |-> l, active |-> TRUE, hash |-> NoHash,
                         nonce |-> 0, at |-> 0] : l \in 1..CurrentLayout}]
  /\ data = {}

\* The registry that registers and deactivates agents is not in this program.
Deactivate(a) ==
  /\ reg[a].active
  /\ reg' = [reg EXCEPT ![a].active = FALSE]
  /\ UNCHANGED <<today, data>>

MigrateRegistration(a) ==
  /\ reg[a].layout < CurrentLayout
  /\ reg' = [reg EXCEPT ![a].layout = CurrentLayout]
  /\ UNCHANGED <<today, data>>

\* Mutant: any higher nonce is accepted, as before the strict-successor rule.
MutStrictSuccessor(stored, new) == new > stored /\ new <= MaxNonce

\* check_strict_successor_nonce; checked_add refuses to wrap.
StrictSuccessor(stored, new) == new = stored + 1 /\ new <= MaxNonce

\* The owner may rotate at will, the oracle once a cooldown.
CooldownOver(a, kind) ==
  Committed(a) /\ kind = "oracle" => today >= reg[a].at + OracleCooldown

\* Anchor's init refuses an address that holds an account already.
DataAddressFree(a, nonce) == ~ \E d \in data : d.agent = a /\ d.nonce = nonce

\* writer names the transaction's sender, for the properties only: the
\* signature check makes kind and signer one.
CanCommit(a, kind, nonce) ==
  /\ reg[a].active
  /\ reg[a].layout = CurrentLayout
  /\ DataAddressFree(a, nonce)
  /\ StrictSuccessor(reg[a].nonce, nonce)
  /\ CooldownOver(a, kind)

WriteCommit(a, kind, hash, nonce, writer) ==
  /\ data' = data \cup {[agent |-> a, nonce |-> nonce, hash |-> hash,
                         kind |-> kind, at |-> today, writer |-> writer]}
  /\ reg' = [reg EXCEPT ![a].hash = hash, ![a].nonce = nonce, ![a].at = today]
  /\ UNCHANGED today

CommitBaseline(a, kind, hash, nonce, writer) ==
  /\ CanCommit(a, kind, nonce)
  /\ WriteCommit(a, kind, hash, nonce, writer)

BaselineTick == DayPasses /\ UNCHANGED <<reg, data>>

BaselineNext ==
  \/ \E a \in Wallet : Deactivate(a) \/ MigrateRegistration(a)
  \/ \E a \in Wallet, k \in CommitterKind, h \in Hash, n \in 1..MaxNonce :
       CommitBaseline(a, k, h, n, "direct")
  \/ BaselineTick

BaselineSpec == BaselineInit /\ [][BaselineNext]_baselineVars

-----------------------------------------------------------------------------
BaselineTypeOK ==
  /\ today \in Nat
  /\ reg \in [Wallet -> Registration]
  /\ data \subseteq DataAccount

Chain(a) == {d \in data : d.agent = a}

\* The chain of published baselines has no gap and no fork, and the
\* registration is its newest link: whoever committed in whatever order,
\* every nonce from 1 to the current one names exactly one published payload,
\* and no oracle commit came sooner than a cooldown after its predecessor
\* (check_strict_successor_nonce, the init on baseline_data, the cooldown).
BaselineChain ==
  \A a \in Wallet :
    /\ {d.nonce : d \in Chain(a)} = 1..reg[a].nonce
    /\ \A d, e \in Chain(a) :
         /\ d.nonce = e.nonce => d = e
         /\ d.nonce = e.nonce + 1 =>
              d.at >= e.at + (IF d.kind = "oracle" THEN OracleCooldown ELSE 0)
    /\ \A d \in Chain(a) : d.nonce = reg[a].nonce =>
         d.hash = reg[a].hash /\ d.at = reg[a].at

\* The newest commitment is not in the future, so that a cooldown counted from
\* it bounds the next one.
BaselineInv ==
  /\ BaselineTypeOK
  /\ BaselineChain
  /\ \A a \in Wallet : reg[a].at <= today

-----------------------------------------------------------------------------
CONSTANTS
  Committer,      \* strings: the processes that run the committer
  KindOf,         \* Committer -> CommitterKind: whose key it signs with
  MaxAttempts     \* CommitConfig.send_max_attempts

ASSUME CommitterAssumption ==
  /\ Committer \subseteq STRING
  /\ KindOf \in [Committer -> CommitterKind]
  /\ MaxAttempts \in Nat \ {0}

VARIABLE call     \* the call each committer is in

committerVars == <<today, reg, data, call>>

Outcome == {"none", "skipped", "ok", "stale", "error", "mismatch"}
Call == [pc: {"idle", "send", "verify"}, agent: Wallet, hash: Hash, nonce: Nat,
         attempts: 0..MaxAttempts, refused: BOOLEAN, floating: BOOLEAN,
         outcome: Outcome]

CommitterInit ==
  /\ BaselineInit
  /\ call \in [Committer -> [pc: {"idle"}, agent: Wallet, hash: Hash, nonce: {0},
                 attempts: {0}, refused: {FALSE}, floating: {FALSE},
                 outcome: {"none"}]]

Return(c, outcome) ==
  call' = [call EXCEPT ![c].pc = "idle", ![c].outcome = outcome]

\* _fetch_registration, the idempotent skip, and the nonce the call will use.
\* BOUND: a committer calls again only while its last transaction is settled.
Fetch(c) ==
  /\ call[c].pc = "idle" /\ ~ call[c].floating
  /\ \E a \in Wallet, h \in Hash :
       call' = [call EXCEPT ![c] =
         [pc |-> IF Committed(a) /\ reg[a].hash = h THEN "idle" ELSE "send",
          agent |-> a, hash |-> h, nonce |-> reg[a].nonce + 1,
          attempts |-> 0, refused |-> FALSE, floating |-> FALSE,
          outcome |-> IF Committed(a) /\ reg[a].hash = h THEN "skipped" ELSE "none"]]
  /\ UNCHANGED <<today, reg, data>>

\* Mutant: every attempt re-reads the registration for its nonce.
MutNonceSent(c) == reg[call[c].agent].nonce + 1

NonceSent(c) == call[c].nonce

Lands(c, n) ==
  /\ CanCommit(call[c].agent, KindOf[c], n)
  /\ WriteCommit(call[c].agent, KindOf[c], call[c].hash, n, c)

\* The attempt failed: back off and try again, or give up and report the
\* last error.
Failed(c, refusal, delayed) ==
  call' = [call EXCEPT
    ![c].attempts = @ + 1,
    ![c].refused = refusal,
    ![c].floating = @ \/ delayed,
    ![c].pc = IF call[c].attempts + 1 = MaxAttempts THEN "idle" ELSE "send",
    ![c].outcome = IF call[c].attempts + 1 = MaxAttempts THEN "error" ELSE "none"]

SendConfirmed(c) ==
  /\ call[c].pc = "send"
  /\ Lands(c, NonceSent(c))
  /\ call' = [call EXCEPT ![c].pc = "verify"]

\* The send was accepted and lands, but its confirmation is lost.
SendUnconfirmed(c) ==
  /\ call[c].pc = "send"
  /\ Lands(c, NonceSent(c))
  /\ Failed(c, FALSE, FALSE)

\* The send is lost, or will land only after the attempt was given up.
SendLost(c) ==
  /\ call[c].pc = "send"
  /\ \E delayed \in BOOLEAN : Failed(c, FALSE, delayed)
  /\ UNCHANGED <<today, reg, data>>

\* The program refuses.  The address is taken before the handler runs, so the
\* nonce error can come only where the address is free.
NonceError(a, n) == DataAddressFree(a, n) /\ n <= reg[a].nonce

SendRefused(c) ==
  /\ call[c].pc = "send"
  /\ ~ CanCommit(call[c].agent, KindOf[c], NonceSent(c))
  /\ IF NonceError(call[c].agent, NonceSent(c))
     THEN Return(c, "stale")
     ELSE Failed(c, TRUE, FALSE)
  /\ UNCHANGED <<today, reg, data>>

\* The blockhash of the delayed transaction is still valid, or has expired.
FloatingLands(c) ==
  /\ call[c].floating
  /\ Lands(c, call[c].nonce)
  /\ call' = [call EXCEPT ![c].floating = FALSE]

FloatingExpires(c) ==
  /\ call[c].floating
  /\ call' = [call EXCEPT ![c].floating = FALSE]
  /\ UNCHANGED <<today, reg, data>>

\* _verify_committed: the registration must be this commit's, to the committer.
VerifyCommitted(c) ==
  /\ call[c].pc = "verify"
  /\ LET r == reg[call[c].agent] IN
       IF /\ r.hash = call[c].hash /\ r.nonce = call[c].nonce
          /\ \E d \in data : d.agent = call[c].agent /\ d.nonce = r.nonce
                             /\ KindOf[c] = d.kind
       THEN Return(c, "ok")
       ELSE Return(c, "mismatch")
  /\ UNCHANGED <<today, reg, data>>

CommitterStep(c) ==
  \/ Fetch(c) \/ SendConfirmed(c) \/ SendUnconfirmed(c) \/ SendLost(c)
  \/ SendRefused(c) \/ FloatingLands(c) \/ FloatingExpires(c)
  \/ VerifyCommitted(c)

CommitterNext ==
  \/ \E c \in Committer : CommitterStep(c)
  \/ (\E a \in Wallet : Deactivate(a) \/ MigrateRegistration(a)) /\ UNCHANGED call
  \/ BaselineTick /\ UNCHANGED call

CommitterSpec == CommitterInit /\ [][CommitterNext]_committerVars
-----------------------------------------------------------------------------
\* What a committer reports is so: a call that says "ok" or "skipped" leaves
\* its hash published under this agent, and one call publishes it at most
\* once, however often it was re-sent and whenever the copies landed
\* (the fixed nonce of submit_baseline_commitment and its idempotent skip).
OncePerCall ==
  \A c \in Committer :
    /\ call[c].outcome \in {"ok", "skipped"} =>
         \E d \in data : d.agent = call[c].agent /\ d.hash = call[c].hash
    /\ Cardinality({d \in data : /\ d.writer = c /\ d.agent = call[c].agent
                                 /\ d.nonce >= call[c].nonce}) <= 1

\* Docstring of submit_baseline_commitment: a concurrent committer that took
\* the nonce surfaces as StaleNonceError, which the caller can retry.
RaceIsStale ==
  \A c \in Committer :
    call[c].outcome = "error" /\ call[c].refused =>
      ~ \E d \in data : /\ d.agent = call[c].agent /\ d.nonce = call[c].nonce
                        /\ d.writer # c

\* Whatever committers race, re-send and lose track of, an agent's baselines
\* form one chain without gap or fork, and a committer that reports success
\* has published its hash, once (commit_baseline.rs, commit_baseline.py).
BaselinesPublishedOnce == BaselineChain /\ OncePerCall

CommitterTypeOK ==
  /\ call \in [Committer -> Call]
  /\ \A c \in Committer : call[c].pc = "send" => call[c].attempts < MaxAttempts

\* The nonce is fixed when the registration is read, so whatever copy of the
\* transaction lands carries it.
FixedNonce ==
  \A c \in Committer, d \in data :
    d.writer = c /\ d.agent = call[c].agent => d.nonce <= call[c].nonce

ReportsSuccessTruly ==
  \A c \in Committer : call[c].outcome \in {"ok", "skipped"} =>
    \E d \in data : d.agent = call[c].agent /\ d.hash = call[c].hash

CommitterInv ==
  /\ BaselineInv /\ CommitterTypeOK
  /\ FixedNonce /\ ReportsSuccessTruly
=============================================================================
