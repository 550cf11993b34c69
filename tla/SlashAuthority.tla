---------------------------- MODULE SlashAuthority ----------------------------
(***************************************************************************)
(* The slash-authority program: SlashConfig's governance together with the *)
(* escrow vaults and the slash lifecycle                                   *)
(*      execute -> (appeal -> resolve) -> settle.                          *)
(* A vault and a slash record are PDAs: vault[a] exists when open is TRUE, *)
(* slash[a][i] when its status is not "none".  The rent-exempt minimum of  *)
(* a vault is left out: vault[a].lamports is its balance above rent.       *)
(***************************************************************************)
EXTENDS SlashConfig, FiniteSetsExt

CONSTANTS
  Agent,            \* agent wallets, which sign their own appeals
  MaxSlashes,       \* BOUND: slash records per vault
  StakeArgs,        \* stakes a staker may open a vault with
  CertArgs,         \* certificates an executor may cite
  Incinerator,      \* SlashConfig::INCINERATOR
  MinStake,         \* EscrowVault::MIN_STAKE_LAMPORTS
  CertMaxAge,       \* HealthCertificate::MAX_AGE_SECONDS (48h)
  AppealWindow,     \* APPEAL_WINDOW_SECONDS (72h)
  AppealCooldown,   \* APPEAL_COOLDOWN_SECONDS (24h)
  MaxAppeals        \* EscrowVault::MAX_APPEALS_IN_FLIGHT (1)

VARIABLES
  vault,     \* [Agent -> EscrowVault]
  slash,     \* [Agent -> [Index -> SlashRecord]]
  received   \* [Pubkey -> Nat], lamports settled to each destination

slashVars == <<vault, slash, received>>
vars == <<configVars, slashVars>>

Index == 0..(MaxSlashes - 1)
Tier == {"minor", "major", "compromise"}
Status == {"none", "pending", "appealed", "overturned", "settled"}
Open == {"pending", "appealed"}

Vault == [open: BOOLEAN, active: BOOLEAN, lamports: Nat, staked: Nat,
          encumbered: Nat, slashed: Nat, count: 0..MaxSlashes,
          lastAppealAt: Nat, appeals: Nat]

Slash == [status: Status, tier: Tier, amount: Nat, treasury: Pubkey,
          executor: Pubkey, executedAt: Nat, deadline: Nat, appealedAt: Nat,
          unlockAt: Nat, resolvedBy: Pubkey, version: Nat]

Certificate == [alert: {"green", "yellow", "red"}, immediateRed: BOOLEAN,
                repudiated: BOOLEAN, issuedAt: Nat]

ASSUME SlashAssumption ==
  /\ MaxSlashes \in Nat
  /\ MinStake \in Nat \ {0} /\ StakeArgs \subseteq Nat
  /\ CertArgs \subseteq Certificate
  /\ Incinerator \in Pubkey
  /\ CertMaxAge \in Nat /\ AppealCooldown \in Nat /\ MaxAppeals = 1
  /\ AppealWindow \in Nat \ {0}

NoVault == [open |-> FALSE, active |-> FALSE, lamports |-> 0, staked |-> 0,
            encumbered |-> 0, slashed |-> 0, count |-> 0,
            lastAppealAt |-> 0, appeals |-> 0]

NoSlash == [status |-> "none", tier |-> "minor", amount |-> 0,
            treasury |-> DefaultKey, executor |-> DefaultKey, executedAt |-> 0,
            deadline |-> 0, appealedAt |-> 0, unlockAt |-> 0,
            resolvedBy |-> DefaultKey, version |-> 0]

-----------------------------------------------------------------------------
\* OffenseTier::slash_bps and compute_slash_amount, with u128 intermediates.
SlashBps(tier) == IF tier = "minor" THEN 500 ELSE 5000

SlashAmount(stake, tier) ==
  IF tier = "compromise" THEN stake ELSE (stake * SlashBps(tier)) \div 10000

\* Mutant: the treasury is read when settling, not when executing.
MutDestination(s) == IF s.tier = "compromise" THEN Incinerator ELSE cfg.treasury

\* OffenseTier::destination, pinned to the treasury of the execution (H-03).
Destination(s) == IF s.tier = "compromise" THEN Incinerator ELSE s.treasury

Fresh(cert) == cert.issuedAt <= now /\ now - cert.issuedAt <= CertMaxAge

Justifies(cert, tier) ==
  \/ tier # "compromise" /\ cert.alert \in {"yellow", "red"}
  \/ tier = "compromise" /\ (cert.immediateRed \/ cert.alert = "red")

Live(a) == vault[a].open /\ vault[a].active

-----------------------------------------------------------------------------
OpenVault(a, stake) ==
  /\ ~ vault[a].open
  /\ stake >= MinStake
  /\ vault' = [vault EXCEPT ![a] =
                 [NoVault EXCEPT !.open = TRUE, !.active = TRUE,
                                 !.staked = stake, !.lamports = stake]]
  /\ UNCHANGED <<configVars, slash, received>>

\* The init constraint on the record's PDA and the handler's index check.
FreeIndex(a, index) ==
  /\ slash[a][index].status = "none"
  /\ index = vault[a].count

\* The stake is re-labelled, not moved; even a compromise leaves the vault
\* active until it settles, so that an appeal can still rescue the agent.
ExecuteSlash(signer, a, index, tier, cert) ==
  LET amount == SlashAmount(vault[a].staked, tier) IN
  /\ Live(a)
  /\ signer = cfg.executor
  /\ ~ IsPausedNow
  /\ Fresh(cert) /\ ~ cert.repudiated /\ Justifies(cert, tier)
  /\ FreeIndex(a, index)
  /\ vault[a].staked > 0
  /\ vault' = [vault EXCEPT ![a] =
                 [vault[a] EXCEPT !.staked = @ - amount,
                                  !.encumbered = @ + amount,
                                  !.count = @ + 1]]
  /\ slash' = [slash EXCEPT ![a][index] =
                 [status |-> "pending", tier |-> tier, amount |-> amount,
                  treasury |-> IF tier = "compromise" THEN DefaultKey
                                                      ELSE cfg.treasury,
                  executor |-> signer, executedAt |-> now,
                  deadline |-> now + AppealWindow, appealedAt |-> 0,
                  unlockAt |-> 0, resolvedBy |-> DefaultKey,
                  version |-> cfg.version]]
  /\ UNCHANGED <<configVars, received>>

\* The agent itself signs; a pause does not stop it.
AppealSlash(a, i) ==
  /\ Live(a)
  /\ slash[a][i].status = "pending"
  /\ now < slash[a][i].deadline
  /\ vault[a].appeals < MaxAppeals
  /\ \/ vault[a].lastAppealAt = 0
     \/ now - vault[a].lastAppealAt >= AppealCooldown
  /\ slash' = [slash EXCEPT ![a][i] =
                 [slash[a][i] EXCEPT !.status = "appealed", !.appealedAt = now]]
  /\ vault' = [vault EXCEPT ![a] =
                 [vault[a] EXCEPT !.lastAppealAt = now, !.appeals = @ + 1]]
  /\ UNCHANGED <<configVars, received>>

CanResolve(signer, a, i) ==
  /\ Live(a)
  /\ signer = cfg.resolver
  /\ ~ IsPausedNow
  /\ slash[a][i].status = "appealed"
  /\ signer # slash[a][i].executor
  /\ vault[a].appeals >= 1

UpholdSlash(signer, a, i) ==
  /\ CanResolve(signer, a, i)
  /\ slash' = [slash EXCEPT ![a][i] =
                 [slash[a][i] EXCEPT !.status = "pending", !.deadline = now,
                                     !.unlockAt = now + cfg.settlementTimelock,
                                     !.resolvedBy = signer]]
  /\ vault' = [vault EXCEPT ![a] = [vault[a] EXCEPT !.appeals = @ - 1]]
  /\ UNCHANGED <<configVars, received>>

\* Mutant: the encumbrance is never lifted.
MutRelease(v, amount) == [v EXCEPT !.appeals = @ - 1]

\* The disputed stake is given back.
Release(v, amount) == [v EXCEPT !.encumbered = @ - amount,
                                !.staked = @ + amount,
                                !.appeals = @ - 1]

OverturnSlash(signer, a, i) ==
  /\ CanResolve(signer, a, i)
  /\ vault[a].encumbered >= slash[a][i].amount
  /\ slash' = [slash EXCEPT ![a][i] =
                 [slash[a][i] EXCEPT !.status = "overturned",
                                     !.resolvedBy = signer, !.unlockAt = 0]]
  /\ vault' = [vault EXCEPT ![a] = Release(vault[a], slash[a][i].amount)]
  /\ UNCHANGED <<configVars, received>>

\* Mutant: the grace period after the appeal deadline is not waited for.
MutSettleTimingOK(s) == now >= s.executedAt + EffectiveFloor

\* check_settle_timing
SettleTimingOK(s) ==
  /\ now >= s.executedAt + EffectiveFloor
  /\ now >= s.deadline + EffectiveGrace

\* Mutant: a record already settled can be settled again.
MutCanSettle(signer, a, i) ==
  /\ Live(a)
  /\ signer = cfg.executor
  /\ ~ IsPausedNow
  /\ slash[a][i].status \in {"pending", "settled"}
  /\ now >= slash[a][i].deadline
  /\ slash[a][i].unlockAt = 0 \/ now >= slash[a][i].unlockAt
  /\ SettleTimingOK(slash[a][i])

CanSettle(signer, a, i) ==
  /\ Live(a)
  /\ signer = cfg.executor
  /\ ~ IsPausedNow
  /\ slash[a][i].status = "pending"
  /\ now >= slash[a][i].deadline
  /\ slash[a][i].unlockAt = 0 \/ now >= slash[a][i].unlockAt
  /\ SettleTimingOK(slash[a][i])

\* The encumbered funds leave; only here does a compromise stop the vault.
Debit(v, s) ==
  [v EXCEPT !.lamports = @ - s.amount, !.encumbered = @ - s.amount,
            !.slashed = @ + s.amount, !.active = (s.tier # "compromise")]

SettleSlash(signer, a, i) ==
  LET s == slash[a][i] IN
  /\ CanSettle(signer, a, i)
  /\ vault[a].lamports >= s.amount
  /\ vault[a].encumbered >= s.amount
  /\ vault' = [vault EXCEPT ![a] = Debit(vault[a], s)]
  /\ slash' = [slash EXCEPT ![a][i] = [slash[a][i] EXCEPT !.status = "settled"]]
  /\ received' = [received EXCEPT ![Destination(s)] = @ + s.amount]
  /\ UNCHANGED configVars

-----------------------------------------------------------------------------
Init ==
  /\ ConfigInit
  /\ vault = [a \in Agent |-> NoVault]
  /\ slash = [a \in Agent |-> [i \in Index |-> NoSlash]]
  /\ received = [p \in Pubkey |-> 0]

SlashStep(a) ==
  \/ \E stake \in StakeArgs : OpenVault(a, stake)
  \/ \E i \in Index :
       \/ \E k \in Signer, tier \in Tier, cert \in CertArgs :
            ExecuteSlash(k, a, i, tier, cert)
       \/ AppealSlash(a, i)
       \/ \E k \in Signer : UpholdSlash(k, a, i)
       \/ \E k \in Signer : OverturnSlash(k, a, i)
       \/ \E k \in Signer : SettleSlash(k, a, i)

ConfigStep == ConfigNext /\ UNCHANGED slashVars

Next == ConfigStep \/ \E a \in Agent : SlashStep(a)

Spec == Init /\ [][Next]_vars

-----------------------------------------------------------------------------
\* Types of the vaults, the records and the destinations' balances.
SlashTypeOK ==
  /\ vault \in [Agent -> Vault]
  /\ slash \in [Agent -> [Index -> Slash]]
  /\ received \in [Pubkey -> Nat]

\* The two book-keeping figures always add up to the lamports the vault really
\* holds, so that neither settlement nor release can ever find them missing.
VaultSolvent ==
  \A a \in Agent : vault[a].lamports = vault[a].staked + vault[a].encumbered

\* appeals_in_flight counts the appealed records of a vault, and there is never
\* more than one: no sequence of appeals, resolutions and role rotations makes
\* the counter drift and lock the agent out, or lets appeals pile up (M-01).
OneAppealInFlight ==
  \A a \in Agent :
    /\ vault[a].appeals \in {0, 1}
    /\ \A i, j \in Index :
         slash[a][i].status = "appealed" /\ slash[a][j].status = "appealed"
           => i = j
    /\ (vault[a].appeals = 1) <=> \E i \in Index : slash[a][i].status = "appealed"

\* The records of a vault are a gap-free history: exactly the indices below
\* slash_count exist, so the next execution's PDA is always free.
HistoryIsDense ==
  \A a \in Agent, i \in Index :
    slash[a][i].status # "none" <=> i < vault[a].count

StampMatchesLineage(s) ==
  s.status # "none" =>
    /\ s.version \in 1..Len(lineage)
    /\ s.executor = lineage[s.version].executor
    /\ s.tier # "compromise" => s.treasury = lineage[s.version].treasury

\* A record's version stamp names the authority set it was executed under: its
\* executor and its treasury are that set's, through later rotations (M-08).
VersionIdentifiesExecutor ==
  \A a \in Agent, i \in Index : StampMatchesLineage(slash[a][i])

Settles(a, i) == slash[a][i].status # "settled" /\ slash'[a][i].status = "settled"

\* How far an agent's right of appeal reached before its funds left: either the
\* full appeal window and grace ran without an appeal, or an appeal filed inside
\* the window was upheld by somebody other than the slash's executor and at
\* least the minimum settlement timelock went by after it was filed.
HeardBeforeSettlement(s) ==
  \/ /\ s.appealedAt = 0 /\ s.resolvedBy = DefaultKey
     /\ now >= s.executedAt + AppealWindow + EffectiveGrace
  \/ /\ s.appealedAt >= s.executedAt
     /\ s.appealedAt < s.executedAt + AppealWindow
     /\ s.resolvedBy \notin {DefaultKey, s.executor}
     /\ now >= s.appealedAt + MinSettlementTimelock

HeardWhenSettled ==
  \A a \in Agent, i \in Index :
    Settles(a, i) => HeardBeforeSettlement(slash[a][i])

\* No funds leave a vault without due process, whatever rotations, pauses and
\* timing updates happen between execution and settlement.
DueProcess == [][HeardWhenSettled]_vars

TerminalKept ==
  \A a \in Agent :
    vault[a].open /\ ~ vault[a].active
      => vault'[a] = vault[a] /\ slash'[a] = slash[a]

\* A settled compromise freezes its vault for good: no later instruction moves
\* the vault's lamports or changes any of its records (H-02).
TerminalVaultFrozen == [][TerminalKept]_vars

\* What an open record remembers of its hearing; deadline <= now is why an
\* upheld slash cannot be appealed again.
Unheard(s) ==
  /\ s.appealedAt = 0 /\ s.resolvedBy = DefaultKey /\ s.unlockAt = 0
  /\ s.deadline = s.executedAt + AppealWindow

AppealedInTime(s) ==
  /\ s.appealedAt >= s.executedAt /\ s.appealedAt <= now
  /\ s.appealedAt < s.executedAt + AppealWindow

Upheld(s) ==
  /\ AppealedInTime(s)
  /\ s.resolvedBy \notin {DefaultKey, s.executor}
  /\ s.unlockAt >= s.appealedAt + MinSettlementTimelock
  /\ s.deadline <= now

HearingOK(s) ==
  /\ s.status \in Open => s.executedAt <= now
  /\ s.status = "pending" => Unheard(s) \/ Upheld(s)
  /\ s.status = "appealed" => AppealedInTime(s)

HearingInv == \A a \in Agent, i \in Index : HearingOK(slash[a][i])

AbsentVaultIsEmpty == \A a \in Agent : ~ vault[a].open => vault[a] = NoVault

\* The inductive invariant of the program.
SlashInv ==
  /\ ConfigInv
  /\ SlashTypeOK
  /\ AbsentVaultIsEmpty
  /\ VaultSolvent
  /\ OneAppealInFlight
  /\ HistoryIsDense
  /\ VersionIdentifiesExecutor
  /\ HearingInv

-----------------------------------------------------------------------------
(* The escrow an agent is promised, and where the program keeps it.        *)

AccountOf(v) == IF ~ v.open THEN "absent" ELSE IF v.active THEN "open" ELSE "closed"

ClaimOf(s) ==
  [state |-> CASE s.status = "none" -> "none"
               [] s.status \in Open -> "held"
               [] s.status = "overturned" -> "returned"
               [] s.status = "settled" -> "paid",
   amount |-> s.amount,
   payee |-> Destination(s)]

LedgerAccount == [a \in Agent |-> AccountOf(vault[a])]
LedgerFree == [a \in Agent |-> vault[a].staked]
LedgerClaim == [a \in Agent |-> [i \in Index |-> ClaimOf(slash[a][i])]]

Ledger == INSTANCE EscrowLedger WITH
  Payee <- Pubkey,
  account <- LedgerAccount, free <- LedgerFree, claim <- LedgerClaim

\* The program implements the abstract escrow ledger.
ImplementsLedger == Ledger!LedgerSpec

\* OffenseTier::Compromise: "Entire stake burned, vault deactivated."
CompromiseBurnsEntireStake ==
  \A a \in Agent : vault[a].open /\ ~ vault[a].active => vault[a].staked = 0
=============================================================================
