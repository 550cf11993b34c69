----------------------------- MODULE EscrowLedger -----------------------------
(***************************************************************************)
(* What an agent may rely on when it stakes: the abstract escrow.  Stake   *)
(* is free, or held under one numbered claim; a claim is returned whole or *)
(* paid whole, once, to the payee fixed when it was made; a closed account *)
(* never moves again.  Who may do what and when is left to the             *)
(* implementation (SlashAuthority).                                        *)
(***************************************************************************)
EXTENDS Integers

CONSTANTS
  Agent,    \* account holders
  Index,    \* claim numbers
  Payee     \* who may be paid

VARIABLES
  account,  \* [Agent -> {"absent", "open", "closed"}]
  free,     \* [Agent -> Nat], stake under no claim
  claim,    \* [Agent -> [Index -> claim]]
  received  \* [Payee -> Nat]

ledgerVars == <<account, free, claim, received>>

NoClaim(p) == [state |-> "none", amount |-> 0, payee |-> p]

LedgerInit ==
  /\ account = [a \in Agent |-> "absent"]
  /\ free = [a \in Agent |-> 0]
  /\ \E p \in Payee : claim = [a \in Agent |-> [i \in Index |-> NoClaim(p)]]
  /\ received = [p \in Payee |-> 0]

\* Any stake, fixed by the step itself.
Deposit(a) ==
  /\ account[a] = "absent"
  /\ account' = [account EXCEPT ![a] = "open"]
  /\ free'[a] \in Nat
  /\ free' = [free EXCEPT ![a] = free'[a]]
  /\ UNCHANGED <<claim, received>>

\* Any amount the free stake covers and any payee, fixed by the step itself.
Hold(a, i) ==
  LET new == claim'[a][i] IN
  /\ account[a] = "open"
  /\ claim[a][i].state = "none"
  /\ new.state = "held" /\ new.amount \in 0..free[a] /\ new.payee \in Payee
  /\ claim' = [claim EXCEPT ![a][i] = new]
  /\ free' = [free EXCEPT ![a] = @ - new.amount]
  /\ UNCHANGED <<account, received>>

Return(a, i) ==
  /\ account[a] = "open"
  /\ claim[a][i].state = "held"
  /\ free' = [free EXCEPT ![a] = @ + claim[a][i].amount]
  /\ claim' = [claim EXCEPT ![a][i].state = "returned"]
  /\ UNCHANGED <<account, received>>

\* Paying a claim may be what closes the account.
Pay(a, i) ==
  /\ account[a] = "open"
  /\ claim[a][i].state = "held"
  /\ received' = [received EXCEPT ![claim[a][i].payee] = @ + claim[a][i].amount]
  /\ claim' = [claim EXCEPT ![a][i].state = "paid"]
  /\ account' \in {account, [account EXCEPT ![a] = "closed"]}
  /\ UNCHANGED free

LedgerNext ==
  \E a \in Agent : \/ Deposit(a)
                  \/ \E i \in Index : Hold(a, i) \/ Return(a, i) \/ Pay(a, i)

LedgerSpec == LedgerInit /\ [][LedgerNext]_ledgerVars
=============================================================================
