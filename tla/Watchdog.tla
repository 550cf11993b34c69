------------------------------- MODULE Watchdog -------------------------------
(***************************************************************************)
(* ByzantineWatchdog (cluster/byzantine_watchdog.py) and the instruction   *)
(* its challenges go to, challenge_oracle of the slash-authority program.  *)
(*                                                                         *)
(* The watchdog keeps a strike record per node and TRACK - conflicting     *)
(* scores, slow drift, non-reveal, label deviation, payload mismatch - and *)
(* every record_* method is the same loop over the flagged nodes in order. *)
(* A challenge is an on-chain transaction: its PDA is derived from the     *)
(* accused's challenge counter, which anyone else's challenge moves, so it *)
(* may be refused, lost, or land while its sender sees an error.  A filing *)
(* that raises ends the whole record_* call.                               *)
(***************************************************************************)
EXTENDS Naturals, FiniteSets, FiniteSetsExt

CONSTANTS
    Node,               \* node ids; sorted() is the order of the numbers
    Track,              \* the strike tracks
    Threshold,          \* strikes at which a track challenges
    ProofCode,          \* the proof_type code a track's challenge carries
    MaxEpoch,           \* bound: epochs flags are recorded for
    MaxChallenges       \* bound: challenges by others against one oracle

ASSUME WatchdogAssumption ==
    /\ Node \subseteq Nat
    /\ Threshold \in [Track -> Nat \ {0}]   \* "strike_threshold must be >= 1"
    /\ ProofCode \in [Track -> Nat]
    /\ MaxEpoch \in Nat
    /\ MaxChallenges \in Nat

Epoch == 1..MaxEpoch

(* oracle_challenge.rs: the codes ProofType::from_u8 knows.                *)
ProofType == 0..2

VARIABLES
    record,             \* _strikes: a StrikeRecord per node and track
    call,               \* the record_* call in progress, or Idle
    filing,             \* the challenge being sent, or NoFiling
    attempts,           \* how often a challenge was handed to challenge_fn
    counter,            \* ChallengeCounter.count per accused oracle
    landed              \* the watchdog's challenges on chain

watchVars == <<record, call, filing, attempts, counter, landed>>

Idle == [flagged |-> {}]
NoFiling == [node |-> 0]

StrikeRecord == [strikes : Nat, epochs : SUBSET Epoch, challenged : BOOLEAN]
Challenge == [node : Node, track : Track, strikes : Nat, epochs : SUBSET Epoch]

WatchInit ==
    /\ record = [n \in Node |-> [t \in Track |->
                    [strikes |-> 0, epochs |-> {}, challenged |-> FALSE]]]
    /\ call = Idle
    /\ filing = NoFiling
    /\ attempts = [n \in Node |-> [t \in Track |-> 0]]
    /\ counter = [n \in Node |-> 0]
    /\ landed = {}

-----------------------------------------------------------------------------
(* record_epoch and its four siblings are called with an epoch's flags,    *)
(* deduplicated per node, and with a challenge_fn.  The same epoch may be  *)
(* recorded again.                                                         *)
StartCall(t, e, flagged) ==
    /\ call = Idle
    /\ call' = [track |-> t, epoch |-> e, flagged |-> flagged]
    /\ UNCHANGED <<record, filing, attempts, counter, landed>>

NextFlagged == Min(call.flagged)
WithoutNext == [call EXCEPT !.flagged = call.flagged \ {NextFlagged}]
AfterNext == IF call.flagged = {NextFlagged} THEN Idle ELSE WithoutNext

(* One iteration of the loop: an epoch already counted is skipped;         *)
(* otherwise the node gains a strike, and the first time it stands at the  *)
(* threshold it is marked challenged and the challenge is handed over.     *)
Struck(r, e) == [r EXCEPT !.strikes = r.strikes + 1, !.epochs = r.epochs \cup {e}]

MutEarlyChallenge(r, t) ==      \* mutant: off by one
    r.strikes + 1 >= Threshold[t] /\ ~r.challenged
MutEveryChallenge(r, t) ==      \* mutant: challenged again at every later strike
    r.strikes >= Threshold[t]
MustChallenge(r, t) == r.strikes >= Threshold[t] /\ ~r.challenged

SkipCounted ==
    /\ call # Idle /\ filing = NoFiling
    /\ call.epoch \in record[NextFlagged][call.track].epochs
    /\ call' = AfterNext
    /\ UNCHANGED <<record, filing, attempts, counter, landed>>

Strike ==
    LET n == NextFlagged
        t == call.track
        r == Struck(record[n][t], call.epoch)
    IN  /\ call # Idle /\ filing = NoFiling
        /\ call.epoch \notin record[n][t].epochs
        /\ IF MustChallenge(r, t)
           THEN /\ record' = [record EXCEPT ![n][t] = [r EXCEPT !.challenged = TRUE]]
                /\ filing' = [node |-> n, track |-> t, strikes |-> r.strikes,
                              epochs |-> r.epochs, index |-> counter[n]]
                /\ attempts' = [attempts EXCEPT ![n][t] = @ + 1]
                /\ call' = call
           ELSE /\ record' = [record EXCEPT ![n][t] = r]
                /\ call' = AfterNext
                /\ UNCHANGED <<filing, attempts>>
        /\ UNCHANGED <<counter, landed>>

-----------------------------------------------------------------------------
(* challenge_oracle: accepts a known proof type, for a PDA derived from    *)
(* the current counter, and moves the counter.  The accused is never the   *)
(* watchdog itself and the evidence hash is never zero.                    *)
InstructionAccepts(f) ==
    /\ ProofCode[f.track] \in ProofType
    /\ f.index = counter[f.node]

OnChain(f) ==
    /\ InstructionAccepts(f)
    /\ counter' = [counter EXCEPT ![f.node] = @ + 1]
    /\ landed' = landed \cup {[node |-> f.node, track |-> f.track,
                               strikes |-> f.strikes, epochs |-> f.epochs]}

(* challenge_fn returns, and the loop goes on ...                          *)
FilingReturns ==
    /\ filing # NoFiling
    /\ OnChain(filing)
    /\ filing' = NoFiling
    /\ call' = AfterNext
    /\ UNCHANGED <<record, attempts>>

(* ... or raises - refused, lost, or landed but timed out - and the        *)
(* exception leaves the record_* call with the rest of the loop undone.    *)
FilingRaises ==
    /\ filing # NoFiling
    /\ OnChain(filing) \/ UNCHANGED <<counter, landed>>
    /\ filing' = NoFiling
    /\ call' = Idle
    /\ UNCHANGED <<record, attempts>>

(* Anyone else may challenge the same oracle at any time.                  *)
OthersChallenge(n) ==
    /\ counter[n] < MaxChallenges
    /\ counter' = [counter EXCEPT ![n] = @ + 1]
    /\ UNCHANGED <<record, call, filing, attempts, landed>>

WatchNext ==
    \/ \E t \in Track, e \in Epoch, flagged \in (SUBSET Node) \ {{}} : StartCall(t, e, flagged)
    \/ SkipCounted
    \/ Strike
    \/ FilingReturns
    \/ FilingRaises
    \/ \E n \in Node : OthersChallenge(n)

WatchSpec == WatchInit /\ [][WatchNext]_watchVars

-----------------------------------------------------------------------------
Call == [track : Track, epoch : Epoch, flagged : (SUBSET Node) \ {{}}]
Filing == [node : Node, track : Track, strikes : Nat, epochs : SUBSET Epoch, index : Nat]

WatchTypeOK ==
    /\ record \in [Node -> [Track -> StrikeRecord]]
    /\ call \in Call \cup {Idle}
    /\ filing \in Filing \cup {NoFiling}
    /\ attempts \in [Node -> [Track -> Nat]]
    /\ counter \in [Node -> Nat]
    /\ landed \subseteq Challenge

(* "A node is challenged once": over re-run epochs, failed filings and     *)
(* calls cut short, a track hands at most one challenge per node to the    *)
(* chain.                                                                  *)
ChallengedOnce ==
    \A n \in Node, t \in Track :
       attempts[n][t] = (IF record[n][t].challenged THEN 1 ELSE 0)

(* "Three epochs ... is enough that a transient network or restart blip    *)
(* cannot trigger slashing": every challenge on chain cites as many        *)
(* DISTINCT epochs as the threshold asks, and they are epochs the node was *)
(* really flagged in.                                                      *)
ChallengeIsDeserved ==
    \A c \in landed :
       /\ Cardinality(c.epochs) >= Threshold[c.track]
       /\ c.strikes = Cardinality(c.epochs)
       /\ c.epochs \subseteq record[c.node][c.track].epochs

(* The strike counter is the number of epochs on record: no call cut short *)
(* by a failing challenge, and no repeated one, leaves them apart.         *)
StrikesAreEpochs ==
    \A n \in Node, t \in Track : record[n][t].strikes = Cardinality(record[n][t].epochs)

(* Inductive strengthening: a challenge on its way is already deserved,    *)
(* and is sent from within a record_* call.                                *)
FilingIsDeserved ==
    filing # NoFiling =>
       /\ call # Idle
       /\ Cardinality(filing.epochs) >= Threshold[filing.track]
       /\ filing.strikes = Cardinality(filing.epochs)
       /\ filing.epochs \subseteq record[filing.node][filing.track].epochs

WatchdogInv ==
    /\ WatchTypeOK
    /\ StrikesAreEpochs
    /\ ChallengedOnce
    /\ ChallengeIsDeserved
    /\ FilingIsDeserved

-----------------------------------------------------------------------------
(* A claim of the class comment that a run refutes.                        *)

(* "when a node crosses STRIKE_THRESHOLD, files exactly one                *)
(* challenge_oracle" (byzantine_watchdog.py:300): then a node that has     *)
(* offended once more than that is on record on chain.                     *)
RepeatOffenderIsOnChain ==
    \A n \in Node, t \in Track :
       record[n][t].strikes > Threshold[t] =>
          \E c \in landed : c.node = n /\ c.track = t
=============================================================================
