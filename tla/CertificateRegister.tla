-------------------------- MODULE CertificateRegister --------------------------
(* What the issuer promises of its certificates: a slot is written once and *)
(* never rewritten, and an entry is judged at most once and for good.       *)
CONSTANTS
  Slot,      \* agent and epoch
  Content    \* what a certificate says

VARIABLES
  entry,     \* for each slot, the set of what was written: empty or one
  verdict    \* for each slot, the verdict on it

Outcome == {"upheld", "rejected", "invalidated"}

Init == entry = [s \in Slot |-> {}] /\ verdict = [s \in Slot |-> "none"]

Write(s) ==
  /\ entry[s] = {}
  /\ \E c \in entry'[s] : c \in Content /\ entry' = [entry EXCEPT ![s] = {c}]
  /\ UNCHANGED verdict

Judge(s) ==
  /\ entry[s] # {} /\ verdict[s] = "none"
  /\ \E o \in Outcome : verdict' = [verdict EXCEPT ![s] = o]
  /\ UNCHANGED entry

Next == \E s \in Slot : Write(s) \/ Judge(s)

registerVars == <<entry, verdict>>

Spec == Init /\ [][Next]_registerVars
=============================================================================
