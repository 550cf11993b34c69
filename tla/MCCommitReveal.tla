--------------------------- MODULE MCCommitReveal ---------------------------
(* Instances of the round for TLC, native and over gRPC: three nodes, of   *)
(* which one may copy, run another scoring version or have bound another   *)
(* agent set.                                                              *)
EXTENDS CommitReveal, TLC

CONSTANTS n1, n2, n3, s1, s2, v1, v2, hA, hB

(* n1 and n2 scored alike; n3 holds other scores (a placeholder, if it is  *)
(* the copier).                                                            *)
MCOwnScores == (n1 :> s1) @@ (n2 :> s1) @@ (n3 :> s2)
SameScores == [n \in Nodes |-> s1]
SameVersion == [n \in Nodes |-> v1]
SkewedVersion == (n1 :> v1) @@ (n2 :> v1) @@ (n3 :> v2)
OneSnapshot == [n \in Nodes |-> hA]
DriftedSnapshot == (n1 :> hA) @@ (n2 :> hB) @@ (n3 :> hA)

-----------------------------------------------------------------------------
(* Bounds of the run that holds.                                           *)

(* Of every request to a copier's own view nothing arrives: what it holds   *)
(* of its peers binds nobody, and it copies from what they broadcast.       *)
CopiersHearNothing ==
  \A n \in Copiers : IsOpen(n) =>
    \A m \in Nodes \ {n} : round'[n].commits[m] = round[n].commits[m]
                         /\ round'[n].reveals[m] = round[n].reveals[m]

(* It uses hashes and nonces of its own or of n1.                          *)
CopiersCopyOne ==
  \A n \in Copiers :
    /\ commitMsg'[n] # commitMsg[n] => commitMsg'[n].hash.nonce.by \in {n, n1}
    /\ revealMsg'[n] # revealMsg[n] => revealMsg'[n].nonce.by \in {n, n1}

(* Only n2 opens late or has a round clock that lags.                      *)
OneLags == now' # now => \A n \in Nodes \ {n2} : clock[n] = now

(* Only n1 calls local_commit again: its commit went out, a timeout passed  *)
(* without a commit of the copier, and it has not revealed.                 *)
OneRetries ==
  \A n \in Nodes : nonce'[n] # nonce[n] /\ nonce[n] > 0 =>
    /\ n = n1 /\ now = CommitDeadline
    /\ commitMsg[n1] # None /\ revealMsg[n1] = None
    /\ \A m \in Copiers : commitMsg[m] = None

Bounds == CopiersHearNothing /\ CopiersCopyOne /\ OneLags /\ OneRetries

MCSpec == Init /\ [][Next /\ Bounds]_vars /\ Driven
=============================================================================
