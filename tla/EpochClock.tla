------------------------------ MODULE EpochClock ------------------------------
(***************************************************************************)
(* What the rest of the system may assume of the epoch: a number that every *)
(* score and certificate is keyed by, which only ever moves by one and      *)
(* never twice within a period.                                             *)
(***************************************************************************)
EXTENDS Integers

CONSTANT Period

VARIABLES now, epoch, ticked

clockVars == <<now, epoch, ticked>>

Init == now \in Nat /\ ticked = now /\ epoch = 1

TimePasses == now' > now /\ UNCHANGED <<epoch, ticked>>

Turn ==
  /\ now >= ticked + Period
  /\ epoch' = epoch + 1
  /\ ticked' = now
  /\ UNCHANGED now

Spec == Init /\ [][TimePasses \/ Turn]_clockVars
=============================================================================
