------------------------------ MODULE MCPrograms ------------------------------
(* The slash-authority and the certificate-issuer programs side by side, as *)
(* stories: what they share, a certificate as evidence, is an argument of   *)
(* the one and a property of the other.                                     *)
EXTENDS MCSlashAuthority, MCCertificates

programVars == <<vars, mcVars>>

SlashIsTold == story = "slash"

ProgramsInit ==
  /\ SlashStoryInit /\ CertificateStoryInit
  /\ ~ SlashIsTold => cfg.floor = DefaultFloor

ProgramsNext ==
  \/ SlashIsTold /\ SlashStoryNext /\ UNCHANGED mcVars
  \/ ~ SlashIsTold /\ CertificateStoryNext /\ UNCHANGED vars

ProgramsSpec == ProgramsInit /\ [][ProgramsNext]_programVars
=============================================================================
