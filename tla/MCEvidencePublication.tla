------------------------ MODULE MCEvidencePublication ------------------------
(* The instance of EvidencePublication that TLC checks.                      *)
EXTENDS EvidencePublication
=============================================================================
