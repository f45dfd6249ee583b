---------------------------- MODULE MCHostedRun -----------------------------
(* The instance of HostedRun that is checked.                               *)
EXTENDS HostedRun
=============================================================================
