--------------------------- MODULE MCRunAdmission ----------------------------
(* Callers and their jobs for checking RunAdmission.                        *)
EXTENDS RunAdmission, TLC
CONSTANTS c1, c2, c3, jobA, jobB
SameJob == [c \in Callers |-> jobA]
TwoJobs == [c \in Callers |-> IF c = c3 THEN jobB ELSE jobA]
Retriers == Permutations({c1, c2})
=============================================================================
