---------------------------- MODULE MCStepDriver ----------------------------
(* Small jobs and model values for checking StepDriver.                     *)
EXTENDS StepDriver, TLC
JobStep(natural, forced, limit) == [natural |-> natural, forced |-> forced, limit |-> limit]
TwoSteps == <<JobStep(FALSE, FALSE, 2), JobStep(TRUE, TRUE, 1)>>
Symmetry == Permutations(Views)
=============================================================================
