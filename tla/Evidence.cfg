SPECIFICATION Spec
CONSTANTS
  MaxBundles = 3
  MaxCrashes = 2
  MaxFaults = 2
INVARIANTS DigestsHold ControlIsBacked RecoverySucceeds PriorIsKept
