SPECIFICATION Spec
CONSTANTS
    MaxDamage = 1
    Checks  <- MCChecks
    Outputs <- MCOutputs
    Echoing <- MCEchoing
    Waived  <- MCWaived
INVARIANT PassedMeansExitZero
CHECK_DEADLOCK FALSE
