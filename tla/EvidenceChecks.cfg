\* Every wiring of the suites; two damaged pieces of evidence are one for a
\* failed and one for a skipped or missing entry of the same document.
SPECIFICATION Spec
CONSTANTS
    MaxDamage = 2
    Checks  <- MCChecks
    Outputs <- MCOutputs
    Echoing <- MCEchoing
    Waived  <- MCWaived
INVARIANTS TypeOK PassExact SkipHidesNothing FailureIsExplained
           DemoPasses UnimplementedNeverPasses
CHECK_DEADLOCK FALSE
