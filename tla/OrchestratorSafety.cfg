\* Lifecycle control, reporting, selection and refusals.
SPECIFICATION Spec
CONSTANTS
    None = None
    PhaseNames <- MCPhaseNames
    StepNames <- MCStepNames
    ValidationNames = {"Check", "Other"}
    Labels = {"gpu", "slow"}
    Capabilities = {"kubernetes", "k8s", "vm"}
    Runs <- SafetyRuns
INVARIANTS
    TypeOK
    TeardownAttempted
    VerdictExact
    EveryEntryReported
    StepsStopAtFailure
    ValidationsFollowTheirStep
    SelectionExact
PROPERTIES
    NoWorkAfterFailure
    ImplementsLifecycle
