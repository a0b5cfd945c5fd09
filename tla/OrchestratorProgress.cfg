\* Termination and teardown under watchdogs.
SPECIFICATION Spec
CONSTANTS
    None = None
    PhaseNames <- MCPhaseNames
    StepNames <- MCStepNames
    ValidationNames = {"Check", "Other"}
    Labels = {"gpu", "slow"}
    Capabilities = {"kubernetes", "k8s", "vm"}
    Runs <- ProgressRuns
PROPERTIES
    Termination
    SetupLeadsToTeardown
