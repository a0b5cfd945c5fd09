\* A failed validation whose pytest file is missing.
SPECIFICATION Spec
CONSTANTS
    None = None
    PhaseNames <- MCPhaseNames
    StepNames <- MCStepNames
    ValidationNames = {"Check", "Other"}
    Labels = {"gpu", "slow"}
    Capabilities = {"kubernetes", "k8s", "vm"}
    Runs <- StubRuns
INVARIANT PassingCasesPassed
