\* Teardown of a run whose commands are all in the test phase.
SPECIFICATION Spec
CONSTANTS
    None = None
    PhaseNames <- MCPhaseNames
    StepNames <- MCStepNames
    ValidationNames = {"Check", "Other"}
    Labels = {"gpu", "slow"}
    Capabilities = {"kubernetes", "k8s", "vm"}
    Runs <- TestOnlyRuns
INVARIANT TeardownRunsByDefault
