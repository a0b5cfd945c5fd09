\* An argument that embeds the output of a failed step.
SPECIFICATION Spec
CONSTANTS
    None = None
    PhaseNames <- MCPhaseNames
    StepNames <- MCStepNames
    ValidationNames = {"Check", "Other"}
    Labels = {"gpu", "slow"}
    Capabilities = {"kubernetes", "k8s", "vm"}
    Runs <- EmbeddedRefRuns
INVARIANT CommandsHaveTheirRefs
