SPECIFICATION Spec
CONSTANTS
    MaxFaults = 1
    Scripts <- MCScripts
    LeftBehind <- MCLeftBehind
    Teardowns <- MCTeardowns
    Tolerated <- MCTolerated
INVARIANT PartialVpcIsCleanedUp
CHECK_DEADLOCK FALSE
