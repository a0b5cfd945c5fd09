\* Two faults: one in the body and one in the finally block that follows it.
SPECIFICATION FairSpec
CONSTANTS
    MaxFaults = 2
    Scripts <- MCScripts
    LeftBehind <- MCLeftBehind
    Teardowns <- MCTeardowns
    Tolerated <- MCTolerated
INVARIANTS TypeOK CleanWithoutFaults OneDocument SuccessOrphansNothing
           SuccessSweeps TeardownSuccessMeansGone
PROPERTY ScriptEnds
CHECK_DEADLOCK FALSE
