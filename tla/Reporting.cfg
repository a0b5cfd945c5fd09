SPECIFICATION FairSpec
CONSTANTS
    one = one
    two = two
    three = three
    a = a
    b1 = b1
    b2 = b2
    d = d
    s = s
    MaxStarted = 2
    Jobs = {a, b1, b2, d, s}
    NoJob = NoJob
    Idle = Idle
    NotUpdated = NotUpdated
    Places <- MCPlaces
    Commands = {one, two, three}
    Matches <- MCMatches
    Requested <- MCRequested
    Fallbacks <- MCFallbacks
    DemoCommands = {three}
    DemoImports = {b1}
    SplitJobs = {s}
    ExplicitId = {s}
    SplitPlace = "out"
INVARIANTS
    TypeOK
    OpenOnlyAfterFault
    DemoNeverReported
    DemoRestored
    ExitMatchesVerdicts
PROPERTIES
    OwnReportWhenWritten
    ImplementsRunLife
    RunsGetClosed
CHECK_DEADLOCK FALSE
