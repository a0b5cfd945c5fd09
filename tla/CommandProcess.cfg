\* One command with two possible descendants.
SPECIFICATION Spec
CONSTANTS
    Leader = leader
    Descendants = {d1, d2}
INVARIANTS
    TypeOK
    GroupStopped
    NoZombie
PROPERTIES
    KilledOnlyAfterAsking
    WatchdogReturns
    InterruptReturns
