\* Ctrl-C while a handler of run_command_process is at work.
SPECIFICATION Spec
CONSTANTS
    Leader = leader
    Descendants = {d1}
INVARIANTS
    InterruptStopsTree
