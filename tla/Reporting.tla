----------------------------- MODULE Reporting -----------------------------
(***************************************************************************)
(* The two reporting flows in one working directory: isvctl test run       *)
(* commands and split CI jobs follow each other, in any order, over the    *)
(* same _output files and the same service.  One of them is in progress at *)
(* a time: the code takes no lock, and two at once in one directory are    *)
(* outside the model.                                                      *)
(***************************************************************************)
EXTENDS TestRunReport, SplitReport

CONSTANT MaxStarted  \* bound: how many commands and CI jobs a behaviour starts

ASSUME ReportingAssumption ==
    /\ MaxStarted \in Nat
    /\ SplitJobs \cap CommandJobs = {}
    /\ Jobs = SplitJobs \cup CommandJobs
    /\ Idle \notin Commands \cup SplitJobs
    /\ Commands \cap SplitJobs = {}

vars == <<serviceVars, commandVars, splitVars, active>>

TypeOK ==
    /\ ServiceTypeOK /\ CommandTypeOK /\ SplitTypeOK
    /\ active \in Commands \cup SplitJobs \cup {Idle}

Init == ServiceInit /\ CommandInit /\ SplitInit /\ active = Idle

StartSplit(j) ==
    /\ active = Idle /\ spc[j] = "waiting"
    /\ active' = j
    /\ SplitGoto(j, "create")
    /\ UNCHANGED <<serviceVars, commandVars, printed, target>>

SplitAction(j) ==
    /\ active = j
    /\ SplitStep(j) \/ KillSplit(j)
    /\ active' = IF spc'[j] = "done" THEN Idle ELSE active
    /\ UNCHANGED commandVars

CommandAction == (CommandStep \/ KillCommand) /\ UNCHANGED splitVars

Started == {c \in Commands : exit[c] # "waiting"} \cup {j \in SplitJobs : spc[j] # "waiting"}

Start ==
    /\ Cardinality(Started) < MaxStarted
    /\ \/ \E c \in Commands : RunCommand(c) /\ UNCHANGED splitVars
       \/ \E j \in SplitJobs : StartSplit(j)

Next ==
    \/ Start
    \/ CommandAction
    \/ \E j \in SplitJobs : SplitAction(j)

Spec == Init /\ [][Next]_vars

(***************************************************************************)
(* The tests of job j are running: the orchestration of a command, or the  *)
(* script of a CI job.                                                     *)
(***************************************************************************)
Testing(j) ==
    \/ j \in SplitJobs /\ spc[j] = "test"
    \/ pc = "orchestrate" /\ Job = j

(***************************************************************************)
(* A command or CI job that was started is run on by its own process, all  *)
(* of whose requests have a timeout; its tests have none when a step has   *)
(* timeout: null (step_executor.py:399) or a validation never returns, so  *)
(* nothing says that they end.  When nobody starts another command nothing *)
(* happens.                                                                *)
(***************************************************************************)
FairSpec ==
    /\ Spec
    /\ WF_vars(CommandStep /\ pc # "orchestrate" /\ UNCHANGED splitVars)
    /\ \A j \in SplitJobs : WF_vars(SplitAction(j) /\ spc[j] # "test")

-----------------------------------------------------------------------------
Over(j) ==
    \/ j \in SplitJobs /\ spc[j] = "done"
    \/ \E c \in Commands : \E i \in DOMAIN Matches[c] :
          /\ j = Matches[c][i]
          /\ exit[c] \notin {"waiting", "running"} \/ (exit[c] = "running" /\ at > i)

(***************************************************************************)
(* A job that is over leaves its run STARTED only when a step that closes  *)
(* it was out of reach: the process died, the answer to create was lost,   *)
(* the id could not be kept, or the token or status request failed.  A     *)
(* failed upload of the results is never a reason (reporting.py:268,       *)
(* isvreporter/main.py:302).                                               *)
(***************************************************************************)
OpenOnlyAfterFault ==
    \A j \in Jobs : Over(j) /\ runs[j].status = "STARTED" =>
        faults[j] \cap {"died", "create", "id", "token", "status"} # {}

(***************************************************************************)
(* A command's job whose tests wrote a JUnit report uploads that report    *)
(* and never an older one left in the directory (test.py:716 tries the     *)
(* requested path first).                                                  *)
(***************************************************************************)
OwnReportWhenWritten ==
    [][pc = "results" /\ pc' = "status" /\ Job \in wrote
          => runs'[Job].report \in {runs[Job].report, Job}]_vars

(***************************************************************************)
(* Results of a demo provider never reach the service: no run is created   *)
(* for a job whose command or imports turned demo mode on (test.py:629).   *)
(***************************************************************************)
DemoNeverReported ==
    \A c \in Commands : \A i \in DOMAIN Matches[c] :
        c \in DemoCommands \/ Matches[c][i] \in DemoImports
            => runs[Matches[c][i]].status = "none"

(***************************************************************************)
(* Demo mode turned on by the imports of one discovered config is off      *)
(* again when the next config loads, unless the command itself is a demo   *)
(* or inherited it (_preserve_demo_mode, test.py:101).                     *)
(***************************************************************************)
DemoRestored == pc = "load" => demo = saved

(***************************************************************************)
(* Exit code 0 says that every matched config ran and passed; a command    *)
(* that failed ran no config after the one that failed (test.py:519).      *)
(***************************************************************************)
ExitMatchesVerdicts ==
    \A c \in Commands :
        /\ exit[c] = "0" => \A i \in DOMAIN Matches[c] : verdict[Matches[c][i]] = "pass"
        /\ \A i, k \in DOMAIN Matches[c] :
              i < k /\ verdict[Matches[c][k]] # "none" => verdict[Matches[c][i]] = "pass"

(***************************************************************************)
(* When every CI job passes the id its create printed, the portal's view   *)
(* of the runs is that of RunLife: created once, closed at most once, and  *)
(* closed with the verdict of the run's own tests.                         *)
(***************************************************************************)
Life == INSTANCE RunLife WITH
            TestRuns <- Jobs,
            status <- [j \in Jobs |-> runs[j].status],
            truth <- verdict
ImplementsRunLife == Life!Spec

(***************************************************************************)
(* Every run that was STARTED is closed, or its job meets one of the       *)
(* faults that can keep it open, or its tests hang for ever: nothing else  *)
(* between create (test.py:659) and the status request leaves it open.     *)
(***************************************************************************)
RunsGetClosed ==
    \A j \in Jobs : runs[j].status = "STARTED" ~>
        \/ runs[j].status \in Closed
        \/ faults[j] \cap {"died", "create", "id", "token", "status"} # {}
        \/ []Testing(j)
=============================================================================
