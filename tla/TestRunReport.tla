--------------------------- MODULE TestRunReport ---------------------------
(***************************************************************************)
(* isvctl test run with its results uploaded: cli/test.py and              *)
(* reporting.py.  A command executes the configs its arguments name: one,  *)
(* or with --provider and --label every config of the provider that        *)
(* matches, one after the other in the same process.  Each execution is a  *)
(* job.                                                                    *)
(***************************************************************************)
EXTENDS LabService

CONSTANTS
    Commands,      \* isvctl test run commands issued in one directory
    Matches,       \* Matches[c]: the jobs of command c, in order
    Requested,     \* Requested[j]: the --junitxml path of job j
    Fallbacks,     \* the places tried when that path does not exist, in order
    DemoCommands,  \* commands whose provider is registered with status demo
    DemoImports,   \* jobs whose config imports a file of such a provider
    Idle           \* no command, no job

CommandJobs == UNION {{Matches[c][i] : i \in DOMAIN Matches[c]} : c \in Commands}

ASSUME CommandAssumption ==
    /\ Matches \in [Commands -> Seq(Jobs)]
    /\ \A c \in Commands : Len(Matches[c]) > 0
    /\ \A c, d \in Commands : \A i \in DOMAIN Matches[c], k \in DOMAIN Matches[d] :
          Matches[c][i] = Matches[d][k] => c = d /\ i = k
    /\ Requested \in [CommandJobs -> Places]
    /\ Fallbacks \in Seq(Places)
    /\ DemoCommands \subseteq Commands /\ DemoImports \subseteq CommandJobs

VARIABLES
    exit,    \* exit[c]: "waiting", "running", or how command c ended
    active,  \* the command or split job in progress, Idle when there is none
    at,      \* index of the running command's current job
    pc,      \* where that job is
    hasId,   \* create_test_run returned an id to it
    demo,    \* ISVCTL_DEMO_MODE in the command's environment
    saved    \* the value _preserve_demo_mode restores after the current job

commandVars == <<exit, at, pc, hasId, demo, saved>>

PCs == {"idle", "load", "create", "orchestrate", "token", "results", "status", "finish"}
Exits == {"waiting", "running", "0", "1", "killed"}

CommandInit ==
    /\ exit = [c \in Commands |-> "waiting"]
    /\ at = 1 /\ pc = "idle" /\ hasId = FALSE /\ demo = FALSE /\ saved = FALSE

CommandTypeOK ==
    /\ exit \in [Commands -> Exits]
    /\ at \in Nat \ {0}
    /\ pc \in PCs
    /\ hasId \in BOOLEAN /\ demo \in BOOLEAN /\ saved \in BOOLEAN

Job == Matches[active][at]

EndCommand(code) ==
    /\ exit' = [exit EXCEPT ![active] = code]
    /\ active' = Idle
    /\ pc' = "idle" /\ at' = 1 /\ hasId' = FALSE /\ demo' = FALSE /\ saved' = FALSE

(***************************************************************************)
(* Entry of the command: the provider named on the command line, or the    *)
(* one that owns a named file, is checked in the registry and turns demo   *)
(* mode on; bad arguments, an unfetched provider, an unknown suite or      *)
(* labels nothing matches end it with code 1.                              *)
(***************************************************************************)
RunCommand(c) ==
    /\ active = Idle /\ exit[c] = "waiting"
    /\ \/ /\ exit' = [exit EXCEPT ![c] = "running"]
          /\ active' = c
          /\ pc' = "load" /\ at' = 1 /\ hasId' = FALSE
          /\ \E inherited \in BOOLEAN : demo' = (inherited \/ c \in DemoCommands)
          /\ saved' = demo'
       \/ /\ exit' = [exit EXCEPT ![c] = "1"]
          /\ UNCHANGED <<active, at, pc, hasId, demo, saved>>
    /\ UNCHANGED serviceVars

(***************************************************************************)
(* Merge and validate the job's configuration; loading a file of a demo    *)
(* provider turns demo mode on for the rest of the job.                    *)
(***************************************************************************)
LoadConfig ==
    /\ pc = "load"
    /\ \/ /\ demo' = (demo \/ Job \in DemoImports)
          /\ pc' = "create"
          /\ UNCHANGED <<exit, active, at, hasId, saved>>
       \/ EndCommand("1")
    /\ UNCHANGED serviceVars

\* Mutant: demo mode is not consulted before the run is created.
MutantDemoUploads ==
    /\ pc = "create"
    /\ pc' = "orchestrate"
    /\ \E outcome \in Outcomes :
          /\ CreateRequest(Job, outcome)
          /\ hasId' = (outcome = "ok")
          /\ FaultIf(outcome = "lost", Job, "create")
    /\ UNCHANGED <<junit, verdict, wrote, exit, active, at, demo, saved>>

(***************************************************************************)
(* Whether to upload at all (--no-upload, demo mode, credentials, lab id,  *)
(* endpoint), then reporting.create_test_run: a failed token request or a  *)
(* failed POST gives no id, and the job goes on without uploading.         *)
(***************************************************************************)
CreateTestRun ==
    /\ pc = "create"
    /\ pc' = "orchestrate"
    /\ \/ /\ hasId' = FALSE
          /\ UNCHANGED serviceVars
       \/ /\ ~demo
          /\ \E outcome \in Outcomes :
                /\ CreateRequest(Job, outcome)
                /\ hasId' = (outcome = "ok")
                /\ FaultIf(outcome = "lost", Job, "create")
          /\ UNCHANGED <<junit, verdict, wrote>>
    /\ UNCHANGED <<exit, active, at, demo, saved>>

(***************************************************************************)
(* Orchestrator.run under the log tee, then the catalog identity.  The     *)
(* orchestration may raise: the streams are restored and the command dies. *)
(***************************************************************************)
Orchestrate ==
    /\ pc = "orchestrate"
    /\ \/ /\ \E v \in {"pass", "fail"}, w \in BOOLEAN : TestsEnd(Job, v, w, Requested[Job])
          /\ pc' = IF hasId THEN "token" ELSE "finish"
          /\ UNCHANGED <<runs, idFile, faults, exit, active, at, hasId, demo, saved>>
       \/ /\ EndCommand("1")
          /\ Fault(Job, "died")
          /\ UNCHANGED <<runs, idFile, junit, verdict, wrote>>

\* Mutant: the fallback places are tried before the requested path.
MutantFallbackFirst(j) == Fallbacks \o <<Requested[j]>>

(***************************************************************************)
(* The report to upload: the first of the requested path and the fallback  *)
(* places that exists, whoever wrote it.                                   *)
(***************************************************************************)
Candidates(j) == <<Requested[j]>> \o Fallbacks

FindReport(j) ==
    LET found == {i \in DOMAIN Candidates(j) : junit[Candidates(j)[i]] # NoJob}
    IN  IF found = {} THEN NoJob
        ELSE junit[Candidates(j)[CHOOSE i \in found : \A k \in found : i <= k]]

\* Mutant: a failed upload of the report ends update_test_run.
MutantUploadEscapes ==
    /\ pc = "results"
    /\ \E outcome \in Outcomes :
          /\ ReportTestResults(Job, FindReport(Job), outcome)
          /\ FaultIf(outcome # "ok", Job, "results")
          /\ pc' = IF outcome = "ok" THEN "status" ELSE "finish"
    /\ UNCHANGED <<idFile, junit, verdict, wrote, exit, active, at, hasId, demo, saved>>

(***************************************************************************)
(* reporting.update_test_run: a token; then the report, whose failure is   *)
(* logged and passed over; then the status.                                *)
(***************************************************************************)
GetToken ==
    /\ pc = "token"
    /\ \E ok \in BOOLEAN :
          /\ pc' = IF ok THEN "results" ELSE "finish"
          /\ FaultIf(~ok, Job, "token")
    /\ UNCHANGED <<runs, idFile, junit, verdict, wrote, exit, active, at, hasId, demo, saved>>

\* Mutant: the status is that of the upload, not of the tests.
MutantStatusOfUpload ==
    /\ pc = "status"
    /\ pc' = "finish"
    /\ \E outcome \in Outcomes :
          /\ UpdateTestRun(Job, IF "results" \in faults[Job] THEN "FAILED" ELSE "SUCCESS", outcome)
          /\ FaultIf(outcome # "ok", Job, "status")
    /\ UNCHANGED <<idFile, junit, verdict, wrote, exit, active, at, hasId, demo, saved>>

UploadResults ==
    /\ pc = "results"
    /\ pc' = "status"
    /\ \/ /\ FindReport(Job) = NoJob
          /\ UNCHANGED <<runs, faults>>
       \/ /\ FindReport(Job) # NoJob
          /\ \E outcome \in Outcomes :
                /\ ReportTestResults(Job, FindReport(Job), outcome)
                /\ FaultIf(outcome # "ok", Job, "results")
    /\ UNCHANGED <<idFile, junit, verdict, wrote, exit, active, at, hasId, demo, saved>>

UpdateStatus ==
    /\ pc = "status"
    /\ pc' = "finish"
    /\ \E outcome \in Outcomes :
          /\ UpdateTestRun(Job, StatusOf(verdict[Job]), outcome)
          /\ FaultIf(outcome # "ok", Job, "status")
    /\ UNCHANGED <<idFile, junit, verdict, wrote, exit, active, at, hasId, demo, saved>>

\* Mutant: demo mode is not restored between discovered configs.
MutantDemoLeaks ==
    /\ pc = "finish"
    /\ \/ verdict[Job] = "fail" /\ EndCommand("1")
       \/ verdict[Job] = "pass" /\ at = Len(Matches[active]) /\ EndCommand("0")
       \/ /\ verdict[Job] = "pass" /\ at < Len(Matches[active])
          /\ at' = at + 1 /\ pc' = "load" /\ hasId' = FALSE
          /\ UNCHANGED <<exit, active, demo, saved>>
    /\ UNCHANGED serviceVars

\* Mutant: the remaining configs run after one that failed.
MutantGoesOn ==
    /\ pc = "finish"
    /\ \/ at = Len(Matches[active]) /\ EndCommand(IF verdict[Job] = "pass" THEN "0" ELSE "1")
       \/ /\ at < Len(Matches[active])
          /\ at' = at + 1 /\ pc' = "load" /\ hasId' = FALSE /\ demo' = saved
          /\ UNCHANGED <<exit, active, saved>>
    /\ UNCHANGED serviceVars

(***************************************************************************)
(* The summary and the exit code: a failed job raises Exit(1), which ends  *)
(* the command and leaves the remaining configs unrun.                     *)
(***************************************************************************)
FinishJob ==
    /\ pc = "finish"
    /\ \/ verdict[Job] = "fail" /\ EndCommand("1")
       \/ verdict[Job] = "pass" /\ at = Len(Matches[active]) /\ EndCommand("0")
       \/ /\ verdict[Job] = "pass" /\ at < Len(Matches[active])
          /\ at' = at + 1
          /\ pc' = "load"
          /\ hasId' = FALSE
          /\ demo' = saved
          /\ UNCHANGED <<exit, active, saved>>
    /\ UNCHANGED serviceVars

(***************************************************************************)
(* An interrupt or a kill, at any point of the command.                    *)
(***************************************************************************)
KillCommand ==
    /\ pc # "idle"
    /\ EndCommand("killed")
    /\ Fault(Job, "died")
    /\ UNCHANGED <<runs, idFile, junit, verdict, wrote>>

CommandStep ==
    \/ LoadConfig \/ CreateTestRun \/ Orchestrate \/ GetToken
    \/ UploadResults \/ UpdateStatus \/ FinishJob
=============================================================================
