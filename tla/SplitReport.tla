---------------------------- MODULE SplitReport ----------------------------
(***************************************************************************)
(* The split flow of isvreporter/main.py: a CI job runs report create,     *)
(* then its tests, then report update in an after_script that runs however *)
(* the earlier steps ended.  Update takes the run id from --test-run-id or *)
(* from the file an earlier create left in the working directory.          *)
(***************************************************************************)
EXTENDS LabService

CONSTANTS
    SplitJobs,   \* the CI jobs that use the split flow
    ExplicitId,  \* those whose update passes the id that create printed
    SplitPlace,  \* the --junit-xml path they share
    NotUpdated   \* value of target: update has not chosen a run

ASSUME SplitAssumption ==
    /\ SplitJobs \subseteq Jobs
    /\ ExplicitId \subseteq SplitJobs
    /\ SplitPlace \in Places
    /\ NotUpdated \notin Jobs \cup {NoJob}

VARIABLES
    spc,       \* spc[j]: where CI job j is
    printed,   \* the jobs whose create printed an id
    target     \* target[j]: the run whose record update of job j writes

splitVars == <<spc, printed, target>>

SplitPCs == {"waiting", "create", "test", "update", "token", "results", "status", "done"}

SplitInit ==
    /\ spc = [j \in SplitJobs |-> "waiting"]
    /\ printed = {}
    /\ target = [j \in SplitJobs |-> NotUpdated]

SplitTypeOK ==
    /\ spc \in [SplitJobs -> SplitPCs]
    /\ printed \in SUBSET SplitJobs
    /\ target \in [SplitJobs -> Jobs \cup {NoJob, NotUpdated}]

SplitGoto(j, where) == spc' = [spc EXCEPT ![j] = where]

(***************************************************************************)
(* report create: missing credentials and a failed token or POST end it    *)
(* with code 1, which leaves the id file of an earlier run in place.       *)
(***************************************************************************)
Create(j) ==
    /\ spc[j] = "create"
    /\ SplitGoto(j, "test")
    /\ \E outcome \in Outcomes :
          /\ CreateRequest(j, outcome)
          /\ printed' = IF outcome = "ok" THEN printed \cup {j} ELSE printed
          /\ faults' = [faults EXCEPT ![j] = @ \cup
                (IF outcome # "ok" THEN {"create"} ELSE {}) \cup
                (IF outcome = "ok" /\ idFile' # j THEN {"id"} ELSE {})]
    /\ UNCHANGED <<junit, verdict, wrote, target>>

(***************************************************************************)
(* The job's own tests, which need not be isvctl: they may never start.    *)
(***************************************************************************)
Test(j) ==
    /\ spc[j] = "test"
    /\ SplitGoto(j, "update")
    /\ \E v \in {"pass", "fail"}, w \in BOOLEAN : TestsEnd(j, v, w, SplitPlace)
    /\ UNCHANGED <<runs, idFile, faults, printed, target>>

(***************************************************************************)
(* The run that report update writes: --test-run-id, and when that is      *)
(* absent or empty the id file, whoever left it (main.py:260).             *)
(***************************************************************************)
LoadTestRunId(j) == IF j \in ExplicitId /\ j \in printed THEN j ELSE idFile

(***************************************************************************)
(* A job that passes the id is written as the guide's trap: it calls       *)
(* update only when create printed one.  Without that test an empty id     *)
(* would send update to the id file of an earlier run.                     *)
(***************************************************************************)
CallsUpdate(j) == j \in ExplicitId => j \in printed

RunToUpdate(j) == IF CallsUpdate(j) THEN LoadTestRunId(j) ELSE NoJob

(***************************************************************************)
(* report update, up to the token: no id, or an unreadable start time,     *)
(* ends it with code 1.                                                    *)
(***************************************************************************)
Update(j) ==
    /\ spc[j] = "update"
    /\ target' = [target EXCEPT ![j] = RunToUpdate(j)]
    /\ \/ /\ RunToUpdate(j) # NoJob
          /\ SplitGoto(j, "token")
          /\ UNCHANGED faults
       \/ /\ SplitGoto(j, "done")
          /\ Fault(j, IF RunToUpdate(j) = NoJob THEN "id" ELSE "died")
    /\ UNCHANGED <<runs, idFile, junit, verdict, wrote, printed>>

SplitToken(j) ==
    /\ spc[j] = "token"
    /\ \E ok \in BOOLEAN :
          /\ SplitGoto(j, IF ok THEN "results" ELSE "done")
          /\ FaultIf(~ok, j, "token")
    /\ UNCHANGED <<runs, idFile, junit, verdict, wrote, printed, target>>

\* Mutant: SystemExit of the upload ends the command before the status.
MutantUploadExits(j) ==
    /\ spc[j] = "results"
    /\ \E outcome \in Outcomes :
          /\ ReportTestResults(target[j], junit[SplitPlace], outcome)
          /\ FaultIf(outcome # "ok", j, "results")
          /\ SplitGoto(j, IF outcome = "ok" THEN "status" ELSE "done")
    /\ UNCHANGED <<idFile, junit, verdict, wrote, printed, target>>

(***************************************************************************)
(* The report at the given path, if the file exists; a failed upload is    *)
(* remembered for the exit code and the run is closed all the same.        *)
(***************************************************************************)
SplitResults(j) ==
    /\ spc[j] = "results"
    /\ SplitGoto(j, "status")
    /\ \/ /\ junit[SplitPlace] = NoJob
          /\ UNCHANGED <<runs, faults>>
       \/ /\ junit[SplitPlace] # NoJob
          /\ \E outcome \in Outcomes :
                /\ ReportTestResults(target[j], junit[SplitPlace], outcome)
                /\ FaultIf(outcome # "ok", j, "results")
    /\ UNCHANGED <<idFile, junit, verdict, wrote, printed, target>>

SplitStatus(j) ==
    /\ spc[j] = "status"
    /\ SplitGoto(j, "done")
    /\ \E outcome \in Outcomes :
          /\ UpdateTestRun(target[j], StatusOf(verdict[j]), outcome)
          /\ FaultIf(outcome # "ok", j, "status")
    /\ UNCHANGED <<idFile, junit, verdict, wrote, printed, target>>

(***************************************************************************)
(* The CI job is killed, its after_script with it.                         *)
(***************************************************************************)
KillSplit(j) ==
    /\ spc[j] \notin {"waiting", "done"}
    /\ SplitGoto(j, "done")
    /\ Fault(j, "died")
    /\ UNCHANGED <<runs, idFile, junit, verdict, wrote, printed, target>>

SplitStep(j) ==
    \/ Create(j) \/ Test(j) \/ Update(j)
    \/ SplitToken(j) \/ SplitResults(j) \/ SplitStatus(j)
=============================================================================
