----------------------------- MODULE LabService -----------------------------
(***************************************************************************)
(* The ISV Lab Service as its clients see it, and the client calls of      *)
(* isvreporter that change it (client.py, auth.py).  Two programs share    *)
(* these calls and the files of one working directory: isvctl test run     *)
(* (TestRunReport) and isvreporter create / update (SplitReport).          *)
(*                                                                         *)
(* A job is one execution that may create one test run, so a test run is   *)
(* named by the job that created it.                                       *)
(***************************************************************************)
EXTENDS Naturals, Sequences, FiniteSets

CONSTANTS
    Jobs,    \* executions that may create a test run and write a JUnit report
    Places,  \* the paths a JUnit report may be looked for at
    NoJob    \* no run, no report

ASSUME NoJobAssumption == NoJob \notin Jobs

VARIABLES
    runs,    \* runs[j]: what the service stores of the test run of job j
    idFile,  \* the id in _output/testrun_id.txt, NoJob when there is no file
    junit,   \* junit[p]: the job whose report is the file at p
    verdict, \* verdict[j]: what the tests of job j said
    wrote,   \* the jobs whose tests wrote a JUnit report
    faults   \* faults[j]: what went wrong while job j reported

serviceVars == <<runs, idFile, junit, verdict, wrote, faults>>

Statuses == {"none", "STARTED", "SUCCESS", "FAILED"}
Verdicts == {"none", "pass", "fail"}
Faults   == {"died", "create", "id", "token", "results", "status"}
Closed   == {"SUCCESS", "FAILED"}

RunRecord == [status: Statuses, report: Jobs \cup {NoJob}]

(***************************************************************************)
(* How a request can end: answered; refused or never delivered; applied by *)
(* the service with the answer lost (a timeout while reading, a body that  *)
(* does not parse).  The client sees the last two as the same failure.     *)
(***************************************************************************)
Outcomes == {"ok", "refused", "lost"}
Applied(outcome) == outcome # "refused"

ServiceInit ==
    /\ runs = [j \in Jobs |-> [status |-> "none", report |-> NoJob]]
    /\ idFile = NoJob
    /\ junit = [p \in Places |-> NoJob]
    /\ verdict = [j \in Jobs |-> "none"]
    /\ wrote = {}
    /\ faults = [j \in Jobs |-> {}]

ServiceTypeOK ==
    /\ runs \in [Jobs -> RunRecord]
    /\ idFile \in Jobs \cup {NoJob}
    /\ junit \in [Places -> Jobs \cup {NoJob}]
    /\ verdict \in [Jobs -> Verdicts]
    /\ wrote \in SUBSET Jobs
    /\ faults \in [Jobs -> SUBSET Faults]

-----------------------------------------------------------------------------
(***************************************************************************)
(* client.create_test_run: POST the run; on an answer the id is saved, the *)
(* old file being removed before the new one is written, and an OSError of *)
(* either is only a warning.                                               *)
(***************************************************************************)
CreateRequest(j, outcome) ==
    /\ runs' = IF Applied(outcome)
               THEN [runs EXCEPT ![j] = [status |-> "STARTED", report |-> NoJob]]
               ELSE runs
    /\ IF outcome = "ok" THEN idFile' \in {j, idFile, NoJob} ELSE idFile' = idFile

(***************************************************************************)
(* client.report_test_results: POST the JUnit report for a test run.       *)
(***************************************************************************)
ReportTestResults(r, report, outcome) ==
    runs' = IF Applied(outcome) THEN [runs EXCEPT ![r].report = report] ELSE runs

\* Mutant: the status keeps the spelling of the verdict.
MutantStatusSpelling(v) == IF v = "pass" THEN "PASSED" ELSE "FAILED"

(***************************************************************************)
(* client.update_test_run: PUT the completion status of a test run.        *)
(***************************************************************************)
UpdateTestRun(r, status, outcome) ==
    runs' = IF Applied(outcome) THEN [runs EXCEPT ![r].status = status] ELSE runs

StatusOf(v) == IF v = "pass" THEN "SUCCESS" ELSE "FAILED"

Fault(j, f) == faults' = [faults EXCEPT ![j] = @ \cup {f}]
FaultIf(failed, j, f) == IF failed THEN Fault(j, f) ELSE faults' = faults

(***************************************************************************)
(* The tests of job j say v; when w they write their report at p, over any *)
(* report that was there.                                                  *)
(***************************************************************************)
TestsEnd(j, v, w, p) ==
    /\ verdict' = [verdict EXCEPT ![j] = v]
    /\ wrote' = IF w THEN wrote \cup {j} ELSE wrote
    /\ junit' = IF w THEN [junit EXCEPT ![p] = j] ELSE junit
=============================================================================
