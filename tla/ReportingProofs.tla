--------------------------- MODULE ReportingProofs ---------------------------
(***************************************************************************)
(* Proofs about Reporting: its type correctness, its safety invariants,    *)
(* which report a job uploads, and that it implements RunLife.             *)
(***************************************************************************)
EXTENDS Reporting, WellFoundedInduction, TLAPS

-----------------------------------------------------------------------------
(***************************************************************************)
(* The inductive invariant, in parts.  First, who is in progress: at most  *)
(* one command or CI job, and each program counter says so.                *)
(***************************************************************************)
WhoRuns ==
    /\ pc = "idle" <=> active \notin Commands
    /\ \A c \in Commands : exit[c] = "running" <=> c = active
    /\ active \in Commands => at \in DOMAIN Matches[active]
    /\ \A j \in SplitJobs : spc[j] \in {"waiting", "done"} <=> j # active

\* Nothing was stored for a job, and its tests have not run.
Untouched(j) == runs[j].status = "none" /\ verdict[j] = "none" /\ j \notin wrote

\* The i-th job of command c has not created its test run.
Ahead(c, i) ==
    \/ exit[c] = "waiting"
    \/ exit[c] = "running" /\ (i > at \/ (i = at /\ pc \in {"load", "create"}))

JobsAhead ==
    /\ \A c \in Commands : \A i \in DOMAIN Matches[c] : Ahead(c, i) => Untouched(Matches[c][i])
    /\ \A j \in SplitJobs : spc[j] \in {"waiting", "create"} => Untouched(j) /\ j \notin printed

JobsBehind ==
    \A c \in Commands : \A i \in DOMAIN Matches[c] :
        exit[c] = "running" /\ i < at => verdict[Matches[c][i]] = "pass"

KeepsOpen == {"died", "create", "id", "token", "status"}
Excused(j) == faults[j] \cap KeepsOpen # {}

(***************************************************************************)
(* What the running command knows of its current job: an id in hand means  *)
(* a run that is still STARTED, and a report it wrote is where it looks    *)
(* first.                                                                  *)
(***************************************************************************)
CurrentJob ==
    /\ pc = "orchestrate" =>
          /\ verdict[Job] = "none" /\ Job \notin wrote
          /\ hasId => runs[Job].status = "STARTED"
          /\ runs[Job].status = "STARTED" => hasId \/ Excused(Job)
    /\ pc \in {"token", "results", "status"} =>
          runs[Job].status = "STARTED" /\ verdict[Job] # "none"
    /\ pc \in {"token", "results"} /\ Job \in wrote => junit[Requested[Job]] = Job
    /\ pc = "finish" =>
          /\ verdict[Job] # "none"
          /\ runs[Job].status = "STARTED" => Excused(Job)

(***************************************************************************)
(* Demo mode is on whenever the command, or the config that was loaded,    *)
(* asks for it, and what is saved for the next config is the command's.    *)
(***************************************************************************)
DemoMode ==
    /\ pc = "load" => demo = saved
    /\ pc # "idle" /\ active \in DemoCommands => demo /\ saved
    /\ pc \notin {"idle", "load"} /\ Job \in DemoImports => demo

\* The id file names a run that was created.
IdFileKnown == idFile # NoJob => runs[idFile].status # "none"

(***************************************************************************)
(* What the CI job in progress knows: between create and update the run is *)
(* its own, or a fault says why not; from then on target is a run that     *)
(* exists.                                                                 *)
(***************************************************************************)
SplitProgress(j) ==
    /\ spc[j] \in {"test", "update"} =>
          /\ j \in printed => runs[j].status = "STARTED" /\ (idFile = j \/ Excused(j))
          /\ runs[j].status = "STARTED" => j \in printed \/ Excused(j)
    /\ spc[j] = "test" => verdict[j] = "none"
    /\ spc[j] \in {"update", "token", "results", "status"} => verdict[j] # "none"
    /\ spc[j] \in {"token", "results", "status"} =>
          /\ target[j] \in Jobs /\ runs[target[j]].status # "none"
          /\ runs[j].status = "STARTED" => target[j] = j \/ Excused(j)
          /\ j \in ExplicitId => target[j] = j /\ runs[j].status = "STARTED"

CurrentSplit == \A j \in SplitJobs : SplitProgress(j)

Safe == OpenOnlyAfterFault /\ DemoNeverReported /\ ExitMatchesVerdicts

IInv ==
    /\ TypeOK /\ WhoRuns /\ JobsAhead /\ JobsBehind /\ CurrentJob /\ DemoMode
    /\ IdFileKnown /\ CurrentSplit /\ Safe

-----------------------------------------------------------------------------
\* The current job of the running command is one of Jobs and no CI job.
LEMMA JobTypes ==
    ASSUME NEW c \in Commands, NEW i \in DOMAIN Matches[c]
    PROVE  /\ Matches[c][i] \in CommandJobs /\ Matches[c][i] \in Jobs
           /\ Matches[c][i] \notin SplitJobs
           /\ Requested[Matches[c][i]] \in Places
           /\ i \in Nat /\ i >= 1 /\ i <= Len(Matches[c]) /\ Len(Matches[c]) \in Nat
<1>1. Matches[c] \in Seq(Jobs)
  BY CommandAssumption
<1>2. Matches[c][i] \in Jobs
  BY <1>1
<1>3. Matches[c][i] \in CommandJobs
  BY DEF CommandJobs
<1> QED
  BY <1>1, <1>2, <1>3, CommandAssumption, ReportingAssumption

\* No two positions hold the same job.
LEMMA JobsDistinct ==
    ASSUME NEW c \in Commands, NEW d \in Commands,
           NEW i \in DOMAIN Matches[c], NEW k \in DOMAIN Matches[d],
           Matches[c][i] = Matches[d][k]
    PROVE  c = d /\ i = k
BY CommandAssumption

\* A request that reports results changes no status.
LEMMA ReportEffect ==
    ASSUME runs \in [Jobs -> RunRecord], NEW r \in Jobs, NEW report \in Jobs \cup {NoJob},
           NEW outcome, ReportTestResults(r, report, outcome)
    PROVE  /\ runs' \in [Jobs -> RunRecord]
           /\ \A k \in Jobs : runs'[k].status = runs[k].status
           /\ \A k \in Jobs : runs'[k].report \in {runs[k].report, report}
<1>1. runs[r] \in RunRecord
  OBVIOUS
<1>2. [runs[r] EXCEPT !.report = report] \in RunRecord
  BY <1>1 DEF RunRecord
<1>3. CASE runs' = runs
  BY <1>3
<1>4. CASE runs' = [runs EXCEPT ![r].report = report]
  <2>1. \A k \in Jobs : k # r => runs'[k] = runs[k]
    BY <1>4
  <2>2. runs'[r] = [runs[r] EXCEPT !.report = report]
    BY <1>4
  <2>3. runs'[r].status = runs[r].status /\ runs'[r].report = report
    BY <1>1, <2>2 DEF RunRecord
  <2> QED
    BY <1>2, <1>4, <2>1, <2>3
<1> QED
  BY <1>3, <1>4 DEF ReportTestResults

\* A request that sets a status changes that of one run, or nothing.
LEMMA StatusEffect ==
    ASSUME runs \in [Jobs -> RunRecord], NEW r \in Jobs, NEW s \in Closed,
           NEW outcome \in Outcomes, UpdateTestRun(r, s, outcome)
    PROVE  /\ runs' \in [Jobs -> RunRecord]
           /\ \A k \in Jobs : k # r => runs'[k] = runs[k]
           /\ runs'[r].status \in {runs[r].status, s}
           /\ runs'[r].report = runs[r].report
           /\ outcome = "ok" => runs'[r].status = s
<1>1. runs[r] \in RunRecord
  OBVIOUS
<1>2. [runs[r] EXCEPT !.status = s] \in RunRecord
  BY <1>1 DEF RunRecord, Closed, Statuses
<1>3. CASE outcome = "refused"
  BY <1>3 DEF UpdateTestRun, Applied
<1>4. CASE outcome # "refused"
  <2>1. runs' = [runs EXCEPT ![r].status = s]
    BY <1>4 DEF UpdateTestRun, Applied
  <2>2. runs'[r] = [runs[r] EXCEPT !.status = s]
    BY <2>1
  <2>3. runs'[r].status = s /\ runs'[r].report = runs[r].report
    BY <1>1, <2>2 DEF RunRecord
  <2> QED
    BY <1>2, <2>1, <2>3
<1> QED
  BY <1>3, <1>4

\* A request that creates a run opens it, or nothing happens; the id file then
\* names that run, what it named before or nothing.
LEMMA CreateEffect ==
    ASSUME ServiceTypeOK, NEW j \in Jobs, NEW outcome \in Outcomes, CreateRequest(j, outcome)
    PROVE  /\ runs' \in [Jobs -> RunRecord]
           /\ \A k \in Jobs : k # j => runs'[k] = runs[k]
           /\ \/ outcome = "refused" /\ runs' = runs
              \/ outcome # "refused" /\ runs'[j].status = "STARTED"
           /\ idFile' \in {j, idFile, NoJob} /\ idFile' \in Jobs \cup {NoJob}
           /\ outcome # "ok" => idFile' = idFile
<1>1. [status |-> "STARTED", report |-> NoJob] \in RunRecord
  BY DEF RunRecord, Statuses
<1>2. CASE outcome = "refused"
  BY <1>2 DEF ServiceTypeOK, CreateRequest, Applied
<1>3. CASE outcome # "refused"
  <2>1. runs' = [runs EXCEPT ![j] = [status |-> "STARTED", report |-> NoJob]]
    BY <1>3 DEF CreateRequest, Applied
  <2>2. runs'[j] = [status |-> "STARTED", report |-> NoJob]
    BY <2>1 DEF ServiceTypeOK
  <2>3. runs'[j].status = "STARTED"
    BY <2>2
  <2> QED
    BY <1>1, <1>3, <2>1, <2>3 DEF ServiceTypeOK, CreateRequest
<1> QED
  BY <1>2, <1>3

\* A fault is added to the faults of one job.
LEMMA FaultEffect ==
    ASSUME ServiceTypeOK, NEW j \in Jobs, NEW f \in Faults, Fault(j, f)
    PROVE  /\ faults' \in [Jobs -> SUBSET Faults]
           /\ \A k \in Jobs : faults[k] \subseteq faults'[k]
           /\ f \in faults'[j]
BY DEF ServiceTypeOK, Fault

\* The verdict and the report of one job.
LEMMA TestsEffect ==
    ASSUME ServiceTypeOK, NEW j \in Jobs, NEW v \in {"pass", "fail"}, NEW w \in BOOLEAN,
           NEW p \in Places, TestsEnd(j, v, w, p)
    PROVE  /\ verdict' \in [Jobs -> Verdicts] /\ wrote' \in SUBSET Jobs
           /\ junit' \in [Places -> Jobs \cup {NoJob}]
           /\ verdict'[j] = v /\ \A k \in Jobs : k # j => verdict'[k] = verdict[k]
           /\ \A k \in Jobs : k # j => (k \in wrote' <=> k \in wrote)
           /\ w => junit'[p] = j
           /\ ~w => wrote' = wrote
BY DEF ServiceTypeOK, TestsEnd, Verdicts

-----------------------------------------------------------------------------
LEMMA InitInv == Init => IInv
<1> SUFFICES ASSUME Init PROVE IInv
  OBVIOUS
<1> USE DEF Init, ServiceInit, CommandInit, SplitInit
<1>1. TypeOK
  <2>1. [status |-> "none", report |-> NoJob] \in RunRecord
    BY DEF RunRecord, Statuses
  <2>2. ServiceTypeOK
    BY <2>1 DEF ServiceTypeOK, Verdicts
  <2>3. CommandTypeOK
    <3>1. exit \in [Commands -> Exits]
      BY DEF Exits
    <3>2. at \in Nat \ {0} /\ pc \in PCs
      BY DEF PCs
    <3>3. hasId \in BOOLEAN /\ demo \in BOOLEAN /\ saved \in BOOLEAN
      BY Zenon
    <3> QED
      BY <3>1, <3>2, <3>3 DEF CommandTypeOK
  <2>4. SplitTypeOK
    BY DEF SplitTypeOK, SplitPCs
  <2> QED
    BY <2>2, <2>3, <2>4 DEF TypeOK
<1>2. WhoRuns
  BY ReportingAssumption DEF WhoRuns
<1>3. \A j \in Jobs : runs[j].status = "none" /\ Untouched(j)
  BY DEF Untouched
<1>4. JobsAhead /\ CurrentSplit
  BY <1>3, JobTypes, SplitAssumption DEF JobsAhead, CurrentSplit, SplitProgress
<1>5. JobsBehind /\ CurrentJob /\ DemoMode /\ IdFileKnown
  BY DEF JobsBehind, CurrentJob, DemoMode, IdFileKnown
<1>6. Safe
  BY <1>3, JobTypes, ReportingAssumption
     DEF Safe, OpenOnlyAfterFault, DemoNeverReported, ExitMatchesVerdicts
<1> QED
  BY <1>1, <1>2, <1>4, <1>5, <1>6 DEF IInv

\* What the invariant says while a command is in progress.
LEMMA InCommand ==
    ASSUME IInv, pc # "idle"
    PROVE  /\ active \in Commands /\ active # Idle /\ exit[active] = "running"
           /\ at \in DOMAIN Matches[active] /\ at \in Nat
           /\ Job \in Jobs /\ Job \notin SplitJobs /\ Job \in CommandJobs /\ Requested[Job] \in Places
           /\ \A j \in SplitJobs : spc[j] \in {"waiting", "done"} /\ j \in Jobs /\ j # Job
<1>1. active \in Commands /\ exit[active] = "running" /\ at \in DOMAIN Matches[active]
  BY DEF IInv, WhoRuns
<1>2. \A j \in SplitJobs : j # active /\ spc[j] \in {"waiting", "done"}
  BY <1>1, ReportingAssumption DEF IInv, WhoRuns
<1> QED
  BY <1>1, <1>2, JobTypes, ReportingAssumption, SplitAssumption DEF Job

LEMMA OnePosition ==
    ASSUME IInv, pc # "idle", NEW c \in Commands, NEW i \in DOMAIN Matches[c], Matches[c][i] = Job
    PROVE  c = active /\ i = at
<1>1. active \in Commands /\ at \in DOMAIN Matches[active]
  BY InCommand
<1> QED
  BY <1>1, JobsDistinct DEF Job

(***************************************************************************)
(* A step of the running command that touches nothing of any other job     *)
(* leaves the CI jobs where they were, and what was said of the jobs ahead *)
(* and behind.                                                             *)
(***************************************************************************)
OnlyTouches(j) ==
    /\ \A k \in Jobs : k # j => /\ runs'[k].status = runs[k].status
                                /\ verdict'[k] = verdict[k]
                                /\ k \in wrote' <=> k \in wrote
    /\ \A k \in Jobs : faults[k] \subseteq faults'[k]

LEMMA SplitsKept ==
    ASSUME IInv, pc # "idle", UNCHANGED splitVars, OnlyTouches(Job),
           active' \in Commands \cup {Idle}
    PROVE  /\ CurrentSplit' /\ SplitTypeOK'
           /\ \A j \in SplitJobs : spc'[j] \in {"waiting", "done"} /\ j # active'
           /\ \A j \in SplitJobs : spc'[j] \in {"waiting", "create"} => (Untouched(j) /\ j \notin printed)'
<1>1. \A j \in SplitJobs : spc'[j] \in {"waiting", "done"} /\ j \in Jobs /\ j # Job
  BY InCommand DEF splitVars
<1>2. CurrentSplit'
  BY <1>1 DEF CurrentSplit, SplitProgress
<1>3. SplitTypeOK'
  BY DEF IInv, TypeOK, SplitTypeOK, splitVars
<1>4. \A j \in SplitJobs : j # active'
  BY ReportingAssumption
<1>5. ASSUME NEW j \in SplitJobs, spc'[j] \in {"waiting", "create"}
      PROVE  (Untouched(j) /\ j \notin printed)'
  BY <1>1, <1>5 DEF IInv, JobsAhead, Untouched, OnlyTouches, splitVars
<1> QED
  BY <1>1, <1>2, <1>3, <1>4, <1>5

(***************************************************************************)
(* A step within the current job, which stays the current one.             *)
(***************************************************************************)
Within ==
    /\ pc # "idle" /\ pc' \notin {"idle", "load"} /\ pc' \in PCs
    /\ pc' = "create" => pc = "load"
    /\ UNCHANGED <<exit, active, at, saved>>
    /\ UNCHANGED splitVars
    /\ demo' \in BOOLEAN /\ hasId' \in BOOLEAN
    /\ ServiceTypeOK'
    /\ OnlyTouches(Job)
    /\ pc' = "create" => Untouched(Job)'
    /\ verdict[Job] = "none" \/ verdict'[Job] = verdict[Job]

LEMMA WithinKept ==
    ASSUME IInv, Within
    PROVE  /\ TypeOK' /\ WhoRuns' /\ JobsAhead' /\ JobsBehind' /\ CurrentSplit'
           /\ OpenOnlyAfterFault' /\ ExitMatchesVerdicts' /\ Job' = Job
<1> USE DEF Within
<1>1. Job' = Job
  BY DEF Job
<1>2. active' \in Commands \cup {Idle} /\ active' = active
  BY InCommand
<1>3. TypeOK'
  BY <1>2, SplitsKept DEF IInv, TypeOK, CommandTypeOK
<1>4. WhoRuns'
  BY <1>2, InCommand, SplitsKept DEF IInv, WhoRuns, splitVars
<1>5. JobsAhead'
  <2>1. ASSUME NEW c \in Commands, NEW i \in DOMAIN Matches[c], Ahead(c, i)'
        PROVE  Untouched(Matches[c][i])'
    <3>1. CASE Matches[c][i] = Job
      <4>1. c = active /\ i = at
        BY <3>1, OnePosition
      <4>2. pc' = "create"
        BY <2>1, <4>1, InCommand DEF Ahead
      <4> QED
        BY <1>1, <3>1, <4>2 DEF Untouched
    <3>2. CASE Matches[c][i] # Job
      <4>1. Ahead(c, i)
        <5>1. i = at /\ c = active => FALSE
          BY <3>2 DEF Job
        <5> QED
          BY <2>1, <5>1, InCommand DEF Ahead, IInv, WhoRuns
      <4>2. Untouched(Matches[c][i])
        BY <4>1 DEF IInv, JobsAhead
      <4> QED
        BY <3>2, <4>2, JobTypes DEF Untouched, OnlyTouches
    <3> QED
      BY <3>1, <3>2
  <2> QED
    BY <2>1, <1>2, SplitsKept DEF JobsAhead
<1>6. JobsBehind'
  <2> SUFFICES ASSUME NEW c \in Commands, NEW i \in DOMAIN Matches[c], exit[c] = "running", i < at
               PROVE  verdict'[Matches[c][i]] = "pass"
    BY DEF JobsBehind
  <2>1. verdict[Matches[c][i]] = "pass"
    BY DEF IInv, JobsBehind
  <2> QED
    BY <2>1, JobTypes DEF OnlyTouches
<1>7. OpenOnlyAfterFault'
  <2> SUFFICES ASSUME NEW j \in Jobs, Over(j)', runs'[j].status = "STARTED"
               PROVE  faults'[j] \cap {"died", "create", "id", "token", "status"} # {}
    BY DEF OpenOnlyAfterFault
  <2>1. Over(j)
    BY DEF Over, splitVars
  <2>2. j # Job
    <3> SUFFICES ASSUME j = Job PROVE FALSE
      OBVIOUS
    <3>0. PICK c \in Commands : \E i \in DOMAIN Matches[c] :
             /\ j = Matches[c][i]
             /\ exit[c] \notin {"waiting", "running"} \/ (exit[c] = "running" /\ at > i)
      BY <2>1, InCommand DEF Over
    <3>1. PICK i \in DOMAIN Matches[c] :
             /\ j = Matches[c][i]
             /\ exit[c] \notin {"waiting", "running"} \/ (exit[c] = "running" /\ at > i)
      BY <3>0
    <3>2. c = active /\ i = at
      BY <3>1, OnePosition
    <3> QED
      BY <3>1, <3>2, InCommand, JobTypes
  <2>3. runs[j].status = "STARTED"
    BY <2>2 DEF OnlyTouches
  <2>4. faults[j] \cap {"died", "create", "id", "token", "status"} # {}
    BY <2>1, <2>3 DEF IInv, Safe, OpenOnlyAfterFault
  <2> QED
    BY <2>4 DEF OnlyTouches
<1>8. ExitMatchesVerdicts'
  <2>1. \A c \in Commands : \A i \in DOMAIN Matches[c] :
           verdict[Matches[c][i]] = "pass" => verdict'[Matches[c][i]] = "pass"
    BY JobTypes DEF OnlyTouches
  <2>2. ASSUME NEW c \in Commands, NEW i \in DOMAIN Matches[c], NEW k \in DOMAIN Matches[c],
               i < k, verdict'[Matches[c][k]] # "none"
        PROVE  verdict'[Matches[c][i]] = "pass"
    <3>1. CASE Matches[c][k] = Job
      <4>1. c = active /\ k = at
        BY <3>1, OnePosition
      <4> QED
        BY <2>1, <2>2, <4>1, InCommand DEF IInv, JobsBehind
    <3>2. CASE Matches[c][k] # Job
      <4>1. verdict[Matches[c][k]] # "none"
        BY <2>2, <3>2, JobTypes DEF OnlyTouches
      <4> QED
        BY <2>1, <2>2, <4>1 DEF IInv, Safe, ExitMatchesVerdicts
    <3> QED
      BY <3>1, <3>2
  <2>3. ASSUME NEW c \in Commands, exit'[c] = "0", NEW i \in DOMAIN Matches[c]
        PROVE  verdict'[Matches[c][i]] = "pass"
    BY <2>1, <2>3 DEF IInv, Safe, ExitMatchesVerdicts
  <2> QED
    BY <2>2, <2>3 DEF ExitMatchesVerdicts
<1> QED
  BY <1>1, <1>2, <1>3, <1>4, <1>5, <1>6, <1>7, <1>8, SplitsKept

(***************************************************************************)
(* The end of a command: its current job must be excused when its run is   *)
(* still open; the jobs it did not reach were never touched.               *)
(***************************************************************************)
LEMMA EndKept ==
    ASSUME IInv, pc # "idle", NEW code \in {"0", "1", "killed"}, EndCommand(code),
           code = "0" => verdict[Job] = "pass" /\ at = Len(Matches[active]),
           runs[Job].status = "STARTED" => faults'[Job] \cap KeepsOpen # {},
           UNCHANGED <<runs, idFile, junit, verdict, wrote>>, UNCHANGED splitVars,
           faults' \in [Jobs -> SUBSET Faults], \A k \in Jobs : faults[k] \subseteq faults'[k]
    PROVE  IInv'
<1> USE DEF EndCommand
<1>1. /\ active' = Idle /\ Idle \notin Commands /\ exit'[active] = code
      /\ \A c \in Commands : c # active => exit'[c] = exit[c]
  BY InCommand, ReportingAssumption DEF IInv, TypeOK, CommandTypeOK
<1>2. OnlyTouches(Job)
  BY DEF OnlyTouches
<1>3. TypeOK'
  <2>1. CommandTypeOK'
    <3>1. exit' \in [Commands -> Exits]
      BY DEF IInv, TypeOK, CommandTypeOK, Exits
    <3>2. at' \in Nat \ {0} /\ pc' \in PCs
      BY DEF PCs
    <3>3. hasId' \in BOOLEAN /\ demo' \in BOOLEAN /\ saved' \in BOOLEAN
      BY Zenon
    <3> QED
      BY <3>1, <3>2, <3>3 DEF CommandTypeOK
  <2> QED
    BY <1>1, <1>2, <2>1, SplitsKept DEF IInv, TypeOK, ServiceTypeOK
<1>4. WhoRuns'
  BY <1>1, <1>2, SplitsKept DEF IInv, WhoRuns, splitVars
<1>5. JobsAhead'
  <2>1. ASSUME NEW c \in Commands, NEW i \in DOMAIN Matches[c], Ahead(c, i)'
        PROVE  Untouched(Matches[c][i])'
    <3>1. c # active /\ exit[c] = "waiting"
      BY <1>1, <2>1 DEF Ahead, IInv, WhoRuns
    <3> QED
      BY <3>1 DEF IInv, JobsAhead, Ahead, Untouched
  <2> QED
    BY <1>1, <1>2, <2>1, SplitsKept DEF JobsAhead
<1>6. JobsBehind' /\ CurrentJob' /\ DemoMode' /\ IdFileKnown'
  BY <1>1 DEF JobsBehind, CurrentJob, DemoMode, IdFileKnown, IInv, WhoRuns
<1>7. OpenOnlyAfterFault'
  <2> SUFFICES ASSUME NEW j \in Jobs, Over(j)', runs'[j].status = "STARTED"
               PROVE  faults'[j] \cap {"died", "create", "id", "token", "status"} # {}
    BY DEF OpenOnlyAfterFault
  <2>1. CASE j = Job
    BY <2>1 DEF KeepsOpen
  <2>2. CASE j # Job /\ Over(j)
    BY <2>2 DEF IInv, Safe, OpenOnlyAfterFault
  <2>3. CASE j # Job /\ ~Over(j)
    <3>0. PICK c \in Commands : \E i \in DOMAIN Matches[c] :
             /\ j = Matches[c][i]
             /\ \/ exit'[c] \notin {"waiting", "running"}
                \/ exit'[c] = "running" /\ at' > i
      BY <2>3 DEF Over, splitVars
    <3>1. PICK i \in DOMAIN Matches[c] :
             /\ j = Matches[c][i]
             /\ \/ exit'[c] \notin {"waiting", "running"}
                \/ exit'[c] = "running" /\ at' > i
      BY <3>0
    <3>2. c = active
      BY <1>1, <2>3, <3>1 DEF Over, IInv, WhoRuns
    <3>3. i # at /\ ~(at > i)
      BY <2>3, <3>1, <3>2, InCommand DEF Over, Job
    <3>4. i > at
      BY <3>3, InCommand, JobTypes
    <3>5. Untouched(j)
      BY <3>1, <3>2, <3>4, InCommand DEF IInv, JobsAhead, Ahead
    <3> QED
      BY <3>5 DEF Untouched
  <2> QED
    BY <2>1, <2>2, <2>3
<1>8. DemoNeverReported'
  BY DEF IInv, Safe, DemoNeverReported
<1>9. ExitMatchesVerdicts'
  <2>1. ASSUME NEW c \in Commands, exit'[c] = "0", NEW i \in DOMAIN Matches[c]
        PROVE  verdict[Matches[c][i]] = "pass"
    <3>1. CASE c # active
      BY <1>1, <2>1, <3>1 DEF IInv, Safe, ExitMatchesVerdicts
    <3>2. CASE c = active
      <4>1. verdict[Job] = "pass" /\ at = Len(Matches[active])
        BY <1>1, <2>1, <3>2
      <4>2. i = at \/ i < at
        BY <3>2, <4>1, InCommand, JobTypes
      <4> QED
        BY <3>2, <4>1, <4>2, InCommand DEF IInv, JobsBehind, Job
    <3> QED
      BY <3>1, <3>2
  <2> QED
    BY <2>1 DEF IInv, Safe, ExitMatchesVerdicts
<1> QED
  BY <1>1, <1>2, <1>3, <1>4, <1>5, <1>6, <1>7, <1>8, <1>9, SplitsKept DEF IInv, Safe

\* The parts of the invariant that a step within the current job may disturb.
LEMMA WithinInv ==
    ASSUME IInv, Within, CurrentJob', DemoMode', IdFileKnown', DemoNeverReported'
    PROVE  IInv'
BY WithinKept DEF IInv, Safe

LEMMA LoadInv == ASSUME IInv, LoadConfig, UNCHANGED splitVars PROVE IInv'
<1> USE DEF LoadConfig
<1>1. pc # "idle"
  OBVIOUS
<1>2. CASE EndCommand("1")
  <2>1. Ahead(active, at)
    BY InCommand DEF Ahead
  <2>2. Untouched(Job)
    BY <1>1, <2>1, InCommand DEF IInv, JobsAhead, Job
  <2> QED
    BY <1>1, <1>2, <2>2, EndKept DEF Untouched, serviceVars, IInv, TypeOK, ServiceTypeOK
<1>3. CASE /\ demo' = (demo \/ Job \in DemoImports)
           /\ pc' = "create"
           /\ UNCHANGED <<exit, active, at, hasId, saved>>
  <2>1. Ahead(active, at)
    BY InCommand DEF Ahead
  <2>2. Untouched(Job)
    BY <1>1, <2>1, InCommand DEF IInv, JobsAhead, Job
  <2>3. Job' = Job
    BY <1>3 DEF Job
  <2>4. Within
    <3>1. Untouched(Job)'
      BY <2>2, <2>3 DEF Untouched, serviceVars
    <3>2. ServiceTypeOK'
      BY DEF IInv, TypeOK, ServiceTypeOK, serviceVars
    <3>3. demo' \in BOOLEAN /\ hasId' \in BOOLEAN
      BY <1>3, Zenon DEF IInv, TypeOK, CommandTypeOK
    <3>4. OnlyTouches(Job)
      BY DEF OnlyTouches, serviceVars
    <3> QED
      BY <1>1, <1>3, <3>1, <3>2, <3>3, <3>4 DEF Within, PCs, serviceVars
  <2>5. CurrentJob'
    BY <1>3 DEF CurrentJob
  <2>6. DemoMode'
    BY <1>1, <1>3, <2>3 DEF DemoMode, IInv
  <2>7. IdFileKnown' /\ DemoNeverReported'
    BY DEF IInv, Safe, IdFileKnown, DemoNeverReported, serviceVars
  <2> QED
    BY <2>4, <2>5, <2>6, <2>7, WithinInv
<1> QED
  BY <1>2, <1>3

LEMMA CreateInv == ASSUME IInv, CreateTestRun, UNCHANGED splitVars PROVE IInv'
<1> USE DEF CreateTestRun
<1>1. pc # "idle" /\ Job \in Jobs /\ Job' = Job
  BY InCommand DEF Job
<1>2. Untouched(Job)
  BY InCommand DEF IInv, JobsAhead, Job, Ahead
<1>3. CASE hasId' = FALSE /\ UNCHANGED serviceVars
  <2>1. Within
    <3>1. ServiceTypeOK'
      BY <1>3 DEF IInv, TypeOK, ServiceTypeOK, serviceVars
    <3>2. demo' \in BOOLEAN /\ hasId' \in BOOLEAN
      BY <1>3, Zenon DEF IInv, TypeOK, CommandTypeOK
    <3>3. OnlyTouches(Job)
      BY <1>3 DEF OnlyTouches, serviceVars
    <3> QED
      BY <1>1, <1>3, <3>1, <3>2, <3>3 DEF Within, PCs, serviceVars
  <2>2. CurrentJob'
    BY <1>1, <1>2, <1>3 DEF CurrentJob, Untouched, serviceVars
  <2>3. DemoMode'
    BY <1>1 DEF DemoMode, IInv
  <2>4. IdFileKnown' /\ DemoNeverReported'
    BY <1>3 DEF IInv, Safe, IdFileKnown, DemoNeverReported, serviceVars
  <2> QED
    BY <2>1, <2>2, <2>3, <2>4, WithinInv
<1>4. ASSUME ~demo, UNCHANGED <<junit, verdict, wrote>>, NEW outcome \in Outcomes,
             CreateRequest(Job, outcome), hasId' = (outcome = "ok"),
             FaultIf(outcome = "lost", Job, "create")
      PROVE  IInv'
  <2>1. ServiceTypeOK
    BY DEF IInv, TypeOK
  <2>2. /\ runs' \in [Jobs -> RunRecord]
        /\ \A k \in Jobs : k # Job => runs'[k] = runs[k]
        /\ \/ outcome = "refused" /\ runs' = runs
           \/ outcome # "refused" /\ runs'[Job].status = "STARTED"
        /\ idFile' \in {Job, idFile, NoJob} /\ idFile' \in Jobs \cup {NoJob}
        /\ outcome # "ok" => idFile' = idFile
    BY <1>1, <1>4, <2>1, CreateEffect
  <2>3. /\ faults' \in [Jobs -> SUBSET Faults] /\ \A k \in Jobs : faults[k] \subseteq faults'[k]
        /\ outcome = "lost" => "create" \in faults'[Job]
    BY <1>1, <1>4, <2>1, FaultEffect DEF FaultIf, Faults, ServiceTypeOK
  <2>4. Within
    <3>1. ServiceTypeOK'
      BY <1>4, <2>1, <2>2, <2>3 DEF ServiceTypeOK
    <3>2. demo' \in BOOLEAN /\ hasId' \in BOOLEAN
      BY <1>4, Zenon DEF IInv, TypeOK, CommandTypeOK
    <3>3. OnlyTouches(Job)
      BY <1>4, <2>2, <2>3 DEF OnlyTouches
    <3> QED
      BY <1>1, <1>4, <3>1, <3>2, <3>3 DEF Within, PCs
  <2>5. CurrentJob'
    <3>1. verdict'[Job] = "none" /\ Job \notin wrote'
      BY <1>2, <1>4 DEF Untouched
    <3>2. hasId' => runs'[Job].status = "STARTED"
      BY <1>4, <2>2
    <3>3. runs'[Job].status = "STARTED" => hasId' \/ faults'[Job] \cap KeepsOpen # {}
      BY <1>2, <1>4, <2>2, <2>3 DEF Untouched, KeepsOpen, Outcomes
    <3> QED
      BY <1>1, <3>1, <3>2, <3>3 DEF CurrentJob, Excused
  <2>6. DemoMode'
    BY <1>1 DEF DemoMode, IInv
  <2>7. IdFileKnown'
    <3>1. CASE idFile' = Job
      <4>1. idFile # Job
        BY <1>1, <1>2, NoJobAssumption DEF IInv, IdFileKnown, Untouched
      <4>2. runs'[Job].status = "STARTED"
        BY <2>2, <3>1, <4>1
      <4> QED
        BY <3>1, <4>2 DEF IdFileKnown
    <3>2. CASE idFile' # Job
      BY <2>1, <2>2, <3>2 DEF IInv, IdFileKnown, ServiceTypeOK
    <3> QED
      BY <3>1, <3>2
  <2>8. DemoNeverReported'
    <3> SUFFICES ASSUME NEW c \in Commands, NEW i \in DOMAIN Matches[c],
                        c \in DemoCommands \/ Matches[c][i] \in DemoImports
                 PROVE  runs'[Matches[c][i]].status = "none"
      BY DEF DemoNeverReported
    <3>1. runs[Matches[c][i]].status = "none"
      BY DEF IInv, Safe, DemoNeverReported
    <3>2. Matches[c][i] # Job
      <4> SUFFICES ASSUME Matches[c][i] = Job PROVE FALSE
        OBVIOUS
      <4>1. c = active
        BY <1>1, OnePosition
      <4>2. /\ active \in DemoCommands => demo
            /\ Job \in DemoImports => demo
        BY <1>1 DEF IInv, DemoMode
      <4> QED
        BY <1>4, <4>1, <4>2
    <3> QED
      BY <2>2, <3>1, <3>2, JobTypes
  <2> QED
    BY <2>4, <2>5, <2>6, <2>7, <2>8, WithinInv
<1> QED
  BY <1>3, <1>4

LEMMA OrchestrateInv == ASSUME IInv, Orchestrate, UNCHANGED splitVars PROVE IInv'
<1> USE DEF Orchestrate
<1>1. pc # "idle" /\ Job \in Jobs /\ Requested[Job] \in Places /\ ServiceTypeOK
  BY InCommand DEF IInv, TypeOK
<1>2. ASSUME EndCommand("1"), Fault(Job, "died"), UNCHANGED <<runs, idFile, junit, verdict, wrote>>
      PROVE  IInv'
  <2>1. /\ faults' \in [Jobs -> SUBSET Faults] /\ \A k \in Jobs : faults[k] \subseteq faults'[k]
        /\ "died" \in faults'[Job]
    BY <1>1, <1>2, FaultEffect DEF Faults
  <2>2. faults'[Job] \cap KeepsOpen # {}
    BY <2>1 DEF KeepsOpen
  <2> QED
    BY <1>1, <1>2, <2>1, <2>2, EndKept
<1>3. ASSUME NEW v \in {"pass", "fail"}, NEW w \in BOOLEAN, TestsEnd(Job, v, w, Requested[Job]),
             pc' = IF hasId THEN "token" ELSE "finish",
             UNCHANGED <<runs, idFile, faults, exit, active, at, hasId, demo, saved>>
      PROVE  IInv'
  <2>1. /\ verdict' \in [Jobs -> Verdicts] /\ wrote' \in SUBSET Jobs
        /\ junit' \in [Places -> Jobs \cup {NoJob}]
        /\ verdict'[Job] = v /\ \A k \in Jobs : k # Job => verdict'[k] = verdict[k]
        /\ \A k \in Jobs : k # Job => (k \in wrote' <=> k \in wrote)
        /\ w => junit'[Requested[Job]] = Job
        /\ ~w => wrote' = wrote
    BY <1>1, <1>3, TestsEffect
  <2>2. Job' = Job
    BY <1>3 DEF Job
  <2>3. /\ verdict[Job] = "none" /\ Job \notin wrote
        /\ hasId => runs[Job].status = "STARTED"
        /\ runs[Job].status = "STARTED" => hasId \/ Excused(Job)
    BY DEF IInv, CurrentJob
  <2>4. Within
    <3>1. ServiceTypeOK'
      BY <1>1, <1>3, <2>1 DEF ServiceTypeOK
    <3>2. demo' \in BOOLEAN /\ hasId' \in BOOLEAN
      BY <1>3, Zenon DEF IInv, TypeOK, CommandTypeOK
    <3>3. OnlyTouches(Job)
      BY <1>3, <2>1 DEF OnlyTouches
    <3> QED
      BY <1>1, <1>3, <2>3, <3>1, <3>2, <3>3 DEF Within, PCs
  <2>5. CurrentJob'
    BY <1>3, <2>1, <2>2, <2>3 DEF CurrentJob, Excused
  <2>6. DemoMode' /\ IdFileKnown' /\ DemoNeverReported'
    BY <1>1, <1>3, <2>2 DEF DemoMode, IInv, Safe, IdFileKnown, DemoNeverReported
  <2> QED
    BY <2>4, <2>5, <2>6, WithinInv
<1> QED
  BY <1>2, <1>3

LEMMA TokenInv == ASSUME IInv, GetToken, UNCHANGED splitVars PROVE IInv'
<1> USE DEF GetToken
<1>1. pc # "idle" /\ Job \in Jobs /\ Job' = Job /\ ServiceTypeOK
  BY InCommand DEF IInv, TypeOK, Job
<1>2. PICK ok \in BOOLEAN : /\ pc' = IF ok THEN "results" ELSE "finish"
                            /\ FaultIf(~ok, Job, "token")
  OBVIOUS
<1>3. /\ faults' \in [Jobs -> SUBSET Faults] /\ \A k \in Jobs : faults[k] \subseteq faults'[k]
      /\ ~ok => "token" \in faults'[Job]
  BY <1>1, <1>2, FaultEffect DEF FaultIf, Faults, ServiceTypeOK
<1>4. Within
  <2>1. ServiceTypeOK'
    BY <1>1, <1>3 DEF ServiceTypeOK
  <2>2. demo' \in BOOLEAN /\ hasId' \in BOOLEAN
    BY Zenon DEF IInv, TypeOK, CommandTypeOK
  <2>3. OnlyTouches(Job)
    BY <1>3 DEF OnlyTouches
  <2> QED
    BY <1>1, <1>2, <2>1, <2>2, <2>3 DEF Within, PCs
<1>5. CurrentJob'
  <2>1. ~ok => faults'[Job] \cap KeepsOpen # {}
    BY <1>3 DEF KeepsOpen
  <2> QED
    BY <1>1, <1>2, <2>1 DEF IInv, CurrentJob, Excused
<1>6. DemoMode' /\ IdFileKnown' /\ DemoNeverReported'
  BY <1>1, <1>2 DEF DemoMode, IInv, Safe, IdFileKnown, DemoNeverReported
<1> QED
  BY <1>4, <1>5, <1>6, WithinInv

\* A nonempty set of naturals has a least element: the first place that exists.
LEMMA LeastIndex ==
    ASSUME NEW S \in SUBSET Nat, S # {}
    PROVE  \E m \in S : \A k \in S : m <= k
<1> DEFINE Less == {pair \in Nat \X Nat : pair[1] < pair[2]}
<1>1. IsWellFoundedOn(Less, Nat)
  BY NatLessThanWellFounded, Zenon DEF OpToRel
<1> HIDE DEF Less
<1>2. PICK m \in S : \A k \in S : <<k, m>> \notin Less
  BY <1>1, WFMin, Zenon
<1>3. \A k \in S : ~(k < m)
  BY <1>2 DEF Less
<1> QED
  BY <1>3

\* The report that is found was written by a job, or there is none.
LEMMA FindReportType ==
    ASSUME ServiceTypeOK, NEW j \in Jobs, Requested[j] \in Places
    PROVE  /\ FindReport(j) \in Jobs \cup {NoJob}
           /\ junit[Requested[j]] # NoJob => FindReport(j) = junit[Requested[j]]
<1> DEFINE C == Candidates(j)
           found == {i \in DOMAIN C : junit[C[i]] # NoJob}
           least == CHOOSE i \in found : \A k \in found : i <= k
<1>1. C \in Seq(Places) /\ Len(C) = 1 + Len(Fallbacks) /\ C[1] = Requested[j]
  BY CommandAssumption DEF Candidates
<1>2. DOMAIN C = 1 .. Len(C) /\ Len(C) \in Nat /\ 1 \in DOMAIN C
  BY <1>1, CommandAssumption
<1>3. FindReport(j) = IF found = {} THEN NoJob ELSE junit[C[least]]
  BY DEF FindReport
<1>4. ASSUME found # {}
      PROVE  least \in found /\ \A k \in found : least <= k
  <2>1. found \subseteq Nat
    BY <1>2
  <2>2. \E i \in found : \A k \in found : i <= k
    BY <1>4, <2>1, LeastIndex
  <2> QED
    BY <2>2
<1>5. FindReport(j) \in Jobs \cup {NoJob}
  BY <1>1, <1>2, <1>3, <1>4 DEF ServiceTypeOK
<1>6. ASSUME junit[Requested[j]] # NoJob
      PROVE  FindReport(j) = junit[Requested[j]]
  <2>1. 1 \in found
    BY <1>1, <1>2, <1>6
  <2>2. least = 1
    <3>1. least \in found /\ least <= 1
      BY <1>4, <2>1
    <3> QED
      BY <1>2, <3>1
  <2> QED
    BY <1>1, <1>3, <2>1, <2>2
<1> QED
  BY <1>5, <1>6

LEMMA UploadInv == ASSUME IInv, UploadResults, UNCHANGED splitVars PROVE IInv'
<1> USE DEF UploadResults
<1>1. pc # "idle" /\ Job \in Jobs /\ Job' = Job /\ ServiceTypeOK /\ Requested[Job] \in Places
  BY InCommand DEF IInv, TypeOK, Job
<1>2. /\ runs' \in [Jobs -> RunRecord] /\ \A k \in Jobs : runs'[k].status = runs[k].status
      /\ faults' \in [Jobs -> SUBSET Faults] /\ \A k \in Jobs : faults[k] \subseteq faults'[k]
  <2>1. CASE UNCHANGED <<runs, faults>>
    BY <1>1, <2>1 DEF ServiceTypeOK
  <2>2. ASSUME NEW outcome \in Outcomes, ReportTestResults(Job, FindReport(Job), outcome),
               FaultIf(outcome # "ok", Job, "results")
        PROVE  <1>2
    <3>1. FindReport(Job) \in Jobs \cup {NoJob} /\ runs \in [Jobs -> RunRecord]
      BY <1>1, FindReportType DEF ServiceTypeOK
    <3>2. runs' \in [Jobs -> RunRecord] /\ \A k \in Jobs : runs'[k].status = runs[k].status
      BY <1>1, <2>2, <3>1, ReportEffect
    <3>3. faults' \in [Jobs -> SUBSET Faults] /\ \A k \in Jobs : faults[k] \subseteq faults'[k]
      BY <1>1, <2>2, FaultEffect DEF FaultIf, Faults, ServiceTypeOK
    <3> QED
      BY <3>2, <3>3
  <2> QED
    BY <2>1, <2>2
<1>3. Within
  <2>1. ServiceTypeOK'
    BY <1>1, <1>2 DEF ServiceTypeOK
  <2>2. demo' \in BOOLEAN /\ hasId' \in BOOLEAN
    BY Zenon DEF IInv, TypeOK, CommandTypeOK
  <2>3. OnlyTouches(Job)
    BY <1>2 DEF OnlyTouches
  <2> QED
    BY <1>1, <2>1, <2>2, <2>3 DEF Within, PCs
<1>4. CurrentJob'
  BY <1>1, <1>2 DEF IInv, CurrentJob
<1>5. DemoMode'
  BY <1>1 DEF DemoMode, IInv
<1>6. IdFileKnown' /\ DemoNeverReported'
  BY <1>1, <1>2, JobTypes DEF IInv, Safe, IdFileKnown, DemoNeverReported, ServiceTypeOK
<1> QED
  BY <1>3, <1>4, <1>5, <1>6, WithinInv

LEMMA StatusInv == ASSUME IInv, UpdateStatus, UNCHANGED splitVars PROVE IInv'
<1> USE DEF UpdateStatus
<1>1. pc # "idle" /\ Job \in Jobs /\ Job' = Job /\ ServiceTypeOK
  BY InCommand DEF IInv, TypeOK, Job
<1>2. runs[Job].status = "STARTED" /\ verdict[Job] # "none"
  BY DEF IInv, CurrentJob
<1>3. PICK outcome \in Outcomes : /\ UpdateTestRun(Job, StatusOf(verdict[Job]), outcome)
                                  /\ FaultIf(outcome # "ok", Job, "status")
  OBVIOUS
<1>4. StatusOf(verdict[Job]) \in Closed
  BY DEF StatusOf, Closed
<1>5. /\ runs' \in [Jobs -> RunRecord]
      /\ \A k \in Jobs : k # Job => runs'[k] = runs[k]
      /\ runs'[Job].status \in {"STARTED", StatusOf(verdict[Job])}
      /\ outcome = "ok" => runs'[Job].status = StatusOf(verdict[Job])
  BY <1>1, <1>2, <1>3, <1>4, StatusEffect DEF ServiceTypeOK
<1>6. /\ faults' \in [Jobs -> SUBSET Faults] /\ \A k \in Jobs : faults[k] \subseteq faults'[k]
      /\ outcome # "ok" => "status" \in faults'[Job]
  BY <1>1, <1>3, FaultEffect DEF FaultIf, Faults, ServiceTypeOK
<1>7. Within
  <2>1. ServiceTypeOK'
    BY <1>1, <1>5, <1>6 DEF ServiceTypeOK
  <2>2. demo' \in BOOLEAN /\ hasId' \in BOOLEAN
    BY Zenon DEF IInv, TypeOK, CommandTypeOK
  <2>3. OnlyTouches(Job)
    BY <1>5, <1>6 DEF OnlyTouches
  <2> QED
    BY <1>1, <2>1, <2>2, <2>3 DEF Within, PCs
<1>8. CurrentJob'
  <2>1. runs'[Job].status = "STARTED" => faults'[Job] \cap KeepsOpen # {}
    BY <1>4, <1>5, <1>6 DEF KeepsOpen, Closed
  <2> QED
    BY <1>1, <1>2, <2>1 DEF CurrentJob, Excused
<1>9. DemoMode'
  BY <1>1 DEF DemoMode, IInv
<1>10. IdFileKnown'
  BY <1>1, <1>4, <1>5 DEF IInv, IdFileKnown, ServiceTypeOK, Closed
<1>11. DemoNeverReported'
  <2> SUFFICES ASSUME NEW c \in Commands, NEW i \in DOMAIN Matches[c],
                      c \in DemoCommands \/ Matches[c][i] \in DemoImports
               PROVE  runs'[Matches[c][i]].status = "none"
    BY DEF DemoNeverReported
  <2>1. runs[Matches[c][i]].status = "none"
    BY DEF IInv, Safe, DemoNeverReported
  <2> QED
    BY <1>2, <1>5, <2>1, JobTypes
<1> QED
  BY <1>7, <1>8, <1>9, <1>10, <1>11, WithinInv

LEMMA FinishInv == ASSUME IInv, FinishJob, UNCHANGED splitVars PROVE IInv'
<1> USE DEF FinishJob
<1>1. pc # "idle" /\ Job \in Jobs /\ ServiceTypeOK
  BY InCommand DEF IInv, TypeOK
<1>2. runs[Job].status = "STARTED" => faults[Job] \cap KeepsOpen # {}
  BY DEF IInv, CurrentJob, Excused
<1>3. faults \in [Jobs -> SUBSET Faults]
  BY <1>1 DEF ServiceTypeOK
<1>4. CASE verdict[Job] = "fail" /\ EndCommand("1")
  BY <1>1, <1>2, <1>3, <1>4, EndKept DEF serviceVars
<1>5. CASE verdict[Job] = "pass" /\ at = Len(Matches[active]) /\ EndCommand("0")
  BY <1>1, <1>2, <1>3, <1>5, EndKept DEF serviceVars
<1>6. ASSUME verdict[Job] = "pass", at < Len(Matches[active]), at' = at + 1, pc' = "load",
             hasId' = FALSE, demo' = saved, UNCHANGED <<exit, active, saved>>
      PROVE  IInv'
  <2>1. /\ active \in Commands /\ at + 1 \in DOMAIN Matches[active] /\ at \in Nat
        /\ active' = active
    BY <1>1, <1>6, InCommand, CommandAssumption
  <2>2. OnlyTouches(Job)
    BY DEF OnlyTouches, serviceVars
  <2>3. TypeOK'
    <3>1. CommandTypeOK'
      <4>1. hasId' \in BOOLEAN /\ demo' \in BOOLEAN /\ saved' \in BOOLEAN
        BY <1>6, Zenon DEF IInv, TypeOK, CommandTypeOK
      <4>2. exit' \in [Commands -> Exits] /\ at' \in Nat \ {0} /\ pc' \in PCs
        BY <1>6, <2>1 DEF IInv, TypeOK, CommandTypeOK, PCs
      <4> QED
        BY <4>1, <4>2 DEF CommandTypeOK
    <3> QED
      BY <1>1, <2>1, <2>2, <3>1, SplitsKept DEF IInv, TypeOK, ServiceTypeOK, serviceVars
  <2>4. WhoRuns'
    BY <1>1, <1>6, <2>1, InCommand DEF IInv, WhoRuns, splitVars
  <2>5. JobsAhead'
    <3>1. ASSUME NEW c \in Commands, NEW i \in DOMAIN Matches[c], Ahead(c, i)'
          PROVE  Untouched(Matches[c][i])'
      <4>1. Ahead(c, i)
        BY <1>6, <2>1, <3>1, JobTypes DEF Ahead
      <4> QED
        BY <4>1 DEF IInv, JobsAhead, Untouched, serviceVars
    <3> QED
      BY <1>1, <2>1, <2>2, <3>1, SplitsKept DEF JobsAhead
  <2>6. JobsBehind'
    <3> SUFFICES ASSUME NEW c \in Commands, NEW i \in DOMAIN Matches[c], exit[c] = "running", i < at + 1
                 PROVE  verdict[Matches[c][i]] = "pass"
      BY <1>6 DEF JobsBehind, serviceVars
    <3>1. c = active
      BY DEF IInv, WhoRuns
    <3>2. i = at \/ i < at
      BY <2>1, JobTypes
    <3> QED
      BY <1>6, <3>1, <3>2 DEF IInv, JobsBehind, Job
  <2>7. CurrentJob' /\ DemoMode'
    BY <1>1, <1>6 DEF CurrentJob, DemoMode, IInv
  <2>8. OpenOnlyAfterFault'
    <3> SUFFICES ASSUME NEW j \in Jobs, Over(j)', runs[j].status = "STARTED"
                 PROVE  faults[j] \cap {"died", "create", "id", "token", "status"} # {}
      BY DEF OpenOnlyAfterFault, serviceVars
    <3>1. CASE j = Job
      BY <1>2, <3>1 DEF KeepsOpen
    <3>2. CASE j # Job
      <4>1. Over(j)
        <5>1. CASE j \in SplitJobs /\ spc[j] = "done"
          BY <5>1 DEF Over
        <5>2. CASE ~(j \in SplitJobs /\ spc[j] = "done")
          <6>1. PICK c \in Commands : \E i \in DOMAIN Matches[c] :
                   /\ j = Matches[c][i]
                   /\ \/ exit[c] \notin {"waiting", "running"}
                      \/ exit[c] = "running" /\ at + 1 > i
            BY <1>6, <5>2 DEF Over, splitVars
          <6>2. PICK i \in DOMAIN Matches[c] :
                   /\ j = Matches[c][i]
                   /\ \/ exit[c] \notin {"waiting", "running"}
                      \/ exit[c] = "running" /\ at + 1 > i
            BY <6>1
          <6>3. exit[c] = "running" => c = active /\ i # at
            BY <3>2, <6>2 DEF IInv, WhoRuns, Job
          <6>4. exit[c] = "running" => at > i
            BY <2>1, <6>2, <6>3, JobTypes
          <6> QED
            BY <6>2, <6>4 DEF Over
        <5> QED
          BY <5>1, <5>2
      <4> QED
        BY <4>1 DEF IInv, Safe, OpenOnlyAfterFault
    <3> QED
      BY <3>1, <3>2
  <2>9. IdFileKnown' /\ DemoNeverReported' /\ ExitMatchesVerdicts'
    BY <1>6 DEF IInv, Safe, IdFileKnown, DemoNeverReported, ExitMatchesVerdicts, serviceVars
  <2> QED
    BY <1>1, <2>1, <2>2, <2>3, <2>4, <2>5, <2>6, <2>7, <2>8, <2>9, SplitsKept DEF IInv, Safe
<1> QED
  BY <1>4, <1>5, <1>6

LEMMA KillInv == ASSUME IInv, KillCommand, UNCHANGED splitVars PROVE IInv'
<1> USE DEF KillCommand
<1>1. Job \in Jobs /\ ServiceTypeOK
  BY InCommand DEF IInv, TypeOK
<1>2. /\ faults' \in [Jobs -> SUBSET Faults] /\ \A k \in Jobs : faults[k] \subseteq faults'[k]
      /\ "died" \in faults'[Job]
  BY <1>1, FaultEffect DEF Faults
<1>3. faults'[Job] \cap KeepsOpen # {}
  BY <1>2 DEF KeepsOpen
<1> QED
  BY <1>2, <1>3, EndKept

-----------------------------------------------------------------------------
\* A command that starts, or is refused at once.
LEMMA RunInv ==
    ASSUME IInv, NEW c \in Commands, RunCommand(c), UNCHANGED splitVars
    PROVE  IInv'
<1> USE DEF RunCommand
<1>0. ServiceTypeOK /\ CommandTypeOK /\ SplitTypeOK /\ UNCHANGED serviceVars
  BY DEF IInv, TypeOK
<1>1. /\ pc = "idle" /\ Idle \notin Commands /\ Idle \notin SplitJobs /\ c \notin SplitJobs
      /\ \A d \in Commands : exit[d] # "running"
      /\ \A j \in SplitJobs : spc[j] \in {"waiting", "done"}
  BY ReportingAssumption DEF IInv, WhoRuns
<1>2. \A i \in DOMAIN Matches[c] : Untouched(Matches[c][i])
  BY DEF IInv, JobsAhead, Ahead
<1>3. CurrentSplit' /\ IdFileKnown' /\ DemoNeverReported'
  BY <1>0, <1>1 DEF CurrentSplit, SplitProgress, IInv, Safe, IdFileKnown, DemoNeverReported,
                    splitVars, serviceVars
<1>4. \A j \in SplitJobs : spc'[j] \in {"waiting", "create"} => (Untouched(j) /\ j \notin printed)'
  BY <1>0 DEF IInv, JobsAhead, Untouched, splitVars, serviceVars
<1>5. ServiceTypeOK' /\ SplitTypeOK'
  BY <1>0 DEF ServiceTypeOK, SplitTypeOK, serviceVars, splitVars
<1>6. ASSUME exit' = [exit EXCEPT ![c] = "1"], UNCHANGED <<active, at, pc, hasId, demo, saved>>
      PROVE  IInv'
  <2>1. exit'[c] = "1" /\ \A d \in Commands : d # c => exit'[d] = exit[d]
    BY <1>0, <1>6 DEF CommandTypeOK
  <2>2. TypeOK'
    <3>1. exit' \in [Commands -> Exits] /\ at' \in Nat \ {0} /\ pc' \in PCs
      BY <1>0, <1>6 DEF CommandTypeOK, Exits
    <3>2. hasId' \in BOOLEAN /\ demo' \in BOOLEAN /\ saved' \in BOOLEAN
      BY <1>0, <1>6, Zenon DEF CommandTypeOK
    <3> QED
      BY <1>5, <1>6, <3>1, <3>2 DEF IInv, TypeOK, CommandTypeOK
  <2>3. WhoRuns'
    BY <1>1, <1>6, <2>1 DEF IInv, WhoRuns, splitVars
  <2>4. JobsAhead'
    <3>1. ASSUME NEW d \in Commands, NEW i \in DOMAIN Matches[d], Ahead(d, i)'
          PROVE  Untouched(Matches[d][i])'
      <4>1. Ahead(d, i)
        BY <1>6, <2>1, <3>1 DEF Ahead
      <4> QED
        BY <1>0, <4>1 DEF IInv, JobsAhead, Untouched, serviceVars
    <3> QED
      BY <1>4, <3>1 DEF JobsAhead
  <2>5. JobsBehind' /\ CurrentJob' /\ DemoMode'
    BY <1>1, <1>6, <2>1 DEF JobsBehind, CurrentJob, DemoMode
  <2>6. OpenOnlyAfterFault'
    <3> SUFFICES ASSUME NEW j \in Jobs, Over(j)', runs[j].status = "STARTED"
                 PROVE  faults[j] \cap {"died", "create", "id", "token", "status"} # {}
      BY <1>0 DEF OpenOnlyAfterFault, serviceVars
    <3>1. Over(j)
      BY <1>2, <1>6, <2>1 DEF Over, Untouched, splitVars
    <3> QED
      BY <3>1 DEF IInv, Safe, OpenOnlyAfterFault
  <2>7. ExitMatchesVerdicts'
    BY <1>0, <2>1 DEF IInv, Safe, ExitMatchesVerdicts, serviceVars
  <2> QED
    BY <1>3, <2>2, <2>3, <2>4, <2>5, <2>6, <2>7 DEF IInv, Safe
<1>7. ASSUME exit' = [exit EXCEPT ![c] = "running"], active' = c, pc' = "load", at' = 1, hasId' = FALSE,
             NEW inherited \in BOOLEAN, demo' = (inherited \/ c \in DemoCommands), saved' = demo'
      PROVE  IInv'
  <2>1. exit'[c] = "running" /\ \A d \in Commands : d # c => exit'[d] = exit[d]
    BY <1>0, <1>7 DEF CommandTypeOK
  <2>2. TypeOK'
    <3>1. exit' \in [Commands -> Exits] /\ at' \in Nat \ {0} /\ pc' \in PCs
      BY <1>0, <1>7 DEF CommandTypeOK, Exits, PCs
    <3>2. hasId' \in BOOLEAN /\ demo' \in BOOLEAN /\ saved' \in BOOLEAN
      BY <1>7, Zenon
    <3> QED
      BY <1>5, <1>7, <3>1, <3>2 DEF TypeOK, CommandTypeOK
  <2>3. WhoRuns'
    <3>1. 1 \in DOMAIN Matches[c]
      BY CommandAssumption
    <3> QED
      BY <1>1, <1>7, <2>1, <3>1 DEF IInv, WhoRuns, splitVars
  <2>4. JobsAhead'
    <3>1. ASSUME NEW d \in Commands, NEW i \in DOMAIN Matches[d], Ahead(d, i)'
          PROVE  Untouched(Matches[d][i])'
      <4>1. Ahead(d, i)
        BY <1>1, <2>1, <3>1 DEF Ahead
      <4> QED
        BY <1>0, <4>1 DEF IInv, JobsAhead, Untouched, serviceVars
    <3> QED
      BY <1>4, <3>1 DEF JobsAhead
  <2>5. JobsBehind'
    <3> SUFFICES ASSUME NEW d \in Commands, NEW i \in DOMAIN Matches[d], i < 1
                 PROVE  FALSE
      BY <1>7 DEF JobsBehind
    <3> QED
      BY JobTypes
  <2>6. CurrentJob'
    BY <1>7 DEF CurrentJob
  <2>7. DemoMode'
    BY <1>7, Zenon DEF DemoMode
  <2>8. OpenOnlyAfterFault'
    <3> SUFFICES ASSUME NEW j \in Jobs, Over(j)', runs[j].status = "STARTED"
                 PROVE  faults[j] \cap {"died", "create", "id", "token", "status"} # {}
      BY <1>0 DEF OpenOnlyAfterFault, serviceVars
    <3>1. Over(j)
      BY <1>1, <1>2, <1>7, <2>1 DEF Over, Untouched, splitVars
    <3> QED
      BY <3>1 DEF IInv, Safe, OpenOnlyAfterFault
  <2>9. ExitMatchesVerdicts'
    BY <1>0, <2>1 DEF IInv, Safe, ExitMatchesVerdicts, serviceVars
  <2> QED
    BY <1>3, <2>2, <2>3, <2>4, <2>5, <2>6, <2>7, <2>8, <2>9 DEF IInv, Safe
<1> QED
  BY <1>6, <1>7

-----------------------------------------------------------------------------
(***************************************************************************)
(* A step of the CI job j: it moves on to where, touches the verdict and   *)
(* the report of no other job, and closes at most runs that exist.         *)
(***************************************************************************)
SplitMoves(j, where) ==
    /\ active \in {j, Idle} /\ UNCHANGED commandVars
    /\ active' = IF where = "done" THEN Idle ELSE j
    /\ where \in SplitPCs \ {"waiting"} /\ SplitGoto(j, where)
    /\ ServiceTypeOK' /\ printed' \in SUBSET SplitJobs /\ target' \in [SplitJobs -> Jobs \cup {NoJob, NotUpdated}]
    /\ \A k \in SplitJobs : k # j => (k \in printed' <=> k \in printed)
    /\ \A k \in Jobs : k # j =>
          /\ \/ runs'[k].status = runs[k].status
             \/ runs[k].status # "none" /\ runs'[k].status \in Closed
          /\ verdict'[k] = verdict[k]
          /\ k \in wrote' <=> k \in wrote
    /\ \A k \in Jobs : faults[k] \subseteq faults'[k]
    /\ where = "create" => Untouched(j)' /\ j \notin printed'
    /\ where = "done" /\ runs'[j].status = "STARTED" => faults'[j] \cap KeepsOpen # {}

LEMMA SplitKept ==
    ASSUME IInv, NEW j \in SplitJobs, NEW where, SplitMoves(j, where),
           IdFileKnown', SplitProgress(j)'
    PROVE  IInv'
<1> USE DEF SplitMoves, SplitGoto
<1>1. /\ j \notin Commands /\ j # Idle /\ Idle \notin Commands /\ Idle \notin SplitJobs
      /\ j \in Jobs /\ SplitJobs \subseteq Jobs
      /\ \A c \in Commands : \A i \in DOMAIN Matches[c] : Matches[c][i] # j /\ Matches[c][i] \in Jobs
  BY ReportingAssumption, SplitAssumption, JobTypes
<1>2. pc = "idle" /\ pc' = "idle" /\ \A c \in Commands : exit[c] # "running" /\ exit'[c] = exit[c]
  BY <1>1 DEF IInv, WhoRuns, commandVars
<1>3. /\ spc'[j] = where /\ \A k \in SplitJobs : k # j => spc'[k] = spc[k]
      /\ spc' \in [SplitJobs -> SplitPCs]
      /\ \A k \in SplitJobs : k # j => spc[k] \in {"waiting", "done"}
  BY <1>1 DEF IInv, TypeOK, SplitTypeOK, WhoRuns
<1>4. TypeOK'
  <2>1. CommandTypeOK'
    <3>1. hasId' \in BOOLEAN /\ demo' \in BOOLEAN /\ saved' \in BOOLEAN
      BY Zenon DEF IInv, TypeOK, CommandTypeOK, commandVars
    <3> QED
      BY <3>1 DEF IInv, TypeOK, CommandTypeOK, commandVars
  <2> QED
    BY <1>3, <2>1 DEF TypeOK, SplitTypeOK
<1>5. WhoRuns'
  BY <1>1, <1>2, <1>3 DEF WhoRuns, SplitPCs
<1>6. JobsAhead'
  <2>1. ASSUME NEW c \in Commands, NEW i \in DOMAIN Matches[c], Ahead(c, i)'
        PROVE  Untouched(Matches[c][i])'
    <3>1. Untouched(Matches[c][i])
      BY <1>2, <2>1 DEF Ahead, IInv, JobsAhead
    <3> QED
      BY <1>1, <3>1 DEF Untouched
  <2>2. ASSUME NEW k \in SplitJobs, spc'[k] \in {"waiting", "create"}
        PROVE  (Untouched(k) /\ k \notin printed)'
    <3>1. CASE k = j
      BY <1>3, <2>2, <3>1
    <3>2. CASE k # j
      BY <1>1, <1>3, <2>2, <3>2 DEF IInv, JobsAhead, Untouched
    <3> QED
      BY <3>1, <3>2
  <2> QED
    BY <2>1, <2>2 DEF JobsAhead
<1>7. JobsBehind' /\ CurrentJob' /\ DemoMode'
  BY <1>2 DEF JobsBehind, CurrentJob, DemoMode
<1>8. CurrentSplit'
  BY <1>3 DEF CurrentSplit, SplitProgress
<1>9. OpenOnlyAfterFault'
  <2> SUFFICES ASSUME NEW k \in Jobs, Over(k)', runs'[k].status = "STARTED"
               PROVE  faults'[k] \cap {"died", "create", "id", "token", "status"} # {}
    BY DEF OpenOnlyAfterFault
  <2>1. CASE k = j
    <3>1. spc'[j] = "done"
      BY <1>1, <2>1 DEF Over
    <3> QED
      BY <1>3, <2>1, <3>1 DEF KeepsOpen
  <2>2. CASE k # j
    <3>1. Over(k)
      BY <1>2, <1>3, <2>2 DEF Over, commandVars
    <3>2. runs[k].status = "STARTED"
      BY <2>2 DEF Closed
    <3> QED
      BY <3>1, <3>2 DEF IInv, Safe, OpenOnlyAfterFault
  <2> QED
    BY <2>1, <2>2
<1>10. DemoNeverReported'
  BY <1>1 DEF IInv, Safe, DemoNeverReported
<1>11. ExitMatchesVerdicts'
  BY <1>1, <1>2 DEF IInv, Safe, ExitMatchesVerdicts
<1> QED
  BY <1>4, <1>5, <1>6, <1>7, <1>8, <1>9, <1>10, <1>11 DEF IInv, Safe

\* What holds at every step of the CI job in progress.
LEMMA InSplit ==
    ASSUME IInv, NEW j \in SplitJobs, active = j
    PROVE  /\ ServiceTypeOK /\ SplitTypeOK /\ SplitProgress(j) /\ j \in Jobs /\ j # NoJob
           /\ SplitPlace \in Places /\ ExplicitId \subseteq SplitJobs /\ NotUpdated \notin Jobs
           /\ faults \in [Jobs -> SUBSET Faults] /\ runs \in [Jobs -> RunRecord]
           /\ idFile \in Jobs \cup {NoJob} /\ spc \in [SplitJobs -> SplitPCs]
           /\ printed \in SUBSET SplitJobs /\ target \in [SplitJobs -> Jobs \cup {NoJob, NotUpdated}]
BY SplitAssumption, NoJobAssumption DEF IInv, TypeOK, CurrentSplit, ServiceTypeOK, SplitTypeOK

LEMMA StartSplitInv == ASSUME IInv, NEW j \in SplitJobs, StartSplit(j) PROVE IInv'
<1> USE DEF StartSplit
<1>1. ServiceTypeOK /\ SplitTypeOK /\ j \in Jobs
  BY SplitAssumption DEF IInv, TypeOK
<1>2. spc'[j] = "create"
  BY <1>1 DEF SplitGoto, SplitTypeOK
<1>3. Untouched(j) /\ j \notin printed
  BY DEF IInv, JobsAhead
<1>4. SplitMoves(j, "create")
  BY <1>1, <1>3 DEF SplitMoves, SplitPCs, serviceVars, ServiceTypeOK, SplitTypeOK, Untouched
<1>5. IdFileKnown' /\ SplitProgress(j)'
  BY <1>2 DEF IInv, IdFileKnown, SplitProgress, serviceVars
<1> QED
  BY <1>4, <1>5, SplitKept

\* The parts of a CI job's action that are the same for all of them.
Acts(j) ==
    /\ active = j /\ active' = IF spc'[j] = "done" THEN Idle ELSE active
    /\ UNCHANGED commandVars

LEMMA SplitCreateInv == ASSUME IInv, NEW j \in SplitJobs, Acts(j), Create(j) PROVE IInv'
<1> USE DEF Create, Acts
<1>1. /\ ServiceTypeOK /\ SplitTypeOK /\ j \in Jobs /\ j # NoJob
      /\ faults \in [Jobs -> SUBSET Faults] /\ printed \in SUBSET SplitJobs
  BY InSplit
<1>2. PICK outcome \in Outcomes :
          /\ CreateRequest(j, outcome)
          /\ printed' = IF outcome = "ok" THEN printed \cup {j} ELSE printed
          /\ faults' = [faults EXCEPT ![j] = @ \cup
                (IF outcome # "ok" THEN {"create"} ELSE {}) \cup
                (IF outcome = "ok" /\ idFile' # j THEN {"id"} ELSE {})]
  OBVIOUS
<1>3. /\ runs' \in [Jobs -> RunRecord]
      /\ \A k \in Jobs : k # j => runs'[k] = runs[k]
      /\ \/ outcome = "refused" /\ runs' = runs
         \/ outcome # "refused" /\ runs'[j].status = "STARTED"
      /\ idFile' \in {j, idFile, NoJob} /\ idFile' \in Jobs \cup {NoJob}
      /\ outcome # "ok" => idFile' = idFile
  BY <1>1, <1>2, CreateEffect
<1>4. /\ faults' \in [Jobs -> SUBSET Faults] /\ \A k \in Jobs : faults[k] \subseteq faults'[k]
      /\ outcome # "ok" => "create" \in faults'[j]
      /\ outcome = "ok" /\ idFile' # j => "id" \in faults'[j]
  BY <1>1, <1>2 DEF Faults
<1>5. spc'[j] = "test"
  BY <1>1 DEF SplitGoto, SplitTypeOK
<1>6. Untouched(j) /\ j \notin printed
  BY DEF IInv, JobsAhead
<1>7. ServiceTypeOK'
  BY <1>1, <1>3, <1>4 DEF ServiceTypeOK
<1>8. SplitMoves(j, "test")
  BY <1>1, <1>2, <1>3, <1>4, <1>5, <1>7 DEF SplitMoves, SplitPCs, SplitTypeOK
<1>9. IdFileKnown'
  <2>1. CASE idFile' = j
    <3>1. idFile # j
      BY <1>1, <1>6 DEF IInv, IdFileKnown, Untouched
    <3> QED
      BY <1>3, <2>1, <3>1 DEF IdFileKnown
  <2>2. CASE idFile' # j
    BY <1>1, <1>3, <2>2 DEF IInv, IdFileKnown, ServiceTypeOK
  <2> QED
    BY <2>1, <2>2
<1>10. SplitProgress(j)'
  <2>1. outcome # "ok" => faults'[j] \cap KeepsOpen # {}
    BY <1>4 DEF KeepsOpen
  <2>2. outcome = "ok" /\ idFile' # j => faults'[j] \cap KeepsOpen # {}
    BY <1>4 DEF KeepsOpen
  <2>3. j \in printed' <=> outcome = "ok"
    BY <1>2, <1>6
  <2> QED
    BY <1>3, <1>5, <1>6, <2>1, <2>2, <2>3 DEF SplitProgress, Excused, Untouched
<1> QED
  BY <1>8, <1>9, <1>10, SplitKept

LEMMA SplitTestInv == ASSUME IInv, NEW j \in SplitJobs, Acts(j), Test(j) PROVE IInv'
<1> USE DEF Test, Acts
<1>1. /\ ServiceTypeOK /\ SplitTypeOK /\ SplitProgress(j) /\ j \in Jobs /\ SplitPlace \in Places
  BY InSplit
<1>2. PICK v \in {"pass", "fail"}, w \in BOOLEAN : TestsEnd(j, v, w, SplitPlace)
  OBVIOUS
<1>3. /\ verdict' \in [Jobs -> Verdicts] /\ wrote' \in SUBSET Jobs
      /\ junit' \in [Places -> Jobs \cup {NoJob}]
      /\ verdict'[j] = v /\ \A k \in Jobs : k # j => verdict'[k] = verdict[k]
      /\ \A k \in Jobs : k # j => (k \in wrote' <=> k \in wrote)
  BY <1>1, <1>2, TestsEffect
<1>4. spc'[j] = "update"
  BY <1>1 DEF SplitGoto, SplitTypeOK
<1>5. ServiceTypeOK'
  BY <1>1, <1>3 DEF ServiceTypeOK
<1>6. SplitMoves(j, "update")
  BY <1>1, <1>3, <1>4, <1>5 DEF SplitMoves, SplitPCs, SplitTypeOK
<1>7. IdFileKnown' /\ SplitProgress(j)'
  BY <1>1, <1>3, <1>4 DEF IInv, IdFileKnown, SplitProgress, Excused
<1> QED
  BY <1>6, <1>7, SplitKept

LEMMA SplitUpdateInv == ASSUME IInv, NEW j \in SplitJobs, Acts(j), Update(j) PROVE IInv'
<1> USE DEF Update, Acts
<1>1. /\ ServiceTypeOK /\ SplitTypeOK /\ SplitProgress(j) /\ j \in Jobs /\ j # NoJob
      /\ idFile \in Jobs \cup {NoJob} /\ target \in [SplitJobs -> Jobs \cup {NoJob, NotUpdated}]
      /\ faults \in [Jobs -> SUBSET Faults]
  BY InSplit
<1>2. RunToUpdate(j) \in Jobs \cup {NoJob}
  BY <1>1 DEF RunToUpdate, CallsUpdate, LoadTestRunId
<1>3. /\ target' \in [SplitJobs -> Jobs \cup {NoJob, NotUpdated}] /\ target'[j] = RunToUpdate(j)
  BY <1>1, <1>2
<1>4. ASSUME RunToUpdate(j) # NoJob, SplitGoto(j, "token"), UNCHANGED faults PROVE IInv'
  <2>1. spc'[j] = "token"
    BY <1>1, <1>4 DEF SplitGoto, SplitTypeOK
  <2>2. ServiceTypeOK'
    BY <1>1, <1>4 DEF ServiceTypeOK
  <2>3. SplitMoves(j, "token")
    BY <1>1, <1>3, <1>4, <2>1, <2>2 DEF SplitMoves, SplitPCs, SplitTypeOK
  <2>4. IdFileKnown'
    BY <1>4 DEF IInv, IdFileKnown
  <2>5. SplitProgress(j)'
    <3>1. /\ j \in printed => runs[j].status = "STARTED" /\ (idFile = j \/ Excused(j))
          /\ runs[j].status = "STARTED" => j \in printed \/ Excused(j)
          /\ verdict[j] # "none"
      BY <1>1 DEF SplitProgress
    <3>2. target'[j] \in Jobs /\ runs[target'[j]].status # "none"
      BY <1>2, <1>3, <1>4, <3>1 DEF IInv, IdFileKnown, RunToUpdate, CallsUpdate, LoadTestRunId
    <3>3. runs[j].status = "STARTED" => target'[j] = j \/ Excused(j)
      BY <1>3, <1>4, <3>1 DEF RunToUpdate, CallsUpdate, LoadTestRunId
    <3>4. j \in ExplicitId => target'[j] = j /\ runs[j].status = "STARTED"
      BY <1>3, <1>4, <3>1 DEF RunToUpdate, CallsUpdate, LoadTestRunId
    <3> QED
      BY <1>4, <2>1, <3>1, <3>2, <3>3, <3>4 DEF SplitProgress, Excused
  <2> QED
    BY <2>3, <2>4, <2>5, SplitKept
<1>5. ASSUME SplitGoto(j, "done"), Fault(j, IF RunToUpdate(j) = NoJob THEN "id" ELSE "died") PROVE IInv'
  <2>1. spc'[j] = "done"
    BY <1>1, <1>5 DEF SplitGoto, SplitTypeOK
  <2>2. PICK f \in {"id", "died"} : Fault(j, f)
    BY <1>5
  <2>3. /\ faults' \in [Jobs -> SUBSET Faults] /\ \A k \in Jobs : faults[k] \subseteq faults'[k]
        /\ f \in faults'[j]
    BY <1>1, <2>2, FaultEffect DEF Faults
  <2>4. faults'[j] \cap KeepsOpen # {}
    BY <2>3 DEF KeepsOpen
  <2>5. ServiceTypeOK'
    BY <1>1, <2>3 DEF ServiceTypeOK
  <2>6. SplitMoves(j, "done")
    BY <1>1, <1>3, <1>5, <2>1, <2>3, <2>4, <2>5 DEF SplitMoves, SplitPCs, SplitTypeOK
  <2>7. IdFileKnown' /\ SplitProgress(j)'
    BY <2>1 DEF IInv, IdFileKnown, SplitProgress
  <2> QED
    BY <2>6, <2>7, SplitKept
<1> QED
  BY <1>4, <1>5

LEMMA SplitTokenInv == ASSUME IInv, NEW j \in SplitJobs, Acts(j), SplitToken(j) PROVE IInv'
<1> USE DEF SplitToken, Acts
<1>1. /\ ServiceTypeOK /\ SplitTypeOK /\ SplitProgress(j) /\ j \in Jobs
      /\ faults \in [Jobs -> SUBSET Faults]
  BY InSplit
<1>2. PICK ok \in BOOLEAN : /\ SplitGoto(j, IF ok THEN "results" ELSE "done")
                            /\ FaultIf(~ok, j, "token")
  OBVIOUS
<1>3. /\ faults' \in [Jobs -> SUBSET Faults] /\ \A k \in Jobs : faults[k] \subseteq faults'[k]
      /\ ~ok => "token" \in faults'[j]
  BY <1>1, <1>2, FaultEffect DEF FaultIf, Faults
<1>4. spc'[j] = IF ok THEN "results" ELSE "done"
  BY <1>1, <1>2 DEF SplitGoto, SplitTypeOK
<1>5. ~ok => faults'[j] \cap KeepsOpen # {}
  BY <1>3 DEF KeepsOpen
<1>6. ServiceTypeOK'
  BY <1>1, <1>3 DEF ServiceTypeOK
<1>7. SplitMoves(j, IF ok THEN "results" ELSE "done")
  BY <1>1, <1>2, <1>3, <1>4, <1>5, <1>6 DEF SplitMoves, SplitPCs, SplitTypeOK
<1>8. IdFileKnown'
  BY DEF IInv, IdFileKnown
<1>9. SplitProgress(j)'
  <2>1. Excused(j) => Excused(j)'
    BY <1>1, <1>3 DEF Excused
  <2> QED
    BY <1>1, <1>4, <2>1 DEF SplitProgress
<1> QED
  BY <1>7, <1>8, <1>9, SplitKept

LEMMA SplitResultsInv == ASSUME IInv, NEW j \in SplitJobs, Acts(j), SplitResults(j) PROVE IInv'
<1> USE DEF SplitResults, Acts
<1>1. /\ ServiceTypeOK /\ SplitTypeOK /\ SplitProgress(j) /\ j \in Jobs /\ target[j] \in Jobs
      /\ faults \in [Jobs -> SUBSET Faults] /\ runs \in [Jobs -> RunRecord]
  BY InSplit DEF SplitProgress
<1>2. junit[SplitPlace] \in Jobs \cup {NoJob}
  BY <1>1, InSplit DEF ServiceTypeOK
<1>3. /\ runs' \in [Jobs -> RunRecord] /\ \A k \in Jobs : runs'[k].status = runs[k].status
      /\ faults' \in [Jobs -> SUBSET Faults] /\ \A k \in Jobs : faults[k] \subseteq faults'[k]
  <2>1. CASE UNCHANGED <<runs, faults>>
    BY <1>1, <2>1
  <2>2. ASSUME NEW outcome \in Outcomes, ReportTestResults(target[j], junit[SplitPlace], outcome),
               FaultIf(outcome # "ok", j, "results")
        PROVE  <1>3
    <3>1. runs' \in [Jobs -> RunRecord] /\ \A k \in Jobs : runs'[k].status = runs[k].status
      BY <1>1, <1>2, <2>2, ReportEffect
    <3>2. faults' \in [Jobs -> SUBSET Faults] /\ \A k \in Jobs : faults[k] \subseteq faults'[k]
      BY <1>1, <2>2, FaultEffect DEF FaultIf, Faults
    <3> QED
      BY <3>1, <3>2
  <2> QED
    BY <2>1, <2>2
<1>4. spc'[j] = "status"
  BY <1>1 DEF SplitGoto, SplitTypeOK
<1>5. ServiceTypeOK'
  BY <1>1, <1>3 DEF ServiceTypeOK
<1>6. SplitMoves(j, "status")
  BY <1>1, <1>3, <1>4, <1>5 DEF SplitMoves, SplitPCs, SplitTypeOK
<1>7. IdFileKnown'
  BY <1>1, <1>3 DEF IInv, IdFileKnown, ServiceTypeOK
<1>8. SplitProgress(j)'
  <2>1. Excused(j) => Excused(j)'
    BY <1>1, <1>3 DEF Excused
  <2> QED
    BY <1>1, <1>3, <1>4, <2>1 DEF SplitProgress
<1> QED
  BY <1>6, <1>7, <1>8, SplitKept

LEMMA SplitStatusInv == ASSUME IInv, NEW j \in SplitJobs, Acts(j), SplitStatus(j) PROVE IInv'
<1> USE DEF SplitStatus, Acts
<1>1. /\ ServiceTypeOK /\ SplitTypeOK /\ SplitProgress(j) /\ j \in Jobs /\ target[j] \in Jobs
      /\ faults \in [Jobs -> SUBSET Faults] /\ runs \in [Jobs -> RunRecord]
      /\ runs[target[j]].status # "none"
      /\ runs[j].status = "STARTED" => target[j] = j \/ Excused(j)
  BY InSplit DEF SplitProgress
<1>2. PICK outcome \in Outcomes : /\ UpdateTestRun(target[j], StatusOf(verdict[j]), outcome)
                                  /\ FaultIf(outcome # "ok", j, "status")
  OBVIOUS
<1>3. StatusOf(verdict[j]) \in Closed
  BY DEF StatusOf, Closed
<1>4. /\ runs' \in [Jobs -> RunRecord]
      /\ \A k \in Jobs : k # target[j] => runs'[k] = runs[k]
      /\ runs'[target[j]].status \in {runs[target[j]].status, StatusOf(verdict[j])}
      /\ outcome = "ok" => runs'[target[j]].status = StatusOf(verdict[j])
  BY <1>1, <1>2, <1>3, StatusEffect
<1>5. /\ faults' \in [Jobs -> SUBSET Faults] /\ \A k \in Jobs : faults[k] \subseteq faults'[k]
      /\ outcome # "ok" => "status" \in faults'[j]
  BY <1>1, <1>2, FaultEffect DEF FaultIf, Faults
<1>6. spc'[j] = "done"
  BY <1>1 DEF SplitGoto, SplitTypeOK
<1>7. ServiceTypeOK'
  BY <1>1, <1>4, <1>5 DEF ServiceTypeOK
<1>8. runs'[j].status = "STARTED" => faults'[j] \cap KeepsOpen # {}
  <2>1. CASE outcome # "ok"
    BY <1>5, <2>1 DEF KeepsOpen
  <2>2. CASE outcome = "ok" /\ target[j] = j
    BY <1>3, <1>4, <2>2 DEF Closed
  <2>3. CASE target[j] # j
    BY <1>1, <1>4, <1>5, <2>3 DEF Excused
  <2> QED
    BY <2>1, <2>2, <2>3
<1>9. SplitMoves(j, "done")
  BY <1>1, <1>3, <1>4, <1>5, <1>6, <1>7, <1>8 DEF SplitMoves, SplitPCs, SplitTypeOK
<1>10. IdFileKnown'
  BY <1>1, <1>3, <1>4 DEF IInv, IdFileKnown, ServiceTypeOK, Closed
<1>11. SplitProgress(j)'
  BY <1>6 DEF SplitProgress
<1> QED
  BY <1>9, <1>10, <1>11, SplitKept

LEMMA SplitKillInv == ASSUME IInv, NEW j \in SplitJobs, Acts(j), KillSplit(j) PROVE IInv'
<1> USE DEF KillSplit, Acts
<1>1. /\ ServiceTypeOK /\ SplitTypeOK /\ j \in Jobs
  BY InSplit
<1>2. /\ faults' \in [Jobs -> SUBSET Faults] /\ \A k \in Jobs : faults[k] \subseteq faults'[k]
      /\ "died" \in faults'[j]
  BY <1>1, FaultEffect DEF Faults
<1>3. faults'[j] \cap KeepsOpen # {}
  BY <1>2 DEF KeepsOpen
<1>4. spc'[j] = "done"
  BY <1>1 DEF SplitGoto, SplitTypeOK
<1>5. ServiceTypeOK'
  BY <1>1, <1>2 DEF ServiceTypeOK
<1>6. SplitMoves(j, "done")
  BY <1>1, <1>2, <1>3, <1>4, <1>5 DEF SplitMoves, SplitPCs, SplitTypeOK
<1>7. IdFileKnown' /\ SplitProgress(j)'
  BY <1>4 DEF IInv, IdFileKnown, SplitProgress
<1> QED
  BY <1>6, <1>7, SplitKept

-----------------------------------------------------------------------------
LEMMA NextInv == IInv /\ [Next]_vars => IInv'
<1> SUFFICES ASSUME IInv, [Next]_vars PROVE IInv'
  OBVIOUS
<1>1. CASE Start
  BY <1>1, RunInv, StartSplitInv DEF Start
<1>2. CASE CommandAction
  BY <1>2, LoadInv, CreateInv, OrchestrateInv, TokenInv, UploadInv, StatusInv, FinishInv, KillInv
     DEF CommandAction, CommandStep
<1>3. ASSUME NEW j \in SplitJobs, SplitAction(j) PROVE IInv'
  <2>1. Acts(j)
    BY <1>3 DEF SplitAction, Acts
  <2> QED
    BY <1>3, <2>1, SplitCreateInv, SplitTestInv, SplitUpdateInv, SplitTokenInv, SplitResultsInv,
       SplitStatusInv, SplitKillInv DEF SplitAction, SplitStep
<1>4. CASE UNCHANGED vars
  <2>1. UNCHANGED <<serviceVars, commandVars, splitVars, active>>
    BY <1>4 DEF vars
  <2>2. TypeOK'
    <3>1. hasId' \in BOOLEAN /\ demo' \in BOOLEAN /\ saved' \in BOOLEAN
      BY <2>1, Zenon DEF IInv, TypeOK, CommandTypeOK, commandVars
    <3> QED
      BY <2>1, <3>1 DEF IInv, TypeOK, ServiceTypeOK, CommandTypeOK, SplitTypeOK,
                        serviceVars, commandVars, splitVars
  <2>3. WhoRuns' /\ JobsAhead' /\ JobsBehind'
    BY <2>1 DEF IInv, WhoRuns, JobsAhead, Ahead, Untouched, JobsBehind,
                serviceVars, commandVars, splitVars
  <2>4. CurrentJob' /\ DemoMode' /\ IdFileKnown' /\ CurrentSplit'
    BY <2>1 DEF IInv, CurrentJob, DemoMode, IdFileKnown, CurrentSplit, SplitProgress, Excused, Job,
                serviceVars, commandVars, splitVars
  <2>5. Safe'
    BY <2>1 DEF IInv, Safe, OpenOnlyAfterFault, Over, DemoNeverReported, ExitMatchesVerdicts,
                serviceVars, commandVars, splitVars
  <2> QED
    BY <2>2, <2>3, <2>4, <2>5 DEF IInv
<1> QED
  BY <1>1, <1>2, <1>3, <1>4 DEF Next

LEMMA AlwaysInv == Spec => []IInv
BY InitInv, NextInv, PTL DEF Spec

(***************************************************************************)
(* The variables of both reporting flows keep their types, for any number  *)
(* of commands, matched configs and CI jobs.                               *)
(***************************************************************************)
THEOREM ReportingTypeCorrect == Spec => []TypeOK
<1>1. IInv => TypeOK
  BY DEF IInv
<1> QED
  BY <1>1, AlwaysInv, PTL

(***************************************************************************)
(* A run is left STARTED by a job that is over only after one of the       *)
(* faults that put its closing out of reach; a failed upload of the        *)
(* results is never one of them (reporting.py:268, main.py:302).           *)
(***************************************************************************)
THEOREM RunsOpenOnlyAfterFault == Spec => []OpenOnlyAfterFault
<1>1. IInv => OpenOnlyAfterFault
  BY DEF IInv, Safe
<1> QED
  BY <1>1, AlwaysInv, PTL

(***************************************************************************)
(* No run is ever created for a job of a demo provider, whichever runs the *)
(* id file of other jobs leads an update to (test.py:629).                 *)
(***************************************************************************)
THEOREM DemoIsNeverReported == Spec => []DemoNeverReported
<1>1. IInv => DemoNeverReported
  BY DEF IInv, Safe
<1> QED
  BY <1>1, AlwaysInv, PTL

(***************************************************************************)
(* Demo mode never leaks from one discovered config into the next          *)
(* (_preserve_demo_mode, test.py:101).                                     *)
(***************************************************************************)
THEOREM DemoIsRestored == Spec => []DemoRestored
<1>1. IInv => DemoRestored
  BY DEF IInv, DemoMode, DemoRestored
<1> QED
  BY <1>1, AlwaysInv, PTL

(***************************************************************************)
(* The exit code of isvctl test run and the verdicts of the configs it     *)
(* matched agree (test.py:519).                                            *)
(***************************************************************************)
THEOREM ExitCodeMatchesVerdicts == Spec => []ExitMatchesVerdicts
<1>1. IInv => ExitMatchesVerdicts
  BY DEF IInv, Safe
<1> QED
  BY <1>1, AlwaysInv, PTL

(***************************************************************************)
(* A job that wrote a report uploads its own, whatever older reports lie   *)
(* in the directory (test.py:716).                                         *)
(***************************************************************************)
THEOREM OwnReportIsUploaded == Spec => OwnReportWhenWritten
<1> DEFINE Own == pc = "results" /\ pc' = "status" /\ Job \in wrote
                     => runs'[Job].report \in {runs[Job].report, Job}
<1>1. IInv /\ [Next]_vars => [Own]_vars
  <2> SUFFICES ASSUME IInv, [Next]_vars, pc = "results", pc' = "status", Job \in wrote
               PROVE  runs'[Job].report \in {runs[Job].report, Job}
    OBVIOUS
  <2>1. ServiceTypeOK /\ Job \in Jobs /\ Requested[Job] \in Places /\ active \in Commands
    BY InCommand DEF IInv, TypeOK
  <2>2. junit[Requested[Job]] = Job
    BY DEF IInv, CurrentJob
  <2>3. FindReport(Job) = Job
    BY <2>1, <2>2, FindReportType, NoJobAssumption
  <2>4. UploadResults
    <3>1. active # Idle /\ active \notin SplitJobs
      BY <2>1, ReportingAssumption
    <3>2. ~Start /\ \A j \in SplitJobs : ~SplitAction(j)
      BY <3>1 DEF Start, RunCommand, StartSplit, SplitAction
    <3>3. ~UNCHANGED vars
      BY DEF vars, commandVars
    <3>4. CommandAction
      BY <3>2, <3>3 DEF Next
    <3> QED
      BY <3>4 DEF CommandAction, CommandStep, KillCommand, EndCommand, LoadConfig, CreateTestRun,
                  Orchestrate, GetToken, UpdateStatus, FinishJob
  <2>5. PICK outcome \in Outcomes : ReportTestResults(Job, Job, outcome)
    BY <2>1, <2>3, <2>4, NoJobAssumption DEF UploadResults
  <2>6. runs \in [Jobs -> RunRecord]
    BY <2>1 DEF ServiceTypeOK
  <2> QED
    BY <2>1, <2>5, <2>6, ReportEffect
<1>2. Spec => [][Own]_vars
  BY <1>1, AlwaysInv, PTL DEF Spec
<1> QED
  BY <1>2 DEF OwnReportWhenWritten
-----------------------------------------------------------------------------
\* What the portal shows of the runs.
Portal == [j \in Jobs |-> runs[j].status]

\* A create request for a job nothing was stored for opens a run, or nothing.
LEMMA OpensRun ==
    ASSUME IInv, NEW j \in Jobs, Untouched(j), NEW outcome \in Outcomes, CreateRequest(j, outcome)
    PROVE  Life!Begin(j) \/ Portal' = Portal
<1>1. ServiceTypeOK
  BY DEF IInv, TypeOK
<1>2. CASE outcome = "refused"
  BY <1>1, <1>2, CreateEffect DEF Portal
<1>3. CASE outcome # "refused"
  <2>1. runs'[j].status = "STARTED" /\ \A k \in Jobs : k # j => runs'[k].status = runs[k].status
    BY <1>1, <1>3, CreateEffect
  <2>2. Portal' = [Portal EXCEPT ![j] = "STARTED"] /\ Portal[j] = "none"
    BY <2>1 DEF Portal, Untouched
  <2> QED
    BY <2>2 DEF Life!Begin, Portal
<1> QED
  BY <1>2, <1>3

\* A status request for an open run whose tests are over closes it with their
\* verdict, or nothing.
LEMMA ClosesRun ==
    ASSUME IInv, NEW j \in Jobs, runs[j].status = "STARTED", verdict[j] # "none",
           NEW outcome \in Outcomes, UpdateTestRun(j, StatusOf(verdict[j]), outcome)
    PROVE  Life!Close(j) \/ Portal' = Portal
<1>1. runs \in [Jobs -> RunRecord] /\ StatusOf(verdict[j]) \in Closed
  BY DEF IInv, TypeOK, ServiceTypeOK, StatusOf, Closed
<1>2. /\ \A k \in Jobs : k # j => runs'[k] = runs[k]
      /\ runs'[j].status \in {runs[j].status, StatusOf(verdict[j])}
  BY <1>1, StatusEffect
<1>3. CASE runs'[j].status = runs[j].status
  BY <1>2, <1>3 DEF Portal
<1>4. CASE runs'[j].status = StatusOf(verdict[j])
  <2>1. Portal' = [Portal EXCEPT ![j] = StatusOf(verdict[j])] /\ Portal[j] = "STARTED"
    BY <1>2, <1>4 DEF Portal
  <2> QED
    BY <2>1 DEF Life!Close, Portal, StatusOf
<1> QED
  BY <1>2, <1>3, <1>4

(***************************************************************************)
(* When every CI job passes the id its create printed, both flows          *)
(* implement RunLife, for any number of commands, configs and jobs: a run  *)
(* is created once, and closed at most once, with the verdict of its own   *)
(* tests.  The hypothesis is needed: an update that takes the id from the  *)
(* file may close the run of another job.                                  *)
(***************************************************************************)
THEOREM RunsFollowRunLife ==
    ASSUME ExplicitId = SplitJobs PROVE Spec => ImplementsRunLife
<1>1. Init => Life!Init
  BY DEF Init, ServiceInit, Life!Init
<1>2. IInv /\ [Next]_vars => [Life!Next]_Portal
  <2> SUFFICES ASSUME IInv, [Next]_vars PROVE Life!Next \/ Portal' = Portal
    OBVIOUS
  <2>1. CASE Start \/ UNCHANGED vars
    BY <2>1 DEF Start, RunCommand, StartSplit, vars, serviceVars, Portal
  <2>2. CASE CommandAction
    <3>1. CASE CreateTestRun /\ ~UNCHANGED serviceVars
      <4>1. PICK outcome \in Outcomes : CreateRequest(Job, outcome)
        BY <3>1 DEF CreateTestRun
      <4>2. Job \in Jobs /\ Untouched(Job)
        <5>1. pc = "create" /\ active \in Commands /\ at \in DOMAIN Matches[active] /\ Job \in Jobs
          BY <3>1, InCommand DEF CreateTestRun
        <5>2. Ahead(active, at)
          BY <5>1, InCommand DEF Ahead
        <5> QED
          BY <5>1, <5>2 DEF IInv, JobsAhead, Job
      <4> QED
        BY <4>1, <4>2, OpensRun DEF Life!Next
    <3>2. CASE UploadResults
      <4>1. runs \in [Jobs -> RunRecord] /\ Job \in Jobs /\ FindReport(Job) \in Jobs \cup {NoJob}
        BY <3>2, InCommand, FindReportType DEF IInv, TypeOK, ServiceTypeOK, UploadResults
      <4>2. \A k \in Jobs : runs'[k].status = runs[k].status
        BY <3>2, <4>1, ReportEffect DEF UploadResults
      <4> QED
        BY <4>2 DEF Portal
    <3>3. CASE UpdateStatus
      <4>1. Job \in Jobs /\ runs[Job].status = "STARTED" /\ verdict[Job] # "none"
        BY <3>3, InCommand DEF IInv, CurrentJob, UpdateStatus
      <4>2. PICK outcome \in Outcomes : UpdateTestRun(Job, StatusOf(verdict[Job]), outcome)
        BY <3>3 DEF UpdateStatus
      <4> QED
        BY <4>1, <4>2, ClosesRun DEF Life!Next
    <3>4. CASE UNCHANGED serviceVars \/ Orchestrate \/ GetToken \/ KillCommand
      BY <3>4 DEF Orchestrate, GetToken, KillCommand, serviceVars, Portal
    <3> QED
      BY <2>2, <3>1, <3>2, <3>3, <3>4 DEF CommandAction, CommandStep, LoadConfig, FinishJob
  <2>3. ASSUME NEW j \in SplitJobs, SplitAction(j) PROVE Life!Next \/ Portal' = Portal
    <3>1. j \in Jobs /\ SplitProgress(j) /\ runs \in [Jobs -> RunRecord]
      BY SplitAssumption DEF IInv, TypeOK, ServiceTypeOK, CurrentSplit
    <3>2. CASE Create(j)
      <4>1. PICK outcome \in Outcomes : CreateRequest(j, outcome)
        BY <3>2 DEF Create
      <4>2. Untouched(j)
        BY <3>2 DEF Create, IInv, JobsAhead
      <4> QED
        BY <3>1, <4>1, <4>2, OpensRun DEF Life!Next
    <3>3. CASE SplitResults(j)
      <4>1. target[j] \in Jobs
        BY <3>1, <3>3 DEF SplitResults, SplitProgress
      <4>2. junit[SplitPlace] \in Jobs \cup {NoJob}
        BY SplitAssumption DEF IInv, TypeOK, ServiceTypeOK
      <4>3. \A k \in Jobs : runs'[k].status = runs[k].status
        BY <3>1, <3>3, <4>1, <4>2, ReportEffect DEF SplitResults
      <4> QED
        BY <4>3 DEF Portal
    <3>4. CASE SplitStatus(j)
      <4>1. target[j] = j /\ runs[j].status = "STARTED" /\ verdict[j] # "none"
        BY <3>1, <3>4 DEF SplitStatus, SplitProgress
      <4>2. PICK outcome \in Outcomes : UpdateTestRun(j, StatusOf(verdict[j]), outcome)
        BY <3>4, <4>1 DEF SplitStatus
      <4> QED
        BY <3>1, <4>1, <4>2, ClosesRun DEF Life!Next
    <3>5. CASE Test(j) \/ Update(j) \/ SplitToken(j) \/ KillSplit(j)
      BY <3>5 DEF Test, Update, SplitToken, KillSplit, Portal
    <3> QED
      BY <2>3, <3>2, <3>3, <3>4, <3>5 DEF SplitAction, SplitStep
  <2> QED
    BY <2>1, <2>2, <2>3 DEF Next
<1>3. Spec => Life!Init /\ [][Life!Next]_Portal
  BY <1>1, <1>2, AlwaysInv, PTL DEF Spec
<1> QED
  BY <1>3, PTL DEF ImplementsRunLife, Life!Spec, Portal
=============================================================================
