# Verification of the AI cloud validation tools

This directory holds TLA+ models of the repository: the lifecycle that `isvctl test run`
drives (steps, phases, validations, reports), the way it runs one external command, the
reporting of its results to the ISV Lab Service, the execution of a validation on a step
output with the validation classes and suites, and the scripts of the AWS provider and the
cluster checks that create and delete resources. TLC checks the models on small instances,
TLAPS proves the most important properties for every value of the constants.
`PROJECT.json` lists components, runs, the map from definitions to source lines, findings,
hazards and theorems.

## 1. The system

| Component | State | Operations | Talks to |
|---|---|---|---|
| orchestrator loop (`isvctl/orchestrator/loop.py`) | phase position, `overall_success`, `setup_steps_ran`, resolved validations by index, phase results, JUnit parts | `run`, `_run_steps_mode`, `_create_phase_result`, `_resolve_remaining_validation_entries`, JUnit merge | step executor, resolution, pytest bridge |
| step executor (`isvctl/orchestrator/step_executor.py`) | `StepResults` of the phase | `execute_steps`, `_execute_step`, `_render_args`, `_parse_output` | run context, command process |
| run context (`isvctl/orchestrator/context.py`) | step outputs, step phases | `set_step_output`, `set_step_phase`, rendering | step executor writes, resolution reads |
| validation resolution (`isvtest/core/resolution.py`) | none (pure) | `parse_validations`, `resolve_entries`, `get_entry_phase` | called by the loop |
| command process (`isvtest/core/process.py`) | the child, its group, its pipes | `run_command_process`, terminate, kill, drain | the operating system |
| pytest bridge (`isvtest/main.py`, `tests/test_validations.py`) | captured results | `run_validations_via_pytest`, `_apply_pytest_results` | pytest, in process |
| JUnit report (`loop.py`, `utils/junit_subtests.py`) | one file per phase, one merged file | stubs, merge, subtests | files |
| `isvctl test run` (`cli/test.py`), result reporting (`reporting.py`, `isvreporter`) | test run id and its file, report file, demo mode, status in the service | create, orchestrate, upload, set status; `isvreporter create` / `update` | an HTTP service, files of the working directory |
| validation runtime (`isvtest/core/validation.py`, `composite.py`) | verdict, message, subtests | `execute`, `set_passed`, `set_failed`, `report_subtest`, `check_required_tests` | pytest, step outputs |
| validations (`isvtest/validations/`), suites (`isvctl/configs/suites/`) | none beyond one execution | one class per check; a suite wires it to a step | step outputs, clusters, hosts |
| provider scripts (`isvctl/configs/providers/`) | resources in the cloud, ids main holds, the result document | one script per step: make, probe, clean up, print one document | the cloud, the step executor |
| configuration (`config/schema.py`, `merger.py`, `suite_resolution.py`, `provider_registry.py`, `user.py`) | merged mapping, user file | load, merge, validate, save | files |
| remote deployment (`cli/deploy.py`, `remote/`) | archive, remote directory | archive, transfer, run, fetch | ssh |
| storage provider interface (`core/storage_provider/`) | volumes, snapshots of the mock | create, attach, snapshot, delete | validations |
| cleaner, doctor, redaction, catalog, legacy command executor, infrastructure clients, workloads | little or none | see `PROJECT.json` | external tools |

A run is sequential: one thread takes the phases of the configuration in order; in each
one it executes the steps, one command at a time, then resolves the validations of that
phase and executes the ready ones in one pytest session; at the end it resolves what no
phase resolved. Concurrency exists between that thread, the process tree of the command
it waits for, its clock and the user's Ctrl-C. A command is mostly a provider script: it
makes resources, probes them, deletes them and prints one JSON document, which the checks
of the suite then judge. The results go to the service in separate requests.

What is hard:

* **Failure handling.** One failure must stop the phase, except in teardown or under
  `continue_on_failure`; must stop later phases, except teardown; and must always reach
  the verdict. These rules meet in a few lines of `loop.py` and `step_executor.py`, over
  every combination of requested phases, skipped steps and flags.
* **Ordering.** A validation is bound to a step and may name a phase of its own, so its
  resolution and the step can fall into different phases, in either order.
* **Accounting.** An entry gets its outcome and its testcase on one of three paths and
  must have exactly one of each.
* **Timeouts and interrupts.** The grace period, the kill and the drain race the exit of
  the child and of descendants that leave the group or hold the pipes.
* **Reporting to the service.** Create, run, upload and status are separate calls that
  fail separately, may be applied with their answer lost, and share files of the working
  directory with earlier runs.
* **Honest verdicts.** A check that meets failed, skipped and missing evidence in one
  document must not pass, must not hide the failure behind the skip, and must not fail
  without a reason; suites, templates and classes name the fields independently.
* **Partial failure in the cloud.** Any request of a script may fail, the ones of its
  `finally` block included: what was made must be deleted in an order the cloud accepts,
  success must not be claimed over a failed cleanup, and stdout must carry one document.

What makes each component correct: teardown is attempted after every failure, nothing
else is; the verdict is exact; every configured validation is reported once; exactly the
selected validations run, and only with the output of their step; a command that is given
up leaves nothing of its process group behind; the run ends; a test run in the service is
closed with its own verdict; a validation passes only on evidence; a script leaves nothing
it does not name.

## 2. Modules

| Module | Models | Notes |
|---|---|---|
| `Resolution` | `resolve_entries` and the types of an entry and an outcome | operators only; the order of the reasons is the code's |
| `Orchestrator` | `Orchestrator.run`, `_run_steps_mode`, `StepExecutor` | one run; extends `Resolution` |
| `Lifecycle` | what a run promises, phase by phase | abstract; no steps, validations or reports |
| `MCOrchestrator` | families of configurations for TLC | |
| `CommandProcess` | `run_command_process` on POSIX against an arbitrary process tree | checked directly |
| `LabService` | the service and the client calls of `isvreporter` that change it | every request answered, refused, or applied with its answer lost |
| `TestRunReport`, `SplitReport` | `isvctl test run` with upload; `isvreporter create` and `update` in CI jobs | both extend `LabService` |
| `Reporting` | the two flows over one directory and one service | composition; `MCReporting` instantiates it |
| `RunLife` | the life of a test run as the portal shows it | abstract; `Reporting` implements it |
| `CheckLanguage` | the vocabulary of the validation classes | operators only |
| `EvidenceCheck` | `execute`, `check_required_tests`, subtests, `CompositeCheck.run` on one step output | the machine that executes a class |
| `NetworkChecks`, `SecurityChecks`, `ObservabilityChecks`, `InstanceChecks`, `FleetChecks`, `HostChecks`, `ServiceChecks`, `ClusterChecks` | the validation classes, one definition each | which evidence, in which order, with which consequence |
| `Templates`, `Suites`, `MCEvidence` | the `my-isv` scripts, the wiring of the suites, and documents for TLC | |
| `ScriptLanguage` | the vocabulary of the provider scripts | operators only |
| `ProviderScript` | one execution of a script against a cloud that fails requests | the machine that executes a script |
| `ScriptResources` | what a script leaves in the cloud, and the conditions on its text that keep it clean | extends `ProviderScript` with the properties of its runs and `Tidy`, `Thorough` |
| `CarefulScripts` | the condition `Careful` on the text of a script that keeps it clean when nothing fails | operators only; extends `ScriptResources` |
| `AwsNetworkScripts`, `AwsInstanceScripts`, `AwsServiceScripts` | the scripts of the AWS provider, one definition per helper and per `main` | |
| `ClusterLanguage`, `StorageProbes`, `ClusterProbes` | the validations that create objects in a cluster or on a storage system | executed by `ProviderScript` |
| `MCProviderScript` | all scripts and probes for TLC | |
| `OrchestratorProofs`, `PhaseLoopProofs`, `OutcomeProofs` | theorems about `Orchestrator` | each extends the one before; `OutcomeProofs` has the selection and the verdict |
| `CommandProcessProofs`, `ReportingProofs`, `EvidenceCheckProofs`, `ProviderScriptProofs` | theorems about the module they are named after | |
| `CarefulScriptProofs` | theorems about `CarefulScripts` | extends `ProviderScriptProofs` |

**Orchestrator.** `config` and `args` are chosen in `Init` from the constant `Runs` and
never change. `pc` is the place in the code: `start` (the returns of `run` before the
loop), `phase` (the head of the phase loop), `steps` (the head of the loop of
`execute_steps`), `running` (inside `run_command_process`), `validate` (the second half of a
phase), `done`, `raised`. The locals of `_run_steps_mode` keep their names: `overallSuccess`,
`setupStepsRan`, `resolved` (`resolved_validations_by_index`), `phaseResults`; `outputs` is
the set of names in the context's `steps`; `stepsOk` is `step_results.success`.
`stepState`, `phaseState` and `cases` record what became of each step, phase and testcase.
One action stands for one early return, one decision about a phase, one outcome of a step
or one pytest session:

| Code | Actions |
|---|---|
| returns before the loop, KeyError of `get_phases` | `ReturnNoPlatform`, `ReturnPlatformSkipped`, `ReturnNoSteps`, `ReturnNothingToAssert`, `ReturnUnknownStepPhase`, `RaiseUnknownPlatform` |
| head of the phase loop | `PassOverPhase`, `SkipPhase`, `BeginPhase` |
| `execute_steps` | `SkipStep`, `FailBeforeStart`, `StartCommand`, `CommandReturns`, `CommandTimesOut`, `FinishSteps` |
| validations of a phase | `RunValidations`, `ResolveOnly` |
| after the loop | `Conclude` |
| Ctrl-C, uncaught exception | `Interrupt` |

A command is external: it returns any exit status, with or without a JSON output that
does or does not match its schema. A pytest session is external too: any result for each
entry, an exit code consistent with the results and a file that is written, absent or
unreadable. Text (arguments, templates, messages) is reduced to what the control flow sees:
which steps an argument refers to and whether the reference is the whole argument
(`refs`) or part of other text (`embedded`), whether an entry is well formed and what its
parameters render to. Step names are unique, as `StepConfig.name` says of itself
("Unique identifier for this step"), and a configuration lists a phase once.

**CommandProcess.** `pc` is the wait the function is in (`communicate`, `grace`, `drain`,
`interrupt_grace`) or how it ended; `escaped` is an interrupt no handler catches. The
environment may at any time fork, leave the group, close the pipes or exit. A signal other
than SIGKILL is a request with no assumed effect, and a deadline may expire at any moment.

`Orchestrator` abstracts a command to its result and `CommandProcess` details how the parent
comes back: `CommandTimesOut` is the end `timed_out`, `CommandReturns` the end `returned`,
`Interrupt` the ends `interrupted` and `escaped`. `WatchdogReturns` and `InterruptReturns`
are what justifies taking these as single steps.

**LabService, TestRunReport, SplitReport, Reporting.** A job is one execution that may
create one test run. `runs` is what the service stores, `idFile` and `junit` are the files
of the working directory, `faults` what went wrong while a job reported. Every request has
the outcomes of `Outcomes`; a client cannot tell a refused request from one whose answer
was lost. One action per stage of a command: `LoadConfig`, `CreateTestRun`, `Orchestrate`
(a verdict, and a report that is written or not), `GetToken`, `UploadResults`,
`UpdateStatus`, `FinishJob`, and `KillCommand` at any of them. The CI jobs have the same
requests in two processes that hand the id over in a file or an argument. An empty argument means the
file (`test_run_id or load_test_run_id()`), so a job that passes the id calls `update` only
when `create` printed one, as the trap of the guide does (`CallsUpdate`).

**EvidenceCheck.** A validation class is a sequence of members, one for a plain class,
several for a composite; a member is a sequence of steps over named evidence (`Need`,
`Has`, `Unless`, `Tests`, `Subs`, ...). Evidence is good, skipped, wrong or absent: the
distinction a class makes between values is that, and the value is data. The module
executes one class on one document, step by step, with an exception possible at any step
that an output can provoke it in, and combines the members as `CompositeCheck.run` does. A
check that queries a host or a cluster itself is listed by the evidence its commands give.

**ProviderScript.** A script has a body and a cleanup (its `finally` block), each a
sequence of units; a unit is a helper or a `try` block, with its calls in order, the
exceptions it catches, and what `main` does with the result. `cloud` is what exists, with
what it is inside of; `known` are the ids `main` holds, `fresh` those of the helper that
is under way; `tests`, `trouble`, `success` and `docs` are the result document. Each kind
of request is an action (`Create`, `Delete`, `StartTermination`, `WaitUntilGone`, `Find`,
`Answer`), and so are its failures: refused (`CallFails`, `DeleteRefused`, `NotFound`),
answered negatively (`JudgedFalse`), carried out with the answer lost (`AnswerLost`), or
failed where a refusal was wanted (`TakenForRefusal`). The cluster probes have the same
shape: `execute` plays the part of `handle_aws_errors`. The cloud is external: it deletes
nothing that something else is inside of.

`Orchestrator` sees a script as `CommandReturns` with an output or without one, and a
validation as one result of a session; `OneDocument` and the verdict of `EvidenceCheck` are
what stands behind these choices.

## 3. Runs

Passing runs:

| Run | Instance | Properties |
|---|---|---|
| `orchestrator_safety` | `SafetyRuns`: four families, about 556 000 states | `TypeOK`, `TeardownAttempted`, `VerdictExact`, `EveryEntryReported`, `StepsStopAtFailure`, `ValidationsFollowTheirStep`, `SelectionExact`, `NoWorkAfterFailure`, `ImplementsLifecycle` |
| `orchestrator_progress` | `ProgressRuns`, about 5 000 states | `Termination`, `SetupLeadsToTeardown` |
| `command_process` | a leader and two descendants, about 1 400 states | `TypeOK`, `GroupStopped`, `NoZombie`, `KilledOnlyAfterAsking`, `WatchdogReturns`, `InterruptReturns` |
| `reporting` | three commands with four jobs and a CI job, two of them started, about 296 000 states | `TypeOK`, `OpenOnlyAfterFault`, `DemoNeverReported`, `DemoRestored`, `ExitMatchesVerdicts`, `OwnReportWhenWritten`, `ImplementsRunLife`, `RunsGetClosed` |
| `evidence_checks` | every wiring of the twelve suites, about 294 000 states | `TypeOK`, `PassExact`, `SkipHidesNothing`, `FailureIsExplained`, `DemoPasses`, `UnimplementedNeverPasses` |
| `provider_scripts` | every script and probe with up to two failing requests, 100 in all, about 49 000 states | `TypeOK`, `CleanWithoutFaults`, `OneDocument`, `SuccessOrphansNothing`, `SuccessSweeps`, `TeardownSuccessMeansGone`, `ScriptEnds` |

* `TeardownAttempted`: a completed run whose setup executed a command, or that was asked
  for teardown without setup, attempted every teardown step.
* `VerdictExact`: the run failed if and only if a step failed, a validation failed or
  errored, or a session ended with a failing exit code.
* `EveryEntryReported`: one terminal outcome and one testcase for every validation.
* `StepsStopAtFailure`, `NoWorkAfterFailure`: what a failure stops, inside a phase and
  after it.
* `ValidationsFollowTheirStep`, `SelectionExact`: a validation is executed only after its
  step left an output; what a phase hands to pytest is exactly the set of its selected
  validations whose step fed them in time. The second is stated as one condition on an
  entry and not as the code's cascade of reasons.
* `ImplementsLifecycle`: every run is a behaviour of `Lifecycle`.
* `Termination`: with a watchdog on every step the run ends. `SetupLeadsToTeardown`: a
  setup that ran is followed by teardown, unless the run is interrupted.
* `GroupStopped`, `NoZombie`, `KilledOnlyAfterAsking`: after a timeout or one Ctrl-C no
  member of the group lives, the child was waited for, and the kill followed a request.
* `WatchdogReturns`, `InterruptReturns`: the parent comes back even when a descendant
  outside the group holds the pipes for ever.
* `OpenOnlyAfterFault`, `RunsGetClosed`: a test run stays open in the service only for a
  fault that is named, or while its tests never return, and a failed upload of the results
  is no such fault. `OwnReportWhenWritten`:
  a report that was written is the one uploaded. `DemoNeverReported`, `DemoRestored`: demo
  results stay local and demo mode does not leak from one config to the next.
  `ExitMatchesVerdicts`: the exit code of a command over several configs.
  `ImplementsRunLife`: a run is created once and closed at most once, with its own verdict
  (for CI jobs that pass the id they were given).
* `PassExact`, `SkipHidesNothing`, `FailureIsExplained`: a verdict against what the
  class rejects and declines, stated over the document and not over the code's order; a
  pass in both directions, so that neither a failure nor a pass is lost in a composite.
  `DemoPasses`, `UnimplementedNeverPasses`: suites, templates and classes agree on the
  names of the fields; a template nobody has implemented passes no check but those that
  read back the arguments (`Echoing`) and, when it is a teardown told to leave the fixture
  alone (`--skip-destroy`, `BM_SKIP_TEARDOWN`), the six checks listed in `MCWaived`: seven
  teardown templates then print `success: true` without an implementation. On one field
  the repository disagrees with itself: `vm/reboot_instance.py:38` of `my-isv` says an
  absent `reboot_confirmed` means "trust uptime", while `InstanceRebootCheck`
  (`instance.py:150` and `:209`) fails when it is absent. The model follows the class.
* `CleanWithoutFaults`: the finally block deletes everything, in an order the cloud
  accepts, whichever tests came out negative. `OneDocument`: what is printed.
  `SuccessOrphansNothing`, `SuccessSweeps`, `TeardownSuccessMeansGone`: what a successful
  script may leave. The first two complement each other: nothing is left that the script has
  lost the id of, and nothing is left in silence whose delete was refused. What a few scripts
  are known to leave without naming it is written down in `LeftBehind`, with the reason.
  `ScriptEnds`: the finally block is always left.

Two exemptions of these properties are weaknesses of the code that a reader should know.
`SuccessSweeps` exempts the deletes whose failure no one reports (`Unseen`): an `except`
clause that passes or only logs, a result of `delete_with_retry` that is ignored. 42 of the
100 scripts have one, `TheseSwallow` names them, and each may say success over a resource
the cloud refused to delete. `TeardownSuccessMeansGone` exempts what is `Tolerated`: the
group and key of an instance and the snapshot of an image, for which a refusal is a warning,
and a flow log that `delete_flow_logs` lists as Unsuccessful, a list that
`teardown_vpc_flow_logs.py` does not read.

Runs that refute a statement of the repository:

| Run | Statement | What the code does |
|---|---|---|
| `command_interrupt` | the interrupt "is forwarded to the process tree, which is stopped before re-raising" | an interrupt in a grace period or while draining leaves the group running |
| `teardown_default` | "By default, teardown runs even when setup or test validations fail" | teardown is skipped when setup is requested and has no live step |
| `embedded_refs` | an unresolved `{{steps.X.Y}}` raises `MissingStepRefError` | only when the whole argument renders to nothing |
| `junit_stubs` | stubs are for entries that "did not run through pytest" | a failed entry whose file is missing gets a stub without a failure element |
| `passed_exit` | see the finding in `PROJECT.json` | a validation passes and leaves a failed subtest with pytest, which fails the phase |
| `orphaned_vpc` | `vpc_id` is "set early so finally-block cleanup can find it on partial failure" | the id stays in the helper; `main` never gets it |

### Bounds

`Orchestrator`: the configuration is the only unbounded input and no counter grows during
a run: the bounds are the families of `MCOrchestrator`. *Lifecycle* has two setup, one test
and two teardown steps: two steps are what it takes to break a phase off and to go on after
a failed teardown step, and the phases come in the usual order and with teardown first.
*Report* has a validation bound to a step of each phase, to no step and to an
unknown one, in its own or another phase, next to an unbound one, so that a binding can
point backwards and forwards; `soak` is a phase without steps. *Selection* combines every
filter. *TurnedDown* has every early return and every place a platform is found in. The
names of a family are asymmetric (teardown, test and setup are special), so no symmetry
is used.

`CommandProcess`: two descendants suffice for one that leaves the group and one that
stays, and for a fork by a process that is itself a descendant; the theorems hold for any
set. `Reporting`: `MaxStarted = 2`, one command or job to leave files behind and one to
find them; the configs cover one and two matches, a demo provider and a demo import.
`MCEvidence`: `MaxDamage = 2`, one damaged piece for a failure and one for a skip or an
absence in the same document; the theorems hold for any document. `MCProviderScript`:
`MaxFaults = 2`, one request of the body and one of the cleanup that follows; loops over
several resources are written out for two.

### Fairness

`Orchestrator`: weak fairness of `Proceed`, everything the thread does without waiting for
anybody, the expiry of a watchdog included. Nothing is assumed of commands: one without a
watchdog may run for ever, and the liveness properties say so in their premise. A pytest
session is assumed to end. `CommandProcess`: weak fairness of `Parent`, that deadlines
expire and an end of file is noticed. Nothing is assumed of the processes or of the user.
`Reporting`: a process that was started goes on; nobody has to start one. Requests have
timeouts (`client.py`), so each of them ends. The tests themselves need not: a step with
`timeout: null` or a validation may hang, which `troubleshooting-started-tests.md` lists as a
cause of runs that stay STARTED. `Orchestrate` and `Test` therefore have no fairness, and
`RunsGetClosed` has the alternative `[]Testing(j)`, that the job is at its tests for ever.
`ProviderScript`: a script goes on (the client library's requests and waiters end after a
fixed number of attempts) and the cloud ends what is terminating.

## 4. Theorems

All proofs are for every value of the constants. The assumptions are
`ResolutionAssumption` (the three well-known phases exist; `None` is none of the names),
`OrchestratorAssumption` (`Runs` are well-typed configurations and arguments with unique
names), `ProcessAssumption` (the child is not its own descendant), `CheckAssumption` and
`ScriptAssumption` (well-formed checks, documents and scripts), `SubtestsComeLast` (no
class reports a subtest and then leaves with `pytest.skip`) and `StyleAssumption` (a
finally block records no test; one that runs after a return inside of the `try` block lets
no exception out) and `TeardownAssumption` (every teardown is `Thorough`, below). TLC
evaluates the last three on every class and script that is written down: they are facts
about the repository, not conditions on it. `ReportingAssumption`
and `CommandAssumption` type the jobs and say that a job belongs to one command or to the
CI, once.

Five theorems have a hypothesis of their own. `RunsFollowRunLife` takes `ExplicitId =
SplitJobs`, every CI job passes the id its create printed: without it the property is
false, since `isvreporter update` takes the id from a file that another job may have
written. `TidyScriptsOrphanNothing` takes `Tidy`, a condition on the text of a script, which TLC
evaluates on every script at the start of the run (`AllButTheseAreTidy`): 95 of 100
satisfy it. The other five are left to the run. `CarefulScriptsEndClean` and
`CarefulDeletesAreAccepted` take `Careful`, another condition on the text, evaluated in the
same way (`AllButTheseAreCareful`): 90 of 100 satisfy it, the other ten are left to the run.
`DiligentScriptsSweep` takes `Tidy` and `Diligent` (`AllButTheseAreDiligent`): 84 of 100 are
diligent, 83 are both.

| Theorem | States | Argument |
|---|---|---|
| `OrchestratorTypeCorrect` | `[]TypeOK` | inductive as it stands; in particular no validation is ever stored as ready. Needs that the phase of every entry is a phase name and that a nonempty set of step indexes has a least element |
| `EveryValidationReported` | `[]EveryEntryReported` | `ReportInv`: at every moment an entry has one testcase if it has an outcome and none otherwise. The property alone speaks of the end only |
| `StepsStop` | `[]StepsStopAtFailure` | `PhaseInv` |
| `NothingRunsAfterFailure` | `NoWorkAfterFailure` | `PhaseInv`: a phase entered after a failure is teardown |
| `RunsAreLifecycles` | `Orchestrator` implements `Lifecycle` | `PhaseInv` makes every step a step of `Lifecycle` or a stutter |
| `VerdictIsExact` | `[]VerdictExact` | `VerdictInv`: between phases `overall_success` is false exactly if something went wrong; inside a phase the failures of its steps are known to `step_results` only |
| `TeardownSurvivesFailure` | `[]TeardownAttempted` | `TeardownInv`: teardown that is due is skipped only after a setup that ran no command, and once done has attempted all its steps |
| `ValidationsFollow` | `[]ValidationsFollowTheirStep` | `SelectionInv`: an output belongs to a step whose command ended; entries have outcomes only in phases that are over |
| `SelectionIsExact` | `[]SelectionExact` | `SelectionInv`, `TeardownInv` and two lemmas: the cascade of filters is the condition `Selected`, and an output belongs to a phase not after the current one |
| `CommandTypeCorrect`, `TimedOutGroupStopped`, `ChildWaitedFor`, `AskedBeforeKilled` | `[]TypeOK`, `[]GroupStopped`, `[]NoZombie`, `KilledOnlyAfterAsking` | `CommandInv`: from the kill on, no member of the group is alive, and a fork from outside cannot add one; every handler runs after a request |
| `PassesAreExact`, `SkipsHideNothing`, `FailuresAreExplained` (and `TypeCorrect`) | `[]PassExact`, `[]SkipHidesNothing`, `[]FailureIsExplained` | `Accounted`: a member that is over is in `failures` or `skips` exactly for what it rejects or declines (`Explained`), and of the current one the steps behind it declined nothing and rejected only what a subtest reported (`Behind`) |
| `ReportingTypeCorrect`, `RunsOpenOnlyAfterFault`, `DemoIsNeverReported`, `DemoIsRestored`, `ExitCodeMatchesVerdicts` | `[]TypeOK`, `[]OpenOnlyAfterFault`, `[]DemoNeverReported`, `[]DemoRestored`, `[]ExitMatchesVerdicts` | one invariant for both flows, below |
| `OwnReportIsUploaded` | `OwnReportWhenWritten` | the same invariant: a report that was written lies at the place searched first |
| `RunsFollowRunLife` | `Reporting` implements `RunLife` | the same invariant: what is closed is the run of the job itself, STARTED and with a verdict; a request that opens or closes a run is a step of `RunLife`, all else a stutter |
| `PrintsOneDocument` (and `TypeCorrect`) | `[]OneDocument` | `DocInv`: nothing is printed in the body; once something is, `main` holds no more ids than at its return, so every unit of the finally block that is entered lets no exception out (`PrintedInv`) |
| `TidyScriptsOrphanNothing` | `[](Tidy(name) => SuccessOrphansNothing)` | `Progress` and `TraceInv`, below |
| `DiligentScriptsSweep` | `[](Tidy(name) /\ Diligent(name) => SuccessSweeps)` | `TraceInv`, `KeptInv` and `SweptInv`, below |
| `TeardownsEndClean` | `[]TeardownSuccessMeansGone` | `SweepInv`, below |
| `CarefulScriptsEndClean`, `CarefulDeletesAreAccepted` | `[](Careful(name) => CleanWithoutFaults)`; no delete is refused while no request has failed | `Progress` and `CareInv`, below |

`PhaseInv` says where the loop is: nothing has happened before it; phases after `phaseIx`
are untouched, requested ones before it had their turn and only the current one is
active; steps left to take have not been attempted, the steps before them in the phase
have, and none of these broke the phase off.

The invariant of `ReportingProofs` has one part for each thing a later step relies on. At
most one process is under way (`WhoRuns`); a job whose turn has not come has no run, no
verdict and no report (`JobsAhead`), which is why creating its run is not a second
creation; the configs a command has left behind passed (`JobsBehind`), or it would have
stopped. An id in hand means a run that is STARTED, and a STARTED run without an id has a
fault that says why (`CurrentJob` and, for the CI, `SplitProgress`): this is what makes
"only after a fault" inductive. Demo mode is on whenever the command or the loaded config
asks for it (`DemoMode`), and the id file names a run that exists (`IdFileKnown`).

`Tidy` says of each unit of a script why its failure cannot orphan anything: it ends the
body without success, or it decides a graded test that nobody overwrites, or what it made
survives it, as `main` holds the id anyhow or nothing can fail between the request and
the return; ids are set to None only after a delete; the finally block makes nothing and
notes an error before it forgets. `TraceInv` is the dynamic counterpart: success is out
of reach for good (`Doomed`), or all that exists is traced or was made by the unit that
is under way. It is inductive together with `Progress`: what this unit deleted and did
not make again is gone, what it made is in `fresh`, ids from the arguments are held.
`SuccessOrphansNothing` alone speaks of the end, when it is too late to say why.

`Diligent` says of a script that keeps nothing for a later step: whatever it is given or
makes has a unit of the finally block that `Sweeps` it, one that deletes it, that asks for no
other id and that notes its error; or its delete is `Unseen`, or it is `LeftBehind`.
`SweptInv` says that success is out of reach (`Doomed`), or that `main` holds no id any more
of what a sweeping unit behind it was to delete (`LetGo`): such a unit deletes it and lets go
of the id, or notes an error. By `TraceInv` what exists at a successful end is what `main`
holds the id of, by `KeptInv` that is something the script was given or made, under an id the
body found, and then `Diligent` has a unit behind that let go of it: nothing is left but what
the property names. `SuccessSweeps` alone is not inductive, since success is decided before
the finally block has begun.

`Thorough` is the condition on a teardown. It makes nothing, and each resource it is given,
but for the `Tolerated` ones, is covered by a call of a unit that insists: one of the body
that ends it without success when it fails, or one of the finally block that notes its
error. A call covers a resource when it deletes it, what it lives on, or what it is inside
of, as the cloud grants that only when the resource is gone. A unit that returns early with
success, because there is nothing to do, may not find that here (`NeverSettles`).
`SweepInv` says that a teardown is `Doomed`, or that every insisting unit behind it took
all it covers with it (`BodySwept`, `CleanupSwept`). It needs besides that nothing comes
back (`FromGiven`), that what was given and not yet asked to be deleted is still there
(`StillThere`, or a unit could find nothing and settle), and that `main` holds the ids the
units ahead ask for (`GuardsHeld`, or they would be passed over in silence).

`Careful` is the condition under which nothing is left when every request is granted. Then a
unit fails for two reasons only, a negative answer and something that is not found, and the
condition follows both through the text. For everything the script is given or makes there is
a call that clears it and that is `Reached` whenever it exists, or a document that names it
(`HandedOn`). Reached means: the ids its unit asks for are `Tied` to the resource, what must
be gone before was `Released`, no unit before leaves the body, no call before it in the unit
`Falters`. An id is tied when `main` holds it whenever the resource exists: it is `Secured`
before the resource is made, or `Brought` by the unit that makes it, and is set to None only
when the resource is gone. `InOrder` says that whatever may be inside of a resource is cleared
by a reached call before the resource is deleted. Two resources that one unit makes together
are there together (`Companions`), which is why a delete of the one may count on the other.

`CareInv` is the dynamic counterpart over the places behind (`Past`): a reached call behind
took what it clears with it (`SweepDone`), tied ids are held (`TiesHold`), released ones are
not (`ReleasedIsGone`), untouched resources stand (`StillStands`, `Together`), and what exists
has an origin in the text, what terminates was told to (`Origins`). Each part needs the
others: a unit is not passed over because its ids are held, the ids are held because a unit
can fail only where the text says so, this because what a call looks for is there, and it is
there because nothing but the calls behind could have taken it. The steps fall into four
kinds, a call that is granted, a unit that is over, the body that is left and the rest
(`Granted`, `Over`, `Left`), and every part is shown for each of them. `AnswerLost`,
`CallFails` and `TakenForRefusal` are faults and end what the condition promises.

Only model-checked are

* the liveness properties (`Termination`, `SetupLeadsToTeardown`, `WatchdogReturns`,
  `InterruptReturns`, `RunsGetClosed`, `ScriptEnds`): fairness is outside the prover's
  reach;
* `SuccessOrphansNothing` of the five scripts that are not `Tidy`: four look up what an
  earlier step made, so that what they know depends on what they find, and
  `sg_crud_test.py` sets an id to None in a test that only confirms the delete of the test
  before;
* `CleanWithoutFaults` of the ten scripts that are not `Careful`: four clean up in an
  `except` clause, `teardown.py` of bare metal learns ids from what it finds, three quota
  probes hang a delete on a test or do not catch one that finds nothing, `teardown.py` of vm
  ends early when its instance is terminating already, and the flow log that was not deleted
  goes unnoticed;
* `SuccessSweeps` of the seventeen scripts that are not both `Tidy` and `Diligent`: most
  delete in the body or in an `except` clause, in the others a resource goes with what it
  lives on or is deleted under the id of something else;
* `DemoPasses` and `UnimplementedNeverPasses`: they are about the documents and classes that
  are written down, and a hypothesis that spares their enumeration would restate them.

The inductive invariants were checked with TLC on the instances of the runs.

## 5. Not modelled

* The text level: rendering, redaction, log excerpts, layout and order of the JUnit file;
  the content of requests, manifests and answers.
* The reuse of a process id after the group is gone, and the Windows branch of
  `process.py`.
* In the pytest bridge, the naming of duplicate entries and the collection of subtests
  across sessions; a session identifies entries by their index.
* Two commands at once in one working directory: the code takes no lock.
* A provider script that is killed: all but `eks/upgrade_test.py` install no handler, so
  all it made stays.
* A storage provider that refuses user quotas is skipped at the first request that sets
  one; a refusal of a later request is left out.
* Of the AWS provider: `--skip-destroy` (that of the `my-isv` templates is modelled), `eks/`, `security/`, the telemetry scripts of
  `observability/`, the FSx scripts of `storage/`, the DNS, DHCP, IMEX, security group
  propagation, routing and address scripts of `network/` and the serial consoles; of the shared
  scripts `breakfix/cordon_node.py`; the NICo, VAST and WEKA scripts, REST clients and
  read-only queries for which a request is one answer.
* Workloads: jobs submitted to Kubernetes or Slurm whose log is parsed for a number.
* Components without state of their own (doctor, catalog, registry lookup).

## 6. Plan

1. Done: `Resolution`, `Orchestrator`, `Lifecycle`, `CommandProcess`, their runs and
   theorems; `Reporting` and `RunLife` with their theorems; `EvidenceCheck` with the
   classes, suites and templates; `ProviderScript` with the AWS scripts and the cluster
   probes; the theorems about the last two, every safety property included.
2. `PytestBridge`: entries keyed by name, qualification of duplicates, captured results and
   the subtest collector across sessions. Property: every entry gets its own result.
3. The provider scripts that are left; `ConfigMerge` against a reference definition;
   `UserConfig` with a crash between its steps; `RemoteDeploy`; the storage mock.
