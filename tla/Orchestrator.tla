----------------------------- MODULE Orchestrator -----------------------------
(***************************************************************************)
(* The step-based test lifecycle of isvctl: Orchestrator.run with          *)
(* _run_steps_mode (orchestrator/loop.py) and StepExecutor.execute_steps   *)
(* (orchestrator/step_executor.py).                                        *)
(*                                                                         *)
(* One run: the configuration and the arguments are chosen in Init and     *)
(* never change.  The phases of the configuration are taken in order; in   *)
(* each one the steps are executed one command at a time and then the      *)
(* validations of the phase are resolved and executed by one pytest        *)
(* session.  Commands and pytest sessions are external: what they return   *)
(* is a choice.  Their output is reduced to "there is a JSON output" and   *)
(* to the verdict on each validation.                                      *)
(***************************************************************************)
EXTENDS Integers, Sequences, FiniteSets, Resolution

CONSTANT Runs   \* configurations with the arguments Orchestrator.run is called with

(* A step of commands.<platform>.steps.  "phase" is in lower case, as the  *)
(* run reads it; "watchdog" says timeout is not null.  The steps.X paths   *)
(* its arguments use without default(...) are "refs" where they are a      *)
(* whole argument and "embedded" where the argument has other text.        *)
StepConfig ==
    [name                : StepNames,
     phase               : PhaseNames,
     skip                : BOOLEAN,
     continue_on_failure : BOOLEAN,
     requires            : SUBSET Capabilities,
     refs                : SUBSET StepNames,
     embedded            : SUBSET StepNames,
     watchdog            : BOOLEAN]

(* RunConfig, as far as the run reads it.  "commands" is empty for a       *)
(* validations-only configuration and otherwise holds the platform keys.   *)
RunConfig ==
    [capability  : Capabilities \cup {None},   \* tests.capability
     platform    : Capabilities \cup {None},   \* root-level platform
     commands    : SUBSET Capabilities,
     skip        : BOOLEAN,                    \* commands.<platform>.skip
     phases      : Seq(PhaseNames),
     steps       : Seq(StepConfig),
     validations : Seq(ValidationEntry),
     exclude     : [labels : SUBSET Labels, tests : SUBSET ValidationNames]]

Phase == {"setup", "test", "teardown", "all"}

(* The arguments of Orchestrator.run; "selection" says that the pytest     *)
(* arguments contain -k or -m.                                             *)
RunArguments ==
    [phases              : SUBSET Phase,
     teardown_on_failure : BOOLEAN,
     selection           : BOOLEAN,
     include_labels      : SUBSET Labels,
     exclude_labels      : SUBSET Labels,
     capability          : Capabilities \cup {None},
     junitxml            : BOOLEAN]

(* Phase and step names are used as keys throughout: both are unique.      *)
UniqueNames(config) ==
    /\ \A i, j \in DOMAIN config.phases : config.phases[i] = config.phases[j] => i = j
    /\ \A i, j \in DOMAIN config.steps : config.steps[i].name = config.steps[j].name => i = j

ASSUME OrchestratorAssumption ==
    \A run \in Runs :
        /\ run[1] \in RunConfig /\ UniqueNames(run[1])
        /\ run[2] \in RunArguments

--------------------------------------------------------------------------------
VARIABLES
    config,         \* self.config
    args,           \* the arguments of this run
    pc,             \* where the run is
    phaseIx,        \* position in config_phases
    todo,           \* indexes of the phase's steps not yet taken by execute_steps
    stepsOk,        \* step_results.success of the current phase
    outputs,        \* names with an output in context.data["steps"]
    overallSuccess,
    setupStepsRan,
    resolved,       \* resolved_validations_by_index
    phaseResults,   \* phase_results, as a set
    result,         \* OrchestratorResult.success once returned
    stepState,      \* what became of each step: the StepResults of all phases
    phaseState,     \* what became of each phase (history)
    cases           \* testcases of each entry in the merged JUnit report

input == <<config, args>>
control == <<pc, phaseIx, todo, stepsOk>>
progress == <<outputs, overallSuccess, setupStepsRan, resolved, phaseResults, result>>
report == <<stepState, phaseState, cases>>
vars == <<config, args, pc, phaseIx, todo, stepsOk, outputs, overallSuccess, setupStepsRan,
          resolved, phaseResults, result, stepState, phaseState, cases>>

StepState == {"none", "skipped", "passed", "failed", "unresolved"}
PhaseState == {"pending", "active", "done", "skipped"}
Verdict == {"pass", "failure", "error", "skipped"}
PytestExit == {0, 1, 2, 5}   \* OK, TESTS_FAILED, any other failure, NO_TESTS_COLLECTED
NotRun == -1                 \* pytest_exit_code None
Unresolved == [state |-> "unresolved", reason |-> "none"]

(* _phase_enum_for_name: a result carries the enum, so phases of other     *)
(* names are shown as test.                                                *)
phase_enum_for_name(name) == IF name \in {"setup", "teardown"} THEN name ELSE "test"

PhaseResult ==
    [phase   : Phase,
     kind    : {"refused", "skipped", "executed", "resolved"},
     success : BOOLEAN,
     exit    : PytestExit \cup {NotRun}]

--------------------------------------------------------------------------------
(* _detect_platform; VALIDATIONS_ONLY_PLATFORM stands for a run that only  *)
(* asserts, which has an identity but no commands to look up.              *)
ValidationsOnly == "validations_only"

NamedPlatform ==
    IF config.capability # None THEN config.capability
    ELSE IF config.platform # None THEN config.platform
    ELSE IF Cardinality(config.commands) = 1 THEN CHOOSE p \in config.commands : TRUE
    ELSE IF config.commands = {} THEN ValidationsOnly
    ELSE None

DetectPlatform == IF NamedPlatform = "k8s" THEN "kubernetes" ELSE NamedPlatform

HasCommands == config.commands # {}

(* The steps of the platform; a run without commands has none.             *)
StepIxs == IF HasCommands THEN DOMAIN config.steps ELSE {}
EntryIxs == DOMAIN config.validations

(* config_phases *)
ConfigPhases == IF HasCommands THEN config.phases ELSE <<"test">>
ConfigPhaseSet == {ConfigPhases[i] : i \in DOMAIN ConfigPhases}

Requested(phase) == phase \in args.phases \/ "all" \in args.phases

RequestedPhases ==
    IF "all" \in args.phases THEN ConfigPhaseSet ELSE args.phases \cap PhaseNames

(* _apply_capability_step_gates: a step is switched off by its own         *)
(* requirements, or when every validation bound to it is filtered out.     *)
BoundEntries(step) == {i \in EntryIxs : config.validations[i].step = step.name}

GatedOff(step) ==
    /\ args.capability # None
    /\ \/ /\ step.requires # {}
          /\ ~requirements_satisfied(step.requires, args.capability)
       \/ /\ BoundEntries(step) # {}
          /\ \A i \in BoundEntries(step) :
                ~requirements_satisfied(config.validations[i].requires, args.capability)

StepSkipped(i) == config.steps[i].skip \/ GatedOff(config.steps[i])

StepsOf(phase) == {i \in StepIxs : config.steps[i].phase = phase}
LiveStepsOf(phase) == {i \in StepsOf(phase) : ~StepSkipped(i)}

(* context._step_phases: registered upfront, skipped steps left out.       *)
StepPhases ==
    [s \in StepNames |->
        LET live == {i \in StepIxs : config.steps[i].name = s /\ ~StepSkipped(i)}
        IN IF live = {} THEN None ELSE config.steps[CHOOSE i \in live : TRUE].phase]

SkippedSteps == {config.steps[i].name : i \in {j \in StepIxs : StepSkipped(j)}}

(* An explicit selection, by label or by pytest argument, replaces the     *)
(* label exclusions of the configuration.                                  *)
MutantExclusionsAlwaysApply == args.exclude_labels \cup config.exclude.labels

ResolutionExcludeLabels ==
    args.exclude_labels
        \cup (IF args.include_labels # {} \/ args.selection THEN {} ELSE config.exclude.labels)

Context ==
    [outputs        |-> outputs,
     stepPhases     |-> StepPhases,
     skippedSteps   |-> SkippedSteps,
     requested      |-> RequestedPhases,
     include_labels |-> args.include_labels,
     exclude_labels |-> ResolutionExcludeLabels,
     exclude_tests  |-> config.exclude.tests,
     capability     |-> args.capability]

EntryPhase(i) == get_entry_phase(config.validations[i], StepPhases)
Resolve(i) == resolve_entry(config.validations[i], Context)

CurrentPhase == ConfigPhases[phaseIx]
CurrentStep == CHOOSE i \in todo : \A j \in todo : i <= j
IsTeardown == CurrentPhase = "teardown"

--------------------------------------------------------------------------------
Init ==
    /\ \E run \in Runs : config = run[1] /\ args = run[2]
    /\ pc = "start"
    /\ phaseIx = 1
    /\ todo = {}
    /\ stepsOk = TRUE
    /\ outputs = {}
    /\ overallSuccess = TRUE
    /\ setupStepsRan = FALSE
    /\ resolved = [i \in EntryIxs |-> Unresolved]
    /\ phaseResults = {}
    /\ result = "none"
    /\ stepState = [s \in StepNames |-> "none"]
    /\ phaseState = [p \in PhaseNames |-> "pending"]
    /\ cases = [i \in EntryIxs |-> <<>>]

--------------------------------------------------------------------------------
(* The returns before the phase loop: nothing has been executed.           *)
Return(success, results) ==
    /\ pc = "start"
    /\ pc' = "done"
    /\ result' = IF success THEN "success" ELSE "failure"
    /\ phaseResults' = results
    /\ UNCHANGED <<input, phaseIx, todo, stepsOk, outputs, overallSuccess, setupStepsRan,
                   resolved, report>>

Refusal(phase) == [phase |-> phase, kind |-> "refused", success |-> FALSE, exit |-> NotRun]
SkippedResult(name) ==
    [phase |-> phase_enum_for_name(name), kind |-> "skipped", success |-> TRUE, exit |-> NotRun]

PlatformKnown == DetectPlatform # None /\ (HasCommands => DetectPlatform \in config.commands)

StepPhasesConfigured == \A i \in StepIxs : config.steps[i].phase \in ConfigPhaseSet

ReturnNoPlatform ==
    /\ DetectPlatform = None
    /\ Return(FALSE, {Refusal("setup")})

(* config.get_phases raises KeyError for a platform without commands, and  *)
(* nothing in the run catches it.                                          *)
RaiseUnknownPlatform ==
    /\ pc = "start"
    /\ DetectPlatform # None
    /\ HasCommands /\ DetectPlatform \notin config.commands
    /\ pc' = "raised"
    /\ UNCHANGED <<input, phaseIx, todo, stepsOk, progress, report>>

ReturnPlatformSkipped ==
    /\ PlatformKnown /\ HasCommands /\ config.skip
    /\ Return(TRUE, {SkippedResult(p) : p \in {q \in ConfigPhaseSet : Requested(q)}})

ReturnNoSteps ==
    /\ PlatformKnown /\ HasCommands /\ ~config.skip
    /\ config.steps = <<>>
    /\ Return(FALSE, {Refusal("setup")})

ReturnNothingToAssert ==
    /\ PlatformKnown /\ ~HasCommands
    /\ config.validations = <<>>
    /\ Return(FALSE, {Refusal("test")})

ReturnUnknownStepPhase ==
    /\ PlatformKnown /\ HasCommands /\ ~config.skip
    /\ ~StepPhasesConfigured
    /\ Return(FALSE, {Refusal("setup")})

(* None of them applies.                                                   *)
Runnable ==
    /\ PlatformKnown
    /\ IF HasCommands
       THEN ~config.skip /\ config.steps # <<>> /\ StepPhasesConfigured
       ELSE config.validations # <<>>

EnterPhaseLoop ==
    /\ pc = "start"
    /\ Runnable
    /\ pc' = "phase"
    /\ UNCHANGED <<input, phaseIx, todo, stepsOk, progress, report>>

--------------------------------------------------------------------------------
(* The head of the phase loop.                                             *)
AtPhase ==
    /\ pc = "phase"
    /\ phaseIx \in DOMAIN ConfigPhases

MutantRunsAfterFailure ==
    IsTeardown /\ \/ Requested("setup") /\ ~setupStepsRan
                  \/ ~overallSuccess /\ ~args.teardown_on_failure

MutantNoTeardownAfterFailure == ~overallSuccess

(* Why a requested phase is skipped: an earlier phase failed, or teardown  *)
(* is not wanted (nothing was set up in this run, or it is disabled).      *)
SkipsPhase ==
    IF IsTeardown
    THEN \/ Requested("setup") /\ ~setupStepsRan
         \/ ~overallSuccess /\ ~args.teardown_on_failure
    ELSE ~overallSuccess

PassOverPhase ==
    /\ AtPhase
    /\ ~Requested(CurrentPhase)
    /\ phaseIx' = phaseIx + 1
    /\ UNCHANGED <<input, pc, todo, stepsOk, progress, report>>

SkipPhase ==
    /\ AtPhase
    /\ Requested(CurrentPhase)
    /\ SkipsPhase
    /\ phaseResults' = phaseResults \cup {SkippedResult(CurrentPhase)}
    /\ phaseState' = [phaseState EXCEPT ![CurrentPhase] = "skipped"]
    /\ phaseIx' = phaseIx + 1
    /\ UNCHANGED <<input, pc, todo, stepsOk, outputs, overallSuccess, setupStepsRan, resolved,
                   result, stepState, cases>>

BeginPhase ==
    /\ AtPhase
    /\ Requested(CurrentPhase)
    /\ ~SkipsPhase
    /\ pc' = "steps"
    /\ todo' = StepsOf(CurrentPhase)
    /\ stepsOk' = TRUE
    /\ phaseState' = [phaseState EXCEPT ![CurrentPhase] = "active"]
    /\ UNCHANGED <<input, phaseIx, progress, stepState, cases>>

--------------------------------------------------------------------------------
MutantNoBestEffort(i, success) == ~success /\ ~config.steps[i].continue_on_failure
MutantNeverBreaks(i, success) == FALSE

(* StepExecutor.execute_steps: add_step, then go on, or break out of the   *)
(* remaining steps when the step failed, is not continue_on_failure and    *)
(* the phase is not the best-effort teardown.                              *)
Breaks(i, success) ==
    /\ ~success
    /\ ~config.steps[i].continue_on_failure
    /\ ~IsTeardown

MutantFailureForgiven(i, state) ==
    LET success == state \in {"skipped", "passed"}
    IN /\ pc' = "steps"
       /\ stepState' = [stepState EXCEPT ![config.steps[i].name] = state]
       /\ stepsOk' = (stepsOk /\ (success \/ config.steps[i].continue_on_failure))
       /\ todo' = IF Breaks(i, success) THEN {} ELSE todo \ {i}

FinishStep(i, state) ==
    LET success == state \in {"skipped", "passed"}
    IN /\ pc' = "steps"
       /\ stepState' = [stepState EXCEPT ![config.steps[i].name] = state]
       /\ stepsOk' = (stepsOk /\ success)
       /\ todo' = IF Breaks(i, success) THEN {} ELSE todo \ {i}

SkipStep ==
    /\ pc = "steps" /\ todo # {}
    /\ StepSkipped(CurrentStep)
    /\ FinishStep(CurrentStep, "skipped")
    /\ UNCHANGED <<input, phaseIx, progress, phaseState, cases>>

(* A missing reference is noticed only when the argument renders to        *)
(* nothing, so not when it is embedded in other text.                      *)
MissingRefs(i) == config.steps[i].refs \ outputs

(* _render_args raises MissingStepRefError (a referenced step has no       *)
(* output, or its output lacks the field), or an env value does not        *)
(* render: the step fails and its command is never started.                *)
FailBeforeStart ==
    /\ pc = "steps" /\ todo # {}
    /\ ~StepSkipped(CurrentStep)
    /\ FinishStep(CurrentStep, "unresolved")
    /\ UNCHANGED <<input, phaseIx, progress, phaseState, cases>>

StartCommand ==
    /\ pc = "steps" /\ todo # {}
    /\ ~StepSkipped(CurrentStep)
    /\ MissingRefs(CurrentStep) = {}
    /\ pc' = "running"
    /\ UNCHANGED <<input, phaseIx, todo, stepsOk, progress, report>>

(* The command ended (or could not be started).  Its output is stored      *)
(* whether or not the step succeeded: a nonzero exit and an output that    *)
(* fails its schema leave their output behind.                             *)
CommandReturns(exitOk, hasOutput, schemaValid) ==
    /\ pc = "running"
    /\ schemaValid \/ (exitOk /\ hasOutput)
    /\ FinishStep(CurrentStep, IF exitOk /\ schemaValid THEN "passed" ELSE "failed")
    /\ outputs' = IF hasOutput THEN outputs \cup {config.steps[CurrentStep].name} ELSE outputs
    /\ UNCHANGED <<input, phaseIx, overallSuccess, setupStepsRan, resolved, phaseResults,
                   result, phaseState, cases>>

MutantWatchdogInverted ==
    /\ pc = "running"
    /\ ~config.steps[CurrentStep].watchdog
    /\ FinishStep(CurrentStep, "failed")
    /\ UNCHANGED <<input, phaseIx, progress, phaseState, cases>>

(* TimeoutExpired: the captured output is not parsed.                      *)
CommandTimesOut ==
    /\ pc = "running"
    /\ config.steps[CurrentStep].watchdog
    /\ FinishStep(CurrentStep, "failed")
    /\ UNCHANGED <<input, phaseIx, progress, phaseState, cases>>

(* The end of execute_steps.  A setup phase counts as having run when one  *)
(* of its steps was not skipped, even if the phase broke off before it.    *)
FinishSteps ==
    /\ pc = "steps" /\ todo = {}
    /\ pc' = "validate"
    /\ setupStepsRan' =
          (setupStepsRan \/ (CurrentPhase = "setup" /\ LiveStepsOf(CurrentPhase) # {}))
    /\ UNCHANGED <<input, phaseIx, todo, stepsOk, outputs, overallSuccess, resolved,
                   phaseResults, result, report>>

--------------------------------------------------------------------------------
(* The validations of a phase.  PhaseEntries are the entries whose phase   *)
(* this is and that no earlier phase resolved.                             *)
PhaseEntries ==
    {i \in EntryIxs : resolved[i] = Unresolved /\ EntryPhase(i) = CurrentPhase}

(* run_validations_via_pytest is given the ready entries.  A session       *)
(* yields an exit code, what became of each entry's test, and possibly     *)
(* the XML file it was asked for.  "none": no result was captured (the     *)
(* test was deselected, is unknown, or the session stopped before it);     *)
(* "fixture_error": the test never reached the validation, so there is no  *)
(* captured result although pytest reports an error.                       *)
TestResult == {"passed", "failed", "exception", "runtime_skip", "none", "fixture_error"}

PytestSession(ready) ==
    {s \in [exit   : PytestExit,
            test   : [ready -> TestResult],
            xml    : {"written", "absent", "unparsable"}] :
        /\ s.exit \in {0, 5} =>
              \A i \in ready : s.test[i] \notin {"failed", "exception", "fixture_error"}
        /\ s.exit = 5 => \A i \in ready : s.test[i] = "none"
        /\ ~args.junitxml => s.xml = "absent"}

(* _apply_pytest_results: an entry without a captured result counts as     *)
(* excluded by the pytest filter.                                          *)
AppliedResult(test) ==
    CASE test = "passed"       -> Passed
      [] test = "failed"       -> Failed
      [] test = "exception"    -> Error("runtime_exception")
      [] test = "runtime_skip" -> Skip("runtime_skip")
      [] test \in {"none", "fixture_error"} -> Skip("test_excluded")

(* The testcase pytest writes for a test that was not deselected.          *)
PytestCase(test) ==
    CASE test = "passed"                   -> <<"pass">>
      [] test \in {"failed", "exception"}  -> <<"failure">>
      [] test = "runtime_skip"             -> <<"skipped">>
      [] test = "fixture_error"            -> <<"error">>
      [] test = "none"                     -> <<>>

(* _write_terminal_junit_xml: the stub testcase of an entry.  It carries a *)
(* skipped or an error element, or nothing.                                *)
StubCase(resolution) ==
    CASE resolution.state = "skipped" -> <<"skipped">>
      [] resolution.state = "error"   -> <<"error">>
      [] OTHER                        -> <<"pass">>

MutantNoStubs(session, i) ==
    IF session.xml = "written" THEN PytestCase(session.test[i])
    ELSE StubCase(AppliedResult(session.test[i]))

(* What the phase adds to the report: pytest's testcases if its file can   *)
(* be read, and a stub for every entry that has none there.                *)
ExecutedCase(session, i) ==
    IF session.xml = "written" /\ PytestCase(session.test[i]) # <<>>
    THEN PytestCase(session.test[i])
    ELSE StubCase(AppliedResult(session.test[i]))

AddCases(new) ==
    cases' = [i \in EntryIxs |->
                 IF args.junitxml /\ i \in DOMAIN new THEN cases[i] \o new[i] ELSE cases[i]]

(* _create_phase_result: steps, validations and the session all count;     *)
(* a session that collected no tests only draws a warning.                 *)
ExecutedResult(outcome, exit) ==
    [phase   |-> phase_enum_for_name(CurrentPhase),
     kind    |-> "executed",
     success |-> /\ stepsOk
                 /\ \A i \in DOMAIN outcome : resolved_entry_success(outcome[i])
                 /\ exit \in {NotRun, 0, 5},
     exit    |-> exit]

EndPhase(outcome, exit) ==
    LET r == ExecutedResult(outcome, exit)
        recorded == StepsOf(CurrentPhase) # {} \/ DOMAIN outcome # {}
    IN /\ resolved' = [i \in EntryIxs |-> IF i \in DOMAIN outcome THEN outcome[i] ELSE resolved[i]]
       /\ phaseResults' = IF recorded THEN phaseResults \cup {r} ELSE phaseResults
       /\ overallSuccess' = (overallSuccess /\ (recorded => r.success))
       /\ phaseState' = [phaseState EXCEPT ![CurrentPhase] = "done"]
       /\ phaseIx' = phaseIx + 1
       /\ pc' = "phase"
       /\ UNCHANGED <<input, todo, stepsOk, outputs, setupStepsRan, result, stepState>>

ReadyEntries == {i \in PhaseEntries : Resolve(i) = Ready}

(* The phase has validations to execute.                                   *)
RunValidations(session) ==
    LET outcome == [i \in PhaseEntries |->
                       IF i \in ReadyEntries THEN AppliedResult(session.test[i]) ELSE Resolve(i)]
    IN /\ pc = "validate"
       /\ AddCases([i \in PhaseEntries |->
                       IF i \in ReadyEntries THEN ExecutedCase(session, i) ELSE StubCase(Resolve(i))])
       /\ EndPhase(outcome, session.exit)

(* The phase has none: pytest is not started.                              *)
ResolveOnly ==
    /\ pc = "validate"
    /\ ReadyEntries = {}
    /\ AddCases([i \in PhaseEntries |-> StubCase(Resolve(i))])
    /\ EndPhase([i \in PhaseEntries |-> Resolve(i)], NotRun)

--------------------------------------------------------------------------------
(* After the loop, _resolve_remaining_validation_entries: entries of       *)
(* phases that did not run; a ready one becomes a skip.                    *)
RemainingEntries == {i \in EntryIxs : resolved[i] = Unresolved}

MutantLeftReady(resolution) == resolution

Terminalize(resolution) ==
    IF resolution = Ready THEN Skip("phase_not_requested") ELSE resolution

Conclude ==
    LET outcome == [i \in RemainingEntries |-> Terminalize(Resolve(i))]
        Good(S) == \A i \in S : resolved_entry_success(outcome[i])
        Of(p) == {i \in RemainingEntries : EntryPhase(i) = p}
    IN /\ pc = "phase"
       /\ phaseIx \notin DOMAIN ConfigPhases
       /\ resolved' = [i \in EntryIxs |-> IF i \in RemainingEntries THEN outcome[i] ELSE resolved[i]]
       /\ AddCases([i \in RemainingEntries |-> StubCase(outcome[i])])
       /\ phaseResults' = phaseResults \cup
              {[phase |-> phase_enum_for_name(p), kind |-> "resolved", success |-> Good(Of(p)),
                exit |-> NotRun] :
                  p \in {EntryPhase(i) : i \in RemainingEntries}}
       /\ overallSuccess' = (overallSuccess /\ Good(RemainingEntries))
       /\ result' = IF overallSuccess' THEN "success" ELSE "failure"
       /\ pc' = "done"
       /\ UNCHANGED <<input, phaseIx, todo, stepsOk, outputs, setupStepsRan, stepState, phaseState>>

(* KeyboardInterrupt, or any exception the loop does not catch: the run    *)
(* ends without a result and without teardown.  (During a session pytest   *)
(* may also turn it into an exit code.)                                    *)
Interrupt ==
    /\ pc \notin {"done", "raised"}
    /\ pc' = "raised"
    /\ UNCHANGED <<input, phaseIx, todo, stepsOk, progress, report>>

--------------------------------------------------------------------------------
TakeStep ==
    \/ SkipStep
    \/ FailBeforeStart
    \/ StartCommand
    \/ FinishSteps

TakePhase ==
    \/ PassOverPhase
    \/ SkipPhase
    \/ BeginPhase

Validate ==
    /\ pc = "validate"
    /\ \/ ReadyEntries # {} /\ \E s \in PytestSession(ReadyEntries) : RunValidations(s)
       \/ ResolveOnly

Start ==
    \/ ReturnNoPlatform
    \/ RaiseUnknownPlatform
    \/ ReturnPlatformSkipped
    \/ ReturnNoSteps
    \/ ReturnNothingToAssert
    \/ ReturnUnknownStepPhase
    \/ EnterPhaseLoop

CommandEnds == \E exitOk, hasOutput, schemaValid \in BOOLEAN :
                  CommandReturns(exitOk, hasOutput, schemaValid)

(* What the run does by itself, without waiting for a command.             *)
Proceed == Start \/ TakePhase \/ TakeStep \/ Validate \/ Conclude \/ CommandTimesOut

Ended == pc \in {"done", "raised"}

Next ==
    \/ Proceed
    \/ CommandEnds
    \/ Interrupt
    \/ Ended /\ UNCHANGED vars

(* The orchestrator is one thread that never waits for anything but the    *)
(* command it started; a command without a watchdog may run forever.       *)
Spec == Init /\ [][Next]_vars /\ WF_vars(Proceed)

--------------------------------------------------------------------------------
(* Types of the state.                                                     *)
TypeOK ==
    /\ config \in RunConfig /\ UniqueNames(config)
    /\ args \in RunArguments
    /\ pc \in {"start", "phase", "steps", "running", "validate", "done", "raised"}
    /\ phaseIx \in Nat \ {0}
    /\ pc \in {"steps", "running", "validate"} => phaseIx \in DOMAIN ConfigPhases
    /\ todo \subseteq StepIxs
    /\ pc = "running" => todo # {}
    /\ stepsOk \in BOOLEAN
    /\ outputs \subseteq StepNames
    /\ overallSuccess \in BOOLEAN
    /\ setupStepsRan \in BOOLEAN
    /\ resolved \in [EntryIxs -> Terminal \cup {Unresolved}]
    /\ phaseResults \subseteq PhaseResult
    /\ result \in {"none", "success", "failure"}
    /\ stepState \in [StepNames -> StepState]
    /\ phaseState \in [PhaseNames -> PhaseState]
    /\ cases \in [EntryIxs -> Seq(Verdict)]

(* The run went through the phase loop and returned.                       *)
Completed == pc = "done" /\ Runnable

Commanded(i) == stepState[config.steps[i].name] \in {"passed", "failed"}
Attempted(i) == stepState[config.steps[i].name] # "none"
Bad(i) == stepState[config.steps[i].name] \in {"failed", "unresolved"}

Before(p, q) == \E i, j \in DOMAIN ConfigPhases :
                    i < j /\ ConfigPhases[i] = p /\ ConfigPhases[j] = q

TeardownDue ==
    /\ Requested("teardown")
    /\ args.teardown_on_failure
    /\ IF Requested("setup") THEN Before("setup", "teardown")
                              ELSE "teardown" \in ConfigPhaseSet

(* Teardown is best effort and survives every failure: a completed run     *)
(* that executed a setup command, or that was asked for teardown alone,    *)
(* has attempted every teardown step, whatever failed before and whichever *)
(* teardown steps failed (loop.py teardown gating, execute_steps           *)
(* best_effort).                                                           *)
TeardownAttempted ==
    /\ Completed
    /\ TeardownDue
    /\ Requested("setup") => \E i \in StepsOf("setup") : Commanded(i)
    => \A i \in StepsOf("teardown") : Attempted(i)

(* The verdict is exact: a completed run is a failure if and only if a     *)
(* step failed, a validation failed or errored, or a pytest session ended  *)
(* badly, in whichever phase and whatever was skipped after it             *)
(* (_create_phase_result and the bookkeeping of overall_success).          *)
VerdictExact ==
    Completed =>
        ((result = "failure") <=>
            \/ \E i \in StepIxs : Bad(i)
            \/ \E i \in EntryIxs : resolved[i].state \in {"failed", "error"}
            \/ \E r \in phaseResults : r.exit \in {1, 2})

(* Every validation of the configuration gets one terminal outcome and,    *)
(* with --junitxml, one testcase in the merged report, whether its phase   *)
(* ran, was skipped, was not requested or does not exist (the "every       *)
(* config-declared validation reaches the report" invariant of loop.py).   *)
EveryEntryReported ==
    Completed =>
        \A i \in EntryIxs :
            /\ resolved[i] \in Terminal
            /\ args.junitxml => Len(cases[i]) = 1

(* Steps of a phase are taken in configuration order, and a failed step    *)
(* ends its phase unless it is continue_on_failure or the phase is         *)
(* teardown (execute_steps).                                               *)
StepsStopAtFailure ==
    \A i, j \in StepIxs :
        /\ i < j
        /\ config.steps[i].phase = config.steps[j].phase
        /\ Attempted(j)
        => /\ Attempted(i)
           /\ Bad(i) => \/ config.steps[i].continue_on_failure
                        \/ config.steps[i].phase = "teardown"

Executed(resolution) ==
    resolution \in {Passed, Failed, Error("runtime_exception"), Skip("runtime_skip")}

(* A validation is executed only in a phase that ran, and one bound to a   *)
(* step only after the command of that step ended and left an output,      *)
(* although the resolution and the execution of the step happen in         *)
(* different phases when the validation names its own phase.               *)
ValidationsFollowTheirStep ==
    \A i \in EntryIxs :
        Executed(resolved[i]) =>
            /\ phaseState[EntryPhase(i)] = "done"
            /\ config.validations[i].step # None =>
                  /\ config.validations[i].step \in outputs
                  /\ stepState[config.validations[i].step] \in {"passed", "failed"}

(* A validation passes every filter of the run: by name, capability and    *)
(* labels, where an explicit selection overrides the labels the            *)
(* configuration excludes.                                                 *)
Selected(entry) ==
    /\ entry.valid /\ entry.renders = "mapping"
    /\ entry.name \notin config.exclude.tests
    /\ entry.requires = {} \/ args.capability \in entry.requires \cup {None}
    /\ args.include_labels \subseteq entry.labels
    /\ entry.labels \cap args.exclude_labels = {}
    /\ \/ args.include_labels # {} \/ args.selection
       \/ entry.labels \cap config.exclude.labels = {}

(* Its step, if any, left an output no later than in the entry's phase.    *)
Fed(i) ==
    LET step == config.validations[i].step
        phase == EntryPhase(i)
    IN step # None =>
          /\ step \in outputs
          /\ StepPhases[step] = phase \/ Before(StepPhases[step], phase)

(* No validation is dropped silently and none runs that was filtered out:  *)
(* the validations a phase hands to pytest are exactly its selected ones   *)
(* whose step produced its output in time (resolve_entries, its cascade of *)
(* reasons, against the filters and the outputs _run_steps_mode has by     *)
(* then).                                                                  *)
SelectionExact ==
    pc = "validate" =>
        ReadyEntries = {i \in EntryIxs : /\ EntryPhase(i) = CurrentPhase
                                         /\ Selected(config.validations[i])
                                         /\ Fed(i)}

(* Once a phase has failed no step is taken and no validation is executed  *)
(* outside teardown ("previous phase failed").                             *)
NoWorkAfterFailure ==
    [][~overallSuccess =>
        /\ \A i \in StepIxs :
              stepState'[config.steps[i].name] # stepState[config.steps[i].name]
                  => config.steps[i].phase = "teardown"
        /\ \A i \in EntryIxs :
              resolved'[i] # resolved[i] /\ Executed(resolved'[i]) => EntryPhase(i) = "teardown"]_vars

(* With a watchdog on every step the run ends, whatever the commands do.   *)
Termination == (\A i \in StepIxs : config.steps[i].watchdog) => <>Ended

(* Commands of setup that ran are followed by teardown, unless the run is  *)
(* interrupted.                                                            *)
SetupLeadsToTeardown ==
    (\A i \in StepIxs : config.steps[i].watchdog) =>
        ((setupStepsRan /\ TeardownDue) ~> (phaseState["teardown"] = "done" \/ pc = "raised"))

--------------------------------------------------------------------------------
(* What the documentation says and the code does not do.                   *)

(* "By default, teardown runs even when setup or test validations fail,    *)
(* ensuring cloud resources are cleaned up"                                *)
(* (docs/guides/external-validation-guide.md): a completed run that        *)
(* executed commands before teardown has attempted the teardown steps.     *)
TeardownRunsByDefault ==
    /\ Completed
    /\ args.teardown_on_failure /\ Requested("teardown")
    /\ \E i \in StepIxs : Commanded(i) /\ Before(config.steps[i].phase, "teardown")
    => \A i \in StepsOf("teardown") : Attempted(i)

(* "MissingStepRefError: when an arg references {{steps.X.Y}} that is       *)
(* unresolved in the current context and has no default() filter"          *)
(* (docstring of _render_args): a command that runs has the outputs of all *)
(* the steps its arguments refer to.                                       *)
CommandsHaveTheirRefs ==
    pc = "running" =>
        LET step == config.steps[CurrentStep] IN step.refs \cup step.embedded \subseteq outputs

(* Stub testcases stand for entries that "did not run through pytest"      *)
(* (docstring of _write_terminal_junit_xml): a testcase without a failure, *)
(* error or skipped element belongs to a validation that passed.           *)
PassingCasesPassed ==
    \A i \in EntryIxs : cases[i] = <<"pass">> => resolved[i] = Passed

--------------------------------------------------------------------------------
(* The lifecycle a caller sees.                                            *)
LifecycleOutcome ==
    IF pc = "raised" THEN "aborted" ELSE IF pc = "done" THEN result ELSE "running"

LC == INSTANCE Lifecycle WITH
    plan    <- [configured |-> ConfigPhaseSet,
                requested  |-> {p \in PhaseNames : Requested(p)},
                cleanup    |-> args.teardown_on_failure],
    status  <- phaseState,
    healthy <- overallSuccess,
    created <- setupStepsRan,
    outcome <- LifecycleOutcome

(* Every run is a lifecycle: see Lifecycle.                                *)
ImplementsLifecycle == LC!Spec
================================================================================
