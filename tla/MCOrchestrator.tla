---------------------------- MODULE MCOrchestrator ----------------------------
(***************************************************************************)
(* Small families of configurations and arguments for Orchestrator.        *)
(***************************************************************************)
EXTENDS Orchestrator

MCPhaseNames == {"setup", "test", "teardown", "soak"}
MCStepNames == {"create", "probe", "stress", "destroy", "sweep"}

AStep(name, phase) ==
    [name |-> name, phase |-> phase, skip |-> FALSE, continue_on_failure |-> FALSE,
     requires |-> {}, refs |-> {}, embedded |-> {}, watchdog |-> TRUE]

AnEntry(name, step, phase) ==
    [name |-> name, step |-> step, phase |-> phase, labels |-> {}, requires |-> {},
     valid |-> TRUE, renders |-> "mapping"]

AConfig(phases, steps, validations) ==
    [capability |-> "kubernetes", platform |-> None, commands |-> {"kubernetes"}, skip |-> FALSE,
     phases |-> phases, steps |-> steps, validations |-> validations,
     exclude |-> [labels |-> {}, tests |-> {}]]

(* The arguments of a plain `isvctl test run` for some phases.             *)
Plain(phases) ==
    [phases |-> phases, teardown_on_failure |-> TRUE, selection |-> FALSE, include_labels |-> {},
     exclude_labels |-> {}, capability |-> None, junitxml |-> FALSE]

Standard == <<"setup", "test", "teardown">>
FullRun == {"setup", "test", "teardown"}

--------------------------------------------------------------------------------
(* Lifecycle control: two setup steps, one test step, two teardown steps,  *)
(* where both halves need the output of the first; phases in the usual and *)
(* in an unusual order, with and without teardown after a failure.         *)
LifecycleSteps(skip, cof) ==
    <<[AStep("create", "setup") EXCEPT !.skip = skip, !.continue_on_failure = cof],
      [AStep("probe", "setup") EXCEPT !.skip = skip, !.refs = {"create"}],
      [AStep("stress", "test") EXCEPT !.watchdog = FALSE],
      [AStep("destroy", "teardown") EXCEPT !.refs = {"create"}],
      AStep("sweep", "teardown")>>

LifecycleRuns ==
    {<<AConfig(phases, LifecycleSteps(skip, cof), <<AnEntry("Check", "create", None)>>),
       [Plain(requested) EXCEPT !.teardown_on_failure = cleanup]>> :
        phases \in {Standard, <<"teardown", "setup", "test">>},
        skip, cof, cleanup \in BOOLEAN,
        requested \in {{"all"}, {"setup", "teardown"}, {"test", "teardown"}}}

--------------------------------------------------------------------------------
(* Reporting: one step per phase, a validation bound to any step (or to    *)
(* none, or to one the platform does not have) in any phase (or with none  *)
(* of its own), next to one bound to nothing.                              *)
ReportSteps ==
    <<[AStep("create", "setup") EXCEPT !.requires = {"kubernetes"}],
      [AStep("probe", "test") EXCEPT !.continue_on_failure = TRUE],
      AStep("destroy", "teardown")>>

ReportRuns ==
    {<<AConfig(<<"setup", "test", "soak", "teardown">>, ReportSteps,
               <<AnEntry("Check", step, phase), AnEntry("Other", None, None)>>),
       [Plain(requested) EXCEPT !.capability = capability, !.junitxml = TRUE]>> :
        step \in {"create", "probe", "stress", None},
        phase \in {None, "setup", "soak", "teardown"},
        requested \in {{"all"}, {"test"}}, capability \in {None, "vm"}}

--------------------------------------------------------------------------------
(* Selection: every way an entry can be filtered out or be malformed.      *)
SelectedEntry(labels, requires, valid, renders) ==
    [AnEntry("Check", IF valid THEN "probe" ELSE None, None) EXCEPT
        !.labels = labels, !.requires = requires, !.valid = valid, !.renders = renders]

SelectionRuns ==
    {<<[AConfig(<<"test">>, <<AStep("probe", "test")>>,
                <<SelectedEntry(labels, requires, valid, renders), AnEntry("Other", "probe", None)>>)
          EXCEPT !.exclude = [labels |-> {"slow"}, tests |-> {"Other"}]],
       [phases |-> {"all"}, teardown_on_failure |-> TRUE, selection |-> selection,
        include_labels |-> include, exclude_labels |-> exclude, capability |-> capability,
        junitxml |-> TRUE]>> :
        labels \in {{}, {"gpu"}, {"gpu", "slow"}}, requires \in {{}, {"vm"}},
        valid \in BOOLEAN, renders \in {"mapping", "scalar", "raises"},
        selection \in BOOLEAN, include, exclude \in {{}, {"gpu"}},
        capability \in {None, "vm", "kubernetes"}}

(* Every way a configuration is turned down, and the platforms that are    *)
(* found in other places.                                                  *)
TurnedDownRuns ==
    LET base == AConfig(Standard, ReportSteps, <<AnEntry("Check", "create", None)>>)
        unnamed == [base EXCEPT !.capability = None]
    IN {[unnamed EXCEPT !.commands = {"kubernetes", "vm"}],
        [base EXCEPT !.commands = {"vm"}],
        [unnamed EXCEPT !.commands = {"k8s"}],
        unnamed,
        [unnamed EXCEPT !.platform = "vm", !.commands = {"vm"}],
        [base EXCEPT !.skip = TRUE],
        [base EXCEPT !.steps = <<>>],
        [base EXCEPT !.phases = <<"setup", "teardown">>],
        [base EXCEPT !.commands = {}],
        [base EXCEPT !.commands = {}, !.validations = <<>>]} \X {Plain(FullRun), Plain({"setup"})}

SafetyRuns == LifecycleRuns \cup ReportRuns \cup SelectionRuns \cup TurnedDownRuns

--------------------------------------------------------------------------------
(* Progress: a lifecycle with and without watchdogs.                       *)
ProgressRuns ==
    {<<AConfig(Standard,
               <<[AStep("create", "setup") EXCEPT !.watchdog = watchdog],
                 AStep("stress", "test"), AStep("sweep", "teardown")>>,
               <<AnEntry("Check", "stress", None)>>), Plain(requested)>> :
        watchdog \in BOOLEAN, requested \in {FullRun, {"setup", "teardown"}}}

(* A configuration whose only commands before teardown are of the test     *)
(* phase.                                                                  *)
TestOnlyRuns ==
    {<<AConfig(<<"test", "teardown">>, <<AStep("stress", "test"), AStep("sweep", "teardown")>>,
               <<AnEntry("Check", "stress", None)>>), Plain(FullRun)>>}

(* A setup that goes on after a failed step, whose next step builds an     *)
(* argument around the output of the failed one.                           *)
EmbeddedRefRuns ==
    {<<AConfig(Standard,
               <<[AStep("create", "setup") EXCEPT !.continue_on_failure = TRUE],
                 [AStep("probe", "setup") EXCEPT !.embedded = {"create"}],
                 AStep("sweep", "teardown")>>,
               <<AnEntry("Check", "probe", None)>>), Plain(FullRun)>>}

(* A validations-only run with a report.                                   *)
StubRuns ==
    {<<[AConfig(<<>>, <<>>, <<AnEntry("Check", None, None)>>) EXCEPT !.commands = {}],
       [Plain(FullRun) EXCEPT !.junitxml = TRUE]>>}
================================================================================
