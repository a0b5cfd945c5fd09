------------------------------ MODULE Resolution ------------------------------
(***************************************************************************)
(* Validation resolution (isvtest/core/resolution.py).                     *)
(*                                                                         *)
(* A validation entry of the configuration is resolved, before anything is *)
(* executed, to a terminal outcome (skipped or error, with a reason) or to *)
(* "ready".  Names, labels and parameters are abstract values; the order   *)
(* in which the reasons are tried is the code's.                           *)
(***************************************************************************)

CONSTANTS
    PhaseNames,    \* phase names a configuration may use
    StepNames,     \* step names a configuration may use
    ValidationNames, \* names validations are wired under
    Labels,        \* labels validations carry
    Capabilities,  \* capability contexts (mutually exclusive platforms)
    None           \* an absent value

ASSUME ResolutionAssumption ==
    /\ {"setup", "test", "teardown"} \subseteq PhaseNames
    /\ None \notin PhaseNames \cup StepNames \cup Capabilities

DefaultValidationPhase == "test"

(* What parse_validations keeps of one entry.  "valid" says its raw form   *)
(* is well shaped, "renders" what Jinja makes of its parameters.           *)
ValidationEntry ==
    [name     : ValidationNames,
     step     : StepNames \cup {None},
     phase    : PhaseNames \cup {None},
     labels   : SUBSET Labels,
     requires : SUBSET Capabilities,
     valid    : BOOLEAN,
     renders  : {"mapping", "scalar", "raises"}]

(* Terminal states with the reason the code attaches to each.  "ready" is  *)
(* ResolvedEntry.is_ready: no state and no reason yet.                     *)
SkipReason == {"test_excluded", "phase_not_requested", "runtime_skip",
               "step_no_output", "step_not_configured", "step_skipped",
               "capability_requirement"}
ErrorReason == {"invalid_config", "runtime_exception", "template_render_failed"}

Ready == [state |-> "ready", reason |-> "none"]
Passed == [state |-> "passed", reason |-> "none"]
Failed == [state |-> "failed", reason |-> "none"]
Skip(reason) == [state |-> "skipped", reason |-> reason]
Error(reason) == [state |-> "error", reason |-> reason]

Terminal == {Passed, Failed}
            \cup {Skip(r) : r \in SkipReason}
            \cup {Error(r) : r \in ErrorReason}

(* What a resolution is made against: the arguments of resolve_entries.    *)
ResolutionContext ==
    [outputs        : SUBSET StepNames,      \* steps with stored output
     stepPhases     : [StepNames -> PhaseNames \cup {None}], \* None: not registered
     skippedSteps   : SUBSET StepNames,
     requested      : SUBSET PhaseNames,
     include_labels : SUBSET Labels,
     exclude_labels : SUBSET Labels,
     exclude_tests  : SUBSET ValidationNames,
     capability     : Capabilities \cup {None}]

requirements_satisfied(requires, capability) ==
    requires = {} \/ capability \in requires

(* The phase an entry belongs to: its own, else its step's registered      *)
(* phase, else the default.                                                *)
get_entry_phase(entry, stepPhases) ==
    IF entry.phase # None THEN entry.phase
    ELSE IF entry.step # None /\ stepPhases[entry.step] # None
         THEN stepPhases[entry.step]
         ELSE DefaultValidationPhase

validate_entry_shape(entry) == entry.valid
render_params(entry) == entry.renders

(* The reasons a validation is filtered out, whatever its step did.        *)
FilterReason(entry, ctx) ==
    IF ~validate_entry_shape(entry) THEN Error("invalid_config")
    ELSE IF entry.name \in ctx.exclude_tests THEN Skip("test_excluded")
    ELSE IF ctx.capability # None /\ ~requirements_satisfied(entry.requires, ctx.capability)
         THEN Skip("capability_requirement")
    ELSE IF ~(ctx.include_labels \subseteq entry.labels) THEN Skip("test_excluded")
    ELSE IF entry.labels \cap ctx.exclude_labels # {} THEN Skip("test_excluded")
    ELSE Ready

MutantOutputNotChecked(entry, ctx) ==
    IF entry.step = None THEN Ready
    ELSE IF entry.step \in ctx.skippedSteps THEN Skip("step_skipped")
    ELSE IF ctx.stepPhases[entry.step] = None THEN Skip("step_not_configured")
    ELSE Ready

(* The reasons that depend on the step the validation is bound to.         *)
StepReason(entry, ctx) ==
    IF entry.step = None THEN Ready
    ELSE IF entry.step \in ctx.skippedSteps THEN Skip("step_skipped")
    ELSE IF ctx.stepPhases[entry.step] = None THEN Skip("step_not_configured")
    ELSE IF entry.step \notin ctx.outputs THEN Skip("step_no_output")
    ELSE Ready

(* What remains once the entry is selected and its step has output.        *)
RenderReason(entry, ctx) ==
    IF get_entry_phase(entry, ctx.stepPhases) \notin ctx.requested
    THEN Skip("phase_not_requested")
    ELSE IF render_params(entry) = "raises" THEN Error("template_render_failed")
    ELSE IF render_params(entry) = "scalar" THEN Error("invalid_config")
    ELSE Ready

(* resolve_entries for one entry: the first reason that applies wins.      *)
resolve_entry(entry, ctx) ==
    IF FilterReason(entry, ctx) # Ready THEN FilterReason(entry, ctx)
    ELSE IF StepReason(entry, ctx) # Ready THEN StepReason(entry, ctx)
    ELSE RenderReason(entry, ctx)

(* _resolved_entry_success: outcomes that keep a phase successful.         *)
resolved_entry_success(resolution) == resolution.state \in {"passed", "skipped"}
================================================================================
