----------------------------- MODULE OutcomeProofs -----------------------------
(***************************************************************************)
(* What comes of a run, for every set of configurations and arguments: the *)
(* validations that are executed are the selected ones, after their step,  *)
(* and no other; the verdict is a failure exactly when something went      *)
(* wrong.                                                                  *)
(***************************************************************************)
EXTENDS PhaseLoopProofs


(* The loop runs on an accepted configuration, in phases that were asked   *)
(* for.                                                                    *)
LoopAccepted ==
    /\ Looping => Runnable
    /\ InPhase => Requested(CurrentPhase)

(* An output in the context was left by the command of a step.             *)
OutputsHaveSteps ==
    \A s \in outputs : \E i \in StepIxs : config.steps[i].name = s /\ Commanded(i)

(* Until the end, entries have outcomes only in phases that are over.      *)
ResolvedInTheirPhase ==
    pc # "done" => \A i \in EntryIxs : resolved[i] # Unresolved => phaseState[EntryPhase(i)] = "done"

(* Executed entries had their phase and the output of their step.          *)
ExecutedAreFed ==
    \A i \in EntryIxs :
        Executed(resolved[i]) =>
            /\ phaseState[EntryPhase(i)] = "done"
            /\ config.validations[i].step # None => config.validations[i].step \in outputs

SelectionInv ==
    /\ LoopAccepted
    /\ OutputsHaveSteps
    /\ ResolvedInTheirPhase
    /\ ExecutedAreFed

--------------------------------------------------------------------------------
(* Taking a step keeps SelectionInv: an output is stored with the result   *)
(* of the step.                                                            *)
LEMMA StepSelection ==
    ASSUME TypeOK, PhaseInv, SelectionInv, pc \in {"steps", "running"}, todo # {},
           NEW state \in StepState \ {"none"}, FinishStep(CurrentStep, state),
           UNCHANGED <<config, args, phaseIx, resolved, phaseState>>,
           \/ outputs' = outputs
           \/ /\ outputs' = outputs \cup {config.steps[CurrentStep].name}
              /\ state \in {"passed", "failed"}
    PROVE  SelectionInv'
<1> DEFINE c == CurrentStep
<1>1. /\ c \in StepIxs /\ ~Attempted(c)
      /\ \A i \in StepIxs :
            stepState'[config.steps[i].name] = IF i = c THEN state ELSE stepState[config.steps[i].name]
  BY TakenStep
<1>2. /\ StepIxs' = StepIxs /\ EntryIxs' = EntryIxs /\ ConfigPhases' = ConfigPhases
      /\ Runnable' = Runnable
      /\ \A i : EntryPhase(i)' = EntryPhase(i)
      /\ \A p : Requested(p)' = Requested(p)
  BY StaticUnchanged
<1>3. CurrentPhase' = CurrentPhase
  BY <1>2 DEF CurrentPhase
<1>4. pc' = "steps"
  BY DEF FinishStep
<1> HIDE DEF c
<1>5. \A i \in StepIxs : /\ Commanded(i) => Commanded(i)'
                         /\ i = c /\ state \in {"passed", "failed"} => Commanded(i)'
  BY <1>1 DEF Commanded, Attempted
<1>6. LoopAccepted'
  BY <1>2, <1>3, <1>4 DEF SelectionInv, LoopAccepted, Looping, InPhase
<1>7. OutputsHaveSteps'
  <2> SUFFICES ASSUME NEW s \in outputs'
               PROVE  \E i \in StepIxs : config.steps[i].name = s /\ Commanded(i)'
    BY <1>2 DEF OutputsHaveSteps
  <2>1. CASE s \in outputs
    BY <1>5, <2>1 DEF SelectionInv, OutputsHaveSteps
  <2>2. CASE s \notin outputs
    BY <1>1, <1>5, <2>2 DEF c
  <2> QED
    BY <2>1, <2>2
<1>8. ResolvedInTheirPhase' /\ ExecutedAreFed'
  BY <1>2, <1>4 DEF SelectionInv, ResolvedInTheirPhase, ExecutedAreFed
<1> QED
  BY <1>6, <1>7, <1>8 DEF SelectionInv

(* A phase that is passed by, skipped or entered is one that was pending:  *)
(* no entry of it has an outcome.                                          *)
LEMMA PhaseSelection ==
    ASSUME TypeOK, PhaseInv, SelectionInv, TakePhase
    PROVE  SelectionInv'
<1>1. UNCHANGED <<config, args, stepState, resolved, outputs>>
  BY DEF TakePhase, PassOverPhase, SkipPhase, BeginPhase, input, progress, report
<1>2. /\ StepIxs' = StepIxs /\ EntryIxs' = EntryIxs /\ ConfigPhases' = ConfigPhases
      /\ Runnable' = Runnable
      /\ \A i : EntryPhase(i)' = EntryPhase(i)
      /\ \A p : Requested(p)' = Requested(p)
  BY <1>1, StaticUnchanged
<1>3. /\ pc = "phase" /\ phaseIx \in DOMAIN ConfigPhases /\ CurrentPhase \in PhaseNames
  BY ConfigTypes DEF TakePhase, PassOverPhase, SkipPhase, BeginPhase, AtPhase, TypeOK, CurrentPhase
<1>4. phaseState[CurrentPhase] = "pending"
  BY <1>3 DEF PhaseInv, LoopPosition, Looping, InPhase, CurrentPhase
<1>5. \A p \in PhaseNames : phaseState[p] = "done" => phaseState'[p] = "done"
  BY <1>3, <1>4 DEF TakePhase, PassOverPhase, SkipPhase, BeginPhase, report, TypeOK
<1>6. LoopAccepted'
  BY <1>2, <1>3 DEF SelectionInv, LoopAccepted, Looping, InPhase, TakePhase, PassOverPhase,
     SkipPhase, BeginPhase, CurrentPhase
<1>7. OutputsHaveSteps'
  BY <1>1, <1>2 DEF SelectionInv, OutputsHaveSteps, Commanded
<1>8. \A i \in EntryIxs : EntryPhase(i) \in PhaseNames
  BY EntryPhaseType DEF TypeOK
<1>9. ResolvedInTheirPhase' /\ ExecutedAreFed'
  BY <1>1, <1>2, <1>3, <1>5, <1>8 DEF SelectionInv, ResolvedInTheirPhase, ExecutedAreFed
<1> QED
  BY <1>6, <1>7, <1>9 DEF SelectionInv

(* A ready entry has the output of its step.                               *)
LEMMA ReadyIsFed ==
    ASSUME NEW i, Resolve(i) = Ready, config.validations[i].step # None
    PROVE  config.validations[i].step \in outputs
<1>1. StepReason(config.validations[i], Context) = Ready
  BY DEF Resolve, resolve_entry
<1>2. Context.outputs = outputs
  BY DEF Context
<1> QED
  BY <1>1, <1>2 DEF StepReason, Ready, Skip

(* The end of a phase: what is executed was ready.                         *)
LEMMA ValidateSelection ==
    ASSUME TypeOK, PhaseInv, SelectionInv, Validate
    PROVE  SelectionInv'
<1>1. /\ UNCHANGED <<config, args, stepState, outputs>>
      /\ pc = "validate" /\ pc' = "phase"
      /\ phaseState' = [phaseState EXCEPT ![CurrentPhase] = "done"]
  BY DEF Validate, RunValidations, ResolveOnly, EndPhase, input
<1>2. /\ StepIxs' = StepIxs /\ EntryIxs' = EntryIxs /\ ConfigPhases' = ConfigPhases
      /\ Runnable' = Runnable
      /\ \A i : EntryPhase(i)' = EntryPhase(i)
  BY <1>1, StaticUnchanged
<1>3. CurrentPhase \in PhaseNames
  BY <1>1, ConfigTypes DEF TypeOK, CurrentPhase
<1>4. \A p \in PhaseNames : phaseState'[p] = IF p = CurrentPhase THEN "done" ELSE phaseState[p]
  BY <1>1 DEF TypeOK
<1>5. /\ \A i \in EntryIxs \ PhaseEntries : resolved'[i] = resolved[i]
      /\ \A i \in PhaseEntries \ ReadyEntries : resolved'[i] = Resolve(i)
  <2>1. CASE ResolveOnly
    BY <2>1 DEF ResolveOnly, EndPhase, PhaseEntries
  <2>2. ASSUME NEW s, RunValidations(s)
        PROVE  /\ \A i \in EntryIxs \ PhaseEntries : resolved'[i] = resolved[i]
               /\ \A i \in PhaseEntries \ ReadyEntries : resolved'[i] = Resolve(i)
    BY <2>2 DEF RunValidations, EndPhase, PhaseEntries
  <2> QED
    BY <2>1, <2>2 DEF Validate
<1>6. LoopAccepted' /\ OutputsHaveSteps'
  BY <1>1, <1>2 DEF SelectionInv, LoopAccepted, Looping, InPhase, OutputsHaveSteps, Commanded
<1>7. \A i \in EntryIxs : EntryPhase(i) \in PhaseNames
  BY EntryPhaseType DEF TypeOK
<1>8. ResolvedInTheirPhase'
  BY <1>1, <1>2, <1>4, <1>5, <1>7 DEF SelectionInv, ResolvedInTheirPhase, PhaseEntries
<1>9. ExecutedAreFed'
  <2> SUFFICES ASSUME NEW i \in EntryIxs, Executed(resolved'[i])
               PROVE  /\ phaseState'[EntryPhase(i)] = "done"
                      /\ config.validations[i].step # None => config.validations[i].step \in outputs
    BY <1>1, <1>2 DEF ExecutedAreFed
  <2>1. CASE i \notin PhaseEntries
    BY <1>4, <1>5, <1>7, <2>1 DEF SelectionInv, ExecutedAreFed
  <2>2. CASE i \in PhaseEntries
    <3>1. ~Executed(Resolve(i))
      BY ResolutionTypes DEF Resolve
    <3>2. i \in ReadyEntries
      BY <1>5, <2>2, <3>1
    <3> QED
      BY <1>3, <1>4, <2>2, <3>2, ReadyIsFed DEF ReadyEntries, PhaseEntries
  <2> QED
    BY <2>1, <2>2
<1> QED
  BY <1>6, <1>8, <1>9 DEF SelectionInv

(* Steps of the run that touch neither steps nor phases keep SelectionInv. *)
LEMMA SelectionUnchanged ==
    ASSUME TypeOK, SelectionInv,
           UNCHANGED <<config, args, phaseIx, outputs, stepState, phaseState>>,
           UNCHANGED resolved \/ Conclude,
           \/ pc' = pc
           \/ pc = "steps" /\ pc' \in {"running", "validate"}
           \/ pc = "start" /\ pc' = "phase" /\ Runnable
           \/ pc' \in {"done", "raised"} /\ pc # "done"
    PROVE  SelectionInv'
<1>1. /\ StepIxs' = StepIxs /\ EntryIxs' = EntryIxs /\ ConfigPhases' = ConfigPhases
      /\ Runnable' = Runnable
      /\ \A i : EntryPhase(i)' = EntryPhase(i)
      /\ \A p : Requested(p)' = Requested(p)
  BY StaticUnchanged
<1>2. CurrentPhase' = CurrentPhase
  BY <1>1 DEF CurrentPhase
<1>3. LoopAccepted'
  BY <1>1, <1>2 DEF SelectionInv, LoopAccepted, Looping, InPhase
<1>4. OutputsHaveSteps'
  BY <1>1 DEF SelectionInv, OutputsHaveSteps, Commanded
<1>5. CASE UNCHANGED resolved
  BY <1>1, <1>3, <1>4, <1>5 DEF SelectionInv, ResolvedInTheirPhase, ExecutedAreFed
<1>6. CASE Conclude
  <2>1. /\ pc' = "done"
        /\ \A i \in EntryIxs :
              resolved'[i] = IF i \in RemainingEntries THEN Terminalize(Resolve(i)) ELSE resolved[i]
    BY <1>6 DEF Conclude
  <2>2. \A i \in EntryIxs : ~Executed(Terminalize(Resolve(i)))
    BY ResolutionTypes DEF Terminalize, Resolve, Executed, Skip, Error, Passed, Failed
  <2>3. ResolvedInTheirPhase' /\ ExecutedAreFed'
    BY <1>1, <2>1, <2>2 DEF SelectionInv, ResolvedInTheirPhase, ExecutedAreFed
  <2> QED
    BY <1>3, <1>4, <2>3 DEF SelectionInv
<1> QED
  BY <1>5, <1>6

--------------------------------------------------------------------------------
(* SelectionInv holds of every run.                                        *)
THEOREM SelectionInvariant == Spec => []SelectionInv
<1>1. Init => SelectionInv
  <2> SUFFICES ASSUME Init PROVE SelectionInv
    OBVIOUS
  <2>1. /\ pc = "start" /\ outputs = {}
        /\ \A i \in EntryIxs : resolved[i] = Unresolved
    BY DEF Init
  <2>2. ~Executed(Unresolved)
    BY DEF Executed, Unresolved, Passed, Failed, Error, Skip
  <2> QED
    BY <2>1, <2>2 DEF SelectionInv, LoopAccepted, OutputsHaveSteps, ResolvedInTheirPhase,
       ExecutedAreFed, Looping, InPhase
<1>2. SelectionInv /\ TypeOK /\ PhaseInv /\ [Next]_vars => SelectionInv'
  <2> SUFFICES ASSUME SelectionInv, TypeOK, PhaseInv, [Next]_vars PROVE SelectionInv'
    OBVIOUS
  <2>1. CASE Start
    <3>1. CASE RaiseUnknownPlatform \/ EnterPhaseLoop
      BY <3>1, SelectionUnchanged
         DEF RaiseUnknownPlatform, EnterPhaseLoop, input, progress, report
    <3>2. ASSUME NEW success, NEW results, Return(success, results) PROVE SelectionInv'
      BY <3>2, SelectionUnchanged DEF Return, input, report
    <3> QED
      BY <2>1, <3>1, <3>2 DEF Start, ReturnNoPlatform, ReturnPlatformSkipped, ReturnNoSteps,
                              ReturnNothingToAssert, ReturnUnknownStepPhase
  <2>2. CASE TakePhase
    BY <2>2, PhaseSelection
  <2>3. CASE Validate
    BY <2>3, ValidateSelection
  <2>4. CASE SkipStep \/ FailBeforeStart
    BY <2>4, StepSelection DEF SkipStep, FailBeforeStart, StepState, input, progress
  <2>5. CASE StartCommand \/ FinishSteps
    BY <2>5, SelectionUnchanged DEF StartCommand, FinishSteps, input, progress, report
  <2>6. CASE CommandEnds
    <3>1. PICK exitOk, hasOutput, schemaValid \in BOOLEAN :
             CommandReturns(exitOk, hasOutput, schemaValid)
      BY <2>6 DEF CommandEnds
    <3> DEFINE state == IF exitOk /\ schemaValid THEN "passed" ELSE "failed"
    <3>2. /\ state \in StepState \ {"none"} /\ FinishStep(CurrentStep, state)
          /\ state \in {"passed", "failed"}
      BY <3>1 DEF CommandReturns, StepState
    <3>3. /\ pc = "running" /\ todo # {}
          /\ UNCHANGED <<config, args, phaseIx, resolved, phaseState>>
          /\ outputs' \in {outputs, outputs \cup {config.steps[CurrentStep].name}}
      BY <3>1 DEF CommandReturns, TypeOK, input
    <3> HIDE DEF state
    <3> QED
      BY <3>2, <3>3, StepSelection
  <2>7. CASE CommandTimesOut
    BY <2>7, StepSelection DEF CommandTimesOut, TypeOK, StepState, input, progress
  <2>8. CASE Conclude
    BY <2>8, SelectionUnchanged DEF Conclude, input
  <2>9. CASE Interrupt
    BY <2>9, SelectionUnchanged DEF Interrupt, input, progress, report
  <2>10. CASE UNCHANGED vars
    BY <2>10, SelectionUnchanged DEF vars
  <2> QED
    BY <2>1, <2>2, <2>3, <2>4, <2>5, <2>6, <2>7, <2>8, <2>9, <2>10 DEF Next, Proceed, TakeStep
<1> QED
  BY <1>1, <1>2, OrchestratorTypeCorrect, PhaseInvariant, PTL DEF Spec

(* A validation bound to a step is executed only after the command of that *)
(* step ended and left an output, and only in a phase that ran, whichever  *)
(* phase it names.                                                         *)
THEOREM ValidationsFollow == Spec => []ValidationsFollowTheirStep
<1>1. TypeOK /\ SelectionInv => ValidationsFollowTheirStep
  <2> SUFFICES ASSUME TypeOK, SelectionInv, NEW i \in EntryIxs, Executed(resolved[i])
               PROVE  /\ phaseState[EntryPhase(i)] = "done"
                      /\ config.validations[i].step # None =>
                            /\ config.validations[i].step \in outputs
                            /\ stepState[config.validations[i].step] \in {"passed", "failed"}
    BY DEF ValidationsFollowTheirStep
  <2> QED
    BY DEF SelectionInv, ExecutedAreFed, OutputsHaveSteps, Commanded
<1> QED
  BY <1>1, OrchestratorTypeCorrect, SelectionInvariant, PTL

--------------------------------------------------------------------------------
(* The filters of resolve_entries, tried one after the other, let exactly  *)
(* the selected entries through.                                           *)
LEMMA FiltersSelect ==
    ASSUME TypeOK, NEW i \in EntryIxs
    PROVE  Selected(config.validations[i]) <=>
              /\ FilterReason(config.validations[i], Context) = Ready
              /\ config.validations[i].renders = "mapping"
<1> DEFINE entry == config.validations[i]
<1>1. /\ Context.exclude_tests = config.exclude.tests
      /\ Context.capability = args.capability
      /\ Context.include_labels = args.include_labels
      /\ Context.exclude_labels = ResolutionExcludeLabels
  BY DEF Context
<1>2. FilterReason(entry, Context) = Ready <=>
         /\ entry.valid
         /\ entry.name \notin config.exclude.tests
         /\ args.capability # None => requirements_satisfied(entry.requires, args.capability)
         /\ args.include_labels \subseteq entry.labels
         /\ entry.labels \cap ResolutionExcludeLabels = {}
  BY <1>1 DEF FilterReason, validate_entry_shape, Ready, Skip, Error
<1>3. (args.capability # None => requirements_satisfied(entry.requires, args.capability)) <=>
         entry.requires = {} \/ args.capability \in entry.requires \cup {None}
  <2>1. entry.requires \subseteq Capabilities /\ None \notin Capabilities
    BY ConfigTypes, ResolutionAssumption DEF TypeOK, ValidationEntry
  <2> QED
    BY <2>1 DEF requirements_satisfied
<1>4. entry.labels \cap ResolutionExcludeLabels = {} <=>
         /\ entry.labels \cap args.exclude_labels = {}
         /\ \/ args.include_labels # {} \/ args.selection
            \/ entry.labels \cap config.exclude.labels = {}
  BY DEF ResolutionExcludeLabels
<1> QED
  BY <1>2, <1>3, <1>4 DEF Selected

(* An output in the context belongs to a registered step of a phase that   *)
(* is not after the current one.                                           *)
LEMMA OutputsAreEarlier ==
    ASSUME TypeOK, PhaseInv, TeardownInv, SelectionInv, InPhase, NEW s \in outputs
    PROVE  /\ s \notin SkippedSteps
           /\ StepPhases[s] # None
           /\ StepPhases[s] = CurrentPhase \/ Before(StepPhases[s], CurrentPhase)
<1>1. PICK i \in StepIxs : config.steps[i].name = s /\ Commanded(i)
  BY DEF SelectionInv, OutputsHaveSteps
<1>2. ~StepSkipped(i) /\ phaseState[config.steps[i].phase] # "pending"
  BY <1>1 DEF TeardownInv, CommandsRan, Commanded, Attempted
<1>3. \A j \in StepIxs : config.steps[j].name = s => j = i
  BY <1>1 DEF TypeOK, UniqueNames, StepIxs
<1>4. s \notin SkippedSteps
  BY <1>2, <1>3 DEF SkippedSteps
<1>5. StepPhases[s] = config.steps[i].phase
  <2>1. {j \in StepIxs : config.steps[j].name = s /\ ~StepSkipped(j)} = {i}
    BY <1>1, <1>2, <1>3
  <2>2. s \in StepNames
    BY DEF TypeOK
  <2>3. (CHOOSE j \in {i} : TRUE) = i
    OBVIOUS
  <2> QED
    BY <2>1, <2>2, <2>3 DEF StepPhases
<1>6. config.steps[i].phase \in PhaseNames /\ config.steps[i].phase # None
  BY ConfigTypes, ResolutionAssumption DEF TypeOK, StepConfig
<1>7. HasCommands
  BY <1>1 DEF StepIxs
<1>8. PICK k \in DOMAIN ConfigPhases : ConfigPhases[k] = config.steps[i].phase
  BY <1>1, <1>7 DEF SelectionInv, LoopAccepted, Looping, Runnable, StepPhasesConfigured, ConfigPhaseSet
<1>9. phaseIx \in DOMAIN ConfigPhases /\ phaseIx \in Nat /\ k \in Nat
  BY <1>8, ConfigTypes DEF TypeOK, InPhase
<1>10. k <= phaseIx
  BY <1>2, <1>8, <1>9 DEF PhaseInv, LoopPosition, Looping
<1> QED
  BY <1>4, <1>5, <1>6, <1>8, <1>9, <1>10 DEF CurrentPhase, Before

(* The validations a phase hands to pytest are exactly its selected ones   *)
(* whose step produced its output in time, in any configuration and under  *)
(* any arguments.                                                          *)
THEOREM SelectionIsExact == Spec => []SelectionExact
<1>1. TypeOK /\ PhaseInv /\ TeardownInv /\ SelectionInv => SelectionExact
  <2> SUFFICES ASSUME TypeOK, PhaseInv, TeardownInv, SelectionInv, pc = "validate",
                      NEW i \in EntryIxs, EntryPhase(i) = CurrentPhase
               PROVE  i \in ReadyEntries <=> Selected(config.validations[i]) /\ Fed(i)
    BY DEF SelectionExact, ReadyEntries, PhaseEntries
  <2> DEFINE entry == config.validations[i]
  <2>1. InPhase /\ phaseState[CurrentPhase] = "active"
    BY DEF PhaseInv, LoopPosition, InPhase
  <2>2. resolved[i] = Unresolved
    BY <2>1 DEF SelectionInv, ResolvedInTheirPhase
  <2>3. i \in ReadyEntries <=> Resolve(i) = Ready
    BY <2>2 DEF ReadyEntries, PhaseEntries
  <2>4. Resolve(i) = Ready <=>
           /\ FilterReason(entry, Context) = Ready
           /\ StepReason(entry, Context) = Ready
           /\ RenderReason(entry, Context) = Ready
    BY DEF Resolve, resolve_entry
  <2>5. StepReason(entry, Context) = Ready <=> Fed(i)
    <3>1. /\ Context.outputs = outputs /\ Context.stepPhases = StepPhases
          /\ Context.skippedSteps = SkippedSteps
      BY DEF Context
    <3>2. StepReason(entry, Context) = Ready <=>
             (entry.step # None => /\ entry.step \notin SkippedSteps
                                   /\ StepPhases[entry.step] # None
                                   /\ entry.step \in outputs)
      BY <3>1 DEF StepReason, Ready, Skip
    <3>3. entry.step \in outputs =>
             /\ entry.step \notin SkippedSteps
             /\ StepPhases[entry.step] # None
             /\ \/ StepPhases[entry.step] = EntryPhase(i)
                \/ Before(StepPhases[entry.step], EntryPhase(i))
      <4> HIDE DEF entry
      <4> QED
        BY <2>1, OutputsAreEarlier
    <3> QED
      BY <3>2, <3>3 DEF Fed
  <2>6. RenderReason(entry, Context) = Ready <=> entry.renders = "mapping"
    <3>1. Context.requested = RequestedPhases /\ Context.stepPhases = StepPhases
      BY DEF Context
    <3>2. CurrentPhase \in RequestedPhases
      <4>1. CurrentPhase \in ConfigPhaseSet /\ CurrentPhase \in PhaseNames
        BY ConfigTypes DEF TypeOK, CurrentPhase, ConfigPhaseSet
      <4>2. Requested(CurrentPhase)
        BY <2>1 DEF SelectionInv, LoopAccepted
      <4> QED
        BY <4>1, <4>2 DEF RequestedPhases, Requested
    <3>3. get_entry_phase(entry, StepPhases) = CurrentPhase
      BY DEF EntryPhase
    <3>4. entry.renders \in {"mapping", "scalar", "raises"}
      BY ConfigTypes DEF TypeOK, ValidationEntry
    <3> QED
      BY <3>1, <3>2, <3>3, <3>4 DEF RenderReason, render_params, Ready, Skip, Error
  <2> QED
    BY <2>3, <2>4, <2>5, <2>6, FiltersSelect
<1> QED
  BY <1>1, OrchestratorTypeCorrect, PhaseInvariant, TeardownInvariant, SelectionInvariant, PTL

--------------------------------------------------------------------------------

(* Something went wrong so far: the right-hand side of VerdictExact.       *)
BadStep == \E i \in StepIxs : Bad(i)
BadEntry == \E i \in EntryIxs : resolved[i].state \in {"failed", "error"}
BadSession == \E r \in phaseResults : r.exit \in {1, 2}
Trouble == BadStep \/ BadEntry \/ BadSession

(* Between phases overall_success tells the truth; inside a phase the      *)
(* failures of its steps are known to step_results alone.  A phase that is *)
(* not recorded has no steps, so nothing is lost with its result.          *)
VerdictInv ==
    /\ pc = "start" => ~Trouble
    /\ pc = "phase" => (~overallSuccess <=> Trouble)
    /\ InPhase => /\ (~overallSuccess \/ ~stepsOk) <=> Trouble
                  /\ StepsOf(CurrentPhase) = {} => stepsOk
    /\ Completed => ((result = "failure") <=> Trouble)

--------------------------------------------------------------------------------
(* A failure of a step reaches step_results, and none is lost.             *)
LEMMA StepVerdict ==
    ASSUME TypeOK, PhaseInv, VerdictInv, pc \in {"steps", "running"}, todo # {},
           NEW state \in StepState \ {"none"}, FinishStep(CurrentStep, state),
           UNCHANGED <<config, args, phaseIx, overallSuccess, resolved, phaseResults>>
    PROVE  VerdictInv'
<1> DEFINE c == CurrentStep
<1>1. /\ c \in todo /\ todo \subseteq StepsOf(CurrentPhase)
      /\ c \in StepIxs /\ StepsOf(CurrentPhase) # {}
  BY CurrentStepType DEF TypeOK, PhaseInv, StepPosition, StepsOf
<1>2. /\ StepIxs' = StepIxs /\ EntryIxs' = EntryIxs /\ CurrentPhase' = CurrentPhase
      /\ StepsOf(CurrentPhase)' = StepsOf(CurrentPhase)
  BY StaticUnchanged DEF CurrentPhase, StepsOf
<1>3. /\ pc' = "steps"
      /\ stepsOk' = (stepsOk /\ state \in {"skipped", "passed"})
      /\ stepState' = [stepState EXCEPT ![config.steps[c].name] = state]
  BY DEF FinishStep
<1>4. \A i \in StepIxs :
         stepState'[config.steps[i].name] = IF i = c THEN state ELSE stepState[config.steps[i].name]
  <2>1. \A i, j \in StepIxs : config.steps[i].name = config.steps[j].name => i = j
    BY DEF TypeOK, UniqueNames, StepIxs
  <2>2. \A i \in StepIxs : config.steps[i].name \in StepNames
    BY ConfigTypes DEF TypeOK, StepConfig
  <2> QED
    BY <1>1, <1>3, <2>1, <2>2 DEF TypeOK
<1>5. ~Bad(c)
  BY <1>1 DEF PhaseInv, StepPosition, Attempted, Bad
<1> HIDE DEF c
<1>6. BadStep' <=> BadStep \/ state \notin {"skipped", "passed"}
  <2>1. \A i \in StepIxs : Bad(i)' <=> IF i = c THEN state \notin {"skipped", "passed"} ELSE Bad(i)
    BY <1>4 DEF Bad, StepState
  <2> QED
    BY <1>1, <1>2, <1>5, <2>1 DEF BadStep
<1>7. (BadEntry' <=> BadEntry) /\ (BadSession' <=> BadSession)
  BY <1>2 DEF BadEntry, BadSession
<1>8. (~overallSuccess \/ ~stepsOk) <=> Trouble
  BY DEF VerdictInv, InPhase
<1>9. ((~overallSuccess \/ ~stepsOk) <=> Trouble)'
  BY <1>3, <1>6, <1>7, <1>8 DEF Trouble
<1> QED
  BY <1>1, <1>2, <1>3, <1>9 DEF VerdictInv, InPhase, Completed

(* An outcome fails its phase exactly if it is a failure or an error.      *)
LEMMA OutcomeVerdict ==
    ASSUME NEW outcome \in Terminal
    PROVE  ~resolved_entry_success(outcome) <=> outcome.state \in {"failed", "error"}
  BY DEF Terminal, resolved_entry_success, Passed, Failed, Skip, Error

(* The end of a phase: its steps, its outcomes and its session all reach   *)
(* overall_success.                                                        *)
LEMMA PhaseVerdict ==
    ASSUME TypeOK, PhaseInv, VerdictInv, pc = "validate",
           NEW outcome, DOMAIN outcome = PhaseEntries,
           \A i \in PhaseEntries : outcome[i] \in Terminal,
           NEW exit \in PytestExit \cup {NotRun},
           PhaseEntries = {} => exit = NotRun,
           EndPhase(outcome, exit)
    PROVE  VerdictInv'
<1> DEFINE r == ExecutedResult(outcome, exit)
           recorded == StepsOf(CurrentPhase) # {} \/ DOMAIN outcome # {}
           good == \A i \in PhaseEntries : resolved_entry_success(outcome[i])
<1>1. /\ resolved' = [i \in EntryIxs |-> IF i \in DOMAIN outcome THEN outcome[i] ELSE resolved[i]]
      /\ phaseResults' = IF recorded THEN phaseResults \cup {r} ELSE phaseResults
      /\ overallSuccess' = (overallSuccess /\ (recorded => r.success))
      /\ pc' = "phase"
      /\ UNCHANGED <<config, args, stepState>>
  BY DEF EndPhase, input
<1>2. EntryIxs' = EntryIxs /\ StepIxs' = StepIxs
  BY <1>1, StaticUnchanged
<1>3. BadStep' <=> BadStep
  BY <1>1, <1>2 DEF BadStep, Bad
<1>4. BadEntry' <=> BadEntry \/ ~good
  <2>1. \A i \in PhaseEntries : i \in EntryIxs /\ resolved[i].state \notin {"failed", "error"}
    BY DEF PhaseEntries, Unresolved
  <2>2. \A i \in PhaseEntries :
           ~resolved_entry_success(outcome[i]) <=> outcome[i].state \in {"failed", "error"}
    BY OutcomeVerdict
  <2>3. \A i \in EntryIxs : resolved'[i] = IF i \in PhaseEntries THEN outcome[i] ELSE resolved[i]
    BY <1>1
  <2> QED
    BY <1>2, <2>1, <2>2, <2>3 DEF BadEntry
<1>5. /\ r.exit = exit
      /\ r.success <=> stepsOk /\ good /\ exit \notin {1, 2}
  BY DEF ExecutedResult, PytestExit, NotRun
<1>6. (~overallSuccess \/ ~stepsOk) <=> Trouble
  BY DEF VerdictInv, InPhase
<1>7. ~recorded => stepsOk /\ good /\ exit \notin {1, 2}
  BY DEF VerdictInv, InPhase, NotRun
<1> HIDE DEF r, recorded, good
<1>8. BadSession' <=> BadSession \/ exit \in {1, 2}
  BY <1>1, <1>5, <1>7 DEF BadSession
<1>9. ~overallSuccess' <=> Trouble'
  BY <1>1, <1>3, <1>4, <1>5, <1>6, <1>7, <1>8 DEF Trouble
<1> QED
  BY <1>1, <1>9 DEF VerdictInv, InPhase, Completed

(* Steps of the run that neither add to the trouble nor enter a phase.     *)
LEMMA VerdictUnchanged ==
    ASSUME TypeOK, PhaseInv, VerdictInv,
           UNCHANGED <<config, args, overallSuccess, resolved, stepState>>,
           \/ pc' = pc /\ UNCHANGED <<phaseIx, phaseResults, stepsOk, result>>
           \/ pc = "steps" /\ pc' \in {"running", "validate"}
                  /\ UNCHANGED <<phaseIx, phaseResults, stepsOk>>
           \/ pc = "start" /\ pc' = "phase" /\ UNCHANGED phaseResults
           \/ pc = "phase" /\ pc' = "phase" /\ (BadSession' <=> BadSession)
           \/ pc' = "raised"
           \/ pc' = "done" /\ ~Runnable
    PROVE  VerdictInv'
<1>1. /\ StepIxs' = StepIxs /\ EntryIxs' = EntryIxs /\ Runnable' = Runnable
      /\ \A p : StepsOf(p)' = StepsOf(p)
      /\ ConfigPhases' = ConfigPhases
  BY StaticUnchanged
<1>2. (BadStep' <=> BadStep) /\ (BadEntry' <=> BadEntry)
  BY <1>1 DEF BadStep, BadEntry, Bad
<1>3. UNCHANGED phaseResults => (BadSession' <=> BadSession)
  BY DEF BadSession
<1>4. pc = "start" => overallSuccess
  BY DEF PhaseInv, BeforeLoop
<1>5. UNCHANGED phaseIx => CurrentPhase' = CurrentPhase
  BY <1>1 DEF CurrentPhase
<1> QED
  BY <1>1, <1>2, <1>3, <1>4, <1>5 DEF VerdictInv, InPhase, Completed, Trouble

(* The end of the run: what was never executed can still fail it.          *)
LEMMA FinalVerdict ==
    ASSUME TypeOK, VerdictInv, Conclude
    PROVE  VerdictInv'
<1> DEFINE outcome == [i \in RemainingEntries |-> Terminalize(Resolve(i))]
           good == \A i \in RemainingEntries : resolved_entry_success(outcome[i])
           Of(p) == {i \in RemainingEntries : EntryPhase(i) = p}
           Good(p) == \A i \in Of(p) : resolved_entry_success(outcome[i])
<1>1. /\ pc = "phase" /\ pc' = "done"
      /\ resolved' = [i \in EntryIxs |-> IF i \in RemainingEntries THEN outcome[i] ELSE resolved[i]]
      /\ overallSuccess' = (overallSuccess /\ good)
      /\ result' = IF overallSuccess' THEN "success" ELSE "failure"
      /\ UNCHANGED <<config, args, stepState>>
  BY DEF Conclude, input
<1>2. phaseResults' = phaseResults \cup
         {[phase |-> phase_enum_for_name(p), kind |-> "resolved", success |-> Good(p),
           exit |-> NotRun] : p \in {EntryPhase(i) : i \in RemainingEntries}}
  BY DEF Conclude
<1>3. EntryIxs' = EntryIxs /\ StepIxs' = StepIxs
  BY <1>1, StaticUnchanged
<1>4. BadStep' <=> BadStep
  BY <1>1, <1>3 DEF BadStep, Bad
<1>5. BadEntry' <=> BadEntry \/ ~good
  <2>1. \A i \in RemainingEntries : i \in EntryIxs /\ resolved[i].state \notin {"failed", "error"}
    BY DEF RemainingEntries, Unresolved
  <2>2. \A i \in RemainingEntries : outcome[i] \in Terminal
    BY ResolutionTypes DEF Terminalize, Resolve, Terminal, SkipReason
  <2>3. \A i \in RemainingEntries :
           ~resolved_entry_success(outcome[i]) <=> outcome[i].state \in {"failed", "error"}
    BY <2>2, OutcomeVerdict
  <2>4. \A i \in EntryIxs :
           resolved'[i] = IF i \in RemainingEntries THEN outcome[i] ELSE resolved[i]
    BY <1>1
  <2> HIDE DEF outcome
  <2> QED
    BY <1>3, <2>1, <2>3, <2>4 DEF BadEntry
<1> HIDE DEF outcome, good, Good
<1>6. BadSession' <=> BadSession
  BY <1>2 DEF BadSession, NotRun
<1>7. (result' = "failure") <=> Trouble'
  BY <1>1, <1>4, <1>5, <1>6 DEF VerdictInv, Trouble
<1> QED
  BY <1>1, <1>7 DEF VerdictInv, InPhase, Completed

--------------------------------------------------------------------------------
(* VerdictInv holds of every run.                                          *)
THEOREM VerdictInvariant == Spec => []VerdictInv
<1>1. Init => VerdictInv
  <2> SUFFICES ASSUME Init PROVE VerdictInv
    OBVIOUS
  <2>1. /\ pc = "start" /\ phaseResults = {}
        /\ stepState = [s \in StepNames |-> "none"]
        /\ resolved = [i \in EntryIxs |-> Unresolved]
    BY DEF Init
  <2>2. \A i \in StepIxs : config.steps[i].name \in StepNames
    BY OrchestratorAssumption, ConfigTypes DEF Init, StepConfig
  <2>3. ~BadStep
    BY <2>1, <2>2 DEF BadStep, Bad
  <2>4. ~BadEntry /\ ~BadSession
    BY <2>1 DEF BadEntry, BadSession, Unresolved
  <2> QED
    BY <2>1, <2>3, <2>4 DEF VerdictInv, Trouble, InPhase, Completed
<1>2. VerdictInv /\ TypeOK /\ PhaseInv /\ [Next]_vars => VerdictInv'
  <2> SUFFICES ASSUME VerdictInv, TypeOK, PhaseInv, [Next]_vars PROVE VerdictInv'
    OBVIOUS
  <2>1. CASE Start
    <3>1. CASE RaiseUnknownPlatform \/ EnterPhaseLoop
      BY <3>1, VerdictUnchanged
         DEF RaiseUnknownPlatform, EnterPhaseLoop, input, progress, report
    <3>2. ASSUME NEW success, NEW results, Return(success, results), ~Runnable PROVE VerdictInv'
      BY <3>2, VerdictUnchanged DEF Return, input, report
    <3> QED
      BY <2>1, <3>1, <3>2 DEF Start, ReturnNoPlatform, ReturnPlatformSkipped, ReturnNoSteps,
                              ReturnNothingToAssert, ReturnUnknownStepPhase, Runnable, PlatformKnown
  <2>2. CASE PassOverPhase
    BY <2>2, VerdictUnchanged DEF PassOverPhase, AtPhase, input, progress, report, BadSession
  <2>3. CASE SkipPhase
    <3>1. SkippedResult(CurrentPhase).exit = NotRun
      BY DEF SkippedResult
    <3>2. BadSession' <=> BadSession
      BY <2>3, <3>1 DEF SkipPhase, BadSession, NotRun
    <3> QED
      BY <2>3, <3>2, VerdictUnchanged DEF SkipPhase, AtPhase, input
  <2>4. CASE BeginPhase
    <3>1. /\ pc = "phase" /\ pc' = "steps" /\ stepsOk' = TRUE
          /\ UNCHANGED <<config, args, overallSuccess, resolved, stepState, phaseResults>>
      BY <2>4 DEF BeginPhase, AtPhase, input, progress
    <3>2. Trouble' <=> Trouble
      BY <3>1, StaticUnchanged DEF Trouble, BadStep, BadEntry, BadSession, Bad
    <3> QED
      BY <3>1, <3>2 DEF VerdictInv, InPhase, Completed
  <2>5. CASE SkipStep \/ FailBeforeStart
    BY <2>5, StepVerdict DEF SkipStep, FailBeforeStart, StepState, input, progress
  <2>6. CASE StartCommand \/ FinishSteps
    BY <2>6, VerdictUnchanged DEF StartCommand, FinishSteps, input, progress, report
  <2>7. CASE CommandEnds
    <3>1. PICK exitOk, hasOutput, schemaValid \in BOOLEAN :
             CommandReturns(exitOk, hasOutput, schemaValid)
      BY <2>7 DEF CommandEnds
    <3> DEFINE state == IF exitOk /\ schemaValid THEN "passed" ELSE "failed"
    <3>2. state \in StepState \ {"none"} /\ FinishStep(CurrentStep, state)
      BY <3>1 DEF CommandReturns, StepState
    <3>3. /\ pc = "running" /\ todo # {}
          /\ UNCHANGED <<config, args, phaseIx, overallSuccess, resolved, phaseResults>>
      BY <3>1 DEF CommandReturns, TypeOK, input
    <3> HIDE DEF state
    <3> QED
      BY <3>2, <3>3, StepVerdict
  <2>8. CASE CommandTimesOut
    BY <2>8, StepVerdict DEF CommandTimesOut, TypeOK, StepState, input, progress
  <2>9. CASE Validate
    <3>1. CASE ResolveOnly
      <4> DEFINE outcome == [i \in PhaseEntries |-> Resolve(i)]
      <4>1. \A i \in PhaseEntries : outcome[i] \in Terminal
        BY <3>1, ResolutionTypes DEF ResolveOnly, ReadyEntries, Resolve
      <4>2. pc = "validate" /\ DOMAIN outcome = PhaseEntries /\ EndPhase(outcome, NotRun)
        BY <3>1 DEF ResolveOnly
      <4> HIDE DEF outcome
      <4> QED
        BY <4>1, <4>2, PhaseVerdict
    <3>2. ASSUME ReadyEntries # {}, NEW s \in PytestSession(ReadyEntries), RunValidations(s)
          PROVE  VerdictInv'
      <4> DEFINE outcome == [i \in PhaseEntries |->
                     IF i \in ReadyEntries THEN AppliedResult(s.test[i]) ELSE Resolve(i)]
      <4>1. s.exit \in PytestExit /\ s.test \in [ReadyEntries -> TestResult]
        BY <3>2 DEF PytestSession
      <4>2. \A i \in PhaseEntries : outcome[i] \in Terminal
        <5>1. \A i \in ReadyEntries : AppliedResult(s.test[i]) \in Terminal
          BY <4>1, OutcomeTypes
        <5>2. \A i \in PhaseEntries \ ReadyEntries : Resolve(i) \in Terminal
          BY ResolutionTypes DEF ReadyEntries, Resolve
        <5> QED
          BY <5>1, <5>2
      <4>3. pc = "validate" /\ DOMAIN outcome = PhaseEntries /\ EndPhase(outcome, s.exit)
        BY <3>2 DEF RunValidations
      <4>4. PhaseEntries # {}
        BY <3>2 DEF ReadyEntries
      <4> HIDE DEF outcome
      <4> QED
        BY <4>1, <4>2, <4>3, <4>4, PhaseVerdict
    <3> QED
      BY <2>9, <3>1, <3>2 DEF Validate
  <2>10. CASE Conclude
    BY <2>10, FinalVerdict
  <2>11. CASE Interrupt
    BY <2>11, VerdictUnchanged DEF Interrupt, input, progress, report
  <2>12. CASE UNCHANGED vars
    BY <2>12, VerdictUnchanged DEF vars
  <2> QED
    BY <2>1, <2>2, <2>3, <2>4, <2>5, <2>6, <2>7, <2>8, <2>9, <2>10, <2>11, <2>12
       DEF Next, Proceed, TakeStep, TakePhase
<1> QED
  BY <1>1, <1>2, OrchestratorTypeCorrect, PhaseInvariant, PTL DEF Spec

(* A completed run is a failure if and only if a step failed, a validation *)
(* failed or errored, or a pytest session ended badly, in any              *)
(* configuration and under any arguments.                                  *)
THEOREM VerdictIsExact == Spec => []VerdictExact
<1>1. VerdictInv => VerdictExact
  BY DEF VerdictInv, VerdictExact, Trouble, BadStep, BadEntry, BadSession
<1> QED
  BY <1>1, VerdictInvariant, PTL
================================================================================
