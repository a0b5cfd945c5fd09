---------------------------- MODULE PhaseLoopProofs ----------------------------
(***************************************************************************)
(* The phase loop of Orchestrator, for every configuration: steps stop at  *)
(* a failure, nothing runs after one outside teardown, every run is a      *)
(* Lifecycle, and teardown survives every failure.                         *)
(***************************************************************************)
EXTENDS OrchestratorProofs

(* The run is inside a phase.                                              *)
InPhase == pc \in {"steps", "running", "validate"}

(* The phase loop has not ended.                                           *)
Looping == InPhase \/ pc = "phase"

(* Nothing has happened before the loop.                                   *)
BeforeLoop ==
    pc = "start" =>
        /\ phaseIx = 1 /\ overallSuccess /\ ~setupStepsRan
        /\ \A p \in PhaseNames : phaseState[p] = "pending"

(* The loop is at phaseIx: later phases are untouched, earlier ones that   *)
(* were requested had their turn, and only the current one is active.  A   *)
(* phase entered after a failure is teardown.                              *)
LoopPosition ==
    /\ Looping =>
          \A k \in DOMAIN ConfigPhases :
              /\ k > phaseIx \/ (k = phaseIx /\ ~InPhase) => phaseState[ConfigPhases[k]] = "pending"
              /\ k < phaseIx /\ Requested(ConfigPhases[k]) => phaseState[ConfigPhases[k]] # "pending"
    /\ InPhase => /\ phaseState[CurrentPhase] = "active"
                  /\ ~overallSuccess => IsTeardown
    /\ \A p \in PhaseNames :
          phaseState[p] = "active" => pc = "raised" \/ (InPhase /\ p = CurrentPhase)

(* Only steps of phases that began have been taken; in the current phase   *)
(* they are the ones before those left, and none of them broke the phase   *)
(* off.                                                                    *)
StepPosition ==
    /\ \A i \in StepIxs : Attempted(i) => phaseState[config.steps[i].phase] # "pending"
    /\ pc \in {"steps", "running"} =>
          /\ todo \subseteq StepsOf(CurrentPhase)
          /\ \A j \in todo :
                /\ ~Attempted(j)
                /\ \A i \in StepsOf(CurrentPhase) \ todo :
                      /\ i < j /\ Attempted(i)
                      /\ Bad(i) => config.steps[i].continue_on_failure \/ IsTeardown

(* The inductive invariant of the phase loop.                              *)
PhaseInv ==
    /\ BeforeLoop
    /\ LoopPosition
    /\ StepPosition
    /\ StepsStopAtFailure

--------------------------------------------------------------------------------
(* Taking a step keeps the steps in order.                                 *)
LEMMA StepTaken ==
    ASSUME TypeOK, PhaseInv, pc \in {"steps", "running"}, todo # {},
           NEW state \in StepState \ {"none"}, FinishStep(CurrentStep, state),
           UNCHANGED <<config, args, phaseIx, overallSuccess, setupStepsRan, phaseState>>
    PROVE  PhaseInv'
<1> DEFINE c == CurrentStep
<1>1. /\ c \in todo /\ \A j \in todo : c <= j
      /\ todo \subseteq StepsOf(CurrentPhase)
  BY CurrentStepType DEF TypeOK, PhaseInv, StepPosition
<1>2. StepIxs \subseteq Nat /\ StepsOf(CurrentPhase) \subseteq StepIxs
  BY ConfigTypes DEF TypeOK, StepsOf
<1>3. /\ StepIxs' = StepIxs /\ ConfigPhases' = ConfigPhases
      /\ CurrentPhase' = CurrentPhase /\ IsTeardown' = IsTeardown
      /\ \A p : Requested(p)' = Requested(p)
      /\ StepsOf(CurrentPhase)' = StepsOf(CurrentPhase)
  <2>1. CurrentPhase' = CurrentPhase
    BY StaticUnchanged DEF CurrentPhase
  <2> QED
    BY <2>1, StaticUnchanged DEF IsTeardown, StepsOf
<1>4. /\ pc' = "steps"
      /\ stepState' = [stepState EXCEPT ![config.steps[c].name] = state]
      /\ todo' = IF Breaks(c, state \in {"skipped", "passed"}) THEN {} ELSE todo \ {c}
  BY DEF FinishStep
<1>5. \A i \in StepIxs :
         stepState'[config.steps[i].name] = IF i = c THEN state ELSE stepState[config.steps[i].name]
  <2>1. \A i, j \in StepIxs : config.steps[i].name = config.steps[j].name => i = j
    BY DEF TypeOK, UniqueNames, StepIxs
  <2>2. \A i \in StepIxs : config.steps[i].name \in StepNames
    BY ConfigTypes DEF TypeOK, StepConfig
  <2> QED
    BY <1>1, <1>2, <1>4, <2>1, <2>2 DEF TypeOK
<1> HIDE DEF c
<1>6. \A i \in StepIxs :
         /\ Attempted(i)' <=> i = c \/ Attempted(i)
         /\ i # c => (Bad(i)' <=> Bad(i))
         /\ i = c => (Bad(i)' <=> state \notin {"skipped", "passed"})
  BY <1>5 DEF Attempted, Bad, StepState
<1>7. BeforeLoop' /\ LoopPosition'
  BY <1>3, <1>4 DEF PhaseInv, BeforeLoop, LoopPosition, Looping, InPhase
<1>8. \A j \in todo : ~Attempted(j)
  BY DEF PhaseInv, StepPosition
<1>9. \A i \in StepsOf(CurrentPhase) \ todo, j \in todo :
         /\ i < j /\ Attempted(i)
         /\ Bad(i) => config.steps[i].continue_on_failure \/ IsTeardown
  BY DEF PhaseInv, StepPosition
<1>10. CurrentPhase \in PhaseNames /\ phaseState[CurrentPhase] = "active"
  BY ConfigTypes DEF TypeOK, PhaseInv, LoopPosition, InPhase, CurrentPhase
<1>11. StepPosition'
  <2>1. \A i \in StepIxs : Attempted(i)' => phaseState[config.steps[i].phase] # "pending"
    BY <1>1, <1>6, <1>10 DEF StepsOf, PhaseInv, StepPosition
  <2>2. ASSUME NEW j \in todo', NEW i \in StepsOf(CurrentPhase) \ todo'
        PROVE  /\ ~Attempted(j)'
               /\ i < j /\ Attempted(i)'
               /\ Bad(i)' => config.steps[i].continue_on_failure \/ IsTeardown
    <3>1. ~Breaks(c, state \in {"skipped", "passed"}) /\ todo' = todo \ {c}
      BY <1>4
    <3>2. j \in todo /\ j # c /\ j \in StepIxs /\ i \in StepIxs /\ c < j
      <4>1. j \in todo /\ j # c
        BY <3>1
      <4>2. c \in Nat /\ j \in Nat /\ j \in StepIxs /\ i \in StepIxs
        BY <1>1, <1>2, <4>1
      <4> QED
        BY <1>1, <4>1, <4>2
    <3>3. CASE i = c
      BY <1>6, <1>8, <3>1, <3>2, <3>3 DEF Breaks
    <3>4. CASE i # c
      BY <1>6, <1>8, <1>9, <3>1, <3>2, <3>4
    <3> QED
      BY <3>3, <3>4
  <2>3. \A j \in todo' : ~Attempted(j)'
    BY <1>1, <1>2, <1>4, <1>6, <1>8
  <2> QED
    BY <1>1, <1>3, <1>4, <2>1, <2>2, <2>3 DEF StepPosition
<1>12. StepsStopAtFailure'
  <2> SUFFICES ASSUME NEW i \in StepIxs, NEW j \in StepIxs,
                      i < j, config.steps[i].phase = config.steps[j].phase, Attempted(j)'
               PROVE  /\ Attempted(i)'
                      /\ Bad(i)' => \/ config.steps[i].continue_on_failure
                                    \/ config.steps[i].phase = "teardown"
    BY <1>3 DEF StepsStopAtFailure
  <2>1. CASE j = c
    <3>1. i \in StepsOf(CurrentPhase) /\ i \notin todo /\ i # c
      BY <1>1, <1>2, <2>1 DEF StepsOf
    <3> QED
      BY <1>1, <1>6, <1>9, <2>1, <3>1 DEF StepsOf, IsTeardown
  <2>2. CASE j # c
    <3>1. Attempted(j) /\ Attempted(i) /\ i # c
      BY <1>1, <1>6, <1>8, <2>2 DEF PhaseInv, StepsStopAtFailure
    <3> QED
      BY <1>6, <3>1 DEF PhaseInv, StepsStopAtFailure
  <2> QED
    BY <2>1, <2>2
<1> QED
  BY <1>7, <1>11, <1>12 DEF PhaseInv

--------------------------------------------------------------------------------
(* A configuration lists each phase once.                                  *)
LEMMA PhasesDistinct ==
    ASSUME TypeOK
    PROVE  \A k, l \in DOMAIN ConfigPhases : ConfigPhases[k] = ConfigPhases[l] => k = l
<1>1. \A k, l \in DOMAIN config.phases : config.phases[k] = config.phases[l] => k = l
  BY DEF TypeOK, UniqueNames
<1>2. DOMAIN <<"test">> = {1}
  OBVIOUS
<1> QED
  BY <1>1, <1>2 DEF ConfigPhases

(* Passing a phase by, entering it or leaving it.                          *)
LEMMA PhaseTaken ==
    ASSUME TypeOK, PhaseInv, TakePhase \/ Validate
    PROVE  PhaseInv'
<1>1. config' = config /\ args' = args /\ stepState' = stepState
  BY DEF TakePhase, PassOverPhase, SkipPhase, BeginPhase, Validate, RunValidations, ResolveOnly,
         EndPhase, input, report
<1>2. /\ StepIxs' = StepIxs /\ ConfigPhases' = ConfigPhases
      /\ \A p : Requested(p)' = Requested(p)
      /\ \A p : StepsOf(p)' = StepsOf(p)
  BY <1>1, StaticUnchanged
<1>3. \A i : (Attempted(i)' <=> Attempted(i)) /\ (Bad(i)' <=> Bad(i))
  BY <1>1 DEF Attempted, Bad
<1>4. StepsStopAtFailure'
  BY <1>1, <1>2, <1>3 DEF PhaseInv, StepsStopAtFailure
<1>5. phaseIx \in DOMAIN ConfigPhases /\ CurrentPhase \in PhaseNames /\ phaseIx \in Nat
  <2>1. phaseIx \in DOMAIN ConfigPhases
    BY DEF TypeOK, TakePhase, PassOverPhase, SkipPhase, BeginPhase, AtPhase, Validate
  <2> QED
    BY <2>1, ConfigTypes DEF TypeOK, CurrentPhase
<1>6. /\ \A k \in DOMAIN ConfigPhases : k \in Nat /\ ConfigPhases[k] \in PhaseNames
      /\ \A k \in DOMAIN ConfigPhases : ConfigPhases[k] = CurrentPhase => k = phaseIx
  BY <1>5, ConfigTypes, PhasesDistinct DEF TypeOK, CurrentPhase
<1>7. \A i \in StepIxs : config.steps[i].phase \in PhaseNames
  BY ConfigTypes DEF TypeOK, StepConfig
<1>8. CASE PassOverPhase
  <2>1. /\ pc = "phase" /\ pc' = "phase" /\ phaseIx' = phaseIx + 1
        /\ phaseState' = phaseState /\ ~Requested(CurrentPhase)
    BY <1>8 DEF PassOverPhase, AtPhase, report
  <2>2. LoopPosition'
    BY <1>2, <1>5, <1>6, <2>1 DEF PhaseInv, LoopPosition, Looping, InPhase, CurrentPhase
  <2>3. BeforeLoop' /\ StepPosition'
    BY <1>1, <1>2, <1>3, <2>1 DEF PhaseInv, BeforeLoop, StepPosition
  <2> QED
    BY <1>4, <2>2, <2>3 DEF PhaseInv
<1>9. CASE SkipPhase
  <2>1. /\ pc = "phase" /\ pc' = "phase" /\ phaseIx' = phaseIx + 1
        /\ phaseState' = [phaseState EXCEPT ![CurrentPhase] = "skipped"]
    BY <1>9 DEF SkipPhase, AtPhase
  <2>2. \A p \in PhaseNames :
           phaseState'[p] = IF p = CurrentPhase THEN "skipped" ELSE phaseState[p]
    BY <2>1 DEF TypeOK
  <2>3. LoopPosition'
    BY <1>2, <1>5, <1>6, <2>1, <2>2 DEF PhaseInv, LoopPosition, Looping, InPhase, CurrentPhase
  <2>4. BeforeLoop' /\ StepPosition'
    BY <1>1, <1>2, <1>3, <1>7, <2>1, <2>2 DEF PhaseInv, BeforeLoop, StepPosition
  <2> QED
    BY <1>4, <2>3, <2>4 DEF PhaseInv
<1>10. CASE BeginPhase
  <2>1. /\ pc = "phase" /\ pc' = "steps" /\ phaseIx' = phaseIx
        /\ phaseState' = [phaseState EXCEPT ![CurrentPhase] = "active"]
        /\ todo' = StepsOf(CurrentPhase)
        /\ overallSuccess' = overallSuccess
        /\ ~overallSuccess => IsTeardown
    BY <1>10 DEF BeginPhase, AtPhase, SkipsPhase, progress
  <2>2. /\ \A p \in PhaseNames :
              phaseState'[p] = IF p = CurrentPhase THEN "active" ELSE phaseState[p]
        /\ phaseState[CurrentPhase] = "pending"
    BY <1>5, <2>1 DEF TypeOK, PhaseInv, LoopPosition, Looping, InPhase, CurrentPhase
  <2>3. CurrentPhase' = CurrentPhase /\ IsTeardown' = IsTeardown
    BY <1>2, <2>1 DEF CurrentPhase, IsTeardown
  <2>4. LoopPosition'
    BY <1>2, <1>5, <1>6, <2>1, <2>2, <2>3 DEF PhaseInv, LoopPosition, Looping, InPhase
  <2>5. BeforeLoop'
    BY <2>1 DEF BeforeLoop
  <2>6. \A i \in StepsOf(CurrentPhase) : ~Attempted(i)
    BY <2>2 DEF PhaseInv, StepPosition, StepsOf
  <2>7. StepPosition'
    BY <1>1, <1>2, <1>3, <1>7, <2>1, <2>2, <2>3, <2>6 DEF PhaseInv, StepPosition
  <2> QED
    BY <1>4, <2>4, <2>5, <2>7 DEF PhaseInv
<1>11. CASE Validate
  <2>1. /\ pc = "validate" /\ pc' = "phase" /\ phaseIx' = phaseIx + 1
        /\ phaseState' = [phaseState EXCEPT ![CurrentPhase] = "done"]
    BY <1>11 DEF Validate, RunValidations, ResolveOnly, EndPhase
  <2>2. \A p \in PhaseNames :
           phaseState'[p] = IF p = CurrentPhase THEN "done" ELSE phaseState[p]
    BY <2>1 DEF TypeOK
  <2>3. LoopPosition'
    BY <1>2, <1>5, <1>6, <2>1, <2>2 DEF PhaseInv, LoopPosition, Looping, InPhase, CurrentPhase
  <2>4. BeforeLoop' /\ StepPosition'
    BY <1>1, <1>2, <1>3, <1>7, <2>1, <2>2 DEF PhaseInv, BeforeLoop, StepPosition
  <2> QED
    BY <1>4, <2>3, <2>4 DEF PhaseInv
<1> QED
  BY <1>8, <1>9, <1>10, <1>11 DEF TakePhase

(* Steps of the run that leave the phases and the steps as they are.       *)
LEMMA PositionUnchanged ==
    ASSUME TypeOK, PhaseInv,
           UNCHANGED <<config, args, phaseIx, todo, stepState, phaseState>>,
           \/ pc' = pc /\ UNCHANGED <<overallSuccess, setupStepsRan>>
           \/ pc = "steps" /\ pc' \in {"running", "validate"} /\ UNCHANGED overallSuccess
           \/ pc = "start" /\ pc' = "phase"
           \/ pc' = "raised"
           \/ pc \in {"start", "phase"} /\ pc' = "done"
    PROVE  PhaseInv'
<1>1. /\ StepIxs' = StepIxs /\ ConfigPhases' = ConfigPhases
      /\ \A p : Requested(p)' = Requested(p)
      /\ \A p : StepsOf(p)' = StepsOf(p)
  BY StaticUnchanged
<1>2. CurrentPhase' = CurrentPhase /\ IsTeardown' = IsTeardown
  BY <1>1 DEF CurrentPhase, IsTeardown
<1>3. \A i : (Attempted(i)' <=> Attempted(i)) /\ (Bad(i)' <=> Bad(i))
  BY DEF Attempted, Bad
<1>4. \A k \in DOMAIN ConfigPhases : k \in Nat /\ k >= 1 /\ ConfigPhases[k] \in PhaseNames
  BY ConfigTypes DEF TypeOK
<1>5. BeforeLoop'
  BY DEF PhaseInv, BeforeLoop
<1>6. LoopPosition'
  BY <1>1, <1>2, <1>4 DEF PhaseInv, BeforeLoop, LoopPosition, Looping, InPhase
<1>7. StepPosition' /\ StepsStopAtFailure'
  BY <1>1, <1>2, <1>3 DEF PhaseInv, StepPosition, StepsStopAtFailure
<1> QED
  BY <1>5, <1>6, <1>7 DEF PhaseInv

--------------------------------------------------------------------------------
(* PhaseInv holds of every run.                                            *)
THEOREM PhaseInvariant == Spec => []PhaseInv
<1>1. Init => PhaseInv
  <2> SUFFICES ASSUME Init PROVE PhaseInv
    OBVIOUS
  <2>1. /\ pc = "start" /\ phaseIx = 1 /\ overallSuccess /\ ~setupStepsRan
        /\ stepState = [s \in StepNames |-> "none"]
        /\ phaseState = [p \in PhaseNames |-> "pending"]
    BY DEF Init
  <2>2. config \in RunConfig
    BY OrchestratorAssumption DEF Init
  <2>3. \A i \in StepIxs : ~Attempted(i)
    BY <2>1, <2>2, ConfigTypes DEF Attempted, StepConfig
  <2>4. BeforeLoop /\ LoopPosition
    BY <2>1 DEF BeforeLoop, LoopPosition, Looping, InPhase
  <2>5. StepPosition /\ StepsStopAtFailure
    BY <2>1, <2>3 DEF StepPosition, StepsStopAtFailure
  <2> QED
    BY <2>4, <2>5 DEF PhaseInv
<1>2. PhaseInv /\ TypeOK /\ [Next]_vars => PhaseInv'
  <2> SUFFICES ASSUME PhaseInv, TypeOK, [Next]_vars PROVE PhaseInv'
    OBVIOUS
  <2>1. CASE Start
    <3>1. ASSUME NEW success, NEW results, Return(success, results) PROVE PhaseInv'
      BY <3>1, PositionUnchanged DEF Return, input, report
    <3>2. CASE RaiseUnknownPlatform \/ EnterPhaseLoop
      BY <3>2, PositionUnchanged DEF RaiseUnknownPlatform, EnterPhaseLoop, input, report
    <3> QED
      BY <2>1, <3>1, <3>2 DEF Start, ReturnNoPlatform, ReturnPlatformSkipped, ReturnNoSteps,
                              ReturnNothingToAssert, ReturnUnknownStepPhase
  <2>2. CASE TakePhase \/ Validate
    BY <2>2, PhaseTaken
  <2>3. CASE SkipStep \/ FailBeforeStart
    BY <2>3, StepTaken DEF SkipStep, FailBeforeStart, StepState, input, progress
  <2>4. CASE StartCommand \/ FinishSteps
    BY <2>4, PositionUnchanged DEF StartCommand, FinishSteps, input, progress, report
  <2>5. CASE CommandEnds
    <3>1. PICK exitOk, hasOutput, schemaValid \in BOOLEAN :
             CommandReturns(exitOk, hasOutput, schemaValid)
      BY <2>5 DEF CommandEnds
    <3> DEFINE state == IF exitOk /\ schemaValid THEN "passed" ELSE "failed"
    <3>2. state \in StepState \ {"none"} /\ FinishStep(CurrentStep, state)
      BY <3>1 DEF CommandReturns, StepState
    <3>3. /\ pc = "running" /\ todo # {}
          /\ UNCHANGED <<config, args, phaseIx, overallSuccess, setupStepsRan, phaseState>>
      BY <3>1 DEF CommandReturns, TypeOK, input
    <3> HIDE DEF state
    <3> QED
      BY <3>2, <3>3, StepTaken
  <2>6. CASE CommandTimesOut
    BY <2>6, StepTaken DEF CommandTimesOut, TypeOK, StepState, input, progress
  <2>7. CASE Conclude
    BY <2>7, PositionUnchanged DEF Conclude, input
  <2>8. CASE Interrupt
    BY <2>8, PositionUnchanged DEF Interrupt, input, report
  <2>9. CASE UNCHANGED vars
    BY <2>9, PositionUnchanged DEF vars
  <2> QED
    BY <2>1, <2>2, <2>3, <2>4, <2>5, <2>6, <2>7, <2>8, <2>9 DEF Next, Proceed, TakeStep
<1> QED
  BY <1>1, <1>2, OrchestratorTypeCorrect, PTL DEF Spec

(* In every run steps are taken in configuration order and a failed step   *)
(* ends its phase, unless it is continue_on_failure or belongs to          *)
(* teardown.                                                               *)
THEOREM StepsStop == Spec => []StepsStopAtFailure
<1>1. PhaseInv => StepsStopAtFailure
  BY DEF PhaseInv
<1> QED
  BY <1>1, PhaseInvariant, PTL

(* Once a phase has failed, no step is taken and no validation executed    *)
(* outside teardown, in any configuration.                                 *)
THEOREM NothingRunsAfterFailure == Spec => NoWorkAfterFailure
<1> DEFINE Quiet ==
        ~overallSuccess =>
            /\ \A i \in StepIxs :
                  stepState'[config.steps[i].name] # stepState[config.steps[i].name]
                      => config.steps[i].phase = "teardown"
            /\ \A i \in EntryIxs :
                  resolved'[i] # resolved[i] /\ Executed(resolved'[i]) => EntryPhase(i) = "teardown"
<1>1. TypeOK /\ PhaseInv /\ [Next]_vars => [Quiet]_vars
  <2> SUFFICES ASSUME TypeOK, PhaseInv, [Next]_vars, ~overallSuccess PROVE Quiet
    OBVIOUS
  <2>1. ASSUME UNCHANGED <<stepState, resolved>> PROVE Quiet
    BY <2>1
  <2>2. InPhase => IsTeardown
    BY DEF PhaseInv, LoopPosition
  <2>3. ASSUME pc \in {"steps", "running"}, todo # {}, UNCHANGED resolved,
               NEW state, FinishStep(CurrentStep, state)
        PROVE  Quiet
    <3>1. CurrentStep \in StepsOf("teardown")
      BY <2>2, <2>3, CurrentStepType DEF InPhase, IsTeardown, TypeOK, PhaseInv, StepPosition
    <3>2. ASSUME NEW i \in StepIxs,
                 stepState'[config.steps[i].name] # stepState[config.steps[i].name]
          PROVE  i = CurrentStep
      <4>1. config.steps[i].name \in StepNames
        BY ConfigTypes DEF TypeOK, StepConfig
      <4>2. config.steps[i].name = config.steps[CurrentStep].name
        BY <2>3, <3>2, <4>1 DEF FinishStep, TypeOK
      <4> QED
        BY <3>1, <4>2 DEF TypeOK, UniqueNames, StepIxs, StepsOf
    <3> QED
      BY <2>3, <3>1, <3>2 DEF StepsOf
  <2>4. CASE Start
    BY <2>1, <2>4 DEF Start, ReturnNoPlatform, RaiseUnknownPlatform, ReturnPlatformSkipped,
       ReturnNoSteps, ReturnNothingToAssert, ReturnUnknownStepPhase, EnterPhaseLoop, Return,
       progress, report
  <2>5. CASE TakePhase
    BY <2>1, <2>5 DEF TakePhase, PassOverPhase, SkipPhase, BeginPhase, progress, report
  <2>6. CASE SkipStep \/ FailBeforeStart
    BY <2>3, <2>6 DEF SkipStep, FailBeforeStart, progress
  <2>7. CASE StartCommand \/ FinishSteps \/ Interrupt
    BY <2>1, <2>7 DEF StartCommand, FinishSteps, Interrupt, progress, report
  <2>8. CASE CommandEnds \/ CommandTimesOut
    BY <2>3, <2>8 DEF CommandEnds, CommandReturns, CommandTimesOut, TypeOK, progress
  <2>9. CASE Validate
    <3>1. /\ stepState' = stepState
          /\ \A i \in EntryIxs \ PhaseEntries : resolved'[i] = resolved[i]
          /\ IsTeardown
      BY <2>2, <2>9 DEF Validate, RunValidations, ResolveOnly, EndPhase, InPhase
    <3> QED
      BY <3>1 DEF PhaseEntries, IsTeardown
  <2>10. CASE Conclude
    <3>1. /\ stepState' = stepState
          /\ \A i \in EntryIxs :
                resolved'[i] # resolved[i] => resolved'[i] = Terminalize(Resolve(i))
      BY <2>10 DEF Conclude
    <3>2. \A i \in EntryIxs : ~Executed(Terminalize(Resolve(i)))
      BY ResolutionTypes
         DEF Terminalize, Resolve, Executed, Skip, Error, Passed, Failed
    <3> QED
      BY <3>1, <3>2
  <2>11. CASE UNCHANGED vars
    BY <2>1, <2>11 DEF vars
  <2> QED
    BY <2>4, <2>5, <2>6, <2>7, <2>8, <2>9, <2>10, <2>11 DEF Next, Proceed, TakeStep
<1> QED
  BY <1>1, OrchestratorTypeCorrect, PhaseInvariant, PTL DEF Spec, NoWorkAfterFailure

--------------------------------------------------------------------------------
(* Every run of the orchestrator, seen phase by phase, is a run of         *)
(* Lifecycle: phases one at a time, teardown left out only for one of its  *)
(* two reasons, success only if nothing failed.                            *)
THEOREM RunsAreLifecycles == Spec => ImplementsLifecycle
<1>1. Init => LC!Init
  <2> SUFFICES ASSUME Init PROVE LC!Init
    OBVIOUS
  <2>1. config \in RunConfig /\ args \in RunArguments
    BY OrchestratorAssumption DEF Init
  <2>2. ConfigPhaseSet \subseteq PhaseNames /\ args.teardown_on_failure \in BOOLEAN
    BY <2>1, ConfigTypes DEF RunArguments
  <2> QED
    BY <2>2 DEF LC!Init, LC!Plan, Init, LifecycleOutcome
<1>2. TypeOK /\ PhaseInv /\ [Next]_vars => [LC!Next]_(LC!vars)
  <2> SUFFICES ASSUME TypeOK, PhaseInv, [Next]_vars
               PROVE  LC!Next \/ UNCHANGED LC!vars
    BY DEF LC!vars
  <2>1. config' = config /\ args' = args
    BY InputUnchanged
  <2>2. /\ ConfigPhaseSet' = ConfigPhaseSet
        /\ \A p : Requested(p)' = Requested(p)
    BY <2>1, StaticUnchanged
  <2> DEFINE plan == [configured |-> ConfigPhaseSet,
                      requested  |-> {p \in PhaseNames : Requested(p)},
                      cleanup    |-> args.teardown_on_failure]
  <2>3. plan' = plan
    BY <2>1, <2>2
  <2>4. CASE Start
    <3>1. pc = "start" /\ \A p \in PhaseNames : phaseState[p] = "pending"
      BY <2>4 DEF Start, ReturnNoPlatform, RaiseUnknownPlatform, ReturnPlatformSkipped,
         ReturnNoSteps, ReturnNothingToAssert, ReturnUnknownStepPhase, EnterPhaseLoop, Return,
         PhaseInv, BeforeLoop
    <3>2. ASSUME NEW success, NEW results, Return(success, results) PROVE LC!Refuse
      BY <2>3, <3>1, <3>2 DEF Return, LC!Refuse, LifecycleOutcome, report
    <3>3. CASE RaiseUnknownPlatform
      BY <2>3, <3>1, <3>3
         DEF RaiseUnknownPlatform, LC!Next, LC!Abort, LifecycleOutcome, progress, report
    <3>4. CASE EnterPhaseLoop
      BY <2>3, <3>1, <3>4 DEF EnterPhaseLoop, LC!vars, LifecycleOutcome, progress, report
    <3> QED
      BY <2>4, <3>2, <3>3, <3>4 DEF Start, ReturnNoPlatform, ReturnPlatformSkipped, ReturnNoSteps,
         ReturnNothingToAssert, ReturnUnknownStepPhase, LC!Next
  <2>5. CASE TakePhase
    <3>1. /\ pc = "phase" /\ phaseIx \in DOMAIN ConfigPhases
          /\ CurrentPhase \in PhaseNames /\ CurrentPhase \in ConfigPhaseSet
      BY <2>5, ConfigTypes DEF TakePhase, PassOverPhase, SkipPhase, BeginPhase, AtPhase, TypeOK,
         CurrentPhase, ConfigPhaseSet
    <3>2. LC!Idle /\ phaseState[CurrentPhase] = "pending"
      BY <3>1 DEF LC!Idle, LifecycleOutcome, PhaseInv, LoopPosition, Looping, InPhase, CurrentPhase
    <3>3. Requested(CurrentPhase) => LC!Due(CurrentPhase)
      BY <3>1, <3>2 DEF LC!Due
    <3>4. SkipsPhase <=> LC!MaySkip(CurrentPhase)
      BY ResolutionAssumption DEF SkipsPhase, LC!MaySkip, IsTeardown
    <3>5. CASE PassOverPhase
      BY <2>3, <3>5 DEF PassOverPhase, LC!vars, LifecycleOutcome, progress, report
    <3>6. CASE SkipPhase
      BY <2>3, <3>1, <3>2, <3>3, <3>4, <3>6 DEF SkipPhase, LC!Next, LC!Skip, LifecycleOutcome
    <3>7. CASE BeginPhase
      BY <2>3, <3>1, <3>2, <3>3, <3>4, <3>7
         DEF BeginPhase, LC!Next, LC!Begin, LifecycleOutcome, progress
    <3> QED
      BY <2>5, <3>5, <3>6, <3>7 DEF TakePhase
  <2>6. CASE SkipStep \/ FailBeforeStart \/ StartCommand \/ CommandEnds \/ CommandTimesOut
    BY <2>3, <2>6 DEF SkipStep, FailBeforeStart, StartCommand, CommandEnds, CommandReturns,
       CommandTimesOut, FinishStep, LC!vars, LifecycleOutcome, progress, report
  <2>7. CASE FinishSteps
    <3>1. CurrentPhase \in PhaseNames /\ phaseState[CurrentPhase] = "active"
      BY <2>7, ConfigTypes
         DEF FinishSteps, TypeOK, PhaseInv, LoopPosition, InPhase, CurrentPhase
    <3>2. CASE setupStepsRan' = setupStepsRan
      BY <2>3, <2>7, <3>2 DEF FinishSteps, LC!vars, LifecycleOutcome, report
    <3>3. CASE setupStepsRan' # setupStepsRan
      <4>1. setupStepsRan' = TRUE /\ CurrentPhase = "setup"
        BY <2>7, <3>3 DEF FinishSteps, TypeOK
      <4> QED
        BY <2>3, <2>7, <3>1, <4>1 DEF FinishSteps, LC!Next, LC!Create, LifecycleOutcome, report
    <3> QED
      BY <3>2, <3>3
  <2>8. CASE Validate
    <3>1. CurrentPhase \in PhaseNames /\ phaseState[CurrentPhase] = "active"
      BY <2>8, ConfigTypes DEF Validate, TypeOK, PhaseInv, LoopPosition, InPhase, CurrentPhase
    <3>2. /\ pc = "validate" /\ pc' = "phase"
          /\ phaseState' = [phaseState EXCEPT ![CurrentPhase] = "done"]
          /\ overallSuccess' \in {overallSuccess, FALSE}
          /\ setupStepsRan' = setupStepsRan
      BY <2>8 DEF Validate, RunValidations, ResolveOnly, EndPhase, TypeOK
    <3>3. LC!Finish(CurrentPhase)
      BY <2>3, <3>1, <3>2 DEF LC!Finish, LifecycleOutcome
    <3> QED
      BY <3>1, <3>3 DEF LC!Next
  <2>9. CASE Conclude
    <3>1. /\ pc = "phase" /\ pc' = "done" /\ phaseIx \notin DOMAIN ConfigPhases
          /\ overallSuccess' \in {overallSuccess, FALSE}
          /\ result' = IF overallSuccess' THEN "success" ELSE "failure"
          /\ UNCHANGED <<phaseState, setupStepsRan>>
      BY <2>9 DEF Conclude, TypeOK
    <3>2. \A k \in DOMAIN ConfigPhases :
             Requested(ConfigPhases[k]) => phaseState[ConfigPhases[k]] # "pending"
      <4>1. DOMAIN ConfigPhases = 1 .. Len(ConfigPhases) /\ Len(ConfigPhases) \in Nat
        BY ConfigTypes DEF TypeOK
      <4>2. \A k \in DOMAIN ConfigPhases : k < phaseIx
        BY <3>1, <4>1 DEF TypeOK
      <4> QED
        BY <3>1, <4>2 DEF PhaseInv, LoopPosition, Looping
    <3>3. LC!Idle /\ \A p \in PhaseNames : ~LC!Due(p)
      BY <3>1, <3>2 DEF LC!Idle, LC!Due, LifecycleOutcome, PhaseInv, LoopPosition, InPhase,
                        ConfigPhaseSet
    <3> QED
      BY <2>3, <3>1, <3>3 DEF LC!Next, LC!Conclude, LifecycleOutcome
  <2>10. CASE Interrupt
    BY <2>3, <2>10 DEF Interrupt, LC!Next, LC!Abort, LifecycleOutcome, progress, report
  <2>11. CASE UNCHANGED vars
    BY <2>3, <2>11 DEF vars, LC!vars, LifecycleOutcome
  <2> QED
    BY <2>4, <2>5, <2>6, <2>7, <2>8, <2>9, <2>10, <2>11 DEF Next, Proceed, TakeStep
<1> QED
  BY <1>1, <1>2, OrchestratorTypeCorrect, PhaseInvariant, PTL DEF Spec, ImplementsLifecycle, LC!Spec

-----------------------------------------------------------------------------
(* Only steps that are not skipped run a command, and only phases that     *)
(* began have steps that were attempted.                                   *)
CommandsRan ==
    /\ \A i \in StepIxs : Commanded(i) => ~StepSkipped(i)
    /\ pc = "running" => ~StepSkipped(CurrentStep)
    /\ \A i \in StepIxs : Attempted(i) => phaseState[config.steps[i].phase] \notin {"pending", "skipped"}

(* The best-effort loop of teardown leaves no step out.                    *)
TeardownTaken ==
    /\ pc = "validate" => todo = {}
    /\ InPhase /\ IsTeardown => \A i \in StepsOf("teardown") \ todo : Attempted(i)
    /\ phaseState["teardown"] = "done" => \A i \in StepsOf("teardown") : Attempted(i)

(* setup_steps_ran remembers a setup phase with live steps.                *)
SetupRemembered ==
    \/ phaseState["setup"] = "done"
    \/ pc = "validate" /\ CurrentPhase = "setup"
    => (LiveStepsOf("setup") # {} => setupStepsRan)

(* Teardown that is due is skipped only when setup was over before it and  *)
(* had run no command.                                                     *)
TeardownSkipped ==
    phaseState["teardown"] = "skipped" /\ TeardownDue =>
        /\ Requested("setup")
        /\ phaseState["setup"] \in {"done", "skipped"}
        /\ \A i \in StepsOf("setup") : ~Commanded(i)

(* A completed run gave teardown its turn.                                 *)
TeardownHadItsTurn ==
    Completed /\ Requested("teardown") /\ "teardown" \in ConfigPhaseSet =>
        phaseState["teardown"] \in {"done", "skipped"}

TeardownInv ==
    /\ CommandsRan
    /\ TeardownTaken
    /\ SetupRemembered
    /\ TeardownSkipped
    /\ TeardownHadItsTurn

--------------------------------------------------------------------------------
(* What teardown depends on is computed from the configuration and the     *)
(* arguments, and never changes.                                           *)
LEMMA TeardownStatic ==
    ASSUME config' = config, args' = args
    PROVE  /\ TeardownDue' = TeardownDue
           /\ \A i : StepSkipped(i)' = StepSkipped(i)
           /\ \A p : LiveStepsOf(p)' = LiveStepsOf(p)
<1>1. /\ ConfigPhases' = ConfigPhases /\ ConfigPhaseSet' = ConfigPhaseSet /\ EntryIxs' = EntryIxs
      /\ \A p : Requested(p)' = Requested(p)
      /\ \A p : StepsOf(p)' = StepsOf(p)
  BY StaticUnchanged
<1>2. TeardownDue' = TeardownDue
  BY <1>1 DEF TeardownDue, Before
<1>3. \A i : StepSkipped(i)' = StepSkipped(i)
  BY <1>1 DEF StepSkipped, GatedOff, BoundEntries
<1> QED
  BY <1>1, <1>2, <1>3 DEF LiveStepsOf

(* A step that is taken belongs to the active phase; the others keep what  *)
(* they have.                                                              *)
LEMMA TakenStep ==
    ASSUME TypeOK, PhaseInv, pc \in {"steps", "running"}, todo # {},
           NEW state, FinishStep(CurrentStep, state)
    PROVE  /\ CurrentStep \in StepIxs /\ CurrentStep \in StepsOf(CurrentPhase) /\ CurrentStep \in todo
           /\ config.steps[CurrentStep].phase = CurrentPhase
           /\ CurrentPhase \in PhaseNames /\ phaseState[CurrentPhase] = "active"
           /\ ~Attempted(CurrentStep)
           /\ \A i \in StepIxs :
                 stepState'[config.steps[i].name] =
                     IF i = CurrentStep THEN state ELSE stepState[config.steps[i].name]
<1>1. /\ CurrentStep \in todo /\ todo \subseteq StepsOf(CurrentPhase)
      /\ ~Attempted(CurrentStep)
  BY CurrentStepType DEF TypeOK, PhaseInv, StepPosition
<1>2. CurrentPhase \in PhaseNames /\ phaseState[CurrentPhase] = "active"
  BY ConfigTypes DEF TypeOK, PhaseInv, LoopPosition, InPhase, CurrentPhase
<1>3. \A i, j \in StepIxs : config.steps[i].name = config.steps[j].name => i = j
  BY DEF TypeOK, UniqueNames, StepIxs
<1>4. \A i \in StepIxs : config.steps[i].name \in StepNames
  BY ConfigTypes DEF TypeOK, StepConfig
<1>5. CurrentStep \in StepIxs /\ config.steps[CurrentStep].phase = CurrentPhase
  BY <1>1 DEF StepsOf
<1>6. stepState' = [stepState EXCEPT ![config.steps[CurrentStep].name] = state]
  BY DEF FinishStep
<1> QED
  BY <1>1, <1>2, <1>3, <1>4, <1>5, <1>6 DEF TypeOK

(* Taking a step keeps TeardownInv.                                        *)
LEMMA StepsTornDown ==
    ASSUME TypeOK, PhaseInv, TeardownInv, pc \in {"steps", "running"}, todo # {},
           NEW state \in StepState \ {"none"}, FinishStep(CurrentStep, state),
           state \in {"passed", "failed"} => ~StepSkipped(CurrentStep),
           UNCHANGED <<config, args, phaseIx, setupStepsRan, phaseState>>
    PROVE  TeardownInv'
<1> DEFINE c == CurrentStep
<1>1. /\ c \in StepIxs /\ c \in StepsOf(CurrentPhase) /\ c \in todo
      /\ config.steps[c].phase = CurrentPhase
      /\ CurrentPhase \in PhaseNames /\ phaseState[CurrentPhase] = "active"
      /\ \A i \in StepIxs :
            stepState'[config.steps[i].name] = IF i = c THEN state ELSE stepState[config.steps[i].name]
  BY TakenStep
<1>2. /\ StepIxs' = StepIxs /\ ConfigPhases' = ConfigPhases
      /\ \A p : Requested(p)' = Requested(p)
      /\ \A p : StepsOf(p)' = StepsOf(p)
      /\ TeardownDue' = TeardownDue
      /\ \A i : StepSkipped(i)' = StepSkipped(i)
      /\ \A p : LiveStepsOf(p)' = LiveStepsOf(p)
  BY StaticUnchanged, TeardownStatic
<1>3. CurrentPhase' = CurrentPhase /\ IsTeardown' = IsTeardown
  BY <1>2 DEF CurrentPhase, IsTeardown
<1>4. pc' = "steps" /\ (IsTeardown => todo' = todo \ {c})
  BY DEF FinishStep, Breaks
<1> HIDE DEF c
<1>5. \A i \in StepIxs :
         /\ Attempted(i)' <=> i = c \/ Attempted(i)
         /\ i # c => (Commanded(i)' <=> Commanded(i))
         /\ i = c => (Commanded(i)' <=> state \in {"passed", "failed"})
  BY <1>1 DEF Attempted, Commanded, StepState
<1>6. CommandsRan'
  BY <1>1, <1>2, <1>4, <1>5 DEF TeardownInv, CommandsRan, c
<1>7. TeardownTaken'
  BY <1>1, <1>2, <1>3, <1>4, <1>5 DEF TeardownInv, TeardownTaken, InPhase, StepsOf
<1>8. SetupRemembered'
  BY <1>2, <1>4 DEF TeardownInv, SetupRemembered
<1>9. TeardownSkipped'
  BY <1>1, <1>2, <1>5 DEF TeardownInv, TeardownSkipped, StepsOf
<1> QED
  BY <1>4, <1>6, <1>7, <1>8, <1>9 DEF TeardownInv, TeardownHadItsTurn, Completed

(* Passing a phase by, entering it or leaving it keeps TeardownInv.        *)
LEMMA PhaseTornDown ==
    ASSUME TypeOK, PhaseInv, TeardownInv, TakePhase \/ Validate
    PROVE  TeardownInv'
<1>1. config' = config /\ args' = args /\ stepState' = stepState /\ setupStepsRan' = setupStepsRan
  BY DEF TakePhase, PassOverPhase, SkipPhase, BeginPhase, Validate, RunValidations, ResolveOnly,
         EndPhase, input, report, progress
<1>2. /\ StepIxs' = StepIxs /\ ConfigPhases' = ConfigPhases
      /\ \A p : Requested(p)' = Requested(p)
      /\ \A p : StepsOf(p)' = StepsOf(p)
      /\ TeardownDue' = TeardownDue
      /\ \A i : StepSkipped(i)' = StepSkipped(i)
      /\ \A p : LiveStepsOf(p)' = LiveStepsOf(p)
  BY <1>1, StaticUnchanged, TeardownStatic
<1>3. \A i : (Attempted(i)' <=> Attempted(i)) /\ (Commanded(i)' <=> Commanded(i))
  BY <1>1 DEF Attempted, Commanded
<1>4. /\ phaseIx \in DOMAIN ConfigPhases /\ CurrentPhase \in PhaseNames
      /\ \A i \in StepIxs : config.steps[i].phase \in PhaseNames
      /\ {"setup", "teardown"} \subseteq PhaseNames
  <2>1. phaseIx \in DOMAIN ConfigPhases
    BY DEF TypeOK, TakePhase, PassOverPhase, SkipPhase, BeginPhase, AtPhase, Validate
  <2> QED
    BY <2>1, ConfigTypes, ResolutionAssumption DEF TypeOK, CurrentPhase, StepConfig
<1>5. pc = "phase" => phaseState[CurrentPhase] = "pending"
  BY <1>4 DEF PhaseInv, LoopPosition, Looping, InPhase, CurrentPhase
<1>6. CASE PassOverPhase
  <2>1. pc = "phase" /\ pc' = "phase" /\ phaseState' = phaseState
    BY <1>6 DEF PassOverPhase, AtPhase, report
  <2> QED
    BY <1>1, <1>2, <1>3, <2>1 DEF TeardownInv, CommandsRan, TeardownTaken, SetupRemembered,
       TeardownSkipped, TeardownHadItsTurn, Completed, InPhase
<1>7. CASE SkipPhase
  <2>1. /\ pc = "phase" /\ pc' = "phase" /\ SkipsPhase
        /\ \A p \in PhaseNames :
              phaseState'[p] = IF p = CurrentPhase THEN "skipped" ELSE phaseState[p]
    BY <1>7 DEF SkipPhase, AtPhase, TypeOK
  <2>2. CommandsRan'
    BY <1>1, <1>2, <1>3, <1>4, <1>5, <2>1 DEF TeardownInv, CommandsRan
  <2>3. TeardownTaken' /\ SetupRemembered'
    BY <1>1, <1>2, <1>3, <1>4, <2>1 DEF TeardownInv, TeardownTaken, SetupRemembered, InPhase
  <2>4. TeardownSkipped'
    <3>1. CASE CurrentPhase = "teardown" /\ TeardownDue
      <4>1. Requested("setup") /\ ~setupStepsRan
        BY <2>1, <3>1 DEF SkipsPhase, IsTeardown, TeardownDue
      <4>2. PICK k, l \in DOMAIN ConfigPhases :
               k < l /\ ConfigPhases[k] = "setup" /\ ConfigPhases[l] = "teardown"
        BY <3>1, <4>1 DEF TeardownDue, Before
      <4>3. l = phaseIx
        BY <1>4, <3>1, <4>2, PhasesDistinct DEF CurrentPhase
      <4>4. phaseState["setup"] \notin {"pending", "active"}
        BY <1>4, <2>1, <4>1, <4>2, <4>3 DEF PhaseInv, LoopPosition, Looping, InPhase
      <4>5. phaseState["setup"] \in {"done", "skipped"}
        BY <1>4, <4>4 DEF TypeOK, PhaseState
      <4>6. \A i \in StepsOf("setup") : ~Commanded(i)
        <5>1. CASE phaseState["setup"] = "done"
          BY <4>1, <5>1 DEF TeardownInv, SetupRemembered, CommandsRan, LiveStepsOf, StepsOf
        <5>2. CASE phaseState["setup"] = "skipped"
          BY <5>2 DEF TeardownInv, CommandsRan, StepsOf, Attempted, Commanded
        <5> QED
          BY <4>5, <5>1, <5>2
      <4> QED
        BY <1>2, <1>3, <1>4, <2>1, <3>1, <4>1, <4>5, <4>6 DEF TeardownSkipped
    <3>2. CASE ~(CurrentPhase = "teardown" /\ TeardownDue)
      BY <1>2, <1>3, <1>4, <2>1, <3>2 DEF TeardownInv, TeardownSkipped
    <3> QED
      BY <3>1, <3>2
  <2> QED
    BY <2>1, <2>2, <2>3, <2>4 DEF TeardownInv, TeardownHadItsTurn, Completed
<1>8. CASE BeginPhase
  <2>1. /\ pc = "phase" /\ pc' = "steps" /\ phaseIx' = phaseIx
        /\ todo' = StepsOf(CurrentPhase)
        /\ \A p \in PhaseNames :
              phaseState'[p] = IF p = CurrentPhase THEN "active" ELSE phaseState[p]
    BY <1>8 DEF BeginPhase, AtPhase, TypeOK
  <2>2. CurrentPhase' = CurrentPhase /\ IsTeardown' = IsTeardown
    BY <1>2, <2>1 DEF CurrentPhase, IsTeardown
  <2>3. CommandsRan'
    BY <1>1, <1>2, <1>3, <1>4, <2>1 DEF TeardownInv, CommandsRan
  <2>4. TeardownTaken' /\ SetupRemembered'
    BY <1>1, <1>2, <1>3, <1>4, <2>1, <2>2
       DEF TeardownInv, TeardownTaken, SetupRemembered, IsTeardown
  <2>5. TeardownSkipped'
    BY <1>2, <1>3, <1>4, <1>5, <2>1 DEF TeardownInv, TeardownSkipped
  <2> QED
    BY <2>1, <2>3, <2>4, <2>5 DEF TeardownInv, TeardownHadItsTurn, Completed
<1>9. CASE Validate
  <2>1. /\ pc = "validate" /\ pc' = "phase"
        /\ \A p \in PhaseNames :
              phaseState'[p] = IF p = CurrentPhase THEN "done" ELSE phaseState[p]
    BY <1>9 DEF Validate, RunValidations, ResolveOnly, EndPhase, TypeOK
  <2>2. CommandsRan'
    BY <1>1, <1>2, <1>3, <1>4, <2>1 DEF TeardownInv, CommandsRan
  <2>3. TeardownTaken' /\ SetupRemembered'
    BY <1>1, <1>2, <1>3, <1>4, <2>1
       DEF TeardownInv, TeardownTaken, SetupRemembered, InPhase, IsTeardown
  <2>4. phaseState[CurrentPhase] = "active"
    BY <2>1 DEF PhaseInv, LoopPosition, InPhase
  <2>5. TeardownSkipped'
    BY <1>2, <1>3, <1>4, <2>1, <2>4 DEF TeardownInv, TeardownSkipped
  <2> QED
    BY <2>1, <2>2, <2>3, <2>5 DEF TeardownInv, TeardownHadItsTurn, Completed
<1> QED
  BY <1>6, <1>7, <1>8, <1>9 DEF TakePhase

(* Steps of the run that leave the phases and the steps as they are keep   *)
(* TeardownInv; a run returns only when its phases had their turn.         *)
LEMMA TeardownUnchanged ==
    ASSUME TypeOK, PhaseInv, TeardownInv,
           UNCHANGED <<config, args, phaseIx, todo, stepState, phaseState>>,
           FinishSteps \/ UNCHANGED setupStepsRan,
           \/ pc' = pc
           \/ StartCommand
           \/ FinishSteps
           \/ pc = "start" /\ pc' = "phase"
           \/ pc' = "raised"
           \/ pc' = "done" /\ ~Runnable
           \/ Conclude
    PROVE  TeardownInv'
<1>1. /\ StepIxs' = StepIxs /\ ConfigPhases' = ConfigPhases /\ ConfigPhaseSet' = ConfigPhaseSet
      /\ Runnable' = Runnable
      /\ \A p : Requested(p)' = Requested(p)
      /\ \A p : StepsOf(p)' = StepsOf(p)
      /\ TeardownDue' = TeardownDue
      /\ \A i : StepSkipped(i)' = StepSkipped(i)
      /\ \A p : LiveStepsOf(p)' = LiveStepsOf(p)
  BY StaticUnchanged, TeardownStatic
<1>2. CurrentPhase' = CurrentPhase /\ IsTeardown' = IsTeardown /\ CurrentStep' = CurrentStep
  BY <1>1 DEF CurrentPhase, IsTeardown, CurrentStep
<1>3. \A i : (Attempted(i)' <=> Attempted(i)) /\ (Commanded(i)' <=> Commanded(i))
  BY DEF Attempted, Commanded
<1>4. {"setup", "teardown"} \subseteq PhaseNames
  BY ResolutionAssumption
<1>5. CommandsRan'
  BY <1>1, <1>2, <1>3 DEF TeardownInv, CommandsRan, StartCommand, FinishSteps, Conclude
<1>6. TeardownTaken'
  BY <1>1, <1>2, <1>3
     DEF TeardownInv, TeardownTaken, InPhase, StartCommand, FinishSteps, Conclude
<1>7. SetupRemembered'
  <2>1. CASE FinishSteps
    BY <1>1, <1>2, <2>1 DEF TeardownInv, SetupRemembered, FinishSteps
  <2>2. CASE ~FinishSteps
    <3>1. pc' = "validate" => pc = "validate"
      BY <2>2 DEF StartCommand, Conclude
    <3> QED
      BY <1>1, <1>2, <2>2, <3>1 DEF TeardownInv, SetupRemembered
  <2> QED
    BY <2>1, <2>2
<1>8. TeardownSkipped'
  BY <1>1, <1>3 DEF TeardownInv, TeardownSkipped
<1>9. TeardownHadItsTurn'
  <2>1. CASE Conclude
    <3> SUFFICES ASSUME Requested("teardown"), "teardown" \in ConfigPhaseSet
                 PROVE  phaseState["teardown"] \in {"done", "skipped"}
      BY <1>1 DEF TeardownHadItsTurn
    <3>1. PICK k \in DOMAIN ConfigPhases : ConfigPhases[k] = "teardown"
      BY DEF ConfigPhaseSet
    <3>2. pc = "phase" /\ phaseIx \notin DOMAIN ConfigPhases
      BY <2>1 DEF Conclude
    <3>3. k < phaseIx
      BY <3>1, <3>2, ConfigTypes DEF TypeOK
    <3>4. phaseState["teardown"] \notin {"pending", "active"}
      BY <1>4, <3>1, <3>2, <3>3 DEF PhaseInv, LoopPosition, Looping, InPhase
    <3> QED
      BY <1>4, <3>4 DEF TypeOK, PhaseState
  <2>2. CASE ~Conclude
    BY <1>1, <2>2 DEF TeardownInv, TeardownHadItsTurn, Completed, StartCommand, FinishSteps
  <2> QED
    BY <2>1, <2>2
<1> QED
  BY <1>5, <1>6, <1>7, <1>8, <1>9 DEF TeardownInv

--------------------------------------------------------------------------------
(* TeardownInv holds of every run.                                         *)
THEOREM TeardownInvariant == Spec => []TeardownInv
<1>1. Init => TeardownInv
  <2> SUFFICES ASSUME Init PROVE TeardownInv
    OBVIOUS
  <2>1. /\ pc = "start"
        /\ stepState = [s \in StepNames |-> "none"]
        /\ phaseState = [p \in PhaseNames |-> "pending"]
    BY DEF Init
  <2>2. \A i \in StepIxs : config.steps[i].name \in StepNames
    BY OrchestratorAssumption, ConfigTypes DEF Init, StepConfig
  <2>3. \A i \in StepIxs : ~Attempted(i) /\ ~Commanded(i)
    BY <2>1, <2>2 DEF Attempted, Commanded
  <2>4. phaseState["setup"] = "pending" /\ phaseState["teardown"] = "pending"
    BY <2>1, ResolutionAssumption
  <2> QED
    BY <2>1, <2>3, <2>4 DEF TeardownInv, CommandsRan, TeardownTaken, SetupRemembered,
       TeardownSkipped, TeardownHadItsTurn, Completed, InPhase
<1>2. TeardownInv /\ TypeOK /\ PhaseInv /\ [Next]_vars => TeardownInv'
  <2> SUFFICES ASSUME TeardownInv, TypeOK, PhaseInv, [Next]_vars PROVE TeardownInv'
    OBVIOUS
  <2>1. CASE Start
    <3>1. CASE RaiseUnknownPlatform \/ EnterPhaseLoop
      BY <3>1, TeardownUnchanged
         DEF RaiseUnknownPlatform, EnterPhaseLoop, input, progress, report
    <3>2. ASSUME NEW success, NEW results, Return(success, results), ~Runnable PROVE TeardownInv'
      BY <3>2, TeardownUnchanged DEF Return, input, report
    <3> QED
      BY <2>1, <3>1, <3>2 DEF Start, ReturnNoPlatform, ReturnPlatformSkipped, ReturnNoSteps,
                              ReturnNothingToAssert, ReturnUnknownStepPhase, Runnable, PlatformKnown
  <2>2. CASE TakePhase \/ Validate
    BY <2>2, PhaseTornDown
  <2>3. CASE SkipStep \/ FailBeforeStart
    BY <2>3, StepsTornDown DEF SkipStep, FailBeforeStart, StepState, input, progress
  <2>4. CASE StartCommand \/ FinishSteps
    BY <2>4, TeardownUnchanged DEF StartCommand, FinishSteps, input, progress, report
  <2>5. pc = "running" => todo # {} /\ ~StepSkipped(CurrentStep)
    BY DEF TypeOK, TeardownInv, CommandsRan
  <2>6. CASE CommandEnds
    <3>1. PICK exitOk, hasOutput, schemaValid \in BOOLEAN :
             CommandReturns(exitOk, hasOutput, schemaValid)
      BY <2>6 DEF CommandEnds
    <3> DEFINE state == IF exitOk /\ schemaValid THEN "passed" ELSE "failed"
    <3>2. state \in StepState \ {"none"} /\ FinishStep(CurrentStep, state)
      BY <3>1 DEF CommandReturns, StepState
    <3>3. pc = "running" /\ UNCHANGED <<config, args, phaseIx, setupStepsRan, phaseState>>
      BY <3>1 DEF CommandReturns, input
    <3> HIDE DEF state
    <3> QED
      BY <2>5, <3>2, <3>3, StepsTornDown
  <2>7. CASE CommandTimesOut
    BY <2>5, <2>7, StepsTornDown DEF CommandTimesOut, StepState, input, progress
  <2>8. CASE Conclude
    BY <2>8, TeardownUnchanged DEF Conclude, input
  <2>9. CASE Interrupt
    BY <2>9, TeardownUnchanged DEF Interrupt, input, progress, report
  <2>10. CASE UNCHANGED vars
    BY <2>10, TeardownUnchanged DEF vars
  <2> QED
    BY <2>1, <2>2, <2>3, <2>4, <2>6, <2>7, <2>8, <2>9, <2>10 DEF Next, Proceed, TakeStep
<1> QED
  BY <1>1, <1>2, OrchestratorTypeCorrect, PhaseInvariant, PTL DEF Spec

(* Teardown survives every failure: a completed run whose setup executed a *)
(* command, or that was asked for teardown without setup, has attempted    *)
(* every teardown step, in any configuration.                              *)
THEOREM TeardownSurvivesFailure == Spec => []TeardownAttempted
<1>1. TeardownInv => TeardownAttempted
  <2> SUFFICES ASSUME TeardownInv, Completed, TeardownDue,
                      Requested("setup") => \E i \in StepsOf("setup") : Commanded(i)
               PROVE  \A i \in StepsOf("teardown") : Attempted(i)
    BY DEF TeardownAttempted
  <2>1. Requested("teardown") /\ "teardown" \in ConfigPhaseSet
    BY DEF TeardownDue, Before, ConfigPhaseSet
  <2>2. phaseState["teardown"] \in {"done", "skipped"}
    BY <2>1 DEF TeardownInv, TeardownHadItsTurn
  <2>3. phaseState["teardown"] # "skipped"
    BY DEF TeardownInv, TeardownSkipped
  <2> QED
    BY <2>2, <2>3 DEF TeardownInv, TeardownTaken
<1> QED
  BY <1>1, TeardownInvariant, PTL
================================================================================
