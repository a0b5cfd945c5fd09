-------------------------- MODULE OrchestratorProofs --------------------------
(***************************************************************************)
(* What Orchestrator guarantees for every set of configurations and        *)
(* arguments: any number of phases, steps and validations.                 *)
(***************************************************************************)
EXTENDS Orchestrator, WellFoundedInduction, TLAPS

--------------------------------------------------------------------------------
(* A nonempty set of naturals has a least element: what CurrentStep needs. *)
LEMMA LeastElement ==
    ASSUME NEW S \in SUBSET Nat, S # {}
    PROVE  \E m \in S : \A k \in S : m <= k
<1> DEFINE Less == {pair \in Nat \X Nat : pair[1] < pair[2]}
<1>1. IsWellFoundedOn(Less, Nat)
  BY NatLessThanWellFounded, Zenon DEF OpToRel
<1>2. S \subseteq Nat
  OBVIOUS
<1> HIDE DEF Less
<1>3. PICK m \in S : \A k \in S : <<k, m>> \notin Less
  BY <1>1, <1>2, WFMin, Zenon
<1>4. \A i, j \in Nat : i < j => <<i, j>> \in Less
  BY DEF Less
<1>5. \A k \in S : ~(k < m)
  BY <1>2, <1>3, <1>4
<1> QED
  BY <1>2, <1>5

(* What a configuration of the right type gives the run to work with.      *)
LEMMA ConfigTypes ==
    ASSUME config \in RunConfig
    PROVE  /\ StepIxs \subseteq Nat
           /\ \A i \in StepIxs : config.steps[i] \in StepConfig
           /\ \A i \in EntryIxs : config.validations[i] \in ValidationEntry
           /\ ConfigPhases \in Seq(PhaseNames)
           /\ ConfigPhaseSet \subseteq PhaseNames
<1>1. /\ config.steps \in Seq(StepConfig)
      /\ config.validations \in Seq(ValidationEntry)
      /\ config.phases \in Seq(PhaseNames)
  BY DEF RunConfig
<1>2. ConfigPhases \in Seq(PhaseNames)
  BY <1>1, ResolutionAssumption DEF ConfigPhases
<1>3. ConfigPhaseSet \subseteq PhaseNames
  BY <1>2 DEF ConfigPhaseSet
<1>4. DOMAIN config.steps \subseteq Nat
  BY <1>1
<1>5. \A i \in DOMAIN config.steps : config.steps[i] \in StepConfig
  BY <1>1
<1>6. \A i \in DOMAIN config.validations : config.validations[i] \in ValidationEntry
  BY <1>1
<1> QED
  BY <1>2, <1>3, <1>4, <1>5, <1>6 DEF StepIxs, EntryIxs

(* A resolution is terminal or ready, and never one of the outcomes only   *)
(* an execution can have.                                                  *)
LEMMA ResolutionTypes ==
    ASSUME NEW entry, NEW ctx
    PROVE  /\ resolve_entry(entry, ctx) \in Terminal \cup {Ready}
           /\ ~Executed(resolve_entry(entry, ctx))
<1>1. FilterReason(entry, ctx) \in
          {Error("invalid_config"), Skip("test_excluded"), Skip("capability_requirement"), Ready}
  BY DEF FilterReason
<1>2. StepReason(entry, ctx) \in
          {Skip("step_skipped"), Skip("step_not_configured"), Skip("step_no_output"), Ready}
  BY DEF StepReason
<1>3. RenderReason(entry, ctx) \in
          {Skip("phase_not_requested"), Error("template_render_failed"),
           Error("invalid_config"), Ready}
  BY DEF RenderReason
<1>4. resolve_entry(entry, ctx) \in
          {Error("invalid_config"), Error("template_render_failed"), Ready}
              \cup {Skip(r) : r \in SkipReason \ {"runtime_skip"}}
  BY <1>1, <1>2, <1>3 DEF resolve_entry, SkipReason
<1> QED
  BY <1>4 DEF Terminal, Executed, ErrorReason, SkipReason, Skip, Error, Ready, Passed, Failed

(* Every entry has a phase.                                                *)
LEMMA EntryPhaseType ==
    ASSUME config \in RunConfig, NEW i \in EntryIxs
    PROVE  EntryPhase(i) \in PhaseNames
<1> DEFINE entry == config.validations[i]
<1>1. entry \in ValidationEntry
  BY ConfigTypes
<1>2. \A s \in StepNames : StepPhases[s] \in PhaseNames \cup {None}
  <2> TAKE s \in StepNames
  <2> DEFINE live == {j \in StepIxs : config.steps[j].name = s /\ ~StepSkipped(j)}
  <2>1. StepPhases[s] = IF live = {} THEN None ELSE config.steps[CHOOSE j \in live : TRUE].phase
    BY DEF StepPhases
  <2>2. live # {} => (CHOOSE j \in live : TRUE) \in StepIxs
    <3> HIDE DEF live
    <3>1. live # {} => (CHOOSE j \in live : TRUE) \in live
      OBVIOUS
    <3> QED
      BY <3>1 DEF live
  <2> QED
    BY <2>1, <2>2, ConfigTypes DEF StepConfig
<1>3. entry.phase \in PhaseNames \cup {None} /\ entry.step \in StepNames \cup {None}
  BY <1>1 DEF ValidationEntry
<1> QED
  BY <1>2, <1>3, ResolutionAssumption DEF EntryPhase, get_entry_phase, DefaultValidationPhase

(* The step execute_steps takes is the first one left.                     *)
LEMMA CurrentStepType ==
    ASSUME config \in RunConfig, todo \subseteq StepIxs, todo # {}
    PROVE  /\ CurrentStep \in todo
           /\ \A j \in todo : CurrentStep <= j
<1>1. todo \in SUBSET Nat
  BY ConfigTypes
<1>2. \E i \in todo : \A j \in todo : i <= j
  BY <1>1, LeastElement
<1> QED
  BY <1>2 DEF CurrentStep

(* The configuration and the arguments never change, nor does what is      *)
(* computed from them alone.                                               *)
LEMMA InputUnchanged ==
    ASSUME [Next]_vars
    PROVE  config' = config /\ args' = args
<1> USE DEF input
<1>1. CASE Start
  BY <1>1 DEF Start, ReturnNoPlatform, RaiseUnknownPlatform, ReturnPlatformSkipped, ReturnNoSteps,
     ReturnNothingToAssert, ReturnUnknownStepPhase, EnterPhaseLoop, Return
<1>2. CASE TakePhase
  BY <1>2 DEF TakePhase, PassOverPhase, SkipPhase, BeginPhase
<1>3. CASE TakeStep
  BY <1>3 DEF TakeStep, SkipStep, FailBeforeStart, StartCommand, FinishSteps
<1>4. CASE Validate
  BY <1>4 DEF Validate, RunValidations, ResolveOnly, EndPhase
<1>5. CASE Conclude \/ CommandTimesOut \/ CommandEnds \/ Interrupt
  BY <1>5 DEF Conclude, CommandTimesOut, CommandEnds, CommandReturns, Interrupt
<1> QED
  BY <1>1, <1>2, <1>3, <1>4, <1>5 DEF Next, Proceed, vars

(* What is computed from the configuration and the arguments never changes. *)
LEMMA StaticUnchanged ==
    ASSUME config' = config, args' = args
    PROVE  /\ StepIxs' = StepIxs
           /\ EntryIxs' = EntryIxs
           /\ ConfigPhases' = ConfigPhases
           /\ ConfigPhaseSet' = ConfigPhaseSet
           /\ StepPhases' = StepPhases
           /\ Runnable' = Runnable
           /\ \A i : EntryPhase(i)' = EntryPhase(i)
           /\ \A p : Requested(p)' = Requested(p)
           /\ \A p : StepsOf(p)' = StepsOf(p)
<1>1. HasCommands' = HasCommands /\ DetectPlatform' = DetectPlatform
  BY DEF HasCommands, DetectPlatform, NamedPlatform
<1>2. StepIxs' = StepIxs /\ EntryIxs' = EntryIxs /\ ConfigPhases' = ConfigPhases
  BY <1>1 DEF StepIxs, EntryIxs, ConfigPhases
<1>3. ConfigPhaseSet' = ConfigPhaseSet
  BY <1>2 DEF ConfigPhaseSet
<1>4. StepPhases' = StepPhases
  BY <1>2 DEF StepPhases, StepSkipped, GatedOff, BoundEntries
<1>5. Runnable' = Runnable
  BY <1>1, <1>2, <1>3 DEF Runnable, PlatformKnown, StepPhasesConfigured
<1> QED
  BY <1>2, <1>3, <1>4, <1>5 DEF EntryPhase, Requested, StepsOf

--------------------------------------------------------------------------------
(* The outcome of an executed entry is terminal and the testcases it gets, *)
(* from pytest or as a stub, are exactly one.                              *)
LEMMA OutcomeTypes ==
    ASSUME NEW session, NEW i, session.test[i] \in TestResult
    PROVE  /\ AppliedResult(session.test[i]) \in Terminal
           /\ ExecutedCase(session, i) \in Seq(Verdict)
           /\ Len(ExecutedCase(session, i)) = 1
<1>1. AppliedResult(session.test[i]) \in Terminal
  BY DEF AppliedResult, TestResult, Terminal, SkipReason, ErrorReason
<1>2. PytestCase(session.test[i]) # <<>> => \E v \in Verdict : PytestCase(session.test[i]) = <<v>>
  BY DEF PytestCase, TestResult, Verdict
<1>3. \E v \in Verdict : StubCase(AppliedResult(session.test[i])) = <<v>>
  BY DEF AppliedResult, TestResult, StubCase, Verdict, Passed, Failed, Skip, Error
<1>4. \E v \in Verdict : ExecutedCase(session, i) = <<v>>
  BY <1>2, <1>3 DEF ExecutedCase
<1> QED
  BY <1>1, <1>4

(* The stub of a terminal outcome is one testcase.                         *)
LEMMA StubTypes ==
    ASSUME NEW r \in Terminal
    PROVE  StubCase(r) \in Seq(Verdict) /\ Len(StubCase(r)) = 1
<1>1. r.state \in {"skipped", "error", "passed", "failed"}
  BY DEF Terminal, Skip, Error, Passed, Failed
<1>2. \E v \in Verdict : StubCase(r) = <<v>>
  BY <1>1 DEF StubCase, Verdict
<1> QED
  BY <1>2

(* The testcases a phase adds keep the report a list of verdicts for every *)
(* entry.                                                                  *)
LEMMA AddCasesType ==
    ASSUME NEW new, AddCases(new), EntryIxs' = EntryIxs,
           cases \in [EntryIxs -> Seq(Verdict)],
           \A i \in DOMAIN new : new[i] \in Seq(Verdict)
    PROVE  cases' \in [EntryIxs' -> Seq(Verdict)]
<1>1. \A i \in EntryIxs : cases[i] \in Seq(Verdict)
  OBVIOUS
<1>2. \A i \in EntryIxs :
         (IF args.junitxml /\ i \in DOMAIN new THEN cases[i] \o new[i] ELSE cases[i]) \in Seq(Verdict)
  BY <1>1
<1> QED
  BY <1>2 DEF AddCases

(* What the end of a phase adds to the bookkeeping.                        *)
LEMMA EndPhaseTypes ==
    ASSUME TypeOK, pc = "validate",
           NEW outcome, DOMAIN outcome = PhaseEntries,
           \A i \in PhaseEntries : outcome[i] \in Terminal,
           NEW exit \in PytestExit \cup {NotRun},
           EndPhase(outcome, exit),
           cases' \in [EntryIxs' -> Seq(Verdict)]
    PROVE  TypeOK'
<1> DEFINE r == ExecutedResult(outcome, exit)
           recorded == StepsOf(CurrentPhase) # {} \/ DOMAIN outcome # {}
<1>1. /\ resolved' = [i \in EntryIxs |-> IF i \in DOMAIN outcome THEN outcome[i] ELSE resolved[i]]
      /\ phaseResults' = IF recorded THEN phaseResults \cup {r} ELSE phaseResults
      /\ overallSuccess' = (overallSuccess /\ (recorded => r.success))
      /\ phaseState' = [phaseState EXCEPT ![CurrentPhase] = "done"]
      /\ phaseIx' = phaseIx + 1
      /\ pc' = "phase"
      /\ UNCHANGED <<input, todo, stepsOk, outputs, setupStepsRan, result, stepState>>
  BY DEF EndPhase
<1>2. config' = config /\ args' = args
  BY <1>1 DEF input
<1>3. EntryIxs' = EntryIxs /\ StepIxs' = StepIxs
  BY <1>2, StaticUnchanged
<1>4. resolved' \in [EntryIxs' -> Terminal \cup {Unresolved}]
  BY <1>1, <1>3 DEF TypeOK
<1>5. CurrentPhase \in PhaseNames
  BY ConfigTypes DEF TypeOK, CurrentPhase
<1>6. r \in PhaseResult /\ r.success \in BOOLEAN
  BY <1>5 DEF ExecutedResult, PhaseResult, phase_enum_for_name, Phase, TypeOK, PytestExit
<1>7. phaseResults' \subseteq PhaseResult
  <2> HIDE DEF r, recorded
  <2> QED
    BY <1>1, <1>6 DEF TypeOK
<1>8. overallSuccess' \in BOOLEAN
  <2> HIDE DEF r, recorded
  <2> QED
    BY <1>1
<1>9. phaseState' \in [PhaseNames -> PhaseState]
  BY <1>1 DEF TypeOK, PhaseState
<1> QED
  BY <1>1, <1>2, <1>3, <1>4, <1>7, <1>8, <1>9 DEF TypeOK, UniqueNames

(* A step that is taken ends with an entry of the step results and leaves  *)
(* the rest of the phase's steps.                                          *)
LEMMA FinishStepTypes ==
    ASSUME TypeOK, todo # {}, phaseIx \in DOMAIN ConfigPhases,
           NEW state \in StepState, FinishStep(CurrentStep, state),
           UNCHANGED <<config, args, phaseIx, overallSuccess, setupStepsRan, resolved,
                       phaseResults, result, phaseState, cases>>,
           outputs' \subseteq StepNames
    PROVE  TypeOK'
<1>1. /\ pc' = "steps"
      /\ stepState' = [stepState EXCEPT ![config.steps[CurrentStep].name] = state]
      /\ todo' \subseteq todo
      /\ stepsOk' \in BOOLEAN
  BY DEF FinishStep
<1>2. stepState' \in [StepNames -> StepState]
  BY <1>1 DEF TypeOK
<1> QED
  BY <1>1, <1>2, StaticUnchanged DEF TypeOK, UniqueNames

(* The run keeps the types of its state: in particular every entry's       *)
(* outcome is unresolved or terminal and never left "ready".               *)
THEOREM OrchestratorTypeCorrect == Spec => []TypeOK
<1>1. Init => TypeOK
  <2> SUFFICES ASSUME Init PROVE TypeOK
    OBVIOUS
  <2>1. config \in RunConfig /\ UniqueNames(config) /\ args \in RunArguments
    BY OrchestratorAssumption DEF Init
  <2>2. /\ pc = "start" /\ phaseIx = 1 /\ todo = {} /\ outputs = {}
        /\ phaseResults = {} /\ result = "none"
    BY DEF Init
  <2>3. stepsOk \in BOOLEAN /\ overallSuccess \in BOOLEAN /\ setupStepsRan \in BOOLEAN
    BY Zenon DEF Init
  <2>4. /\ resolved \in [EntryIxs -> Terminal \cup {Unresolved}]
        /\ cases \in [EntryIxs -> Seq(Verdict)]
    BY DEF Init
  <2>5. /\ stepState \in [StepNames -> StepState]
        /\ phaseState \in [PhaseNames -> PhaseState]
    BY DEF Init, StepState, PhaseState
  <2> QED
    BY <2>1, <2>2, <2>3, <2>4, <2>5 DEF TypeOK
<1>2. TypeOK /\ [Next]_vars => TypeOK'
  <2> SUFFICES ASSUME TypeOK, [Next]_vars PROVE TypeOK'
    OBVIOUS
  <2>1. config' = config /\ args' = args
    BY InputUnchanged
  <2>2. /\ StepIxs' = StepIxs /\ EntryIxs' = EntryIxs
        /\ ConfigPhases' = ConfigPhases
        /\ UniqueNames(config)' = UniqueNames(config)
    BY <2>1, StaticUnchanged DEF UniqueNames
  <2>3. CASE Start
    <3>1. ConfigPhaseSet \subseteq PhaseNames /\ {"setup", "test"} \subseteq PhaseNames
      BY ConfigTypes, ResolutionAssumption DEF TypeOK
    <3>2. ASSUME NEW success \in BOOLEAN, NEW results \in SUBSET PhaseResult, Return(success, results)
          PROVE  TypeOK'
      BY <2>1, <2>2, <3>2 DEF Return, TypeOK, report
    <3>3. /\ Refusal("setup") \in PhaseResult /\ Refusal("test") \in PhaseResult
          /\ \A p \in ConfigPhaseSet : SkippedResult(p) \in PhaseResult
      BY <3>1 DEF Refusal, SkippedResult, PhaseResult, phase_enum_for_name, Phase
    <3>4. CASE ReturnNoPlatform \/ ReturnNoSteps \/ ReturnNothingToAssert \/ ReturnUnknownStepPhase
      BY <3>2, <3>3, <3>4
         DEF ReturnNoPlatform, ReturnNoSteps, ReturnNothingToAssert, ReturnUnknownStepPhase
    <3>5. CASE ReturnPlatformSkipped
      BY <3>2, <3>3, <3>5 DEF ReturnPlatformSkipped
    <3>6. CASE RaiseUnknownPlatform \/ EnterPhaseLoop
      BY <2>1, <2>2, <3>6 DEF RaiseUnknownPlatform, EnterPhaseLoop, TypeOK, progress, report
    <3> QED
      BY <2>3, <3>4, <3>5, <3>6 DEF Start
  <2>4. CASE TakePhase
    <3>1. AtPhase => CurrentPhase \in PhaseNames
      BY ConfigTypes DEF TypeOK, AtPhase, CurrentPhase
    <3>2. CASE PassOverPhase
      BY <2>1, <2>2, <3>2 DEF PassOverPhase, AtPhase, TypeOK, progress, report
    <3>3. CASE SkipPhase
      <4>1. SkippedResult(CurrentPhase) \in PhaseResult
        BY <3>1, <3>3 DEF SkipPhase, SkippedResult, PhaseResult, phase_enum_for_name, Phase
      <4>2. phaseState' \in [PhaseNames -> PhaseState]
        BY <3>3 DEF SkipPhase, TypeOK, PhaseState
      <4>3. phaseResults' \subseteq PhaseResult
        BY <3>3, <4>1 DEF SkipPhase, TypeOK
      <4> QED
        BY <2>1, <2>2, <3>3, <4>2, <4>3 DEF SkipPhase, AtPhase, TypeOK
    <3>4. CASE BeginPhase
      BY <2>1, <2>2, <3>4 DEF BeginPhase, AtPhase, TypeOK, progress, PhaseState, StepsOf
    <3> QED
      BY <2>4, <3>2, <3>3, <3>4 DEF TakePhase
  <2>5. CASE SkipStep \/ FailBeforeStart
    BY <2>5, FinishStepTypes DEF SkipStep, FailBeforeStart, TypeOK, input, progress, StepState
  <2>6. CASE StartCommand
    BY <2>1, <2>2, <2>6 DEF StartCommand, TypeOK, progress, report
  <2>7. CASE FinishSteps
    BY <2>1, <2>2, <2>7 DEF FinishSteps, TypeOK, report
  <2>8. CASE CommandEnds
    <3>1. PICK exitOk, hasOutput, schemaValid \in BOOLEAN :
             CommandReturns(exitOk, hasOutput, schemaValid)
      BY <2>8 DEF CommandEnds
    <3>2. pc = "running" /\ todo # {} /\ phaseIx \in DOMAIN ConfigPhases
      BY <3>1 DEF CommandReturns, TypeOK
    <3>3. config.steps[CurrentStep].name \in StepNames
      BY <3>2, ConfigTypes, CurrentStepType DEF TypeOK, StepConfig
    <3>4. outputs' \subseteq StepNames
      BY <3>1, <3>3 DEF CommandReturns, TypeOK
    <3> DEFINE state == IF exitOk /\ schemaValid THEN "passed" ELSE "failed"
    <3>5. FinishStep(CurrentStep, state) /\ state \in StepState
      BY <3>1 DEF CommandReturns, StepState
    <3> QED
      BY <3>1, <3>2, <3>4, <3>5, FinishStepTypes DEF CommandReturns, input
  <2>9. CASE CommandTimesOut
    BY <2>9, FinishStepTypes DEF CommandTimesOut, TypeOK, input, progress, StepState
  <2>10. CASE Validate
    <3>1. PhaseEntries \subseteq EntryIxs /\ ReadyEntries \subseteq PhaseEntries
      BY DEF PhaseEntries, ReadyEntries
    <3>2. \A i \in PhaseEntries \ ReadyEntries :
             Resolve(i) \in Terminal /\ StubCase(Resolve(i)) \in Seq(Verdict)
      BY ResolutionTypes, StubTypes DEF ReadyEntries, Resolve
    <3>3. ASSUME NEW s \in PytestSession(ReadyEntries), RunValidations(s) PROVE TypeOK'
      <4> DEFINE outcome == [i \in PhaseEntries |->
                     IF i \in ReadyEntries THEN AppliedResult(s.test[i]) ELSE Resolve(i)]
                 new == [i \in PhaseEntries |->
                     IF i \in ReadyEntries THEN ExecutedCase(s, i) ELSE StubCase(Resolve(i))]
      <4>1. s.exit \in PytestExit /\ \A i \in ReadyEntries : s.test[i] \in TestResult
        BY <3>3 DEF PytestSession
      <4>2. /\ \A i \in PhaseEntries : outcome[i] \in Terminal
            /\ \A i \in DOMAIN new : new[i] \in Seq(Verdict)
        BY <3>2, <4>1, OutcomeTypes
      <4>3. pc = "validate" /\ AddCases(new) /\ EndPhase(outcome, s.exit)
        BY <3>3 DEF RunValidations
      <4> HIDE DEF outcome, new
      <4>4. cases' \in [EntryIxs' -> Seq(Verdict)]
        BY <2>2, <4>2, <4>3, AddCasesType DEF TypeOK
      <4>5. DOMAIN outcome = PhaseEntries
        BY DEF outcome
      <4> QED
        BY <4>1, <4>2, <4>3, <4>4, <4>5, EndPhaseTypes
    <3>4. CASE ResolveOnly
      <4> DEFINE outcome == [i \in PhaseEntries |-> Resolve(i)]
                 new == [i \in PhaseEntries |-> StubCase(Resolve(i))]
      <4>1. /\ \A i \in PhaseEntries : outcome[i] \in Terminal
            /\ \A i \in DOMAIN new : new[i] \in Seq(Verdict)
        BY <3>2, <3>4 DEF ResolveOnly
      <4>2. pc = "validate" /\ AddCases(new) /\ EndPhase(outcome, NotRun)
        BY <3>4 DEF ResolveOnly
      <4>3. DOMAIN outcome = PhaseEntries
        OBVIOUS
      <4> HIDE DEF outcome, new
      <4>4. cases' \in [EntryIxs' -> Seq(Verdict)]
        BY <2>2, <4>1, <4>2, AddCasesType DEF TypeOK
      <4> QED
        BY <4>1, <4>2, <4>3, <4>4, EndPhaseTypes
    <3> QED
      BY <2>10, <3>3, <3>4 DEF Validate
  <2>11. CASE Conclude
    <3> DEFINE outcome == [i \in RemainingEntries |-> Terminalize(Resolve(i))]
               new == [i \in RemainingEntries |-> StubCase(outcome[i])]
    <3>1. RemainingEntries \subseteq EntryIxs
      BY DEF RemainingEntries
    <3>2. \A i \in RemainingEntries : outcome[i] \in Terminal
      BY ResolutionTypes DEF Terminalize, Resolve, Terminal, SkipReason
    <3>3. \A i \in DOMAIN new : new[i] \in Seq(Verdict)
      BY <3>2, StubTypes
    <3>4. AddCases(new)
      BY <2>11 DEF Conclude
    <3>5. cases' \in [EntryIxs' -> Seq(Verdict)]
      BY <2>2, <3>3, <3>4, AddCasesType DEF TypeOK
    <3>6. resolved' \in [EntryIxs' -> Terminal \cup {Unresolved}]
      BY <2>2, <2>11, <3>2 DEF Conclude, TypeOK
    <3>7. phaseResults' \subseteq PhaseResult
      <4>1. \A i \in RemainingEntries : EntryPhase(i) \in PhaseNames
        BY <3>1, EntryPhaseType DEF TypeOK
      <4> DEFINE Good(p) == \A i \in {j \in RemainingEntries : EntryPhase(j) = p} :
                               resolved_entry_success(outcome[i])
                 Of(p) == [phase |-> phase_enum_for_name(p), kind |-> "resolved",
                           success |-> Good(p), exit |-> NotRun]
      <4>2. phaseResults' =
               phaseResults \cup {Of(p) : p \in {EntryPhase(i) : i \in RemainingEntries}}
        BY <2>11 DEF Conclude
      <4>3. \A p \in PhaseNames : Of(p) \in PhaseResult
        <5>1. \A p : Good(p) \in BOOLEAN
          OBVIOUS
        <5> HIDE DEF Good
        <5> QED
          BY <5>1 DEF PhaseResult, phase_enum_for_name, Phase
      <4> HIDE DEF Of
      <4> QED
        BY <4>1, <4>2, <4>3 DEF TypeOK
    <3>8. overallSuccess' \in BOOLEAN /\ result' \in {"success", "failure"}
      BY <2>11 DEF Conclude
    <3> QED
      BY <2>1, <2>2, <2>11, <3>5, <3>6, <3>7, <3>8 DEF Conclude, TypeOK
  <2>12. CASE Interrupt
    BY <2>1, <2>2, <2>12 DEF Interrupt, TypeOK, progress, report
  <2>13. CASE UNCHANGED vars
    BY <2>1, <2>2, <2>13 DEF vars, TypeOK
  <2> QED
    BY <2>3, <2>4, <2>5, <2>6, <2>7, <2>8, <2>9, <2>10, <2>11, <2>12, <2>13
       DEF Next, Proceed, TakeStep
<1> QED
  BY <1>1, <1>2, PTL DEF Spec

--------------------------------------------------------------------------------
(* One testcase for every entry with an outcome and none for the others,   *)
(* at every moment of the run; a run that completed has left none over.    *)
(* EveryEntryReported by itself says nothing of the states before the end. *)
ReportInv ==
    /\ args.junitxml =>
          \A i \in EntryIxs : Len(cases[i]) = IF resolved[i] = Unresolved THEN 0 ELSE 1
    /\ Completed => \A i \in EntryIxs : resolved[i] # Unresolved

(* Entries that get an outcome get one testcase each, in the same step.    *)
LEMMA OutcomesAreReported ==
    ASSUME TypeOK, EntryIxs' = EntryIxs, args' = args,
           args.junitxml =>
               \A i \in EntryIxs : Len(cases[i]) = IF resolved[i] = Unresolved THEN 0 ELSE 1,
           NEW S \in SUBSET EntryIxs, \A i \in S : resolved[i] = Unresolved,
           NEW new, DOMAIN new = S, AddCases(new),
           \A i \in S : new[i] \in Seq(Verdict) /\ Len(new[i]) = 1,
           NEW outcome, \A i \in S : outcome[i] \in Terminal,
           resolved' = [i \in EntryIxs |-> IF i \in S THEN outcome[i] ELSE resolved[i]]
    PROVE  args'.junitxml =>
               \A i \in EntryIxs' : Len(cases'[i]) = IF resolved'[i] = Unresolved THEN 0 ELSE 1
<1> SUFFICES ASSUME args.junitxml, NEW i \in EntryIxs
             PROVE  Len(cases'[i]) = IF resolved'[i] = Unresolved THEN 0 ELSE 1
  OBVIOUS
<1>1. cases[i] \in Seq(Verdict)
  BY DEF TypeOK
<1>2. Unresolved \notin Terminal
  BY DEF Unresolved, Terminal, Skip, Error, Passed, Failed
<1>3. CASE i \in S
  <2>1. cases'[i] = cases[i] \o new[i] /\ resolved'[i] \in Terminal
    BY <1>3 DEF AddCases
  <2> QED
    BY <1>1, <1>2, <1>3, <2>1
<1>4. CASE i \notin S
  BY <1>4 DEF AddCases
<1> QED
  BY <1>3, <1>4

(* "Every config-declared validation reaches the report": for every        *)
(* configuration and every selection, a run that completes has one         *)
(* terminal outcome and, with --junitxml, one testcase per validation,     *)
(* although they are written by three different paths of the loop.         *)
THEOREM EveryValidationReported == Spec => []EveryEntryReported
<1>1. Init => ReportInv
  <2> SUFFICES ASSUME Init PROVE ReportInv
    OBVIOUS
  <2>1. /\ pc = "start"
        /\ resolved = [i \in EntryIxs |-> Unresolved]
        /\ cases = [i \in EntryIxs |-> <<>>]
    BY DEF Init
  <2> QED
    BY <2>1 DEF ReportInv, Completed
<1>2. ReportInv /\ TypeOK /\ [Next]_vars => ReportInv'
  <2> SUFFICES ASSUME ReportInv, TypeOK, [Next]_vars PROVE ReportInv'
    OBVIOUS
  <2>1. config' = config /\ args' = args
    BY InputUnchanged
  <2>2. EntryIxs' = EntryIxs /\ Runnable' = Runnable
    BY <2>1, StaticUnchanged
  <2>3. ASSUME UNCHANGED <<resolved, cases>>, pc' = "done" => pc = "done" \/ ~Runnable
        PROVE  ReportInv'
    BY <2>1, <2>2, <2>3 DEF ReportInv, Completed
  <2>4. CASE Start
    <3>1. ASSUME NEW success, NEW results, Return(success, results) PROVE UNCHANGED <<resolved, cases>>
      BY <3>1 DEF Return, report
    <3>2. CASE ReturnNoPlatform \/ ReturnPlatformSkipped \/ ReturnNoSteps
                 \/ ReturnNothingToAssert \/ ReturnUnknownStepPhase
      <4>1. ~Runnable
        BY <3>2 DEF ReturnNoPlatform, ReturnPlatformSkipped, ReturnNoSteps, ReturnNothingToAssert,
                    ReturnUnknownStepPhase, Runnable, PlatformKnown
      <4>2. UNCHANGED <<resolved, cases>>
        BY <3>1, <3>2 DEF ReturnNoPlatform, ReturnPlatformSkipped, ReturnNoSteps,
                          ReturnNothingToAssert, ReturnUnknownStepPhase
      <4> QED
        BY <2>3, <4>1, <4>2
    <3>3. CASE RaiseUnknownPlatform \/ EnterPhaseLoop
      BY <2>3, <3>3 DEF RaiseUnknownPlatform, EnterPhaseLoop, progress, report
    <3> QED
      BY <2>4, <3>2, <3>3 DEF Start
  <2>5. CASE TakePhase
    BY <2>3, <2>5 DEF TakePhase, PassOverPhase, SkipPhase, BeginPhase, AtPhase, progress, report
  <2>6. CASE TakeStep
    BY <2>3, <2>6 DEF TakeStep, SkipStep, FailBeforeStart, StartCommand, FinishSteps, FinishStep,
                      progress, report
  <2>7. CASE CommandTimesOut \/ CommandEnds
    BY <2>3, <2>7 DEF CommandTimesOut, CommandEnds, CommandReturns, FinishStep, progress
  <2>8. CASE Interrupt
    BY <2>3, <2>8 DEF Interrupt, progress, report
  <2>9. CASE UNCHANGED vars
    BY <2>3, <2>9 DEF vars
  <2>10. CASE Validate
    <3>1. /\ PhaseEntries \in SUBSET EntryIxs
          /\ \A i \in PhaseEntries : resolved[i] = Unresolved
      BY DEF PhaseEntries
    <3>2. \A i \in PhaseEntries \ ReadyEntries :
             /\ Resolve(i) \in Terminal
             /\ StubCase(Resolve(i)) \in Seq(Verdict) /\ Len(StubCase(Resolve(i))) = 1
      BY ResolutionTypes, StubTypes DEF ReadyEntries, Resolve
    <3>3. ASSUME NEW outcome, NEW exit, NEW new,
                 DOMAIN outcome = PhaseEntries, DOMAIN new = PhaseEntries,
                 \A i \in PhaseEntries : /\ outcome[i] \in Terminal
                                          /\ new[i] \in Seq(Verdict) /\ Len(new[i]) = 1,
                 AddCases(new), EndPhase(outcome, exit)
          PROVE  ReportInv'
      <4>1. /\ resolved' = [i \in EntryIxs |->
                               IF i \in PhaseEntries THEN outcome[i] ELSE resolved[i]]
            /\ pc' = "phase"
        BY <3>3 DEF EndPhase
      <4> QED
        BY <2>1, <2>2, <3>1, <3>3, <4>1, OutcomesAreReported DEF ReportInv, Completed
    <3>4. ASSUME NEW s \in PytestSession(ReadyEntries), RunValidations(s) PROVE ReportInv'
      <4> DEFINE outcome == [i \in PhaseEntries |->
                     IF i \in ReadyEntries THEN AppliedResult(s.test[i]) ELSE Resolve(i)]
                 new == [i \in PhaseEntries |->
                     IF i \in ReadyEntries THEN ExecutedCase(s, i) ELSE StubCase(Resolve(i))]
      <4>1. \A i \in ReadyEntries : s.test[i] \in TestResult
        BY DEF PytestSession
      <4>2. \A i \in PhaseEntries : /\ outcome[i] \in Terminal
                                    /\ new[i] \in Seq(Verdict) /\ Len(new[i]) = 1
        BY <3>2, <4>1, OutcomeTypes
      <4>3. AddCases(new) /\ EndPhase(outcome, s.exit)
        BY <3>4 DEF RunValidations
      <4>4. DOMAIN outcome = PhaseEntries /\ DOMAIN new = PhaseEntries
        OBVIOUS
      <4> HIDE DEF outcome, new
      <4> QED
        BY <3>3, <4>2, <4>3, <4>4
    <3>5. CASE ResolveOnly
      <4> DEFINE outcome == [i \in PhaseEntries |-> Resolve(i)]
                 new == [i \in PhaseEntries |-> StubCase(Resolve(i))]
      <4>1. \A i \in PhaseEntries : /\ outcome[i] \in Terminal
                                    /\ new[i] \in Seq(Verdict) /\ Len(new[i]) = 1
        BY <3>2, <3>5 DEF ResolveOnly
      <4>2. AddCases(new) /\ EndPhase(outcome, NotRun)
        BY <3>5 DEF ResolveOnly
      <4>3. DOMAIN outcome = PhaseEntries /\ DOMAIN new = PhaseEntries
        OBVIOUS
      <4> HIDE DEF outcome, new
      <4> QED
        BY <3>3, <4>1, <4>2, <4>3
    <3> QED
      BY <2>10, <3>4, <3>5 DEF Validate
  <2>11. CASE Conclude
    <3> DEFINE outcome == [i \in RemainingEntries |-> Terminalize(Resolve(i))]
               new == [i \in RemainingEntries |-> StubCase(outcome[i])]
    <3>1. /\ RemainingEntries \in SUBSET EntryIxs
          /\ \A i \in EntryIxs : i \in RemainingEntries <=> resolved[i] = Unresolved
      BY DEF RemainingEntries
    <3>2. \A i \in RemainingEntries : outcome[i] \in Terminal
      BY ResolutionTypes DEF Terminalize, Resolve, Terminal, SkipReason
    <3>3. \A i \in RemainingEntries : new[i] \in Seq(Verdict) /\ Len(new[i]) = 1
      BY <3>2, StubTypes
    <3>4. /\ AddCases(new) /\ DOMAIN new = RemainingEntries
          /\ resolved' = [i \in EntryIxs |->
                             IF i \in RemainingEntries THEN outcome[i] ELSE resolved[i]]
      BY <2>11 DEF Conclude
    <3>5. \A i \in EntryIxs' : resolved'[i] # Unresolved
      BY <2>2, <3>1, <3>2, <3>4 DEF Unresolved, Terminal, Skip, Error, Passed, Failed
    <3> HIDE DEF outcome, new
    <3>6. args'.junitxml =>
             \A i \in EntryIxs' : Len(cases'[i]) = IF resolved'[i] = Unresolved THEN 0 ELSE 1
      BY <2>1, <2>2, <3>1, <3>2, <3>3, <3>4, OutcomesAreReported DEF ReportInv
    <3> QED
      BY <3>5, <3>6 DEF ReportInv
  <2> QED
    BY <2>4, <2>5, <2>6, <2>7, <2>8, <2>9, <2>10, <2>11 DEF Next, Proceed
<1>3. ReportInv /\ TypeOK => EveryEntryReported
  BY DEF ReportInv, TypeOK, EveryEntryReported
<1> QED
  BY <1>1, <1>2, <1>3, OrchestratorTypeCorrect, PTL DEF Spec
================================================================================
