------------------------------- MODULE Lifecycle -------------------------------
(***************************************************************************)
(* What the orchestrator promises of a run, phase by phase                 *)
(* (the phase loop of orchestrator/loop.py without steps, validations or   *)
(* reports): phases run one at a time, only teardown runs once something   *)
(* has failed, teardown is left out only for one of two reasons, and the   *)
(* run is a success only if nothing failed.                                *)
(***************************************************************************)
CONSTANTS PhaseNames   \* phase names a configuration may use

VARIABLES
    plan,      \* the phases configured, those requested, cleanup after failure
    status,    \* of each phase
    healthy,   \* no phase has failed
    created,   \* the setup phase has executed commands
    outcome    \* how the run ended

vars == <<plan, status, healthy, created, outcome>>

Plan == [configured : SUBSET PhaseNames, requested : SUBSET PhaseNames, cleanup : BOOLEAN]

Init ==
    /\ plan \in Plan
    /\ status = [p \in PhaseNames |-> "pending"]
    /\ healthy = TRUE
    /\ created = FALSE
    /\ outcome = "running"

Idle == outcome = "running" /\ \A p \in PhaseNames : status[p] # "active"

Due(p) == p \in plan.configured \cap plan.requested /\ status[p] = "pending"

MaySkip(p) ==
    IF p = "teardown"
    THEN ("setup" \in plan.requested /\ ~created) \/ (~healthy /\ ~plan.cleanup)
    ELSE ~healthy

Begin(p) ==
    /\ Idle /\ Due(p)
    /\ ~MaySkip(p)
    /\ status' = [status EXCEPT ![p] = "active"]
    /\ UNCHANGED <<plan, healthy, created, outcome>>

Skip(p) ==
    /\ Idle /\ Due(p)
    /\ MaySkip(p)
    /\ status' = [status EXCEPT ![p] = "skipped"]
    /\ UNCHANGED <<plan, healthy, created, outcome>>

(* Commands of the setup phase have been executed.                         *)
Create ==
    /\ outcome = "running"
    /\ status["setup"] = "active"
    /\ created' = TRUE
    /\ UNCHANGED <<plan, status, healthy, outcome>>

Finish(p) ==
    /\ outcome = "running"
    /\ status[p] = "active"
    /\ status' = [status EXCEPT ![p] = "done"]
    /\ healthy' \in {healthy, FALSE}
    /\ UNCHANGED <<plan, created, outcome>>

(* The run returns once every phase that was asked for had its turn; what  *)
(* was never executed can still make it a failure.                         *)
Conclude ==
    /\ Idle
    /\ \A p \in PhaseNames : ~Due(p)
    /\ healthy' \in {healthy, FALSE}
    /\ outcome' = IF healthy' THEN "success" ELSE "failure"
    /\ UNCHANGED <<plan, status, created>>

(* The run is turned down before any phase, or the platform is skipped.    *)
Refuse ==
    /\ outcome = "running"
    /\ \A p \in PhaseNames : status[p] = "pending"
    /\ outcome' \in {"success", "failure"}
    /\ UNCHANGED <<plan, status, healthy, created>>

(* An exception leaves the run where it is.                                *)
Abort ==
    /\ outcome = "running"
    /\ outcome' = "aborted"
    /\ UNCHANGED <<plan, status, healthy, created>>

Next ==
    \/ \E p \in PhaseNames : Begin(p) \/ Skip(p) \/ Finish(p)
    \/ Create \/ Conclude \/ Refuse \/ Abort

Spec == Init /\ [][Next]_vars
================================================================================
