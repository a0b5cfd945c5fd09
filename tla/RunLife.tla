------------------------------ MODULE RunLife ------------------------------
(***************************************************************************)
(* What a reader of the lab portal may rely on for a test run: it is       *)
(* created once, STARTED, and closed at most once, with the verdict of the *)
(* tests it stands for.                                                    *)
(***************************************************************************)
CONSTANT TestRuns
VARIABLES status, truth      \* truth[r]: the verdict of the tests of r

Init == status = [r \in TestRuns |-> "none"]

Begin(r) ==
    /\ status[r] = "none"
    /\ status' = [status EXCEPT ![r] = "STARTED"]

Close(r) ==
    /\ status[r] = "STARTED"
    /\ truth[r] # "none"
    /\ status' = [status EXCEPT ![r] = IF truth[r] = "pass" THEN "SUCCESS" ELSE "FAILED"]

Next == \E r \in TestRuns : Begin(r) \/ Close(r)

Spec == Init /\ [][Next]_status
=============================================================================
