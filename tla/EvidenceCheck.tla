--------------------------- MODULE EvidenceCheck ---------------------------
(***************************************************************************)
(* One validation executed on one step output (core/validation.py,         *)
(* core/composite.py): execute wraps run, run goes through the steps of    *)
(* the class, a composite does so for each of its members and combines     *)
(* what they said.                                                         *)
(***************************************************************************)
EXTENDS CheckLanguage

CONSTANTS
    Checks,     \* Checks[n]: the members of the check wired under the name n
    Outputs,    \* Outputs[n]: the step outputs the check n is executed on
    Echoing,    \* the checks that only compare an identifier with the one of the arguments
    Waived      \* the checks that accept a teardown told to leave the fixture alone

(***************************************************************************)
(* A step output: the evidence that is good, marked skipped and wrong (the *)
(* rest is absent), and whether the whole step reported skipped; from says *)
(* where it comes from.                                                    *)
(***************************************************************************)
Output == [from: STRING, good: SUBSET STRING, skip: SUBSET STRING, wrong: SUBSET STRING,
           skipped: BOOLEAN]

ASSUME CheckAssumption ==
    /\ DOMAIN Outputs = DOMAIN Checks
    /\ \A n \in DOMAIN Checks : Checks[n] \in Seq(Member) /\ Checks[n] # <<>>
    /\ \A n \in DOMAIN Checks : Outputs[n] \subseteq Output

(***************************************************************************)
(* No class reports a subtest and then leaves with pytest.skip.            *)
(***************************************************************************)
ASSUME SubtestsComeLast ==
    \A n \in DOMAIN Checks : \A i \in DOMAIN Checks[n] : \A j, k \in DOMAIN Checks[n][i] :
        j < k /\ Checks[n][i][j].do \in {"subs", "faults"} => Checks[n][i][k].do \notin {"tests", "found"}

VARIABLES
    name,      \* the check being executed
    output,    \* its step output
    member,    \* index of the current member
    step,      \* index of the next step of that member
    failing,   \* the member reported a subtest that failed
    failures,  \* members that failed
    skips,     \* members that were skipped
    raised,    \* a member ended in an exception
    shown,     \* failed subtests handed to pytest
    verdict    \* "running", "passed", "failed" or "skipped"

vars == <<name, output, member, step, failing, failures, skips, raised, shown, verdict>>

Steps == Checks[name][member]
Now   == Steps[step]

TypeOK ==
    /\ name \in DOMAIN Checks /\ output \in Output
    /\ member \in 1 .. Len(Checks[name]) + 1 /\ step \in Nat \ {0}
    /\ failing \in BOOLEAN /\ raised \in BOOLEAN
    /\ failures \subseteq 1 .. Len(Checks[name]) /\ skips \subseteq 1 .. Len(Checks[name])
    /\ shown \subseteq STRING
    /\ verdict \in {"running", "passed", "failed", "skipped"}

Init ==
    /\ name \in DOMAIN Checks /\ output \in Outputs[name]
    /\ member = 1 /\ step = 1
    /\ failing = FALSE /\ failures = {} /\ skips = {} /\ raised = FALSE
    /\ shown = {} /\ verdict = "running"

-----------------------------------------------------------------------------
Bad(fs) == fs \ (output.good \cup output.skip)

\* Mutant: an entry marked skipped settles the matter before the failed ones are counted.
MutantSkipSettles(ts) ==
    IF ts \cap output.skip # {} THEN "skip" ELSE IF Bad(ts) # {} THEN "fail" ELSE "go"

(***************************************************************************)
(* check_required_tests: failed entries outrank skipped ones.              *)
(***************************************************************************)
check_required_tests(ts) ==
    IF Bad(ts) # {} THEN "fail" ELSE IF ts \cap output.skip # {} THEN "skip" ELSE "go"

Running  == verdict = "running" /\ ~output.skipped /\ member <= Len(Checks[name])
InMember == Running /\ step <= Len(Steps)

\* Mutant: the verdict of a skipped step is misspelt.
MutantSkipSpelling ==
    /\ verdict = "running" /\ output.skipped
    /\ verdict' = "skip"
    /\ UNCHANGED <<name, output, member, step, failing, failures, skips, raised, shown>>

(***************************************************************************)
(* execute: a step output that says skipped skips the validation before    *)
(* run is called.                                                          *)
(***************************************************************************)
SkipStep ==
    /\ verdict = "running" /\ output.skipped
    /\ verdict' = "skipped"
    /\ UNCHANGED <<name, output, member, step, failing, failures, skips, raised, shown>>

GoOn ==
    /\ step' = step + 1
    /\ UNCHANGED <<name, output, member, failures, skips, raised, verdict>>

(***************************************************************************)
(* A member is over: set_failed or pytest.skip and return, or the end of   *)
(* its run method.                                                         *)
(***************************************************************************)
MemberEnds(result) ==
    /\ failures' = IF result = "fail" THEN failures \cup {member} ELSE failures
    /\ skips' = IF result = "skip" THEN skips \cup {member} ELSE skips
    /\ member' = member + 1 /\ step' = 1 /\ failing' = FALSE
    /\ UNCHANGED <<name, output, verdict>>

Accepted ==
    \/ Now.do = "need" /\ Now.of \subseteq output.good
    \/ Now.do = "has" /\ Now.of \subseteq output.good \cup output.skip \cup output.wrong
    \/ Now.do = "unless" /\ Now.of \cap output.wrong = {}

EvidenceHolds ==
    /\ InMember /\ Now.do \in {"need", "has", "unless"} /\ Accepted
    /\ GoOn /\ UNCHANGED <<failing, shown>>

EvidenceRejected ==
    /\ InMember /\ Now.do \in {"need", "has", "unless"} /\ ~Accepted
    /\ MemberEnds("fail") /\ UNCHANGED <<raised, shown>>

RequiredTests ==
    /\ InMember /\ Now.do = "tests"
    /\ shown' = shown \cup Bad(Now.of)
    /\ IF check_required_tests(Now.of) = "go"
       THEN GoOn /\ UNCHANGED failing
       ELSE MemberEnds(check_required_tests(Now.of)) /\ UNCHANGED raised

(***************************************************************************)
(* Nothing to judge: the class leaves with pytest.skip.                    *)
(***************************************************************************)
NothingToJudge ==
    /\ InMember /\ Now.do = "found"
    /\ IF Now.of \subseteq output.good
       THEN GoOn /\ UNCHANGED <<failing, shown>>
       ELSE MemberEnds("skip") /\ UNCHANGED <<raised, shown>>

Rejected == IF Now.do = "faults" THEN Now.of \cap output.wrong ELSE Bad(Now.of)

\* Mutant: a failed subtest is shown and forgotten.
MutantSubtestForgotten ==
    /\ InMember /\ Now.do \in {"subs", "faults", "notes"}
    /\ shown' = shown \cup Rejected
    /\ GoOn /\ UNCHANGED failing

(***************************************************************************)
(* report_subtest for each condition, the verdict comes later; a subtest   *)
(* reported as skipped is not a failed one (get_failed_subtests).          *)
(***************************************************************************)
report_subtest ==
    /\ InMember /\ Now.do \in {"subs", "faults", "notes"}
    /\ shown' = shown \cup Rejected
    /\ failing' = (failing \/ (Now.do # "notes" /\ Rejected # {}))
    /\ GoOn

(***************************************************************************)
(* Any exception out of run is caught by execute and counts as a failure.  *)
(***************************************************************************)
RunRaises ==
    /\ InMember
    /\ raised' = TRUE
    /\ MemberEnds("fail") /\ UNCHANGED shown

RunReturns ==
    /\ Running /\ step > Len(Steps)
    /\ MemberEnds(IF failing THEN "fail" ELSE "pass")
    /\ UNCHANGED <<raised, shown>>

\* Mutant: a skipped member counts as a failed one.
MutantSkipFails ==
    /\ verdict = "running" /\ ~output.skipped /\ member > Len(Checks[name])
    /\ verdict' = IF failures # {} \/ skips # {} THEN "failed" ELSE "passed"
    /\ UNCHANGED <<name, output, member, step, failing, failures, skips, raised, shown>>

(***************************************************************************)
(* CompositeCheck.run: a failure of a member outranks a skip, a skip       *)
(* outranks a pass.  A plain class is its only member.                     *)
(***************************************************************************)
Conclude ==
    /\ verdict = "running" /\ ~output.skipped /\ member > Len(Checks[name])
    /\ verdict' = IF failures # {} THEN "failed" ELSE IF skips # {} THEN "skipped" ELSE "passed"
    /\ UNCHANGED <<name, output, member, step, failing, failures, skips, raised, shown>>

Next ==
    \/ SkipStep \/ EvidenceHolds \/ EvidenceRejected \/ RequiredTests \/ NothingToJudge \/ report_subtest
    \/ RunRaises \/ RunReturns \/ Conclude

Spec == Init /\ [][Next]_vars

-----------------------------------------------------------------------------
(***************************************************************************)
(* What a step of a member rejects or declines to judge on a document      *)
(* alone; a document suits a check when none of its steps does either.     *)
(***************************************************************************)
RejectsOn(o, s) ==
    \/ s.do = "need" /\ ~(s.of \subseteq o.good)
    \/ s.do = "has" /\ ~(s.of \subseteq o.good \cup o.skip \cup o.wrong)
    \/ s.do \in {"unless", "faults"} /\ s.of \cap o.wrong # {}
    \/ s.do \in {"tests", "subs"} /\ ~(s.of \subseteq o.good \cup o.skip)

DeclinesOn(o, s) ==
    \/ s.do = "tests" /\ s.of \cap o.skip # {}
    \/ s.do = "found" /\ ~(s.of \subseteq o.good)

Suits(o, c) ==
    /\ ~o.skipped
    /\ \A i \in DOMAIN c : \A k \in DOMAIN c[i] : ~RejectsOn(o, c[i][k]) /\ ~DeclinesOn(o, c[i][k])

Rejects(s)  == RejectsOn(output, s)
Declines(s) == DeclinesOn(output, s)

(***************************************************************************)
(* A validation passes exactly when no member ended in an exception and    *)
(* nothing any of them looks at was missing, contradicted, failed or       *)
(* skipped: no early return, exception or sibling turns into a pass, and   *)
(* no pass is lost on the way through a composite.                         *)
(***************************************************************************)
PassExact ==
    verdict # "running" => (verdict = "passed" <=> ~raised /\ Suits(output, Checks[name]))

(***************************************************************************)
(* The scaffold and the suites agree: on the document a template prints in *)
(* demo mode, every check wired to it passes (make demo-test).  That takes *)
(* the confirmation of a reboot, which the template describes as optional  *)
(* ("treats absent as 'trust uptime'", vm/reboot_instance.py:38-40) and    *)
(* InstanceRebootCheck requires (instance.py:150-153, 209).                *)
(***************************************************************************)
DemoPasses == output.from = "demo" /\ verdict # "running" /\ ~raised => verdict = "passed"

(***************************************************************************)
(* A script nobody has implemented passes no check, with two exceptions:   *)
(* the comparison of an identifier that the script copied from its         *)
(* arguments, and the Waived checks of a teardown that was told to leave   *)
(* the fixture alone, which says success before it gets to its TODO.       *)
(***************************************************************************)
UnimplementedNeverPasses ==
    verdict = "passed" =>
        /\ output.from = "stub" => name \in Echoing
        /\ output.from = "spared" => name \in Waived

(***************************************************************************)
(* A validation that ends skipped hides no failure: in every member, each  *)
(* step that rejects the document comes after one that declined to judge.  *)
(***************************************************************************)
SkipHidesNothing ==
    verdict = "skipped" /\ ~output.skipped =>
        /\ ~raised
        /\ \A i \in DOMAIN Checks[name] : \A k \in DOMAIN Checks[name][i] :
              Rejects(Checks[name][i][k]) =>
                  \E j \in 1 .. k - 1 : Declines(Checks[name][i][j])

(***************************************************************************)
(* A validation fails for a reason: one of its members rejected the        *)
(* document or ended in an exception, and the step was not skipped.  A     *)
(* skipped or passing sibling is never counted as a failure.               *)
(***************************************************************************)
FailureIsExplained ==
    verdict = "failed" =>
        /\ ~output.skipped
        /\ raised \/ \E i \in DOMAIN Checks[name] : \E k \in DOMAIN Checks[name][i] :
                        Rejects(Checks[name][i][k])
=============================================================================
