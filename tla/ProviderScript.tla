--------------------------- MODULE ProviderScript ---------------------------
(***************************************************************************)
(* One execution of a provider script against a cloud that may refuse any  *)
(* request.  Every script of isvctl/configs/providers has this shape: main *)
(* runs its helpers in a try block, the finally block deletes what main    *)
(* holds the id of, one JSON document is printed for the step executor.    *)
(***************************************************************************)
EXTENDS ScriptLanguage

CONSTANTS
    Scripts,    \* Scripts[n]: the script a behaviour may execute under the name n
    MaxFaults   \* bound: requests that fail in one execution

ASSUME ScriptAssumption ==
    /\ MaxFaults \in Nat
    /\ \A n \in DOMAIN Scripts : Scripts[n] \in ScriptRecord

(***************************************************************************)
(* What can be said of a script s without executing it: the ids a unit u   *)
(* of it comes to know; those main holds at the most when it leaves at its *)
(* i-th unit; what is built inside of something; the errors a call c may   *)
(* raise; and the units of a finally block that let no exception out.      *)
(***************************************************************************)
TestNames(s) == {s.body[i].test : i \in DOMAIN s.body} \ {""}
Ids(u) == {u.calls[k].res : k \in {k \in DOMAIN u.calls : u.calls[k].do \in {"make", "look"}}}
IdsBefore(s, i) == s.names \cup UNION {Ids(s.body[k]) : k \in {k \in DOMAIN s.body : k < i}}
Held(s, i) ==
    (IdsBefore(s, i) \cup IF s.body[i].keeps THEN Ids(s.body[i]) ELSE {}) \ s.body[i].loses
Inside(u) == UNION {u.calls[k].in : k \in DOMAIN u.calls}
Hosts(s) == UNION ({Inside(s.body[i]) : i \in DOMAIN s.body} \cup {x.in : x \in s.given}
                   \cup {Inside(s.cleanup[i]) : i \in DOMAIN s.cleanup})
Throwable(s, c) ==
    c.errs \cup (IF c.do \in {"drop", "look"} THEN Coded ELSE None)
           \cup (IF c.do \in {"drop", "purge", "retry"} /\ c.res \in Hosts(s) THEN {"client"} ELSE None)
Quiet(s, u) == u.inner \/ \A k \in DOMAIN u.calls : Throwable(s, u.calls[k]) \subseteq u.catch
EarlyUnits(s) == {i \in DOMAIN s.body : s.body[i].fail \in {"return", "succeed"}}

(***************************************************************************)
(* How the scripts are written: a finally block records no test; one that  *)
(* runs after a return inside of the try block finds no new ids, and what  *)
(* could raise in it works on ids that main does not hold at that return.  *)
(***************************************************************************)
ASSUME StyleAssumption ==
    \A n \in DOMAIN Scripts :
        /\ \A k \in DOMAIN Scripts[n].cleanup : Scripts[n].cleanup[k].test = ""
        /\ Scripts[n].sure =>
              \A i \in EarlyUnits(Scripts[n]) : \A k \in DOMAIN Scripts[n].cleanup :
                  /\ Ids(Scripts[n].cleanup[k]) = {}
                  /\ \/ Quiet(Scripts[n], Scripts[n].cleanup[k])
                     \/ ~(Scripts[n].cleanup[k].guard \subseteq Held(Scripts[n], i))

VARIABLES
    name,      \* the name of the script being executed
    script,    \* that script
    part,      \* "body", "cleanup" (the finally block) or "done"
    unit,      \* index of the current unit of that part
    call,      \* index of the next call of that unit
    cloud,     \* resources that exist, with what they are inside of
    fresh,     \* resources created by the current unit
    known,     \* resources whose id main holds
    tests,     \* result["tests"]: outcome of each entry
    trouble,   \* result has cleanup_errors
    success,   \* result["success"]
    docs,      \* JSON documents on stdout
    raised,    \* an exception nobody caught is on its way out of main
    abandoned, \* the finally block was left by an exception
    faults     \* requests that failed

vars == <<name, script, part, unit, call, cloud, fresh, known, tests, trouble,
          success, docs, raised, abandoned, faults>>

Units == IF part = "body" THEN script.body ELSE script.cleanup
Unit  == Units[unit]
Now   == Unit.calls[call]

Exists(r)    == \E x \in cloud : x.res = r
Stands(r)    == \E x \in cloud : x.res = r /\ ~x.going
InUse(r)     == \E x \in cloud : r \in x.in
Without(r)   == {x \in cloud : x.res # r /\ x.on # r}
Passed       == {t \in DOMAIN tests : tests[t] = "pass"}

TypeOK ==
    /\ name \in DOMAIN Scripts /\ script = Scripts[name]
    /\ part \in {"body", "cleanup", "done"}
    /\ unit \in Nat \ {0} /\ call \in Nat \ {0} /\ docs \in Nat /\ faults \in Nat
    /\ \A x \in cloud : x \in Resource
    /\ fresh \subseteq STRING /\ known \subseteq STRING
    /\ tests \in [TestNames(script) -> {"absent", "pass", "fail"}]
    /\ trouble \in BOOLEAN /\ success \in BOOLEAN /\ raised \in BOOLEAN /\ abandoned \in BOOLEAN

Init ==
    /\ name \in DOMAIN Scripts /\ script = Scripts[name]
    /\ part = "body" /\ unit = 1 /\ call = 1
    /\ cloud = script.given /\ fresh = {} /\ known = script.names
    /\ tests = [t \in TestNames(script) |-> "absent"]
    /\ trouble = FALSE /\ success = FALSE /\ docs = 0
    /\ raised = FALSE /\ abandoned = FALSE /\ faults = 0

-----------------------------------------------------------------------------
\* Mutant: the outcome of a test that passed is misspelt.
MutantOutcomeSpelling(outcome) ==
    tests' = IF Unit.test = "" THEN tests
             ELSE [tests EXCEPT ![Unit.test] = IF outcome = "pass" THEN "passed" ELSE outcome]

Record(outcome) ==
    tests' = IF Unit.test = "" THEN tests ELSE [tests EXCEPT ![Unit.test] = outcome]

NextUnit == unit' = unit + 1 /\ call' = 1 /\ fresh' = {}

(***************************************************************************)
(* Whether main reaches the current unit: the tests it builds on passed,   *)
(* main holds the ids it works on and no longer those that go first.       *)
(***************************************************************************)
Wanted  == Unit.needs \subseteq Passed /\ Unit.guard \subseteq known
Blocked == Unit.after \cap known # {}
InUnit  == part # "done" /\ unit <= Len(Units) /\ (call > 1 \/ (Wanted /\ ~Blocked))
AtCall  == InUnit /\ call <= Len(Unit.calls)

SkipUnit ==
    /\ part # "done" /\ unit <= Len(Units) /\ call = 1
    /\ ~Wanted \/ Blocked
    /\ trouble' = (trouble \/ (Unit.notes /\ Wanted))
    /\ NextUnit
    /\ UNCHANGED <<name, script, part, cloud, known, tests, success, docs, raised, abandoned, faults>>

\* Mutant: the finally block became the end of the except clause.
MutantCleanupOnErrorOnly == Len(script.cleanup) + 1

(***************************************************************************)
(* Where the cleanup starts for a body that was left without an exception: *)
(* the cleanup of an except clause is passed over.                         *)
(***************************************************************************)
CleanupStart == IF script.sure THEN 1 ELSE Len(script.cleanup) + 1

(***************************************************************************)
(* Leaving the body for the finally block; prints says that the result was *)
(* printed on the way (print and return inside the try block), escapes     *)
(* that an exception continues after the finally block.                    *)
(***************************************************************************)
EnterCleanup(prints, escapes) ==
    /\ part' = "cleanup" /\ unit' = (IF prints THEN CleanupStart ELSE 1) /\ call' = 1 /\ fresh' = {}
    /\ docs' = IF prints THEN docs + 1 ELSE docs
    /\ raised' = escapes
    /\ UNCHANGED <<trouble, success, abandoned>>

(***************************************************************************)
(* An exception out of the finally block: the rest of it is not executed   *)
(* and handle_aws_errors prints a document of its own.                     *)
(***************************************************************************)
Abandon ==
    /\ part' = "done" /\ abandoned' = TRUE /\ raised' = TRUE
    /\ success' = FALSE
    /\ docs' = IF script.wrapped THEN docs + 1 ELSE docs
    /\ UNCHANGED <<unit, call, fresh, trouble>>

(***************************************************************************)
(* An exception e out of the body: an except clause that does not take it  *)
(* does not clean up either.                                               *)
(***************************************************************************)
LeaveBody(e) ==
    IF script.sure \/ e \in script.catch THEN EnterCleanup(FALSE, e \notin script.catch) ELSE Abandon

(***************************************************************************)
(* An exception out of the finally block of a helper, or out of a try      *)
(* block in the finally block: what follows that block is executed.        *)
(***************************************************************************)
LeaveInner ==
    /\ \E i \in unit + 1 .. Len(Units) + 1 :
          /\ i <= Len(Units) => ~Units[i].inner
          /\ \A k \in unit .. (i - 1) : Units[k].inner
          /\ unit' = i
    /\ call' = 1 /\ fresh' = {}
    /\ trouble' = (trouble \/ Unit.notes)
    /\ UNCHANGED <<part, success, docs, raised, abandoned>>

(***************************************************************************)
(* There was nothing to do: the result is printed with success.            *)
(***************************************************************************)
ReturnEarly ==
    /\ part' = "cleanup" /\ unit' = CleanupStart /\ call' = 1 /\ fresh' = {}
    /\ docs' = docs + 1 /\ success' = TRUE
    /\ UNCHANGED <<trouble, raised, abandoned>>

\* Mutant: the except clause of a cleanup unit logs the error and does not add it to the result.
MutantErrorNotNoted ==
    /\ Record("fail")
    /\ known' = (IF Unit.keeps THEN known \cup fresh ELSE known) \ Unit.loses
    /\ IF part = "cleanup"
       THEN NextUnit /\ UNCHANGED <<part, trouble, success, docs, raised, abandoned>>
       ELSE CASE Unit.fail = "go"     -> /\ NextUnit
                                         /\ UNCHANGED <<part, trouble, success, docs, raised, abandoned>>
              [] Unit.fail = "return" -> EnterCleanup(TRUE, FALSE)
              [] Unit.fail = "succeed" -> ReturnEarly
              [] Unit.fail = "raise"  -> LeaveBody("other")

(***************************************************************************)
(* The unit ends without success: its own except clause took the exception *)
(* or a condition was false.                                               *)
(***************************************************************************)
UnitFails ==
    /\ Record("fail")
    /\ known' = (IF Unit.keeps THEN known \cup fresh ELSE known) \ Unit.loses
    /\ IF part = "cleanup"
       THEN /\ trouble' = (trouble \/ Unit.notes) /\ NextUnit
            /\ UNCHANGED <<part, success, docs, raised, abandoned>>
       ELSE CASE Unit.fail = "go"     -> /\ NextUnit
                                         /\ UNCHANGED <<part, trouble, success, docs, raised, abandoned>>
              [] Unit.fail = "return" -> EnterCleanup(TRUE, FALSE)
              [] Unit.fail = "succeed" -> ReturnEarly
              [] Unit.fail = "raise"  -> LeaveBody("other")

(***************************************************************************)
(* The unit is left by an exception e it does not catch.  Ids assigned in  *)
(* main itself survive, those local to a helper do not.                    *)
(***************************************************************************)
UnitRaises(e) ==
    /\ known' = IF Unit.keeps /\ Unit.catch = None THEN known \cup fresh ELSE known
    /\ UNCHANGED tests
    /\ CASE part = "body" -> LeaveBody(e)
         [] part = "cleanup" /\ Unit.inner  -> LeaveInner
         [] part = "cleanup" /\ ~Unit.inner -> Abandon

Throw(e) == IF e \in Unit.catch THEN UnitFails ELSE UnitRaises(e)

-----------------------------------------------------------------------------
(***************************************************************************)
(* The calls.                                                              *)
(***************************************************************************)
Proceed ==
    /\ call' = call + 1
    /\ UNCHANGED <<name, script, part, unit, tests, trouble, success, docs, raised, abandoned, faults>>

Create ==
    /\ AtCall /\ Now.do = "make"
    /\ cloud' = cloud \cup {[res |-> Now.res, in |-> Now.in, on |-> Now.on, going |-> FALSE]}
    /\ fresh' = fresh \cup {Now.res}
    /\ Proceed /\ UNCHANGED known

Delete ==
    /\ AtCall /\ Now.do \in {"drop", "purge", "retry"}
    /\ ~InUse(Now.res)
    /\ Now.do = "drop" => Exists(Now.res)
    /\ cloud' = Without(Now.res)
    /\ known' = IF part = "cleanup" THEN known \ {Now.res} ELSE known
    /\ Proceed /\ UNCHANGED fresh

(***************************************************************************)
(* The cloud refuses to delete what another resource is inside of; a       *)
(* retried delete outlasts what is terminating.  What does not exist is    *)
(* refused with a code of its own.                                         *)
(***************************************************************************)
DeleteRefused ==
    /\ AtCall
    /\ \/ Now.do \in {"drop", "purge"} /\ InUse(Now.res)
       \/ Now.do = "retry" /\ \E x \in cloud : Now.res \in x.in /\ ~x.going
    /\ Throw("client")
    /\ UNCHANGED <<name, script, cloud, faults>>

NotFound ==
    /\ AtCall /\ Now.do \in {"drop", "look"} /\ ~Exists(Now.res) /\ ~InUse(Now.res)
    /\ Throw("coded")
    /\ UNCHANGED <<name, script, cloud, faults>>

\* Mutant: the request to terminate is never sent.
MutantNeverTerminates ==
    /\ AtCall /\ Now.do = "terminate"
    /\ known' = IF part = "cleanup" THEN known \ {Now.res} ELSE known
    /\ Proceed /\ UNCHANGED <<cloud, fresh>>

StartTermination ==
    /\ AtCall /\ Now.do = "terminate"
    /\ cloud' = {IF x.res = Now.res THEN [x EXCEPT !.going = TRUE] ELSE x : x \in cloud}
    /\ known' = IF part = "cleanup" THEN known \ {Now.res} ELSE known
    /\ Proceed /\ UNCHANGED fresh

WaitUntilGone ==
    /\ AtCall /\ Now.do = "gone" /\ ~Exists(Now.res)
    /\ Proceed /\ UNCHANGED <<cloud, fresh, known>>

Find ==
    /\ AtCall /\ Now.do = "look" /\ Exists(Now.res)
    /\ fresh' = fresh \cup {Now.res}
    /\ Proceed /\ UNCHANGED <<cloud, known>>

Answer ==
    /\ AtCall /\ Now.do \in {"absent", "ask", "judge", "deny"}
    /\ Now.do = "absent" => ~Stands(Now.res)
    /\ Proceed /\ UNCHANGED <<cloud, fresh, known>>

JudgedFalse ==
    /\ AtCall
    /\ Now.do \in {"judge", "deny"} \/ (Now.do = "absent" /\ Stands(Now.res))
    /\ UnitFails
    /\ UNCHANGED <<name, script, cloud, faults>>

CallFails ==
    /\ AtCall /\ faults < MaxFaults
    /\ faults' = faults + 1
    /\ \E e \in Now.errs : Throw(e)
    /\ UNCHANGED <<name, script, cloud>>

(***************************************************************************)
(* A command that must be refused ends with an exit code either way: one   *)
(* that never reached the service is taken for a refusal.                  *)
(***************************************************************************)
TakenForRefusal ==
    /\ AtCall /\ Now.do = "deny" /\ faults < MaxFaults
    /\ faults' = faults + 1 /\ call' = call + 1
    /\ UNCHANGED <<name, script, part, unit, cloud, fresh, known, tests, trouble, success, docs, raised, abandoned>>

(***************************************************************************)
(* A request to create was carried out and its answer was lost: the caller *)
(* sees a broken connection, or a command that ran into its timeout.       *)
(***************************************************************************)
AnswerLost ==
    /\ AtCall /\ Now.do = "make" /\ faults < MaxFaults
    /\ faults' = faults + 1
    /\ cloud' = cloud \cup {[res |-> Now.res, in |-> Now.in, on |-> Now.on, going |-> FALSE]}
    /\ \E e \in Now.errs \ Client : Throw(e)
    /\ UNCHANGED <<name, script>>

\* Mutant: the id that a helper returned is not assigned in main.
MutantIdNotTaken ==
    /\ InUnit /\ call > Len(Unit.calls)
    /\ Record("pass")
    /\ known' = known \ Unit.forgets
    /\ NextUnit
    /\ UNCHANGED <<name, script, part, cloud, trouble, success, docs, raised, abandoned, faults>>

UnitPasses ==
    /\ InUnit /\ call > Len(Unit.calls)
    /\ Record("pass")
    /\ known' = (known \cup fresh) \ Unit.forgets
    /\ NextUnit
    /\ UNCHANGED <<name, script, part, cloud, trouble, success, docs, raised, abandoned, faults>>

(***************************************************************************)
(* A terminating instance is gone after a while.                           *)
(***************************************************************************)
Vanish ==
    /\ \E x \in cloud : x.going /\ cloud' = Without(x.res)
    /\ UNCHANGED <<name, script, part, unit, call, fresh, known, tests, trouble, success, docs,
                   raised, abandoned, faults>>

-----------------------------------------------------------------------------
AllPassed ==
    IF script.graded = {} THEN \A t \in DOMAIN tests : tests[t] # "fail"
    ELSE script.graded \subseteq Passed

BodyEnds ==
    /\ part = "body" /\ unit > Len(script.body)
    /\ success' = AllPassed
    /\ part' = "cleanup" /\ unit' = CleanupStart /\ call' = 1 /\ fresh' = {}
    /\ UNCHANGED <<name, script, cloud, known, tests, trouble, docs, raised, abandoned, faults>>

\* Mutant: cleanup_errors are printed and success is left as it was.
MutantCleanupIgnored ==
    /\ part = "cleanup" /\ unit > Len(script.cleanup)
    /\ part' = "done"
    /\ success' = (success /\ ~raised)
    /\ docs' = IF (IF raised THEN script.wrapped ELSE docs = 0) THEN docs + 1 ELSE docs
    /\ UNCHANGED <<name, script, unit, call, cloud, fresh, known, tests, trouble, raised, abandoned, faults>>

\* Mutant: the result is printed again after an early return.
MutantPrintsTwice ==
    /\ part = "cleanup" /\ unit > Len(script.cleanup)
    /\ part' = "done"
    /\ success' = (success /\ ~trouble /\ ~raised)
    /\ docs' = docs + 1
    /\ UNCHANGED <<name, script, unit, call, cloud, fresh, known, tests, trouble, raised, abandoned, faults>>

(***************************************************************************)
(* After the finally block: cleanup_errors turn success off and the result *)
(* is printed, unless it already was or an exception is still on its way,  *)
(* which handle_aws_errors prints instead.                                 *)
(***************************************************************************)
CleanupEnds ==
    /\ part = "cleanup" /\ unit > Len(script.cleanup)
    /\ part' = "done"
    /\ success' = (success /\ ~trouble /\ ~raised)
    /\ docs' = IF (IF raised THEN script.wrapped ELSE docs = 0) THEN docs + 1 ELSE docs
    /\ UNCHANGED <<name, script, unit, call, cloud, fresh, known, tests, trouble, raised, abandoned, faults>>

Step ==
    \/ SkipUnit \/ Create \/ Delete \/ DeleteRefused \/ NotFound \/ StartTermination \/ WaitUntilGone
    \/ Find \/ Answer \/ JudgedFalse \/ CallFails \/ TakenForRefusal
    \/ AnswerLost \/ UnitPasses \/ BodyEnds \/ CleanupEnds

Next == Step \/ Vanish

Spec == Init /\ [][Next]_vars

-----------------------------------------------------------------------------
Ended == part = "done"

(***************************************************************************)
(* Whatever fails, stdout carries at most one JSON document: an early      *)
(* return, the end of main and handle_aws_errors never both print.  Only a *)
(* script without handle_aws_errors that is left by an exception prints    *)
(* none.  The step executor parses stdout as one document.                 *)
(***************************************************************************)
OneDocument == Ended => docs = IF raised /\ ~script.wrapped THEN 0 ELSE 1
=============================================================================
