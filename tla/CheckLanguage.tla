---------------------------- MODULE CheckLanguage ----------------------------
(***************************************************************************)
(* The vocabulary in which the validation classes of isvtest/validations   *)
(* are written down.  A class reads one step output (or what a command of  *)
(* its own answered) and sets a verdict; its run method is a sequence of   *)
(* steps over named pieces of evidence.  A piece of evidence is good       *)
(* (present, well-formed, the value the class wants), skipped (the         *)
(* provider marked the entry as skipped or unsupported), wrong (reported,  *)
(* with a value the class rejects) or absent.                              *)
(***************************************************************************)
EXTENDS Naturals, Sequences, FiniteSets

Step(do, of) == [do |-> do, of |-> of]

Need(fs)   == Step("need", fs)    \* if not ...: set_failed, return
Has(fs)    == Step("has", fs)     \* if a field is missing: set_failed, return
Unless(fs) == Step("unless", fs)  \* if reported and wrong: set_failed, return
Tests(ts)  == Step("tests", ts)   \* check_required_tests
Offer(f)   == Step("tests", {f})  \* skip if the provider reports f unsupported
SkipUnless(f) == Step("found", {f})  \* pytest.skip when there is nothing to judge
Subs(ts)   == Step("subs", ts)    \* report_subtest, each on its own condition
Faults(ts) == Step("faults", ts)  \* report_subtest for what is reported and wrong
Notes(ts)  == Step("notes", ts)   \* report_subtest that does not decide the verdict

Kinds == {"need", "has", "unless", "tests", "found", "subs", "faults", "notes"}

(***************************************************************************)
(* A check is a sequence of members: one for a plain class, several for a  *)
(* composite.  A member is a sequence of steps.                            *)
(***************************************************************************)
Member     == Seq([do: Kinds, of: SUBSET STRING])
Evidence(c) == UNION {UNION {c[i][k].of : k \in DOMAIN c[i]} : i \in DOMAIN c}
=============================================================================
