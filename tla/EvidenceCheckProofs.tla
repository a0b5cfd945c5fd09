------------------------- MODULE EvidenceCheckProofs -------------------------
(***************************************************************************)
(* What a verdict means, for every set of checks and of documents.         *)
(***************************************************************************)
EXTENDS EvidenceCheck, TLAPS

MemberIxs == DOMAIN Checks[name]
StepIxs(i) == DOMAIN Checks[name][i]

(* A finished member is accounted for: passed, skipped or failed.          *)
Explained(i) ==
    /\ i \notin failures /\ i \notin skips =>
          \A k \in StepIxs(i) : ~Rejects(Checks[name][i][k]) /\ ~Declines(Checks[name][i][k])
    /\ i \notin failures =>
          \A k \in StepIxs(i) : Rejects(Checks[name][i][k]) =>
              \E j \in 1 .. k - 1 : Declines(Checks[name][i][j])
    /\ i \in failures => raised \/ \E k \in StepIxs(i) : Rejects(Checks[name][i][k])
    /\ i \in skips => \E k \in StepIxs(i) : Declines(Checks[name][i][k])

(* The steps executed of the current member: none declined, and one that   *)
(* rejected is a subtest remembered in failing.                            *)
Behind ==
    /\ \A k \in StepIxs(member) : k < step =>
          /\ ~Declines(Checks[name][member][k])
          /\ Rejects(Checks[name][member][k]) => failing /\ Checks[name][member][k].do \in {"subs", "faults"}
    /\ failing => \E k \in StepIxs(member) :
          k < step /\ Rejects(Checks[name][member][k]) /\ Checks[name][member][k].do \in {"subs", "faults"}

Accounted ==
    /\ failures \subseteq 1 .. member - 1 /\ skips \subseteq 1 .. member - 1
    /\ \A i \in MemberIxs : i < member => Explained(i)
    /\ member \in MemberIxs => Behind
    /\ raised => failures # {}
    /\ output.skipped => failures = {} /\ verdict \in {"running", "skipped"}
    /\ verdict # "running" /\ ~output.skipped =>
          /\ member > Len(Checks[name])
          /\ verdict = IF failures # {} THEN "failed" ELSE IF skips # {} THEN "skipped" ELSE "passed"

IInv == TypeOK /\ Accounted

-----------------------------------------------------------------------------
(* The shape of the checks, from the assumptions on the constants.         *)
LEMMA Shapes ==
    ASSUME TypeOK
    PROVE  /\ Len(Checks[name]) \in Nat /\ MemberIxs = 1 .. Len(Checks[name])
           /\ \A i \in MemberIxs : /\ Len(Checks[name][i]) \in Nat
                                   /\ StepIxs(i) = 1 .. Len(Checks[name][i])
                                   /\ \A k \in StepIxs(i) : /\ Checks[name][i][k].do \in Kinds
                                                            /\ Checks[name][i][k].of \in SUBSET STRING
<1>1. Checks[name] \in Seq(Member)
  BY CheckAssumption DEF TypeOK
<1>2. Len(Checks[name]) \in Nat /\ MemberIxs = 1 .. Len(Checks[name])
  BY <1>1 DEF MemberIxs
<1>3. \A i \in MemberIxs : Checks[name][i] \in Member
  BY <1>1, <1>2
<1>4. ASSUME NEW m \in Member
      PROVE  /\ Len(m) \in Nat /\ DOMAIN m = 1 .. Len(m)
             /\ \A k \in DOMAIN m : m[k].do \in Kinds /\ m[k].of \in SUBSET STRING
  <2> DEFINE R == [do: Kinds, of: SUBSET STRING]
  <2>1. m \in Seq(R)
    BY DEF Member
  <2>2. Len(m) \in Nat /\ DOMAIN m = 1 .. Len(m) /\ \A k \in DOMAIN m : m[k] \in R
    <3> HIDE DEF R
    <3> QED BY <2>1
  <2> QED
    BY <2>2
<1> QED
  BY <1>2, <1>3, <1>4 DEF StepIxs

(* Nothing is accounted for differently while the check, its document and  *)
(* the verdicts on members stay.                                           *)
LEMMA SameJudgement ==
    ASSUME UNCHANGED <<name, output>>
    PROVE  /\ MemberIxs' = MemberIxs /\ \A i : StepIxs(i)' = StepIxs(i)
           /\ \A s : (Rejects(s)' <=> Rejects(s)) /\ (Declines(s)' <=> Declines(s))
BY DEF MemberIxs, StepIxs, Rejects, Declines

(* Where the current step stands.                                          *)
LEMMA AtStep ==
    ASSUME TypeOK, InMember
    PROVE  /\ member \in MemberIxs /\ member \in Nat /\ step \in StepIxs(member)
           /\ Now = Checks[name][member][step] /\ Now.of \in SUBSET STRING
           /\ Steps = Checks[name][member] /\ step \in Nat \ {0}
           /\ Len(Steps) \in Nat /\ StepIxs(member) = 1 .. Len(Steps)
<1>1. member \in 1 .. Len(Checks[name]) /\ member \in Nat
  BY Shapes DEF InMember, Running, TypeOK
<1>2. step \in StepIxs(member)
  BY <1>1, Shapes DEF InMember, TypeOK, Steps
<1> QED
  BY <1>1, <1>2, Shapes DEF Now, Steps, TypeOK

(* A step that goes on to the next one of its member.                      *)
LEMMA GoesOn ==
    ASSUME IInv, InMember, GoOn, shown' \in SUBSET STRING, failing' \in BOOLEAN,
           failing => failing', ~Declines(Now),
           Rejects(Now) => failing' /\ Now.do \in {"subs", "faults"},
           failing' => failing \/ (Rejects(Now) /\ Now.do \in {"subs", "faults"})
    PROVE  IInv'
<1>1. UNCHANGED <<name, output, member, failures, skips, raised, verdict>> /\ step' = step + 1
  BY DEF GoOn
<1>2. TypeOK'
  BY <1>1 DEF IInv, TypeOK
<1>3. \A i \in MemberIxs : Explained(i)' <=> Explained(i)
  BY <1>1, SameJudgement DEF Explained
<1>4. Behind'
  <2>1. Behind /\ verdict = "running"
    BY AtStep DEF IInv, Accounted, InMember, Running
  <2>2. \A k \in StepIxs(member) : k < step' <=> k < step \/ k = step
    BY <1>1, AtStep DEF IInv
  <2> QED
    BY <1>1, <2>1, <2>2, AtStep, SameJudgement DEF Behind, IInv
<1>5. Accounted'
  BY <1>1, <1>3, <1>4, SameJudgement DEF IInv, Accounted, InMember, Running
<1> QED
  BY <1>2, <1>5 DEF IInv

(* The end of a member, with a result that the document explains.          *)
LEMMA Ends ==
    ASSUME IInv, Running, NEW result \in {"pass", "skip", "fail"}, MemberEnds(result),
           raised' \in BOOLEAN, raised => raised', raised' => raised \/ result = "fail",
           shown' \in SUBSET STRING,
           result = "pass" => \A k \in StepIxs(member) :
               ~Rejects(Checks[name][member][k]) /\ ~Declines(Checks[name][member][k]),
           result = "skip" => \A k \in StepIxs(member) : Rejects(Checks[name][member][k]) =>
               \E j \in 1 .. k - 1 : Declines(Checks[name][member][j]),
           result = "skip" => \E k \in StepIxs(member) : Declines(Checks[name][member][k]),
           result = "fail" => raised' \/ \E k \in StepIxs(member) : Rejects(Checks[name][member][k])
    PROVE  IInv'
<1>1. UNCHANGED <<name, output, verdict>> /\ member' = member + 1 /\ step' = 1 /\ failing' = FALSE
  BY DEF MemberEnds
<1>2. /\ failures' = IF result = "fail" THEN failures \cup {member} ELSE failures
      /\ skips' = IF result = "skip" THEN skips \cup {member} ELSE skips
  BY DEF MemberEnds
<1>3. /\ member \in MemberIxs /\ MemberIxs = 1 .. Len(Checks[name]) /\ Len(Checks[name]) \in Nat
      /\ verdict = "running" /\ ~output.skipped
      /\ failures \subseteq 1 .. member - 1 /\ skips \subseteq 1 .. member - 1
  BY Shapes DEF IInv, TypeOK, Running, Accounted
<1>4. TypeOK'
  <2>1. member + 1 \in 1 .. Len(Checks[name]) + 1
    BY <1>3
  <2>2. failures' \subseteq 1 .. Len(Checks[name]) /\ skips' \subseteq 1 .. Len(Checks[name])
    BY <1>2, <1>3 DEF IInv, TypeOK
  <2>3. step' \in Nat \ {0}
    BY <1>1
  <2>4. failing' \in BOOLEAN
    BY <1>1, Zenon
  <2>5. name' \in DOMAIN Checks /\ output' \in Output /\ verdict' \in {"running", "passed", "failed", "skipped"}
    BY <1>1 DEF IInv, TypeOK
  <2> QED
    BY <1>1, <2>1, <2>2, <2>3, <2>4, <2>5, Zenon DEF TypeOK
<1>5. \A i \in MemberIxs : i < member => Explained(i)'
  <2>1. \A i \in MemberIxs : i < member => Explained(i)
    BY DEF IInv, Accounted
  <2>2. \A i \in MemberIxs : i < member => (i \in failures' <=> i \in failures) /\ (i \in skips' <=> i \in skips)
    BY <1>2, <1>3
  <2> QED
    BY <1>1, <2>1, <2>2, SameJudgement DEF Explained
<1>6. \A i \in MemberIxs : i = member => Explained(i)'
  <2> SUFFICES ASSUME NEW i \in MemberIxs, i = member PROVE Explained(i)'
    OBVIOUS
  <2>1. (i \in failures' <=> result = "fail") /\ (i \in skips' <=> result = "skip")
    BY <1>2, <1>3
  <2>2. /\ result = "pass" => \A k \in StepIxs(i) :
               ~Rejects(Checks[name][i][k]) /\ ~Declines(Checks[name][i][k])
        /\ result # "fail" => \A k \in StepIxs(i) : Rejects(Checks[name][i][k]) =>
               \E j \in 1 .. k - 1 : Declines(Checks[name][i][j])
        /\ result = "fail" => raised' \/ \E k \in StepIxs(i) : Rejects(Checks[name][i][k])
        /\ result = "skip" => \E k \in StepIxs(i) : Declines(Checks[name][i][k])
    OBVIOUS
  <2> QED
    BY <1>1, <2>1, <2>2, SameJudgement DEF Explained
<1>7. Accounted'
  <2>1. /\ failures' \subseteq 1 .. member' - 1 /\ skips' \subseteq 1 .. member' - 1
    BY <1>1, <1>2, <1>3
  <2>2. \A i \in MemberIxs' : i < member' => Explained(i)'
    <3>1. \A i \in MemberIxs : i < member + 1 => i < member \/ i = member
      BY <1>3
    <3> QED
      BY <1>1, <1>5, <1>6, <3>1, SameJudgement
  <2>3. member' \in MemberIxs' => Behind'
    <3>1. SUFFICES ASSUME member' \in MemberIxs' PROVE Behind'
      OBVIOUS
    <3>2. \A k \in StepIxs(member + 1) : ~(k < 1)
      BY <1>1, <3>1, Shapes, SameJudgement DEF IInv
    <3> QED
      BY <1>1, <3>2, SameJudgement DEF Behind
  <2>4. raised' => failures' # {}
    BY <1>2 DEF IInv, Accounted
  <2> QED
    BY <1>1, <1>3, <2>1, <2>2, <2>3, <2>4 DEF Accounted
<1> QED
  BY <1>4, <1>7 DEF IInv

(* A member that leaves with a skip has met no step that rejects: a step   *)
(* that rejected would be a subtest, and none comes before a skip.         *)
LEMMA DeclinedFirst ==
    ASSUME IInv, InMember, Now.do \in {"tests", "found"}, Declines(Now), ~Rejects(Now)
    PROVE  \A k \in StepIxs(member) : Rejects(Checks[name][member][k]) =>
              \E j \in 1 .. k - 1 : Declines(Checks[name][member][j])
<1> SUFFICES ASSUME NEW k \in StepIxs(member), Rejects(Checks[name][member][k])
             PROVE  \E j \in 1 .. k - 1 : Declines(Checks[name][member][j])
  OBVIOUS
<1>1. /\ member \in MemberIxs /\ step \in StepIxs(member) /\ Now = Checks[name][member][step]
      /\ StepIxs(member) \subseteq Nat \ {0}
  BY AtStep DEF IInv
<1>2. ~(k < step)
  <2> SUFFICES ASSUME k < step PROVE FALSE
    OBVIOUS
  <2>1. Checks[name][member][k].do \in {"subs", "faults"}
    BY <1>1 DEF IInv, Accounted, Behind
  <2>2. Checks[name][member][step].do \notin {"tests", "found"}
    BY <1>1, <2>1, SubtestsComeLast DEF IInv, TypeOK, MemberIxs, StepIxs
  <2> QED
    BY <1>1, <2>2
<1>3. k # step
  BY <1>1
<1>4. step \in 1 .. k - 1
  BY <1>1, <1>2, <1>3
<1> QED
  BY <1>1, <1>4

(* execute is entered with nothing accounted for.                          *)
LEMMA InitAccounted == Init => IInv
<1> SUFFICES ASSUME Init PROVE IInv
  OBVIOUS
<1>1. Checks[name] \in Seq(Member) /\ Checks[name] # <<>> /\ output \in Output
  BY CheckAssumption DEF Init
<1>2. TypeOK
  <2>1. member \in 1 .. Len(Checks[name]) + 1 /\ step \in Nat \ {0}
    BY <1>1 DEF Init
  <2>2. failing \in BOOLEAN /\ raised \in BOOLEAN
    BY Zenon DEF Init
  <2>3. verdict \in {"running", "passed", "failed", "skipped"} /\ name \in DOMAIN Checks
    BY DEF Init
  <2>4. failures = {} /\ skips = {} /\ shown = {}
    BY DEF Init
  <2> QED
    BY <1>1, <2>1, <2>2, <2>3, <2>4, Zenon DEF TypeOK
<1>3. \A i \in MemberIxs : ~(i < 1) /\ \A k \in StepIxs(i) : ~(k < 1)
  BY <1>2, Shapes
<1>4. Accounted
  BY <1>3 DEF Init, Accounted, Behind, MemberIxs
<1> QED
  BY <1>2, <1>4 DEF IInv

(* Every step of a validation keeps the account.                           *)
LEMMA NextAccounted == IInv /\ [Next]_vars => IInv'
<1> SUFFICES ASSUME IInv, [Next]_vars PROVE IInv'
  OBVIOUS
<1> USE DEF IInv
<1>1. CASE SkipStep
  <2>1. /\ UNCHANGED <<name, output, member, step, failing, failures, skips, raised, shown>>
        /\ verdict' = "skipped" /\ output.skipped
    BY <1>1 DEF SkipStep
  <2>2. TypeOK'
    BY <2>1 DEF TypeOK
  <2>3. \A i : Explained(i)' <=> Explained(i)
    BY <2>1, SameJudgement DEF Explained
  <2>4. Behind' <=> Behind
    BY <2>1, SameJudgement DEF Behind
  <2> QED
    BY <2>1, <2>2, <2>3, <2>4, SameJudgement DEF Accounted
<1>2. CASE EvidenceHolds
  <2>1. InMember /\ GoOn /\ UNCHANGED <<failing, shown>> /\ Now.do \in {"need", "has", "unless"} /\ Accepted
    BY <1>2 DEF EvidenceHolds
  <2>2. ~Declines(Now) /\ ~Rejects(Now)
    BY <2>1 DEF Declines, DeclinesOn, Rejects, RejectsOn, Accepted
  <2> QED
    BY <2>1, <2>2, GoesOn DEF TypeOK
<1>3. CASE EvidenceRejected
  <2>1. InMember /\ MemberEnds("fail") /\ UNCHANGED <<raised, shown>>
        /\ Now.do \in {"need", "has", "unless"} /\ ~Accepted
    BY <1>3 DEF EvidenceRejected
  <2>2. Rejects(Now)
    BY <2>1 DEF Rejects, RejectsOn, Accepted
  <2> QED
    BY <2>1, <2>2, AtStep, Ends DEF TypeOK, InMember
<1>4. CASE RequiredTests
  <2>1. InMember /\ Now.do = "tests" /\ shown' = shown \cup Bad(Now.of)
    BY <1>4 DEF RequiredTests
  <2>2. shown' \in SUBSET STRING
    BY <2>1, AtStep DEF TypeOK, Bad
  <2>3. Rejects(Now) <=> Bad(Now.of) # {}
    BY <2>1 DEF Rejects, RejectsOn, Bad
  <2>4. Declines(Now) <=> Now.of \cap output.skip # {}
    BY <2>1 DEF Declines, DeclinesOn
  <2>5. CASE check_required_tests(Now.of) = "go"
    <3>1. GoOn /\ UNCHANGED failing
      BY <1>4, <2>5 DEF RequiredTests
    <3>2. ~Declines(Now) /\ ~Rejects(Now)
      BY <2>3, <2>4, <2>5 DEF check_required_tests
    <3> QED
      BY <2>1, <2>2, <3>1, <3>2, GoesOn DEF TypeOK
  <2>6. CASE Bad(Now.of) # {}
    <3>1. MemberEnds("fail") /\ UNCHANGED raised
      BY <1>4, <2>6 DEF RequiredTests, check_required_tests
    <3> QED
      BY <2>1, <2>2, <2>3, <2>6, <3>1, AtStep, Ends DEF TypeOK, InMember
  <2>7. CASE Bad(Now.of) = {} /\ Now.of \cap output.skip # {}
    <3>1. MemberEnds("skip") /\ UNCHANGED raised
      BY <1>4, <2>7 DEF RequiredTests, check_required_tests
    <3>2. Declines(Now)
      BY <2>4, <2>7
    <3>3. \A k \in StepIxs(member) : Rejects(Checks[name][member][k]) =>
              \E j \in 1 .. k - 1 : Declines(Checks[name][member][j])
      BY <2>1, <2>3, <2>7, <3>2, DeclinedFirst
    <3> QED
      BY <2>1, <2>2, <3>1, <3>2, <3>3, AtStep, Ends DEF TypeOK, InMember
  <2> QED
    BY <2>5, <2>6, <2>7 DEF check_required_tests
<1>5. CASE NothingToJudge
  <2>1. InMember /\ Now.do = "found" /\ UNCHANGED shown
    BY <1>5 DEF NothingToJudge
  <2>2. ~Rejects(Now)
    BY <2>1 DEF Rejects, RejectsOn
  <2>3. CASE Now.of \subseteq output.good
    <3>1. GoOn /\ UNCHANGED failing /\ ~Declines(Now)
      BY <1>5, <2>1, <2>3 DEF NothingToJudge, Declines, DeclinesOn
    <3> QED
      BY <2>1, <2>2, <3>1, GoesOn DEF TypeOK
  <2>4. CASE ~(Now.of \subseteq output.good)
    <3>1. MemberEnds("skip") /\ UNCHANGED raised /\ Declines(Now)
      BY <1>5, <2>1, <2>4 DEF NothingToJudge, Declines, DeclinesOn
    <3>2. \A k \in StepIxs(member) : Rejects(Checks[name][member][k]) =>
              \E j \in 1 .. k - 1 : Declines(Checks[name][member][j])
      BY <2>1, <2>2, <3>1, DeclinedFirst
    <3> QED
      BY <2>1, <3>1, <3>2, AtStep, Ends DEF TypeOK, InMember
  <2> QED
    BY <2>3, <2>4
<1>6. CASE report_subtest
  <2>1. /\ InMember /\ GoOn /\ Now.do \in {"subs", "faults", "notes"}
        /\ shown' = shown \cup Rejected
        /\ failing' = (failing \/ (Now.do # "notes" /\ Rejected # {}))
    BY <1>6 DEF report_subtest
  <2>2. ~Declines(Now) /\ (Rejects(Now) <=> Now.do # "notes" /\ Rejected # {})
    BY <2>1 DEF Declines, DeclinesOn, Rejects, RejectsOn, Rejected, Bad
  <2>3. shown' \in SUBSET STRING
    BY <2>1, AtStep DEF Rejected, Bad, TypeOK
  <2>4. failing' \in BOOLEAN /\ (failing => failing') /\ (failing' => failing \/ Rejects(Now))
        /\ (Rejects(Now) => failing')
    BY <2>1, <2>2, Zenon DEF TypeOK
  <2> QED
    BY <2>1, <2>2, <2>3, <2>4, GoesOn
<1>7. CASE RunRaises
  <2>1. InMember /\ raised' = TRUE /\ MemberEnds("fail") /\ UNCHANGED shown
    BY <1>7 DEF RunRaises
  <2> QED
    BY <2>1, Ends DEF TypeOK, InMember
<1>8. CASE RunReturns
  <2>1. Running /\ step > Len(Steps) /\ UNCHANGED <<raised, shown>>
        /\ MemberEnds(IF failing THEN "fail" ELSE "pass")
    BY <1>8 DEF RunReturns
  <2>2. member \in MemberIxs /\ Behind /\ StepIxs(member) = 1 .. Len(Steps) /\ Len(Steps) \in Nat
    BY <2>1, Shapes DEF Running, TypeOK, Accounted, Steps
  <2>3. \A k \in StepIxs(member) : k < step
    BY <2>1, <2>2 DEF TypeOK
  <2>4. CASE failing
    <3>1. MemberEnds("fail") /\ \E k \in StepIxs(member) : Rejects(Checks[name][member][k])
      BY <2>1, <2>2, <2>4 DEF Behind
    <3> QED
      BY <2>1, <3>1, Ends DEF TypeOK
  <2>5. CASE ~failing
    <3>1. MemberEnds("pass") /\ \A k \in StepIxs(member) :
              ~Rejects(Checks[name][member][k]) /\ ~Declines(Checks[name][member][k])
      BY <2>1, <2>2, <2>3, <2>5 DEF Behind
    <3> QED
      BY <2>1, <3>1, Ends DEF TypeOK
  <2> QED
    BY <2>4, <2>5
<1>9. CASE Conclude
  <2>1. /\ UNCHANGED <<name, output, member, step, failing, failures, skips, raised, shown>>
        /\ ~output.skipped /\ member > Len(Checks[name])
        /\ verdict' = IF failures # {} THEN "failed" ELSE IF skips # {} THEN "skipped" ELSE "passed"
    BY <1>9 DEF Conclude
  <2>2. TypeOK'
    BY <2>1 DEF TypeOK
  <2>3. \A i : Explained(i)' <=> Explained(i)
    BY <2>1, SameJudgement DEF Explained
  <2>4. Behind' <=> Behind
    BY <2>1, SameJudgement DEF Behind
  <2> QED
    BY <2>1, <2>2, <2>3, <2>4, SameJudgement DEF Accounted
<1>10. CASE UNCHANGED vars
  <2>1. UNCHANGED <<name, output, member, step, failing, failures, skips, raised, shown, verdict>>
    BY <1>10 DEF vars
  <2>2. TypeOK'
    BY <2>1 DEF TypeOK
  <2>3. \A i : Explained(i)' <=> Explained(i)
    BY <2>1, SameJudgement DEF Explained
  <2>4. Behind' <=> Behind
    BY <2>1, SameJudgement DEF Behind
  <2> QED
    BY <2>1, <2>2, <2>3, <2>4, SameJudgement DEF Accounted
<1> QED
  BY <1>1, <1>2, <1>3, <1>4, <1>5, <1>6, <1>7, <1>8, <1>9, <1>10 DEF Next

(* The account is kept throughout.                                         *)
LEMMA AlwaysAccounted == Spec => []IInv
BY InitAccounted, NextAccounted, PTL DEF Spec

-----------------------------------------------------------------------------
(* The variables of a validation keep their types, whatever the suites     *)
(* wire and the providers print (BaseValidation.execute).                  *)
THEOREM TypeCorrect == Spec => []TypeOK
<1>1. IInv => TypeOK
  BY DEF IInv
<1> QED
  BY <1>1, AlwaysAccounted, PTL

(* A validation passes exactly on the documents that suit it, unless one   *)
(* of its members ended in an exception, for every suite and document: the *)
(* combination of set_failed, check_required_tests, report_subtest and     *)
(* CompositeCheck.run loses no failure and invents none.                   *)
THEOREM PassesAreExact == Spec => []PassExact
<1>1. IInv => PassExact
  <2> SUFFICES ASSUME IInv, verdict # "running"
               PROVE  verdict = "passed" <=> ~raised /\ Suits(output, Checks[name])
    BY DEF PassExact
  <2> DEFINE Clean(i) == \A k \in StepIxs(i) :
                           ~Rejects(Checks[name][i][k]) /\ ~Declines(Checks[name][i][k])
  <2>1. Suits(output, Checks[name]) <=> ~output.skipped /\ \A i \in MemberIxs : Clean(i)
    BY DEF Suits, Rejects, Declines, MemberIxs, StepIxs
  <2>2. CASE output.skipped
    BY <2>1, <2>2 DEF IInv, Accounted
  <2>3. CASE ~output.skipped
    <3>1. /\ member > Len(Checks[name])
          /\ raised => failures # {}
          /\ verdict = IF failures # {} THEN "failed" ELSE IF skips # {} THEN "skipped" ELSE "passed"
      BY <2>3 DEF IInv, Accounted
    <3>2. \A i \in MemberIxs : i < member /\ Explained(i)
      BY <3>1, Shapes DEF IInv, TypeOK, Accounted
    <3>3. failures \subseteq MemberIxs /\ skips \subseteq MemberIxs
      BY Shapes DEF IInv, TypeOK
    <3>4. ASSUME failures = {}, skips = {} PROVE ~raised /\ Suits(output, Checks[name])
      BY <2>1, <2>3, <3>1, <3>2, <3>4 DEF IInv, Accounted, Explained
    <3>5. ASSUME ~raised, Suits(output, Checks[name]) PROVE failures = {} /\ skips = {}
      <4>1. \A i \in MemberIxs : i \notin failures /\ i \notin skips
        BY <2>1, <3>2, <3>5 DEF Explained
      <4> QED
        BY <3>3, <4>1
    <3> QED
      BY <3>1, <3>4, <3>5
  <2> QED
    BY <2>2, <2>3
<1> QED
  BY <1>1, AlwaysAccounted, PTL

(* No validation is skipped over a failure it had met, for every suite and *)
(* document (composite.py gives a failed member precedence).               *)
THEOREM SkipsHideNothing == Spec => []SkipHidesNothing
<1>1. IInv => SkipHidesNothing
  <2> SUFFICES ASSUME IInv, verdict = "skipped", ~output.skipped PROVE SkipHidesNothing
    BY DEF SkipHidesNothing
  <2>1. member > Len(Checks[name]) /\ failures = {} /\ ~raised
    BY DEF IInv, Accounted
  <2>2. \A i \in MemberIxs : i < member
    BY <2>1, Shapes DEF IInv, TypeOK
  <2> QED
    BY <2>1, <2>2 DEF IInv, Accounted, Explained, SkipHidesNothing, MemberIxs, StepIxs
<1> QED
  BY <1>1, AlwaysAccounted, PTL

(* No validation fails without a member that rejected the document or      *)
(* ended in an exception, for every suite and document.                    *)
THEOREM FailuresAreExplained == Spec => []FailureIsExplained
<1>1. IInv => FailureIsExplained
  <2> SUFFICES ASSUME IInv, verdict = "failed" PROVE FailureIsExplained
    BY DEF FailureIsExplained
  <2>1. ~output.skipped /\ failures # {}
    BY DEF IInv, Accounted
  <2>2. PICK i \in failures : TRUE
    BY <2>1
  <2>3. i \in MemberIxs /\ i < member
    BY Shapes DEF IInv, TypeOK, Accounted
  <2> QED
    BY <2>1, <2>2, <2>3 DEF IInv, Accounted, Explained, FailureIsExplained, MemberIxs, StepIxs
<1> QED
  BY <1>1, AlwaysAccounted, PTL
=============================================================================
