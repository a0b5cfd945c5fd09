------------------------ MODULE ProviderScriptProofs ------------------------
(***************************************************************************)
(* What every provider script promises that is written in the style of     *)
(* StyleAssumption, whatever the cloud refuses and however often.          *)
(***************************************************************************)
EXTENDS ScriptResources, TLAPS

(* In the body nothing is printed yet, and main knows no id that an        *)
(* earlier unit has not found.                                             *)
BodyInv ==
    /\ docs = 0 /\ ~raised
    /\ known \subseteq IdsBefore(script, unit)
    /\ unit <= Len(Units) => fresh \subseteq Ids(Unit)

(* In the finally block, after the result was printed: main holds no more  *)
(* than it held at the return, so a unit that is under way lets no         *)
(* exception out; the cleanup of an except clause is passed over.          *)
PrintedInv ==
    IF script.sure
    THEN /\ \E i \in EarlyUnits(script) : known \subseteq Held(script, i)
         /\ fresh = {}
         /\ call > 1 => Quiet(script, Unit)
    ELSE unit > Len(script.cleanup)

DocInv ==
    /\ \A x \in cloud : x.in \subseteq Hosts(script)
    /\ part = "body" => BodyInv
    /\ part = "cleanup" => docs \in {0, 1} /\ (raised => docs = 0)
    /\ part = "cleanup" /\ docs = 1 => PrintedInv
    /\ OneDocument

IInv == TypeOK /\ DocInv

(* The type invariant in parts.                                            *)
Chosen == name \in DOMAIN Scripts /\ script = Scripts[name]
Place == /\ part \in {"body", "cleanup", "done"}
         /\ unit \in Nat \ {0} /\ call \in Nat \ {0} /\ docs \in Nat
Flags == trouble \in BOOLEAN /\ success \in BOOLEAN /\ raised \in BOOLEAN /\ abandoned \in BOOLEAN
Outcomes == tests \in [TestNames(script) -> {"absent", "pass", "fail"}]
Inventory == \A x \in cloud : x \in Resource

(* The parts are the whole, before a step and after it.                    *)
LEMMA TypeParts ==
    TypeOK <=> /\ Chosen /\ Place /\ Flags /\ Outcomes /\ Inventory
               /\ faults \in Nat /\ fresh \subseteq STRING /\ known \subseteq STRING
BY Zenon DEF TypeOK, Chosen, Place, Flags, Outcomes, Inventory

(* The same of the next state.                                             *)
LEMMA TypePartsNext ==
    ASSUME Chosen', Place', Flags', Outcomes', Inventory',
           faults' \in Nat, fresh' \subseteq STRING, known' \subseteq STRING
    PROVE  TypeOK'
BY Zenon DEF TypeOK, Chosen, Place, Flags, Outcomes, Inventory

-----------------------------------------------------------------------------
(* The shape of the script.                                                *)
LEMMA ScriptShape ==
    ASSUME TypeOK
    PROVE  /\ script \in ScriptRecord
           /\ script.body \in Seq(UnitRecord) /\ script.cleanup \in Seq(UnitRecord)
           /\ script.given \in SUBSET Resource /\ script.names \in SUBSET STRING
           /\ script.wrapped \in BOOLEAN /\ script.sure \in BOOLEAN
<1>1. script \in ScriptRecord
  BY ScriptAssumption DEF TypeOK
<1> QED
  BY <1>1 DEF ScriptRecord

(* The current unit.                                                       *)
LEMMA UnitShape ==
    ASSUME TypeOK, part # "done", unit <= Len(Units)
    PROVE  /\ unit \in DOMAIN Units /\ unit \in Nat \ {0} /\ Len(Units) \in Nat
           /\ Unit \in UnitRecord
           /\ Unit.calls \in Seq(CallRecord) /\ Unit.catch \in SUBSET Errors
           /\ Unit.notes \in BOOLEAN /\ Unit.keeps \in BOOLEAN /\ Unit.inner \in BOOLEAN
           /\ Unit.fail \in {"go", "return", "raise", "succeed"} /\ Unit.test \in STRING
<1>1. Units \in Seq(UnitRecord)
  BY ScriptShape DEF Units
<1>2. unit \in DOMAIN Units /\ unit \in Nat \ {0} /\ Len(Units) \in Nat /\ Unit \in UnitRecord
  <2> HIDE DEF Units
  <2> QED
    BY <1>1 DEF TypeOK, Unit
<1> QED
  BY <1>2 DEF UnitRecord

(* The current call.                                                       *)
LEMMA CallShape ==
    ASSUME TypeOK, AtCall
    PROVE  /\ call \in DOMAIN Unit.calls /\ Now \in CallRecord
           /\ Now.res \in STRING /\ Now.in \in SUBSET STRING /\ Now.on \in STRING
           /\ Now.errs \in SUBSET Errors /\ Now.do \in Calls
<1>1. Unit.calls \in Seq(CallRecord) /\ call \in Nat \ {0} /\ call <= Len(Unit.calls)
  BY UnitShape DEF TypeOK, AtCall, InUnit
<1>2. call \in DOMAIN Unit.calls /\ Now \in CallRecord
  <2> DEFINE cs == Unit.calls
  <2>1. cs \in Seq(CallRecord) /\ call \in Nat \ {0} /\ call <= Len(cs) /\ Now = cs[call]
    BY <1>1 DEF Now
  <2> HIDE DEF cs
  <2>2. call \in DOMAIN cs /\ Now \in CallRecord
    BY <2>1
  <2> QED
    BY <2>2 DEF cs
<1> QED
  BY <1>2 DEF CallRecord

(* What the current call finds or builds is in the description of its unit.*)
LEMMA CallIds ==
    ASSUME TypeOK, AtCall
    PROVE  /\ Now.do \in {"make", "look"} => Now.res \in Ids(Unit)
           /\ Now.in \subseteq Hosts(script)
<1>1. call \in DOMAIN Unit.calls /\ Now = Unit.calls[call] /\ unit \in DOMAIN Units
  BY CallShape, UnitShape DEF Now, AtCall, InUnit
<1>2. Now.do \in {"make", "look"} => Now.res \in Ids(Unit)
  BY <1>1 DEF Ids
<1>3. Now.in \subseteq Inside(Unit)
  BY <1>1 DEF Inside
<1>4. Inside(Unit) \subseteq Hosts(script)
  <2>1. CASE part = "body"
    BY <1>1, <2>1 DEF Units, Unit, Hosts
  <2>2. CASE part # "body"
    BY <1>1, <2>2 DEF Units, Unit, Hosts
  <2> QED
    BY <2>1, <2>2
<1> QED
  BY <1>2, <1>3, <1>4

(* One more unit, and its ids are before.                                  *)
LEMMA NextIds ==
    ASSUME NEW s, NEW i \in Nat, i \in DOMAIN s.body, DOMAIN s.body \subseteq Nat
    PROVE  IdsBefore(s, i + 1) = IdsBefore(s, i) \cup Ids(s.body[i])
<1>1. \A k \in DOMAIN s.body : k < i + 1 <=> k < i \/ k = i
  OBVIOUS
<1> QED
  BY <1>1 DEF IdsBefore

(* Once the result is printed, the unit under way lets no exception out.   *)
LEMMA QuietUnit ==
    ASSUME IInv, AtCall, part = "cleanup", docs = 1
    PROVE  script.sure /\ PrintedInv /\ Quiet(script, Unit) /\ Ids(Unit) = {}
<1>1. PrintedInv /\ unit \in DOMAIN Units /\ unit <= Len(Units) /\ unit \in Nat
  BY UnitShape DEF IInv, DocInv, AtCall, InUnit
<1>2. script.sure
  BY <1>1, ScriptShape DEF PrintedInv, Units, IInv
<1>3. PICK i \in EarlyUnits(script) : known \subseteq Held(script, i)
  BY <1>1, <1>2 DEF PrintedInv
<1>4. Ids(Unit) = {} /\ (Quiet(script, Unit) \/ ~(Unit.guard \subseteq Held(script, i)))
  <2>1. unit \in DOMAIN script.cleanup /\ Unit = script.cleanup[unit] /\ Chosen
    BY <1>1 DEF Units, Unit, IInv, TypeOK, Chosen
  <2> QED
    BY <1>2, <1>3, <2>1, StyleAssumption DEF Chosen
<1>5. Quiet(script, Unit)
  <2>1. CASE call > 1
    BY <1>1, <1>2, <2>1 DEF PrintedInv
  <2>2. CASE ~(call > 1)
    BY <1>3, <1>4, <2>2 DEF AtCall, InUnit, Wanted
  <2> QED
    BY <2>1, <2>2
<1> QED
  BY <1>1, <1>2, <1>4, <1>5

-----------------------------------------------------------------------------
(* Steps that keep the account of documents.  A call that is answered:     *)
LEMMA Advances ==
    ASSUME IInv, AtCall, UNCHANGED <<name, script, part, unit, docs, raised>>, call' = call + 1,
           known' \subseteq known,
           fresh' \subseteq fresh \cup (IF Now.do \in {"make", "look"} THEN {Now.res} ELSE {}),
           \A x \in cloud' : x.in \subseteq Hosts(script)
    PROVE  DocInv'
<1>1. script' = script /\ Units' = Units /\ Unit' = Unit
  BY DEF Units, Unit
<1>2. part # "done" /\ unit <= Len(Units)
  BY DEF AtCall, InUnit
<1>3. fresh' \subseteq fresh \cup Ids(Unit)
  BY CallIds DEF IInv
<1>4. ASSUME part = "body" PROVE BodyInv'
  BY <1>1, <1>2, <1>3, <1>4 DEF IInv, DocInv, BodyInv
<1>5. ASSUME part = "cleanup", docs = 1 PROVE PrintedInv'
  <2>1. script.sure /\ PrintedInv /\ Quiet(script, Unit) /\ Ids(Unit) = {}
    BY <1>5, QuietUnit
  <2>2. fresh' = {}
    BY <1>3, <2>1 DEF PrintedInv
  <2> QED
    BY <1>1, <2>1, <2>2 DEF PrintedInv, Quiet
<1>6. OneDocument'
  BY <1>2 DEF OneDocument, Ended
<1> QED
  BY <1>1, <1>4, <1>5, <1>6 DEF IInv, DocInv

(* The end of a unit that leaves the part it belongs to.                   *)
LEMMA NextUnits ==
    ASSUME IInv, part # "done", unit <= Len(Units), UNCHANGED <<name, script, part, docs, raised>>,
           call' = 1, fresh' = {}, known' \subseteq known \cup fresh,
           unit' \in Nat, IF part = "body" THEN unit' = unit + 1 ELSE unit' > unit,
           \A x \in cloud' : x.in \subseteq Hosts(script)
    PROVE  DocInv'
<1>1. script' = script
  OBVIOUS
<1>2. unit \in DOMAIN Units /\ unit \in Nat
  BY UnitShape DEF IInv
<1>3. ASSUME part = "body" PROVE BodyInv'
  <2>1. BodyInv /\ Unit = script.body[unit] /\ unit \in DOMAIN script.body
    BY <1>2, <1>3 DEF IInv, DocInv, Units, Unit
  <2>2. DOMAIN script.body \subseteq Nat
    <3> DEFINE b == script.body
    <3>1. b \in Seq(UnitRecord)
      BY ScriptShape DEF IInv
    <3> HIDE DEF b
    <3>2. DOMAIN b \subseteq Nat
      BY <3>1
    <3> QED
      BY <3>2 DEF b
  <2>3. known' \subseteq IdsBefore(script, unit) \cup Ids(script.body[unit])
    BY <2>1 DEF BodyInv
  <2>4. known' \subseteq IdsBefore(script, unit + 1)
    BY <1>2, <2>1, <2>2, <2>3, NextIds
  <2> QED
    BY <1>1, <1>3, <2>1, <2>4 DEF BodyInv
<1>4. ASSUME part = "cleanup", docs = 1 PROVE PrintedInv'
  <2>1. PrintedInv
    BY <1>4 DEF IInv, DocInv
  <2>2. script.sure
    BY <1>4, <2>1, <1>2, ScriptShape DEF PrintedInv, Units, IInv
  <2> QED
    BY <1>1, <2>1, <2>2 DEF PrintedInv
<1>5. OneDocument'
  BY DEF OneDocument, Ended
<1> QED
  BY <1>1, <1>3, <1>4, <1>5 DEF IInv, DocInv

(* Leaving without a word, or for good.                                    *)
LEMMA Closing ==
    ASSUME IInv, UNCHANGED <<name, script>>, \A x \in cloud' : x.in \subseteq Hosts(script),
           \/ part' = "cleanup" /\ docs' = 0
           \/ part' = "done" /\ docs' = IF raised' /\ ~script.wrapped THEN 0 ELSE 1
    PROVE  DocInv'
<1>1. script' = script
  OBVIOUS
<1> QED
  BY <1>1 DEF DocInv, OneDocument, Ended

(* Printing the result and leaving the body.                               *)
LEMMA EarlyReturn ==
    ASSUME IInv, part = "body", unit \in EarlyUnits(script), UNCHANGED <<name, script>>,
           \A x \in cloud' : x.in \subseteq Hosts(script),
           part' = "cleanup", unit' = CleanupStart, call' = 1, fresh' = {}, docs' = docs + 1,
           ~raised', known' \subseteq Held(script, unit)
    PROVE  DocInv'
<1>1. script' = script
  OBVIOUS
<1>2. docs' = 1
  BY DEF IInv, DocInv, BodyInv
<1>3. CASE script.sure
  BY <1>1, <1>2, <1>3 DEF IInv, DocInv, PrintedInv, OneDocument, Ended
<1>4. CASE ~script.sure
  <2>1. unit' = Len(script.cleanup) + 1 /\ Len(script.cleanup) \in Nat
    BY <1>4, ScriptShape DEF CleanupStart, IInv
  <2> QED
    BY <1>1, <1>2, <1>4, <2>1 DEF IInv, DocInv, PrintedInv, OneDocument, Ended
<1> QED
  BY <1>3, <1>4

(* An exception out of the body.                                           *)
LEMMA LeavesBody ==
    ASSUME IInv, NEW e, LeaveBody(e), docs = 0, ~raised, UNCHANGED <<name, script>>,
           \A x \in cloud' : x.in \subseteq Hosts(script)
    PROVE  DocInv'
<1>1. CASE script.sure \/ e \in script.catch
  BY <1>1, Closing DEF LeaveBody, EnterCleanup
<1>2. CASE ~(script.sure \/ e \in script.catch)
  BY <1>2, Closing DEF LeaveBody, Abandon
<1> QED
  BY <1>1, <1>2

-----------------------------------------------------------------------------
(* A unit that fails: main goes on, returns or raises.                     *)
LEMMA Fails ==
    ASSUME IInv, InUnit, UnitFails, UNCHANGED <<name, script>>,
           \A x \in cloud' : x.in \subseteq Hosts(script)
    PROVE  DocInv'
<1>1. /\ part # "done" /\ unit <= Len(Units) /\ unit \in Nat
      /\ Unit.fail \in {"go", "return", "raise", "succeed"}
  BY UnitShape DEF InUnit, IInv
<1>2. known' \subseteq known \cup fresh
  BY DEF UnitFails
<1>3. CASE part = "cleanup"
  <2>1. NextUnit /\ UNCHANGED <<part, docs, raised>>
    BY <1>3 DEF UnitFails
  <2> QED
    BY <1>1, <1>2, <1>3, <2>1, NextUnits DEF NextUnit
<1>4. CASE part = "body"
  <2>1. docs = 0 /\ ~raised /\ unit \in DOMAIN script.body /\ Unit = script.body[unit]
    BY <1>1, <1>4, UnitShape DEF IInv, DocInv, BodyInv, Units, Unit
  <2>2. CASE Unit.fail = "go"
    <3>1. NextUnit /\ UNCHANGED <<part, docs, raised>>
      BY <1>4, <2>2 DEF UnitFails
    <3> QED
      BY <1>1, <1>2, <1>4, <3>1, NextUnits DEF NextUnit
  <2>3. CASE Unit.fail \in {"return", "succeed"}
    <3>1. unit \in EarlyUnits(script)
      BY <2>1, <2>3 DEF EarlyUnits
    <3>2. known' \subseteq Held(script, unit)
      <4>1. known \subseteq IdsBefore(script, unit) /\ fresh \subseteq Ids(Unit)
        BY <1>1, <1>4 DEF IInv, DocInv, BodyInv
      <4> QED
        BY <2>1, <4>1 DEF UnitFails, Held
    <3>3. /\ part' = "cleanup" /\ unit' = CleanupStart /\ call' = 1 /\ fresh' = {}
          /\ docs' = docs + 1 /\ ~raised'
      <4>1. CASE Unit.fail = "return"
        BY <1>4, <4>1 DEF UnitFails, EnterCleanup
      <4>2. CASE Unit.fail = "succeed"
        BY <1>4, <2>1, <4>2 DEF UnitFails, ReturnEarly
      <4> QED
        BY <2>3, <4>1, <4>2
    <3> QED
      BY <1>4, <3>1, <3>2, <3>3, EarlyReturn
  <2>4. CASE Unit.fail = "raise"
    <3>1. LeaveBody("other")
      BY <1>4, <2>4 DEF UnitFails
    <3> QED
      BY <2>1, <3>1, LeavesBody
  <2> QED
    BY <1>1, <2>2, <2>3, <2>4
<1> QED
  BY <1>1, <1>3, <1>4 DEF IInv, TypeOK

(* An exception out of a unit: the try block takes it, the finally block   *)
(* of main lets it out only if nothing was printed.                        *)
LEMMA Throws ==
    ASSUME IInv, AtCall, NEW e, e \in Throwable(script, Now), Throw(e), UNCHANGED <<name, script>>,
           \A x \in cloud' : x.in \subseteq Hosts(script)
    PROVE  DocInv'
<1>1. InUnit /\ part # "done" /\ unit <= Len(Units) /\ unit \in Nat
  BY UnitShape DEF AtCall, InUnit, IInv
<1>2. CASE e \in Unit.catch
  BY <1>1, <1>2, Fails DEF Throw
<1>3. CASE e \notin Unit.catch
  <2>1. UnitRaises(e) /\ known' \subseteq known \cup fresh
    BY <1>3 DEF Throw, UnitRaises
  <2>2. CASE part = "body"
    <3>1. LeaveBody(e) /\ docs = 0 /\ ~raised
      BY <2>1, <2>2 DEF UnitRaises, IInv, DocInv, BodyInv
    <3> QED
      BY <3>1, LeavesBody
  <2>3. CASE part = "cleanup" /\ Unit.inner
    <3>1. LeaveInner
      BY <2>1, <2>3 DEF UnitRaises
    <3>2. /\ unit' \in Nat /\ unit' > unit /\ call' = 1 /\ fresh' = {}
          /\ UNCHANGED <<part, docs, raised>>
      BY <1>1, <3>1, UnitShape DEF LeaveInner, IInv
    <3> QED
      BY <1>1, <2>1, <2>3, <3>2, NextUnits
  <2>4. CASE part = "cleanup" /\ ~Unit.inner
    <3>1. Abandon
      BY <2>1, <2>4 DEF UnitRaises
    <3>2. docs = 0
      <4>1. Quiet(script, Unit) => e \in Unit.catch
        BY <2>4, CallShape DEF Quiet, Now, IInv
      <4> QED
        BY <1>3, <2>4, <4>1, QuietUnit DEF IInv, DocInv
    <3> QED
      BY <3>1, <3>2, Closing DEF Abandon
  <2> QED
    BY <1>1, <2>2, <2>3, <2>4 DEF IInv, TypeOK
<1> QED
  BY <1>2, <1>3

-----------------------------------------------------------------------------
(* Types.  Leaving a part:                                                 *)
LEMMA LeavingTypes ==
    ASSUME TypeOK, part # "done", unit <= Len(Units),
           \/ \E p, e \in BOOLEAN : EnterCleanup(p, e)
           \/ Abandon \/ ReturnEarly \/ LeaveInner
    PROVE  Place' /\ Flags' /\ fresh' \subseteq STRING
<1>1. /\ Place /\ Flags /\ fresh \subseteq STRING
      /\ CleanupStart \in Nat \ {0} /\ Len(Units) \in Nat /\ Unit.notes \in BOOLEAN
  BY TypeParts, UnitShape, ScriptShape DEF CleanupStart
<1>2. CASE \E p, e \in BOOLEAN : EnterCleanup(p, e)
  <2>1. PICK p \in BOOLEAN, e \in BOOLEAN : EnterCleanup(p, e)
    BY <1>2
  <2>2. Place' /\ fresh' = {}
    BY <1>1, <2>1 DEF EnterCleanup, Place
  <2>3. Flags'
    BY <1>1, <2>1, Zenon DEF EnterCleanup, Flags
  <2> QED
    BY <2>2, <2>3
<1>3. CASE Abandon
  <2>1. Place' /\ fresh' = fresh
    BY <1>1, <1>3 DEF Abandon, Place
  <2>2. Flags'
    BY <1>1, <1>3, Zenon DEF Abandon, Flags
  <2> QED
    BY <1>1, <2>1, <2>2
<1>4. CASE ReturnEarly
  <2>1. Place' /\ fresh' = {}
    BY <1>1, <1>4 DEF ReturnEarly, Place
  <2>2. Flags'
    BY <1>1, <1>4, Zenon DEF ReturnEarly, Flags
  <2> QED
    BY <2>1, <2>2
<1>5. CASE LeaveInner
  <2>1. Place' /\ fresh' = {}
    BY <1>1, <1>5 DEF LeaveInner, Place
  <2>2. trouble' = (trouble \/ Unit.notes) /\ UNCHANGED <<success, raised, abandoned>>
    BY <1>5 DEF LeaveInner
  <2>3. Flags'
    BY <1>1, <2>2, Zenon DEF Flags
  <2> QED
    BY <2>1, <2>3
<1> QED
  BY <1>2, <1>3, <1>4, <1>5

(* Leaving the body by an exception is entering the cleanup, or the end.   *)
LEMMA LeaveBodyTypes ==
    ASSUME TypeOK, part # "done", unit <= Len(Units), NEW e, LeaveBody(e)
    PROVE  Place' /\ Flags' /\ fresh' \subseteq STRING
<1>1. FALSE \in BOOLEAN /\ (e \notin script.catch) \in BOOLEAN
  OBVIOUS
<1>2. EnterCleanup(FALSE, e \notin script.catch) \/ Abandon
  BY DEF LeaveBody
<1> QED
  BY <1>1, <1>2, LeavingTypes

(* The end of a unit.                                                      *)
LEMMA NextUnitTypes ==
    ASSUME TypeOK, NextUnit, UNCHANGED <<part, docs, success, raised, abandoned>>,
           trouble' \in BOOLEAN
    PROVE  Place' /\ Flags' /\ fresh' \subseteq STRING
<1>1. Place' /\ fresh' = {}
  BY TypeParts DEF NextUnit, Place
<1>2. Flags'
  BY TypeParts, Zenon DEF Flags
<1> QED
  BY <1>1, <1>2

(* An entry of result["tests"].                                            *)
LEMMA RecordTypes ==
    ASSUME TypeOK, UNCHANGED <<name, script>>, NEW outcome \in {"pass", "fail"}, Record(outcome)
    PROVE  Outcomes'
BY TypeParts DEF Record, Outcomes, Chosen

(* A unit that fails.                                                      *)
LEMMA FailsTypes ==
    ASSUME TypeOK, InUnit, UnitFails, UNCHANGED <<name, script>>, faults' \in Nat, Inventory'
    PROVE  TypeOK'
<1>1. /\ part \in {"body", "cleanup"} /\ unit <= Len(Units) /\ Flags
      /\ Unit.fail \in {"go", "return", "raise", "succeed"} /\ Unit.notes \in BOOLEAN
  BY TypeParts, UnitShape DEF InUnit, Place
<1>2. Outcomes'
  BY RecordTypes DEF UnitFails
<1>3. known' \subseteq STRING
  BY DEF UnitFails, TypeOK
<1>4. Place' /\ Flags' /\ fresh' \subseteq STRING
  <2>1. CASE part = "cleanup"
    <3>1. /\ trouble' = (trouble \/ Unit.notes) /\ NextUnit
          /\ UNCHANGED <<part, success, docs, raised, abandoned>>
      BY <2>1 DEF UnitFails
    <3>2. trouble' \in BOOLEAN
      BY <1>1, <3>1, Zenon DEF Flags
    <3> QED
      BY <3>1, <3>2, NextUnitTypes
  <2>2. CASE part = "body" /\ Unit.fail = "go"
    <3>1. NextUnit /\ UNCHANGED <<part, trouble, success, docs, raised, abandoned>>
      BY <2>2 DEF UnitFails
    <3>2. trouble' \in BOOLEAN
      BY <1>1, <3>1, Zenon DEF Flags
    <3> QED
      BY <3>1, <3>2, NextUnitTypes
  <2>3. CASE part = "body" /\ Unit.fail = "return"
    <3>1. EnterCleanup(TRUE, FALSE) /\ TRUE \in BOOLEAN /\ FALSE \in BOOLEAN
      BY <2>3 DEF UnitFails
    <3> QED
      BY <1>1, <2>3, <3>1, LeavingTypes
  <2>4. CASE part = "body" /\ Unit.fail = "succeed"
    BY <1>1, <2>4, LeavingTypes DEF UnitFails
  <2>5. CASE part = "body" /\ Unit.fail = "raise"
    BY <1>1, <2>5, LeaveBodyTypes DEF UnitFails
  <2> QED
    BY <1>1, <2>1, <2>2, <2>3, <2>4, <2>5
<1>5. Chosen'
  BY DEF TypeOK, Chosen
<1> QED
  BY <1>2, <1>3, <1>4, <1>5, TypePartsNext

(* An exception out of a unit.                                             *)
LEMMA ThrowsTypes ==
    ASSUME TypeOK, AtCall, NEW e, Throw(e), UNCHANGED <<name, script>>, faults' \in Nat, Inventory'
    PROVE  TypeOK'
<1>1. InUnit /\ part # "done" /\ unit <= Len(Units) /\ Chosen'
  BY DEF AtCall, InUnit, TypeOK, Chosen
<1>2. CASE e \in Unit.catch
  BY <1>1, <1>2, FailsTypes DEF Throw
<1>3. CASE e \notin Unit.catch
  <2>1. UnitRaises(e)
    BY <1>3 DEF Throw
  <2>2. known' \subseteq STRING /\ Outcomes'
    BY <2>1, TypeParts DEF UnitRaises, Outcomes, Chosen, TypeOK
  <2>3. Place' /\ Flags' /\ fresh' \subseteq STRING
    <3>1. CASE part = "body"
      BY <1>1, <2>1, <3>1, LeaveBodyTypes DEF UnitRaises
    <3>2. CASE part = "cleanup"
      <4>1. LeaveInner \/ Abandon
        BY <1>1, <2>1, <3>2, UnitShape DEF UnitRaises
      <4> QED
        BY <1>1, <4>1, LeavingTypes
    <3> QED
      BY <1>1, <3>1, <3>2 DEF TypeOK
  <2> QED
    BY <1>1, <2>2, <2>3, TypePartsNext
<1> QED
  BY <1>2, <1>3

(* A call that is answered.                                                *)
LEMMA AdvanceTypes ==
    ASSUME TypeOK, call' = call + 1, fresh' \subseteq STRING, known' \subseteq STRING, Inventory',
           UNCHANGED <<name, script, part, unit, tests, trouble, success, docs, raised, abandoned>>, faults' \in Nat
    PROVE  TypeOK'
<1>1. Place'
  BY TypeParts DEF Place
<1>2. Flags'
  BY TypeParts, Zenon DEF Flags
<1>3. Outcomes' /\ Chosen'
  BY TypeParts DEF Outcomes, Chosen
<1> QED
  BY <1>1, <1>2, <1>3, TypePartsNext

-----------------------------------------------------------------------------
(* A script starts with nothing printed.                                   *)
LEMMA InitInv == Init => IInv
<1> SUFFICES ASSUME Init PROVE IInv
  OBVIOUS
<1>1. Chosen /\ script \in ScriptRecord
  BY ScriptAssumption DEF Init, Chosen
<1>2. script.given \in SUBSET Resource /\ script.names \in SUBSET STRING
  BY <1>1 DEF ScriptRecord
<1>3. Place /\ faults \in Nat
  BY DEF Init, Place
<1>4. Flags
  BY Zenon DEF Init, Flags
<1>5. Outcomes /\ Inventory /\ fresh \subseteq STRING /\ known \subseteq STRING
  BY <1>2 DEF Init, Outcomes, Inventory
<1>6. TypeOK
  BY <1>1, <1>3, <1>4, <1>5, TypeParts
<1>7. DocInv
  <2>1. \A x \in cloud : x.in \subseteq Hosts(script)
    BY DEF Init, Hosts
  <2>2. BodyInv
    BY DEF Init, BodyInv, IdsBefore
  <2> QED
    BY <2>1, <2>2 DEF Init, DocInv, OneDocument, Ended
<1> QED
  BY <1>6, <1>7 DEF IInv

(* The cloud after a step: what is added is inside of what a call names.   *)
LEMMA Built ==
    ASSUME IInv, AtCall,
           cloud' = cloud \cup {[res |-> Now.res, in |-> Now.in, on |-> Now.on, going |-> FALSE]}
    PROVE  Inventory' /\ \A x \in cloud' : x.in \subseteq Hosts(script)
<1> DEFINE y == [res |-> Now.res, in |-> Now.in, on |-> Now.on, going |-> FALSE]
<1>1. y \in Resource /\ y.in \subseteq Hosts(script)
  BY CallShape, CallIds DEF Resource, IInv
<1>2. \A x \in cloud : x \in Resource /\ x.in \subseteq Hosts(script)
  BY DEF IInv, DocInv, TypeOK
<1>3. cloud' = cloud \cup {y}
  OBVIOUS
<1> HIDE DEF y
<1> QED
  BY <1>1, <1>2, <1>3 DEF Inventory

(* The cloud after a step that builds nothing.                             *)
LEMMA NotBuilt ==
    ASSUME IInv, cloud' \subseteq cloud
    PROVE  Inventory' /\ \A x \in cloud' : x.in \subseteq Hosts(script)
BY DEF IInv, DocInv, TypeOK, Inventory

(* Every step keeps the account.                                           *)
LEMMA NextInv == IInv /\ [Next]_vars => IInv'
<1> SUFFICES ASSUME IInv, [Next]_vars PROVE IInv'
  OBVIOUS
<1>0. TypeOK /\ DocInv /\ faults \in Nat /\ faults + 1 \in Nat /\ known \subseteq STRING
      /\ fresh \subseteq STRING /\ Flags
  BY TypeParts DEF IInv, TypeOK
<1> DEFINE HostsKept == \A x \in cloud' : x.in \subseteq Hosts(script)
<1>1. CASE SkipUnit
  <2>1. /\ part # "done" /\ unit <= Len(Units) /\ NextUnit
        /\ trouble' = (trouble \/ (Unit.notes /\ Wanted))
        /\ UNCHANGED <<name, script, part, cloud, known, tests, success, docs, raised, abandoned, faults>>
    BY <1>1 DEF SkipUnit
  <2>2. trouble' \in BOOLEAN
    BY <2>1, Zenon
  <2>3. Outcomes' /\ Chosen'
    BY <1>0, <2>1, TypeParts DEF Outcomes, Chosen
  <2>4. TypeOK'
    BY <1>0, <2>1, <2>2, <2>3, NextUnitTypes, NotBuilt, TypePartsNext
  <2>5. unit \in Nat
    BY <1>0 DEF TypeOK
  <2>6. DocInv'
    BY <2>1, <2>5, NextUnits, NotBuilt DEF NextUnit
  <2> QED
    BY <2>4, <2>6 DEF IInv
<1>2. CASE Create
  <2>1. /\ AtCall /\ Now.do = "make" /\ Proceed /\ UNCHANGED known /\ fresh' = fresh \cup {Now.res}
        /\ cloud' = cloud \cup {[res |-> Now.res, in |-> Now.in, on |-> Now.on, going |-> FALSE]}
    BY <1>2 DEF Create
  <2>2. fresh' \subseteq STRING
    BY <1>0, <2>1, CallShape
  <2>3. TypeOK'
    BY <1>0, <2>1, <2>2, Built, AdvanceTypes DEF Proceed
  <2>4. DocInv'
    BY <2>1, Built, Advances DEF Proceed
  <2> QED
    BY <2>3, <2>4 DEF IInv
<1>3. CASE Delete \/ WaitUntilGone \/ Answer
  <2>1. AtCall /\ Proceed /\ UNCHANGED fresh /\ known' \subseteq known /\ cloud' \subseteq cloud
    BY <1>3 DEF Delete, WaitUntilGone, Answer, Without
  <2>2. TypeOK'
    BY <1>0, <2>1, NotBuilt, AdvanceTypes DEF Proceed
  <2>3. DocInv'
    BY <2>1, NotBuilt, Advances DEF Proceed
  <2> QED
    BY <2>2, <2>3 DEF IInv
<1>4. CASE StartTermination
  <2>1. /\ AtCall /\ Proceed /\ UNCHANGED fresh /\ known' \subseteq known
        /\ cloud' = {IF x.res = Now.res THEN [x EXCEPT !.going = TRUE] ELSE x : x \in cloud}
    BY <1>4 DEF StartTermination
  <2>2. \A x \in cloud : LET z == [x EXCEPT !.going = TRUE] IN z \in Resource /\ z.in \subseteq Hosts(script)
    BY <1>0 DEF TypeOK, DocInv, Resource
  <2>3. Inventory' /\ HostsKept
    BY <1>0, <2>1, <2>2 DEF TypeOK, DocInv, Inventory
  <2>4. TypeOK'
    BY <1>0, <2>1, <2>3, AdvanceTypes DEF Proceed
  <2>5. DocInv'
    BY <2>1, <2>3, Advances DEF Proceed
  <2> QED
    BY <2>4, <2>5 DEF IInv
<1>5. CASE Find
  <2>1. AtCall /\ Now.do = "look" /\ Proceed /\ UNCHANGED <<cloud, known>> /\ fresh' = fresh \cup {Now.res}
    BY <1>5 DEF Find
  <2>2. fresh' \subseteq STRING
    BY <1>0, <2>1, CallShape
  <2>3. TypeOK'
    BY <1>0, <2>1, <2>2, NotBuilt, AdvanceTypes DEF Proceed
  <2>4. DocInv'
    BY <2>1, NotBuilt, Advances DEF Proceed
  <2> QED
    BY <2>3, <2>4 DEF IInv
<1>6. CASE TakenForRefusal
  <2>1. AtCall /\ call' = call + 1 /\ faults' \in Nat
        /\ UNCHANGED <<name, script, part, unit, cloud, fresh, known, tests, trouble, success, docs, raised, abandoned>>
    BY <1>0, <1>6 DEF TakenForRefusal
  <2>2. TypeOK'
    BY <1>0, <2>1, NotBuilt, AdvanceTypes
  <2>3. DocInv'
    BY <2>1, NotBuilt, Advances
  <2> QED
    BY <2>2, <2>3 DEF IInv
<1>7. CASE DeleteRefused \/ NotFound
  <2>1. AtCall /\ UNCHANGED <<name, script, cloud, faults>>
    BY <1>7 DEF DeleteRefused, NotFound
  <2>2. PICK e : e \in Throwable(script, Now) /\ Throw(e)
    <3>1. CASE DeleteRefused
      <4>1. Now.do \in {"drop", "purge", "retry"} /\ \E x \in cloud : Now.res \in x.in
        BY <3>1 DEF DeleteRefused, InUse
      <4>2. "client" \in Throwable(script, Now)
        BY <1>0, <4>1 DEF DocInv, Throwable
      <4> QED
        BY <3>1, <4>2 DEF DeleteRefused
    <3>2. CASE NotFound
      <4>1. "coded" \in Throwable(script, Now)
        BY <3>2 DEF NotFound, Throwable, Coded
      <4> QED
        BY <3>2, <4>1 DEF NotFound
    <3> QED
      BY <1>7, <3>1, <3>2
  <2>3. TypeOK'
    BY <1>0, <2>1, <2>2, NotBuilt, ThrowsTypes
  <2>4. DocInv'
    BY <2>1, <2>2, NotBuilt, Throws
  <2> QED
    BY <2>3, <2>4 DEF IInv
<1>8. CASE CallFails
  <2>1. AtCall /\ UNCHANGED <<name, script, cloud>> /\ faults' = faults + 1
    BY <1>8 DEF CallFails
  <2>2. PICK e \in Now.errs : Throw(e)
    BY <1>8 DEF CallFails
  <2>3. e \in Throwable(script, Now)
    BY DEF Throwable
  <2>4. TypeOK'
    BY <1>0, <2>1, <2>2, NotBuilt, ThrowsTypes
  <2>5. DocInv'
    BY <2>1, <2>2, <2>3, NotBuilt, Throws
  <2> QED
    BY <2>4, <2>5 DEF IInv
<1>9. CASE AnswerLost
  <2>1. /\ AtCall /\ UNCHANGED <<name, script>> /\ faults' = faults + 1
        /\ cloud' = cloud \cup {[res |-> Now.res, in |-> Now.in, on |-> Now.on, going |-> FALSE]}
    BY <1>9 DEF AnswerLost
  <2>2. PICK e \in Now.errs : Throw(e)
    BY <1>9 DEF AnswerLost
  <2>3. e \in Throwable(script, Now)
    BY DEF Throwable
  <2>4. TypeOK'
    BY <1>0, <2>1, <2>2, Built, ThrowsTypes
  <2>5. DocInv'
    BY <2>1, <2>2, <2>3, Built, Throws
  <2> QED
    BY <2>4, <2>5 DEF IInv
<1>10. CASE JudgedFalse
  <2>1. InUnit /\ UnitFails /\ UNCHANGED <<name, script, cloud, faults>>
    BY <1>10 DEF JudgedFalse, AtCall
  <2>2. TypeOK'
    BY <1>0, <2>1, NotBuilt, FailsTypes
  <2>3. DocInv'
    BY <2>1, NotBuilt, Fails
  <2> QED
    BY <2>2, <2>3 DEF IInv
<1>11. CASE UnitPasses
  <2>1. /\ part # "done" /\ unit <= Len(Units) /\ Record("pass") /\ NextUnit
        /\ known' \subseteq known \cup fresh
        /\ UNCHANGED <<name, script, part, cloud, trouble, success, docs, raised, abandoned, faults>>
    BY <1>11 DEF UnitPasses, InUnit
  <2>2. trouble' \in BOOLEAN
    BY <1>0, <2>1, Zenon DEF Flags
  <2>3. Outcomes' /\ Chosen' /\ known' \subseteq STRING
    BY <1>0, <2>1, RecordTypes DEF TypeOK, Chosen
  <2>4. TypeOK'
    BY <1>0, <2>1, <2>2, <2>3, NextUnitTypes, NotBuilt, TypePartsNext
  <2>5. unit \in Nat
    BY <1>0 DEF TypeOK
  <2>6. DocInv'
    BY <2>1, <2>5, NextUnits, NotBuilt DEF NextUnit
  <2> QED
    BY <2>4, <2>6 DEF IInv
<1>12. CASE BodyEnds
  <2>1. /\ part = "body" /\ part' = "cleanup" /\ unit' = CleanupStart /\ call' = 1 /\ fresh' = {}
        /\ success' = AllPassed
        /\ UNCHANGED <<name, script, cloud, known, tests, trouble, docs, raised, abandoned, faults>>
    BY <1>12 DEF BodyEnds
  <2>2. success' \in BOOLEAN
    BY <2>1, Zenon DEF AllPassed
  <2>3. Flags'
    BY <1>0, <2>1, <2>2, Zenon DEF Flags
  <2>4. Place'
    BY <1>0, <2>1, ScriptShape DEF Place, TypeOK, CleanupStart
  <2>5. Outcomes' /\ Chosen'
    BY <1>0, <2>1, TypeParts DEF Outcomes, Chosen
  <2>6. TypeOK'
    BY <1>0, <2>1, <2>3, <2>4, <2>5, NotBuilt, TypePartsNext
  <2>7. docs' = 0
    BY <1>0, <2>1 DEF DocInv, BodyInv
  <2>8. DocInv'
    BY <2>1, <2>7, NotBuilt, Closing
  <2> QED
    BY <2>6, <2>8 DEF IInv
<1>13. CASE CleanupEnds
  <2>1. /\ part = "cleanup" /\ part' = "done" /\ success' = (success /\ ~trouble /\ ~raised)
        /\ docs' = IF (IF raised THEN script.wrapped ELSE docs = 0) THEN docs + 1 ELSE docs
        /\ UNCHANGED <<name, script, unit, call, cloud, fresh, known, tests, trouble, raised, abandoned, faults>>
    BY <1>13 DEF CleanupEnds
  <2>2. docs \in {0, 1} /\ (raised => docs = 0)
    BY <1>0, <2>1 DEF DocInv
  <2>3. Flags'
    BY <1>0, <2>1, Zenon DEF Flags
  <2>4. Place'
    BY <1>0, <2>1, <2>2 DEF Place, TypeOK
  <2>5. Outcomes' /\ Chosen'
    BY <1>0, <2>1, TypeParts DEF Outcomes, Chosen
  <2>6. TypeOK'
    BY <1>0, <2>1, <2>3, <2>4, <2>5, NotBuilt, TypePartsNext
  <2>7. docs' = IF raised' /\ ~script.wrapped THEN 0 ELSE 1
    BY <2>1, <2>2
  <2>8. DocInv'
    BY <2>1, <2>7, NotBuilt, Closing
  <2> QED
    BY <2>6, <2>8 DEF IInv
<1>14. CASE Vanish \/ UNCHANGED vars
  <2>1. /\ cloud' \subseteq cloud
        /\ UNCHANGED <<name, script, part, unit, call, fresh, known, tests, trouble, success, docs,
                       raised, abandoned, faults>>
    BY <1>14 DEF Vanish, vars, Without
  <2>2. Place' /\ Outcomes' /\ Chosen'
    BY <1>0, <2>1, TypeParts DEF Place, Outcomes, Chosen
  <2>3. Flags'
    BY <1>0, <2>1, Zenon DEF Flags
  <2>4. TypeOK'
    BY <1>0, <2>1, <2>2, <2>3, NotBuilt, TypePartsNext
  <2>5. script' = script /\ Units' = Units /\ Unit' = Unit
    BY <2>1 DEF Units, Unit
  <2>6. DocInv'
    BY <1>0, <2>1, <2>5, NotBuilt DEF DocInv, BodyInv, PrintedInv, Quiet, OneDocument, Ended
  <2> QED
    BY <2>4, <2>6 DEF IInv
<1> QED
  BY <1>1, <1>2, <1>3, <1>4, <1>5, <1>6, <1>7, <1>8, <1>9, <1>10, <1>11, <1>12, <1>13, <1>14
     DEF Next, Step

(* The account is kept throughout.                                         *)
LEMMA AlwaysInv == Spec => []IInv
BY InitInv, NextInv, PTL DEF Spec

-----------------------------------------------------------------------------
(* The variables keep their types, for every script and any number of      *)
(* requests that fail.                                                     *)
THEOREM TypeCorrect == Spec => []TypeOK
<1>1. IInv => TypeOK
  BY DEF IInv
<1> QED
  BY <1>1, AlwaysInv, PTL

(* A script in the style of StyleAssumption never prints two documents,    *)
(* and none only when an exception leaves a main without handle_aws_errors,*)
(* whatever the cloud refuses: the step executor can parse its stdout.     *)
THEOREM PrintsOneDocument == Spec => []OneDocument
<1>1. IInv => OneDocument
  BY DEF IInv, DocInv
<1> QED
  BY <1>1, AlwaysInv, PTL

-----------------------------------------------------------------------------
(* success is set at the end of the body, and turned off by anything that  *)
(* goes wrong after it.                                                    *)
EarnedInv ==
    /\ part = "body" => ~success
    /\ part # "done" => ~abandoned
    /\ part = "done" /\ success => ~raised /\ ~abandoned /\ ~trouble

(* Steps on which success stays what it was or is turned off.              *)
LEMMA StaysEarned ==
    ASSUME EarnedInv,
           \/ part' = part /\ part # "done" /\ UNCHANGED <<success, abandoned>>
           \/ part' = "cleanup" /\ ~abandoned'
           \/ part' = "done" /\ ~success'
    PROVE  EarnedInv'
BY DEF EarnedInv

(* A unit that fails.                                                      *)
LEMMA FailsEarned ==
    ASSUME TypeOK, EarnedInv, InUnit, UnitFails
    PROVE  EarnedInv'
<1>1. part \in {"body", "cleanup"} /\ Unit.fail \in {"go", "return", "raise", "succeed"} /\ ~abandoned
  BY UnitShape DEF InUnit, TypeOK, EarnedInv
<1>2. CASE part = "cleanup"
  BY <1>2, StaysEarned DEF UnitFails
<1>3. CASE part = "body"
  BY <1>1, <1>3, StaysEarned DEF UnitFails, EnterCleanup, LeaveBody, Abandon, ReturnEarly
<1> QED
  BY <1>1, <1>2, <1>3

(* An exception out of a unit.                                             *)
LEMMA ThrowsEarned ==
    ASSUME TypeOK, EarnedInv, AtCall, NEW e, Throw(e)
    PROVE  EarnedInv'
<1>1. InUnit /\ part \in {"body", "cleanup"} /\ Unit.inner \in BOOLEAN /\ ~abandoned
  BY UnitShape DEF AtCall, InUnit, TypeOK, EarnedInv
<1>2. CASE e \in Unit.catch
  BY <1>1, <1>2, FailsEarned DEF Throw
<1>3. CASE e \notin Unit.catch
  <2>1. UnitRaises(e)
    BY <1>3 DEF Throw
  <2>2. CASE part = "body"
    BY <1>1, <2>1, <2>2, StaysEarned DEF UnitRaises, LeaveBody, EnterCleanup, Abandon
  <2>3. CASE part = "cleanup"
    BY <1>1, <2>1, <2>3, StaysEarned DEF UnitRaises, LeaveInner, Abandon
  <2> QED
    BY <1>1, <2>2, <2>3
<1> QED
  BY <1>2, <1>3

(* Every step keeps success honest.                                        *)
LEMMA NextEarned == TypeOK /\ EarnedInv /\ [Next]_vars => EarnedInv'
<1> SUFFICES ASSUME TypeOK, EarnedInv, [Next]_vars PROVE EarnedInv'
  OBVIOUS
<1>1. CASE SkipUnit \/ UnitPasses \/ Create \/ Delete \/ StartTermination \/ WaitUntilGone \/ Find
           \/ Answer \/ TakenForRefusal
  <2>1. part # "done" /\ UNCHANGED <<part, success, abandoned>>
    BY <1>1 DEF SkipUnit, UnitPasses, Create, Delete, StartTermination, WaitUntilGone, Find, Answer,
                TakenForRefusal, Proceed, AtCall, InUnit
  <2> QED
    BY <2>1, StaysEarned
<1>2. CASE DeleteRefused \/ NotFound \/ CallFails \/ AnswerLost
  <2>1. AtCall /\ \E e : Throw(e)
    BY <1>2 DEF DeleteRefused, NotFound, CallFails, AnswerLost
  <2> QED
    BY <2>1, ThrowsEarned
<1>3. CASE JudgedFalse
  BY <1>3, FailsEarned DEF JudgedFalse, AtCall
<1>4. CASE BodyEnds
  BY <1>4, StaysEarned DEF BodyEnds, EarnedInv
<1>5. CASE CleanupEnds
  BY <1>5 DEF CleanupEnds, EarnedInv
<1>6. CASE Vanish \/ UNCHANGED vars
  <2>1. UNCHANGED <<part, trouble, success, raised, abandoned>>
    BY <1>6 DEF Vanish, vars
  <2> QED
    BY <2>1 DEF EarnedInv
<1> QED
  BY <1>1, <1>2, <1>3, <1>4, <1>5, <1>6 DEF Next, Step

(* No success is claimed at the start.                                     *)
LEMMA InitEarned == Init => EarnedInv
BY DEF Init, EarnedInv

-----------------------------------------------------------------------------
(* What the unit under way has done so far.  What lives on something lives *)
(* on a carrier; ids from the arguments that no unit sets to None are      *)
(* held; what the unit made has its id in the unit; what it deleted and    *)
(* did not make again is gone.                                             *)
Behind == 1 .. (call - 1)
Carried == \A x \in cloud : x.on \in Carriers(script)
NamesHeld == part = "body" => Kept(script) \subseteq known
MadeIsFresh ==
    part # "done" /\ unit <= Len(Units) =>
        \A k \in Makes(Unit) \cap Behind : Unit.calls[k].res \in fresh
MadeAgain(k) ==
    \E l \in Makes(Unit) \cap Behind : l > k /\ Unit.calls[k].res \in {Unit.calls[l].res, Unit.calls[l].on}
DeletedIsGone ==
    part # "done" /\ unit <= Len(Units) =>
        \A k \in DOMAIN Unit.calls \cap Behind :
            Unit.calls[k].do \in Deleting /\ ~MadeAgain(k) =>
                \A x \in cloud : Unit.calls[k].res # x.res /\ Unit.calls[k].res # x.on
Progress == Carried /\ NamesHeld /\ MadeIsFresh /\ DeletedIsGone

(* Success is out of reach: it was not given, a cleanup error will turn it *)
(* off, or a test that decides the verdict has failed for good.            *)
FailedTest(i) == i < unit /\ Decides(script, i) /\ tests[script.body[i].test] = "fail"
Doomed ==
    \/ part # "body" /\ ~success
    \/ part = "cleanup" /\ trouble
    \/ part = "body" /\ \E i \in DOMAIN script.body : FailedTest(i)

(* Main can trace what exists, or the helper that made it has yet to       *)
(* return.                                                                 *)
JustMade(x) ==
    /\ part = "body" /\ unit <= Len(Units)
    /\ \E k \in Makes(Unit) \cap Behind : Unit.calls[k].res = x.res
Accounted(x) == x.going \/ Traced(x) \/ JustMade(x)
TraceInv == Tidy(name) => Doomed \/ \A x \in cloud : Accounted(x)

-----------------------------------------------------------------------------
(* A new unit starts with nothing behind it.                               *)
LEMMA NewUnit ==
    ASSUME Carried', NamesHeld', call' = 1 \/ part' = "done"
    PROVE  Progress'
<1>1. CASE call' = 1
  <2>1. Behind' = {}
    BY <1>1 DEF Behind
  <2> QED
    BY <2>1 DEF Progress, MadeIsFresh, DeletedIsGone
<1>2. CASE part' = "done"
  BY <1>2 DEF Progress, MadeIsFresh, DeletedIsGone
<1> QED
  BY <1>1, <1>2

(* A call that is answered.                                                *)
LEMMA Answered ==
    ASSUME TypeOK, Progress, AtCall, UNCHANGED <<script, part, unit>>, call' = call + 1,
           part = "body" => known' = known,
           fresh \subseteq fresh', Now.do = "make" => Now.res \in fresh',
           Now.do \in Deleting => \A x \in cloud' : Now.res # x.res /\ Now.res # x.on,
           \A x \in cloud' : \/ \E y \in cloud : y.res = x.res /\ y.on = x.on
                             \/ Now.do = "make" /\ x.res = Now.res /\ x.on = Now.on
    PROVE  Progress'
<1>1. script' = script /\ Units' = Units /\ Unit' = Unit /\ part # "done" /\ unit <= Len(Units)
  BY DEF Units, Unit, AtCall, InUnit
<1>2. Behind' = Behind \cup {call} /\ call \notin Behind /\ \A k \in Behind : k < call
  BY DEF Behind, TypeOK
<1>3. call \in DOMAIN Unit.calls /\ Now = Unit.calls[call] /\ unit \in DOMAIN Units
  BY <1>1, CallShape, UnitShape DEF Now
<1>4. Carried'
  <2>1. Now.on \in Attached(Unit)
    BY <1>3 DEF Attached
  <2>2. Attached(Unit) \subseteq Carriers(script)
    <3>1. CASE part = "body"
      BY <1>3, <3>1 DEF Units, Unit, Carriers
    <3>2. CASE part # "body"
      BY <1>3, <3>2 DEF Units, Unit, Carriers
    <3> QED
      BY <3>1, <3>2
  <2> QED
    BY <1>1, <2>1, <2>2 DEF Carried, Progress
<1>5. NamesHeld'
  BY <1>1 DEF NamesHeld, Progress
<1>6. MadeIsFresh'
  BY <1>1, <1>2, <1>3 DEF MadeIsFresh, Progress, Makes
<1>7. DeletedIsGone'
  <2> SUFFICES ASSUME NEW k \in DOMAIN Unit.calls \cap Behind', Unit.calls[k].do \in Deleting,
                      ~MadeAgain(k)', NEW x \in cloud'
               PROVE  Unit.calls[k].res # x.res /\ Unit.calls[k].res # x.on
    BY <1>1 DEF DeletedIsGone
  <2>1. CASE k = call
    BY <1>3, <2>1
  <2>2. CASE k \in Behind
    <3>1. ~MadeAgain(k)
      BY <1>1, <1>2 DEF MadeAgain
    <3>2. \A y \in cloud : Unit.calls[k].res # y.res /\ Unit.calls[k].res # y.on
      BY <1>1, <2>2, <3>1 DEF DeletedIsGone, Progress
    <3>3. Now.do = "make" => Unit.calls[k].res # Now.res /\ Unit.calls[k].res # Now.on
      BY <1>1, <1>2, <1>3, <2>2 DEF MadeAgain, Makes
    <3> QED
      BY <3>2, <3>3
  <2> QED
    BY <1>2, <2>1, <2>2
<1> QED
  BY <1>4, <1>5, <1>6, <1>7 DEF Progress

(* What a unit of the body sets to None is not kept.                       *)
LEMMA NotKept ==
    ASSUME TypeOK, part = "body", unit <= Len(Units)
    PROVE  Kept(script) \cap (Unit.forgets \cup Unit.loses) = {}
<1>1. unit \in DOMAIN script.body /\ Unit = script.body[unit]
  BY UnitShape DEF Units, Unit
<1> QED
  BY <1>1 DEF Kept

(* A unit that ends, by a failure or an exception.                         *)
LEMMA ThrowsOn ==
    ASSUME TypeOK, InUnit, UNCHANGED script, UnitFails \/ \E e : UnitRaises(e)
    PROVE  /\ call' = 1 \/ part' = "done"
           /\ part' = "body" => part = "body" /\ known \ Unit.loses \subseteq known'
<1>1. part \in {"body", "cleanup"} /\ unit <= Len(Units)
      /\ Unit.fail \in {"go", "return", "raise", "succeed"} /\ Unit.inner \in BOOLEAN
  BY UnitShape DEF InUnit, TypeOK
<1>2. CASE UnitFails
  <2>1. known \ Unit.loses \subseteq known'
    BY <1>2 DEF UnitFails
  <2>2. CASE part = "cleanup"
    BY <1>2, <2>2 DEF UnitFails, NextUnit
  <2>3. CASE part = "body"
    BY <1>1, <1>2, <2>1, <2>3 DEF UnitFails, NextUnit, EnterCleanup, ReturnEarly, LeaveBody, Abandon
  <2> QED
    BY <1>1, <2>2, <2>3
<1>3. CASE \E e : UnitRaises(e)
  <2>1. CASE part = "body"
    BY <1>3, <2>1 DEF UnitRaises, LeaveBody, EnterCleanup, Abandon
  <2>2. CASE part = "cleanup"
    BY <1>1, <1>3, <2>2 DEF UnitRaises, LeaveInner, Abandon
  <2> QED
    BY <1>1, <2>1, <2>2
<1> QED
  BY <1>2, <1>3

(* How a unit comes to fail: by a condition, or by an exception that the   *)
(* call may throw; a lost answer has created something.                    *)
Failing(e) == AtCall /\ UNCHANGED <<name, script>> /\ Throw(e) /\ e \in Throwable(script, Now)
LostAnswer ==
    /\ Now.do = "make"
    /\ cloud' = cloud \cup {[res |-> Now.res, in |-> Now.in, on |-> Now.on, going |-> FALSE]}

(* Every failure of a request is of this kind.                             *)
LEMMA HowItFails ==
    ASSUME IInv, DeleteRefused \/ NotFound \/ CallFails \/ AnswerLost
    PROVE  \E e : Failing(e) /\ (cloud' = cloud \/ (LostAnswer /\ e \in Now.errs \ Client))
<1>0. DocInv
  BY DEF IInv
<1>1. CASE DeleteRefused
  <2>1. Now.do \in {"drop", "purge", "retry"} /\ \E x \in cloud : Now.res \in x.in
    BY <1>1 DEF DeleteRefused, InUse
  <2>2. "client" \in Throwable(script, Now)
    BY <1>0, <2>1 DEF DocInv, Throwable
  <2> QED
    BY <1>1, <2>2 DEF DeleteRefused, Failing
<1>2. CASE NotFound
  <2>1. "coded" \in Throwable(script, Now)
    BY <1>2 DEF NotFound, Throwable, Coded
  <2> QED
    BY <1>2, <2>1 DEF NotFound, Failing
<1>3. CASE CallFails
  BY <1>3 DEF CallFails, Failing, Throwable
<1>4. CASE AnswerLost
  BY <1>4 DEF AnswerLost, Failing, LostAnswer, Throwable
<1> QED
  BY <1>1, <1>2, <1>3, <1>4

(* Every step keeps the account of the unit under way.                     *)
LEMMA NextProgress == IInv /\ Progress /\ [Next]_vars => Progress'
<1> SUFFICES ASSUME IInv, Progress, [Next]_vars PROVE Progress'
  OBVIOUS
<1>0. TypeOK /\ Carried /\ NamesHeld
  BY DEF IInv, Progress
<1>1. ASSUME InUnit, UNCHANGED script, UnitFails \/ \E e : UnitRaises(e), Carried' PROVE Progress'
  <2>1. /\ call' = 1 \/ part' = "done"
        /\ part' = "body" => part = "body" /\ known \ Unit.loses \subseteq known'
    BY <1>0, <1>1, ThrowsOn
  <2>2. NamesHeld'
    BY <1>0, <1>1, <2>1, NotKept DEF NamesHeld, InUnit
  <2> QED
    BY <1>1, <2>1, <2>2, NewUnit
<1>2. ASSUME cloud' \subseteq cloud, script' = script PROVE Carried'
  BY <1>0, <1>2 DEF Carried
<1>3. CASE SkipUnit \/ BodyEnds \/ CleanupEnds
  <2>1. /\ script' = script /\ cloud' = cloud /\ known' = known /\ (call' = 1 \/ part' = "done")
        /\ part' = "body" => part = "body"
    BY <1>3 DEF SkipUnit, BodyEnds, CleanupEnds, NextUnit
  <2>2. NamesHeld'
    BY <1>0, <2>1 DEF NamesHeld
  <2> QED
    BY <1>2, <2>1, <2>2, NewUnit
<1>4. CASE Create
  BY <1>0, <1>4, Answered DEF Create, Proceed, Deleting
<1>5. CASE Delete
  BY <1>0, <1>5, Answered DEF Delete, Proceed, Without, Deleting
<1>6. CASE StartTermination
  <2>1. /\ AtCall /\ Proceed /\ fresh' = fresh /\ Now.do = "terminate"
        /\ cloud' = {IF x.res = Now.res THEN [x EXCEPT !.going = TRUE] ELSE x : x \in cloud}
        /\ part = "body" => known' = known
    BY <1>6 DEF StartTermination
  <2>2. \A x \in cloud : LET z == [x EXCEPT !.going = TRUE] IN z.res = x.res /\ z.on = x.on
    BY <1>0 DEF TypeOK, Resource
  <2>3. \A x \in cloud' : \E y \in cloud : y.res = x.res /\ y.on = x.on
    BY <2>1, <2>2
  <2> QED
    BY <1>0, <2>1, <2>3, Answered DEF Proceed, Deleting
<1>7. CASE WaitUntilGone \/ Find \/ Answer \/ TakenForRefusal
  <2>1. /\ AtCall /\ Now.do \in {"gone", "look", "absent", "ask", "judge", "deny"} /\ fresh \subseteq fresh'
        /\ call' = call + 1 /\ UNCHANGED <<script, part, unit, cloud, known>>
    BY <1>7 DEF WaitUntilGone, Find, Answer, TakenForRefusal, Proceed
  <2> QED
    BY <1>0, <2>1, Answered DEF Deleting
<1>8. CASE JudgedFalse
  BY <1>1, <1>2, <1>8 DEF JudgedFalse, AtCall
<1>9. CASE DeleteRefused \/ NotFound \/ CallFails \/ AnswerLost
  <2>1. PICK e : Failing(e) /\ (cloud' = cloud \/ (LostAnswer /\ e \in Now.errs \ Client))
    BY <1>9, HowItFails
  <2>2. AtCall /\ InUnit /\ script' = script /\ (UnitFails \/ UnitRaises(e))
    BY <2>1 DEF Failing, AtCall, Throw
  <2>3. Now.on \in Carriers(script)
    <3>1. call \in DOMAIN Unit.calls /\ Now = Unit.calls[call] /\ unit \in DOMAIN Units
      BY <1>0, <2>2, CallShape, UnitShape DEF Now, InUnit
    <3>2. Now.on \in Attached(Unit)
      BY <3>1 DEF Attached
    <3>3. CASE part = "body"
      BY <3>1, <3>2, <3>3 DEF Units, Unit, Carriers
    <3>4. CASE part # "body"
      BY <3>1, <3>2, <3>4 DEF Units, Unit, Carriers
    <3> QED
      BY <3>3, <3>4
  <2>4. Carried'
    <3>1. CASE cloud' = cloud
      BY <1>2, <2>2, <3>1
    <3>2. CASE LostAnswer
      BY <1>0, <2>2, <2>3, <3>2 DEF LostAnswer, Carried
    <3> QED
      BY <2>1, <3>1, <3>2
  <2> QED
    BY <1>1, <2>2, <2>4
<1>10. CASE UnitPasses
  <2>1. /\ InUnit /\ script' = script /\ part' = part /\ cloud' = cloud /\ call' = 1
        /\ known' = (known \cup fresh) \ Unit.forgets
    BY <1>10 DEF UnitPasses, NextUnit
  <2>2. NamesHeld'
    BY <1>0, <2>1, NotKept DEF NamesHeld, InUnit
  <2> QED
    BY <1>2, <2>1, <2>2, NewUnit
<1>11. CASE Vanish \/ UNCHANGED vars
  <2>1. /\ cloud' \subseteq cloud
        /\ UNCHANGED <<script, part, unit, call, fresh, known>>
    BY <1>11 DEF Vanish, vars, Without
  <2>2. Units' = Units /\ Unit' = Unit /\ Behind' = Behind
    BY <2>1 DEF Units, Unit, Behind
  <2>3. \A k : MadeAgain(k)' <=> MadeAgain(k)
    BY <2>2 DEF MadeAgain
  <2>4. NamesHeld' /\ MadeIsFresh'
    BY <2>1, <2>2 DEF Progress, NamesHeld, MadeIsFresh
  <2>5. DeletedIsGone'
    BY <2>1, <2>2, <2>3 DEF Progress, DeletedIsGone
  <2> QED
    BY <1>2, <2>1, <2>4, <2>5 DEF Progress
<1> QED
  BY <1>3, <1>4, <1>5, <1>6, <1>7, <1>8, <1>9, <1>10, <1>11 DEF Next, Step

-----------------------------------------------------------------------------
(* A test that failed and decides the verdict is not recorded again.       *)
LEMMA StaysFailed ==
    ASSUME TypeOK, InUnit, part = "body", NEW i \in DOMAIN script.body, FailedTest(i),
           NEW outcome, Record(outcome), UNCHANGED script, unit' = unit + 1
    PROVE  FailedTest(i)'
<1>1. unit \in DOMAIN script.body /\ Unit = script.body[unit] /\ unit \in Nat /\ i \in Nat
  BY UnitShape, ScriptShape DEF Units, Unit, InUnit
<1>2. Unit.test # script.body[i].test /\ i < unit /\ tests[script.body[i].test] = "fail"
  BY <1>1 DEF FailedTest, Decides
<1>3. script.body[i].test \in DOMAIN tests
  BY DEF TypeOK, FailedTest, Decides, TestNames
<1>4. tests'[script.body[i].test] = "fail"
  BY <1>2, <1>3 DEF Record, TypeOK
<1> QED
  BY <1>1, <1>2, <1>4 DEF FailedTest

(* Once out of reach, success stays out of reach.                          *)
LEMMA StaysDoomed == TypeOK /\ EarnedInv /\ Doomed /\ [Next]_vars => Doomed'
<1> SUFFICES ASSUME TypeOK, EarnedInv, Doomed, [Next]_vars PROVE Doomed'
  OBVIOUS
<1>0. part \in {"body", "cleanup", "done"}
  BY DEF TypeOK
<1>1. CASE part = "body"
  <2>1. PICK i \in DOMAIN script.body : FailedTest(i)
    BY <1>1 DEF Doomed
  <2>2. ~success
    BY <1>1 DEF EarnedInv
  <2>3. ASSUME script' = script, part' = part, FailedTest(i)' PROVE Doomed'
    BY <1>1, <2>3 DEF Doomed
  <2>4. ASSUME part' # "body", ~success' PROVE Doomed'
    BY <2>4 DEF Doomed
  <2>5. ASSUME InUnit, script' = script, UnitFails PROVE Doomed'
    <3>1. /\ unit <= Len(Units) /\ unit \in DOMAIN script.body /\ Unit = script.body[unit]
          /\ unit \in Nat /\ i \in Nat
          /\ Unit.fail \in {"go", "return", "raise", "succeed"}
      BY <1>1, <2>5, UnitShape, ScriptShape DEF Units, Unit, InUnit
    <3>2. Unit.fail # "succeed"
      BY <2>1, <3>1 DEF FailedTest, Decides
    <3>3. CASE Unit.fail = "go"
      BY <1>1, <2>1, <2>3, <2>5, <3>3, StaysFailed DEF UnitFails, NextUnit
    <3>4. CASE Unit.fail = "return"
      BY <1>1, <2>2, <2>4, <2>5, <3>4 DEF UnitFails, EnterCleanup
    <3>5. CASE Unit.fail = "raise"
      BY <1>1, <2>2, <2>4, <2>5, <3>5 DEF UnitFails, LeaveBody, EnterCleanup, Abandon
    <3> QED
      BY <3>1, <3>2, <3>3, <3>4, <3>5
  <2>6. CASE SkipUnit
    <3>1. script' = script /\ part' = part /\ tests' = tests /\ unit' = unit + 1
      BY <2>6 DEF SkipUnit, NextUnit
    <3>2. i \in Nat /\ unit \in Nat
      BY ScriptShape DEF TypeOK
    <3>3. FailedTest(i)'
      BY <2>1, <3>1, <3>2 DEF FailedTest
    <3> QED
      BY <2>3, <3>1, <3>3
  <2>7. CASE \/ Create \/ Delete \/ StartTermination \/ WaitUntilGone \/ Find \/ Answer \/ TakenForRefusal
             \/ Vanish \/ UNCHANGED vars
    <3>1. UNCHANGED <<script, part, unit, tests>>
      BY <2>7 DEF Create, Delete, StartTermination, WaitUntilGone, Find, Answer, TakenForRefusal,
                  Proceed, Vanish, vars
    <3>2. FailedTest(i)'
      BY <2>1, <3>1 DEF FailedTest
    <3> QED
      BY <2>3, <3>1, <3>2
  <2>8. CASE JudgedFalse
    BY <2>5, <2>8 DEF JudgedFalse, AtCall
  <2>9. CASE DeleteRefused \/ NotFound \/ CallFails \/ AnswerLost
    <3>1. AtCall /\ InUnit /\ script' = script
      BY <2>9 DEF DeleteRefused, NotFound, CallFails, AnswerLost, AtCall
    <3>2. PICK e : Throw(e)
      BY <2>9 DEF DeleteRefused, NotFound, CallFails, AnswerLost
    <3>3. CASE UnitFails
      BY <2>5, <3>1, <3>3
    <3>4. CASE UnitRaises(e)
      BY <1>1, <2>2, <2>4, <3>4 DEF UnitRaises, LeaveBody, EnterCleanup, Abandon
    <3> QED
      BY <3>2, <3>3, <3>4 DEF Throw
  <2>10. CASE UnitPasses
    BY <1>1, <2>1, <2>3, <2>10, StaysFailed DEF UnitPasses, NextUnit
  <2>11. CASE BodyEnds
    <3>1. script.body[i].test \in DOMAIN tests /\ tests[script.body[i].test] = "fail"
          /\ (script.graded = {} \/ script.body[i].test \in script.graded)
      BY <2>1 DEF TypeOK, FailedTest, Decides, TestNames
    <3>2. ~AllPassed
      BY <3>1 DEF AllPassed, Passed
    <3> QED
      BY <2>4, <2>11, <3>2 DEF BodyEnds
  <2>12. CASE CleanupEnds
    BY <1>1, <2>12 DEF CleanupEnds
  <2> QED
    BY <2>6, <2>7, <2>8, <2>9, <2>10, <2>11, <2>12 DEF Next, Step
<1>2. CASE part = "cleanup"
  <2>1. ~success \/ trouble
    BY <1>2 DEF Doomed
  <2>2. ASSUME part' = part, success' = success, trouble => trouble' PROVE Doomed'
    BY <1>2, <2>1, <2>2 DEF Doomed
  <2>3. ASSUME part' = "done", ~success' PROVE Doomed'
    BY <2>3 DEF Doomed
  <2>4. CASE SkipUnit
    BY <2>2, <2>4 DEF SkipUnit
  <2>5. CASE \/ Create \/ Delete \/ StartTermination \/ WaitUntilGone \/ Find \/ Answer \/ TakenForRefusal
             \/ Vanish \/ UNCHANGED vars \/ UnitPasses
    <3>1. UNCHANGED <<part, success, trouble>>
      BY <2>5 DEF Create, Delete, StartTermination, WaitUntilGone, Find, Answer, TakenForRefusal,
                  Proceed, Vanish, vars, UnitPasses
    <3> QED
      BY <2>2, <3>1
  <2>6. CASE JudgedFalse
    BY <1>2, <2>2, <2>6 DEF JudgedFalse, UnitFails
  <2>7. CASE DeleteRefused \/ NotFound \/ CallFails \/ AnswerLost
    <3>1. AtCall /\ unit <= Len(Units)
      BY <2>7 DEF DeleteRefused, NotFound, CallFails, AnswerLost, AtCall, InUnit
    <3>2. PICK e : Throw(e)
      BY <2>7 DEF DeleteRefused, NotFound, CallFails, AnswerLost
    <3>3. CASE UnitFails
      BY <1>2, <2>2, <3>3 DEF UnitFails
    <3>4. CASE UnitRaises(e)
      <4>1. LeaveInner \/ Abandon
        BY <1>2, <3>1, <3>4, UnitShape DEF UnitRaises
      <4> QED
        BY <2>2, <2>3, <4>1 DEF LeaveInner, Abandon
    <3> QED
      BY <3>2, <3>3, <3>4 DEF Throw
  <2>8. CASE BodyEnds
    BY <1>2, <2>8 DEF BodyEnds
  <2>9. CASE CleanupEnds
    BY <2>1, <2>3, <2>9 DEF CleanupEnds
  <2> QED
    BY <2>4, <2>5, <2>6, <2>7, <2>8, <2>9 DEF Next, Step
<1>3. CASE part = "done"
  <2>1. UNCHANGED <<part, success>>
    BY <1>3 DEF Next, Step, SkipUnit, Create, Delete, DeleteRefused, NotFound, StartTermination, WaitUntilGone,
                Find, Answer, JudgedFalse, CallFails, TakenForRefusal, AnswerLost, UnitPasses, BodyEnds,
                CleanupEnds, AtCall, InUnit, Vanish, vars
  <2> QED
    BY <1>3, <2>1 DEF Doomed
<1> QED
  BY <1>0, <1>1, <1>2, <1>3

-----------------------------------------------------------------------------
(* What Tidy says of the unit under way.                                   *)
LEMMA TidyUnit ==
    ASSUME TypeOK, Tidy(name), part # "done", unit <= Len(Units)
    PROVE  /\ ForgetsSafely(name, Unit)
           /\ part = "body" => \/ Unit.fail \in {"return", "raise"}
                               \/ Harmless(name, Unit)
                               \/ Unit.fail = "go" /\ Decides(script, unit)
           /\ part = "cleanup" => TidyCleanup(name, Unit)
<1>1. unit \in DOMAIN Units /\ script = Scripts[name] /\ part \in {"body", "cleanup"}
  BY UnitShape DEF TypeOK
<1>2. CASE part = "body"
  <2>1. TidyBody(name, unit) /\ Unit = Scripts[name].body[unit]
    BY <1>1, <1>2 DEF Tidy, Units, Unit
  <2> QED
    BY <1>1, <1>2, <2>1 DEF TidyBody
<1>3. CASE part = "cleanup"
  <2>1. TidyCleanup(name, Unit)
    BY <1>1, <1>3 DEF Tidy, Units, Unit
  <2> QED
    BY <1>3, <2>1 DEF TidyCleanup
<1> QED
  BY <1>1, <1>2, <1>3

(* To forget what is spared loses no trace.                                *)
LEMMA SparedTrace ==
    ASSUME TypeOK, Carried, NEW x \in cloud, x.res \in known \/ x.on \in known \/ <<name, x.res>> \in LeftBehind,
           NEW gone, \A r \in gone : Spared(name, r), known \ gone \subseteq known', name' = name
    PROVE  Traced(x)'
<1>1. x.on \in Carriers(Scripts[name])
  BY DEF Carried, TypeOK
<1>2. CASE <<name, x.res>> \in LeftBehind
  BY <1>2 DEF Traced
<1>3. CASE x.res \in known
  BY <1>3 DEF Traced, Spared
<1>4. CASE x.on \in known
  BY <1>1, <1>4 DEF Traced, Spared
<1> QED
  BY <1>2, <1>3, <1>4

(* A call that is answered.                                                *)
LEMMA AnsweredTrace ==
    ASSUME TypeOK, AtCall, UNCHANGED <<name, script, part, unit>>, call' = call + 1,
           \A x \in cloud : Accounted(x), known \subseteq known', cloud' \subseteq cloud
    PROVE  \A x \in cloud' : Accounted(x)'
<1>1. Units' = Units /\ Unit' = Unit /\ Behind \subseteq Behind'
  BY DEF Units, Unit, Behind, TypeOK
<1>2. ASSUME NEW x \in cloud', JustMade(x) PROVE JustMade(x)'
  BY <1>1, <1>2 DEF JustMade
<1>3. ASSUME NEW x \in cloud', Traced(x) PROVE Traced(x)'
  BY <1>3 DEF Traced
<1> QED
  BY <1>2, <1>3 DEF Accounted

(* The unit that fails was harmless, or its failure costs the success.     *)
LEMMA FailsTrace ==
    ASSUME TypeOK, EarnedInv, Progress, Tidy(name), AtCall, UNCHANGED <<name, script>>, UnitFails,
           \A x \in cloud : Accounted(x), MayFail(script, Unit, call),
           \/ cloud' = cloud
           \/ LostAnswer /\ (Now.errs \ Client) \cap Unit.catch # {}
    PROVE  Doomed' \/ \A x \in cloud' : Accounted(x)'
<1>1. /\ part \in {"body", "cleanup"} /\ unit <= Len(Units) /\ unit \in DOMAIN Units /\ InUnit
      /\ Unit.fail \in {"go", "return", "raise", "succeed"} /\ script = Scripts[name]
      /\ call \in DOMAIN Unit.calls /\ Now = Unit.calls[call] /\ call \in Nat \ {0} /\ unit \in Nat
  BY UnitShape, CallShape DEF AtCall, InUnit, TypeOK, Now
<1>2. known \ Unit.loses \subseteq known' /\ (Unit.keeps => fresh \ Unit.loses \subseteq known')
  BY DEF UnitFails
<1>3. ASSUME \A r \in Unit.loses : Spared(name, r), NEW x \in cloud,
             x.res \in known \/ x.on \in known \/ <<name, x.res>> \in LeftBehind
      PROVE  Accounted(x)'
  BY <1>2, <1>3, SparedTrace DEF Progress, Accounted
<1>4. CASE part = "cleanup"
  <2>1. TidyCleanup(name, Unit)
    BY <1>1, <1>4, TidyUnit
  <2>2. cloud' = cloud
    BY <1>1, <2>1 DEF LostAnswer, TidyCleanup, Makes
  <2>3. CASE Unit.notes
    BY <1>4, <2>3 DEF UnitFails, Doomed
  <2>4. CASE \A r \in Unit.loses : Spared(name, r)
    <3>1. \A x \in cloud : Accounted(x)'
      BY <1>3, <1>4, <2>4 DEF Accounted, Traced, JustMade
    <3> QED
      BY <2>2, <3>1
  <2> QED
    BY <2>1, <2>3, <2>4 DEF TidyCleanup
<1>5. CASE part = "body"
  <2>1. ~success
    BY <1>5 DEF EarnedInv
  <2>2. CASE Unit.fail = "return"
    BY <1>5, <2>1, <2>2 DEF UnitFails, EnterCleanup, Doomed
  <2>3. CASE Unit.fail = "raise"
    BY <1>5, <2>1, <2>3 DEF UnitFails, LeaveBody, EnterCleanup, Abandon, Doomed
  <2>4. CASE Unit.fail = "go" /\ Decides(script, unit)
    <3>1. unit \in DOMAIN script.body /\ Unit = script.body[unit]
      BY <1>1, <1>5 DEF Units, Unit
    <3>2. Unit.test # "" /\ Unit.test \in DOMAIN tests
      BY <2>4, <3>1 DEF Decides, TypeOK, TestNames
    <3>3. tests'[Unit.test] = "fail" /\ unit' = unit + 1 /\ part' = "body" /\ script' = script
      BY <1>5, <2>4, <3>2 DEF UnitFails, Record, NextUnit
    <3>4. unit < unit'
      BY <1>1, <3>3
    <3>5. \E i \in DOMAIN script.body : FailedTest(i)'
      BY <2>4, <3>1, <3>3, <3>4 DEF FailedTest
    <3> QED
      BY <3>3, <3>5 DEF Doomed
  <2>5. CASE Harmless(name, Unit)
    <3>1. (\A r \in Unit.loses : Spared(name, r)) /\ \A k \in Makes(Unit) : Survives(name, Unit, k)
      BY <2>5 DEF Harmless
    <3>2. Kept(script) \subseteq known'
      BY <1>1, <1>2, <1>5, NotKept DEF Progress, NamesHeld
    <3>3. ASSUME NEW x \in cloud PROVE Accounted(x)'
      <4>1. CASE x.going
        BY <4>1 DEF Accounted
      <4>2. CASE Traced(x)
        BY <1>3, <3>1, <4>2 DEF Traced
      <4>3. CASE JustMade(x)
        <5>1. PICK k \in Makes(Unit) \cap Behind : Unit.calls[k].res = x.res
          BY <4>3 DEF JustMade
        <5>2. x.res \in fresh /\ k < call
          BY <1>1, <5>1 DEF Progress, MadeIsFresh, Behind
        <5>3. \/ <<name, x.res>> \in LeftBehind \/ x.res \in Kept(script) \/ Unit.keeps
          BY <1>1, <3>1, <5>1, <5>2 DEF Survives
        <5>4. CASE <<name, x.res>> \in LeftBehind
          BY <1>3, <3>1, <5>4
        <5>5. CASE x.res \in Kept(script)
          BY <3>2, <5>5 DEF Accounted, Traced
        <5>6. CASE Unit.keeps
          BY <1>2, <3>1, <5>2, <5>6 DEF Accounted, Traced, Spared
        <5> QED
          BY <5>3, <5>4, <5>5, <5>6
      <4> QED
        BY <4>1, <4>2, <4>3 DEF Accounted
    <3>4. ASSUME LostAnswer, (Now.errs \ Client) \cap Unit.catch # {}, NEW x, x.res = Now.res
          PROVE  Accounted(x)'
      <4>1. Survives(name, Unit, call)
        BY <1>1, <3>1, <3>4 DEF Makes, LostAnswer
      <4>2. <<name, x.res>> \in LeftBehind \/ x.res \in Kept(script)
        BY <1>1, <3>4, <4>1 DEF Survives
      <4> QED
        BY <3>2, <4>2 DEF Accounted, Traced
    <3> QED
      BY <3>3, <3>4 DEF LostAnswer
  <2> QED
    BY <1>1, <1>5, <2>2, <2>3, <2>4, <2>5, TidyUnit
<1> QED
  BY <1>1, <1>4, <1>5

(* An exception out of a unit.                                             *)
LEMMA ThrowsTrace ==
    ASSUME TypeOK, EarnedInv, Progress, Tidy(name), \A x \in cloud : Accounted(x),
           NEW e, Failing(e), cloud' = cloud \/ (LostAnswer /\ e \in Now.errs \ Client)
    PROVE  Doomed' \/ \A x \in cloud' : Accounted(x)'
<1>1. /\ AtCall /\ UNCHANGED <<name, script>> /\ Throw(e) /\ e \in Throwable(script, Now)
      /\ part \in {"body", "cleanup"} /\ unit <= Len(Units) /\ Unit.inner \in BOOLEAN
      /\ call \in DOMAIN Unit.calls /\ Now = Unit.calls[call]
  BY UnitShape, CallShape DEF Failing, AtCall, InUnit, TypeOK, Now
<1>2. CASE e \in Unit.catch
  <2>1. UnitFails /\ MayFail(script, Unit, call)
    BY <1>1, <1>2 DEF Throw, MayFail
  <2>2. cloud' = cloud \/ (LostAnswer /\ (Now.errs \ Client) \cap Unit.catch # {})
    BY <1>2
  <2> QED
    BY <1>1, <2>1, <2>2, FailsTrace
<1>3. CASE e \notin Unit.catch
  <2>1. UnitRaises(e) /\ known \subseteq known'
    BY <1>1, <1>3 DEF Throw, UnitRaises
  <2>2. CASE part = "body"
    BY <2>1, <2>2 DEF UnitRaises, LeaveBody, EnterCleanup, Abandon, EarnedInv, Doomed
  <2>3. CASE part = "cleanup"
    <3>1. CASE Abandon
      BY <3>1 DEF Abandon, Doomed
    <3>2. CASE LeaveInner
      <4>1. cloud' = cloud
        BY <1>1, <2>3, TidyUnit DEF LostAnswer, TidyCleanup, Makes
      <4>2. \A x \in cloud : Accounted(x)'
        BY <1>1, <2>1, <2>3 DEF Accounted, Traced, JustMade
      <4> QED
        BY <4>1, <4>2
    <3> QED
      BY <1>1, <2>1, <2>3, <3>1, <3>2 DEF UnitRaises
  <2> QED
    BY <1>1, <2>2, <2>3
<1> QED
  BY <1>2, <1>3

(* Every step of a tidy script keeps the trace of what exists.             *)
LEMMA NextTrace == IInv /\ EarnedInv /\ Progress /\ TraceInv /\ [Next]_vars => TraceInv'
<1> SUFFICES ASSUME IInv, EarnedInv, Progress, TraceInv, [Next]_vars PROVE TraceInv'
  OBVIOUS
<1>0. TypeOK /\ Carried
  BY DEF IInv, Progress
<1>1. name' = name
  BY DEF Next, Step, SkipUnit, Create, Delete, DeleteRefused, NotFound, StartTermination, WaitUntilGone,
         Find, Answer, JudgedFalse, CallFails, TakenForRefusal, AnswerLost, UnitPasses, BodyEnds,
         CleanupEnds, Vanish, vars, Proceed
<1>2. CASE ~Tidy(name)
  BY <1>1, <1>2 DEF TraceInv
<1>3. CASE Doomed
  BY <1>0, <1>3, StaysDoomed DEF TraceInv
<1>4. ASSUME Tidy(name), \A x \in cloud : Accounted(x)
      PROVE  Doomed' \/ \A x \in cloud' : Accounted(x)'
  <2>1. CASE Create
    <3>1. /\ AtCall /\ Now.do = "make" /\ UNCHANGED <<name, script, part, unit, known>> /\ call' = call + 1
          /\ cloud' = cloud \cup {[res |-> Now.res, in |-> Now.in, on |-> Now.on, going |-> FALSE]}
      BY <2>1 DEF Create, Proceed
    <3>2. /\ call \in Makes(Unit) /\ Now = Unit.calls[call] /\ Units' = Units /\ Unit' = Unit
          /\ Behind' = Behind \cup {call} /\ unit <= Len(Units) /\ part \in {"body", "cleanup"}
      BY <1>0, <3>1, CallShape DEF Makes, Now, Units, Unit, Behind, TypeOK, AtCall, InUnit
    <3>3. part = "body"
      BY <1>0, <1>4, <3>2, TidyUnit DEF TidyCleanup
    <3>4. ASSUME NEW x \in cloud PROVE Accounted(x)'
      BY <1>4, <3>1, <3>2 DEF Accounted, Traced, JustMade
    <3>5. ASSUME NEW x, x.res = Now.res PROVE Accounted(x)'
      BY <3>1, <3>2, <3>3, <3>5 DEF Accounted, JustMade
    <3> QED
      BY <3>1, <3>4, <3>5
  <2>2. CASE Delete
    <3>1. /\ AtCall /\ UNCHANGED <<name, script, part, unit>> /\ call' = call + 1 /\ cloud' = Without(Now.res)
          /\ known' = IF part = "cleanup" THEN known \ {Now.res} ELSE known
          /\ part \in {"body", "cleanup"}
      BY <1>0, <2>2 DEF Delete, Proceed, AtCall, InUnit, TypeOK
    <3>2. CASE part = "body"
      BY <1>0, <1>4, <3>1, <3>2, AnsweredTrace DEF Without
    <3>3. CASE part = "cleanup"
      BY <1>4, <3>1, <3>3 DEF Without, Accounted, Traced, JustMade
    <3> QED
      BY <3>1, <3>2, <3>3
  <2>3. CASE StartTermination
    <3>1. /\ AtCall /\ UNCHANGED <<name, script, part, unit>> /\ call' = call + 1 /\ Now.do = "terminate"
          /\ cloud' = {IF x.res = Now.res THEN [x EXCEPT !.going = TRUE] ELSE x : x \in cloud}
          /\ known' = IF part = "cleanup" THEN known \ {Now.res} ELSE known
          /\ part \in {"body", "cleanup"} /\ unit <= Len(Units) /\ part # "done"
      BY <1>0, <2>3 DEF StartTermination, Proceed, AtCall, InUnit, TypeOK
    <3>2. \A x \in cloud : [x EXCEPT !.going = TRUE].going
      BY <1>0 DEF TypeOK, Resource
    <3>3. Units' = Units /\ Unit' = Unit /\ Behind \subseteq Behind'
      BY <1>0, <3>1 DEF Units, Unit, Behind, TypeOK
    <3>4. ASSUME NEW x \in cloud, x.res # Now.res PROVE Accounted(x)'
      <4>1. CASE part = "body"
        BY <1>4, <3>1, <3>3, <3>4, <4>1 DEF Accounted, Traced, JustMade
      <4>2. CASE part = "cleanup"
        <5>1. Now.res # x.on
          <6>1. TidyCleanup(name, Unit) /\ call \in DOMAIN Unit.calls /\ Now = Unit.calls[call]
            BY <1>0, <1>4, <3>1, <4>2, TidyUnit, CallShape DEF Now
          <6>2. x.on \in Carriers(Scripts[name])
            BY <1>0 DEF Carried, TypeOK
          <6> QED
            BY <3>1, <6>1, <6>2 DEF TidyCleanup
        <5> QED
          BY <1>4, <3>1, <3>4, <4>2, <5>1 DEF Accounted, Traced, JustMade
      <4> QED
        BY <3>1, <4>1, <4>2
    <3>5. ASSUME NEW z \in cloud' PROVE Accounted(z)'
      <4>1. PICK x \in cloud : z = IF x.res = Now.res THEN [x EXCEPT !.going = TRUE] ELSE x
        BY <3>1, <3>5
      <4>2. CASE x.res = Now.res
        BY <3>2, <4>1, <4>2 DEF Accounted
      <4>3. CASE x.res # Now.res
        BY <3>4, <4>1, <4>3
      <4> QED
        BY <4>2, <4>3
    <3> QED
      BY <3>5
  <2>4. CASE WaitUntilGone \/ Find \/ Answer \/ TakenForRefusal
    BY <1>0, <1>4, <2>4, AnsweredTrace DEF WaitUntilGone, Find, Answer, TakenForRefusal, Proceed
  <2>5. CASE SkipUnit
    <3>1. UNCHANGED <<name, cloud, known>> /\ Behind = {}
      BY <2>5 DEF SkipUnit, Behind
    <3> QED
      BY <1>4, <3>1 DEF Accounted, Traced, JustMade
  <2>6. CASE JudgedFalse
    <3>1. /\ AtCall /\ UnitFails /\ UNCHANGED <<name, script, cloud>>
          /\ Now.do \in {"judge", "deny", "absent"}
      BY <2>6 DEF JudgedFalse
    <3>2. MayFail(script, Unit, call)
      BY <3>1 DEF MayFail, Now
    <3> QED
      BY <1>0, <1>4, <3>1, <3>2, FailsTrace
  <2>7. CASE DeleteRefused \/ NotFound \/ CallFails \/ AnswerLost
    <3>1. PICK e : Failing(e) /\ (cloud' = cloud \/ (LostAnswer /\ e \in Now.errs \ Client))
      BY <2>7, HowItFails
    <3> QED
      BY <1>0, <1>4, <3>1, ThrowsTrace
  <2>8. CASE UnitPasses
    <3>1. /\ part # "done" /\ unit <= Len(Units) /\ call > Len(Unit.calls) /\ UNCHANGED <<name, cloud>>
          /\ known' = (known \cup fresh) \ Unit.forgets
      BY <2>8 DEF UnitPasses, InUnit
    <3>2. DOMAIN Unit.calls \subseteq Behind
      <4> DEFINE cs == Unit.calls
      <4>1. cs \in Seq(CallRecord) /\ call \in Nat /\ call > Len(cs)
        BY <1>0, <3>1, UnitShape DEF TypeOK
      <4> HIDE DEF cs
      <4>2. DOMAIN cs \subseteq Behind
        BY <4>1 DEF Behind
      <4> QED
        BY <4>2 DEF cs
    <3>3. ASSUME NEW r \in Unit.forgets, NEW x \in cloud, r = x.res \/ r = x.on
          PROVE  Spared(name, r)
      <4>1. Spared(name, r) \/ Deletes(Unit, r)
        BY <1>0, <1>4, <3>1, TidyUnit DEF ForgetsSafely
      <4>2. ASSUME Deletes(Unit, r) PROVE FALSE
        <5>1. PICK k \in DOMAIN Unit.calls :
                 /\ Unit.calls[k].do \in Deleting /\ Unit.calls[k].res = r
                 /\ \A l \in Makes(Unit) : l > k => r \notin {Unit.calls[l].res, Unit.calls[l].on}
          BY <4>2 DEF Deletes, Deleting
        <5>2. ~MadeAgain(k) /\ k \in Behind
          BY <3>2, <5>1 DEF MadeAgain
        <5> QED
          BY <3>1, <3>3, <5>1, <5>2 DEF Progress, DeletedIsGone
      <4> QED
        BY <4>1, <4>2
    <3>4. ASSUME NEW x \in cloud PROVE Accounted(x)'
      <4>1. x.going \/ x.res \in known \cup fresh \/ x.on \in known \/ <<name, x.res>> \in LeftBehind
        <5>1. JustMade(x) => x.res \in fresh
          BY <3>1 DEF JustMade, Progress, MadeIsFresh
        <5> QED
          BY <1>4, <5>1 DEF Accounted, Traced
      <4>2. CASE x.going \/ <<name, x.res>> \in LeftBehind
        BY <3>1, <4>2 DEF Accounted, Traced
      <4>3. CASE x.res \in known \cup fresh
        BY <3>1, <3>3, <4>3 DEF Accounted, Traced, Spared
      <4>4. CASE x.on \in known
        <5>1. x.on \in Carriers(Scripts[name])
          BY <1>0 DEF Carried, TypeOK
        <5>2. x.on \notin Unit.forgets
          BY <3>3, <5>1 DEF Spared
        <5> QED
          BY <3>1, <4>4, <5>2 DEF Accounted, Traced
      <4> QED
        BY <4>1, <4>2, <4>3, <4>4
    <3> QED
      BY <3>1, <3>4
  <2>9. CASE BodyEnds \/ CleanupEnds
    <3>1. UNCHANGED <<name, cloud, known>> /\ \A x \in cloud : ~JustMade(x)
      <4>1. CASE BodyEnds
        BY <1>0, <4>1, ScriptShape DEF BodyEnds, JustMade, Units, TypeOK
      <4>2. CASE CleanupEnds
        BY <4>2 DEF CleanupEnds, JustMade
      <4> QED
        BY <2>9, <4>1, <4>2
    <3> QED
      BY <1>4, <3>1 DEF Accounted, Traced
  <2>10. CASE Vanish \/ UNCHANGED vars
    <3>1. cloud' \subseteq cloud /\ UNCHANGED <<name, script, part, unit, call, known>>
      BY <2>10 DEF Vanish, vars, Without
    <3>2. Units' = Units /\ Unit' = Unit /\ Behind' = Behind
      BY <3>1 DEF Units, Unit, Behind
    <3> QED
      BY <1>4, <3>1, <3>2 DEF Accounted, Traced, JustMade
  <2> QED
    BY <2>1, <2>2, <2>3, <2>4, <2>5, <2>6, <2>7, <2>8, <2>9, <2>10 DEF Next, Step
<1> QED
  BY <1>2, <1>3, <1>4 DEF TraceInv

(* A tidy script starts with nothing it cannot trace.                      *)
LEMMA InitTrace == Init => Progress /\ TraceInv
<1> SUFFICES ASSUME Init PROVE Progress /\ TraceInv
  OBVIOUS
<1>1. script = Scripts[name] /\ cloud = script.given /\ known = script.names /\ Behind = {}
  BY DEF Init, Behind
<1>2. Progress
  BY <1>1 DEF Progress, Carried, Carriers, NamesHeld, Kept, MadeIsFresh, DeletedIsGone
<1>3. TraceInv
  BY <1>1 DEF TraceInv, Tidy, Accounted, Traced
<1> QED
  BY <1>2, <1>3

(* A script that is tidy, which can be seen without executing it, never    *)
(* says success over a resource whose id main has lost, whatever requests  *)
(* fail and however many, lost answers and refused deletes included.       *)
THEOREM TidyScriptsOrphanNothing == Spec => [](Tidy(name) => SuccessOrphansNothing)
<1> DEFINE Inv == IInv /\ EarnedInv /\ Progress /\ TraceInv
<1>1. Init => Inv
  BY InitInv, InitEarned, InitTrace
<1>2. Inv /\ [Next]_vars => Inv'
  <2>1. IInv => TypeOK
    BY DEF IInv
  <2> QED
    BY <2>1, NextInv, NextEarned, NextProgress, NextTrace
<1>3. Inv => (Tidy(name) => SuccessOrphansNothing)
  BY DEF TraceInv, SuccessOrphansNothing, Ended, Doomed, Leftover, Accounted, JustMade
<1> QED
  BY <1>1, <1>2, <1>3, PTL DEF Spec

-----------------------------------------------------------------------------
(* Of a script whose finally block finds no ids: main holds only ids that  *)
(* the body may find, and only what is given or made exists.               *)
KeptInv ==
    FindsNothing(script) =>
        /\ part = "cleanup" => fresh = {}
        /\ known \subseteq AllIds(script)
        /\ \A x \in cloud : <<x.res, x.on>> \in Arrivals(script)

(* Unless success is out of reach, main holds no id any more that a unit   *)
(* of the finally block sweeps and that it has got to delete.              *)
GotTo(i, r) ==
    \/ part = "done" \/ i < unit
    \/ i = unit /\ \E k \in DOMAIN script.cleanup[i].calls :
                      /\ k < call /\ script.cleanup[i].calls[k].res = r
                      /\ script.cleanup[i].calls[k].do \in Deleting \cup {"terminate"}
LetGo ==
    part # "body" =>
        \A i \in DOMAIN script.cleanup : \A r : Sweeps(script, i, r) /\ GotTo(i, r) => r \notin known
SweptInv == script.sure /\ FindsNothing(script) => Doomed \/ LetGo

(* How a unit ends that fails or is left by an exception: from the body,   *)
(* main goes on or to the start of the finally block; in that block,       *)
(* success is off or main goes on behind it, and behind the rest of an     *)
(* inner block, with the error noted.                                      *)
LEMMA UnitEnds ==
    ASSUME TypeOK, InUnit, UnitFails \/ \E e : UnitRaises(e)
    PROVE  /\ known' \subseteq known \cup fresh /\ (part' = "cleanup" => fresh' = {})
           /\ part = "body" /\ script.sure =>
                 part' = "body" \/ (part' = "cleanup" /\ unit' = 1 /\ call' = 1)
           /\ part = "cleanup" =>
                 \/ part' = "done" /\ ~success'
                 \/ /\ part' = "cleanup" /\ call' = 1 /\ trouble' = (trouble \/ Unit.notes)
                    /\ unit' \in Nat
                    /\ \A k \in Nat : unit < k /\ k < unit' => Unit.inner /\ Units[k].inner
<1>1. /\ part \in {"body", "cleanup"} /\ unit <= Len(Units) /\ unit \in Nat /\ Len(Units) \in Nat
      /\ Unit.fail \in {"go", "return", "raise", "succeed"} /\ Unit.inner \in BOOLEAN
  BY UnitShape DEF InUnit, TypeOK
<1>2. CASE UnitFails
  <2>1. known' \subseteq known \cup fresh
    BY <1>2 DEF UnitFails
  <2>2. CASE part = "cleanup"
    <3>1. part' = "cleanup" /\ unit' = unit + 1 /\ call' = 1 /\ fresh' = {} /\ trouble' = (trouble \/ Unit.notes)
      BY <1>2, <2>2 DEF UnitFails, NextUnit
    <3> QED
      BY <1>1, <2>1, <2>2, <3>1
  <2>3. CASE part = "body"
    BY <1>1, <1>2, <2>1, <2>3 DEF UnitFails, NextUnit, EnterCleanup, ReturnEarly, LeaveBody, Abandon, CleanupStart
  <2> QED
    BY <1>1, <2>2, <2>3
<1>3. CASE \E e : UnitRaises(e)
  <2>1. known' \subseteq known \cup fresh
    BY <1>3 DEF UnitRaises
  <2>2. CASE part = "body"
    BY <1>3, <2>1, <2>2 DEF UnitRaises, LeaveBody, EnterCleanup, Abandon
  <2>3. CASE part = "cleanup" /\ Unit.inner
    <3>1. LeaveInner
      BY <1>3, <2>3 DEF UnitRaises
    <3>2. PICK i \in unit + 1 .. Len(Units) + 1 : unit' = i /\ \A k \in unit .. (i - 1) : Units[k].inner
      BY <3>1 DEF LeaveInner
    <3>3. \A k \in Nat : unit < k /\ k < unit' => Units[k].inner
      BY <1>1, <3>2
    <3>4. part' = "cleanup" /\ call' = 1 /\ fresh' = {} /\ trouble' = (trouble \/ Unit.notes) /\ unit' \in Nat
      BY <1>1, <2>3, <3>1, <3>2 DEF LeaveInner
    <3> QED
      BY <2>1, <2>3, <3>3, <3>4
  <2>4. CASE part = "cleanup" /\ ~Unit.inner
    BY <1>3, <2>1, <2>4 DEF UnitRaises, Abandon
  <2> QED
    BY <1>1, <2>2, <2>3, <2>4
<1> QED
  BY <1>2, <1>3

(* A finally block that finds no ids makes and looks up nothing.           *)
LEMMA FindsNone ==
    ASSUME TypeOK, FindsNothing(script), AtCall, part # "body"
    PROVE  Now.do \notin {"make", "look"}
<1>1. unit \in DOMAIN script.cleanup /\ Unit = script.cleanup[unit]
  BY UnitShape DEF AtCall, InUnit, Units, Unit
<1> QED
  BY <1>1, CallIds DEF FindsNothing

(* What the body holds and what it is about to make.                       *)
LEMMA BodyIds ==
    ASSUME TypeOK, BodyInv, part = "body", unit <= Len(Units)
    PROVE  fresh \subseteq AllIds(script) /\ (AtCall /\ Now.do = "make" => <<Now.res, Now.on>> \in Arrivals(script))
<1>1. unit \in DOMAIN script.body /\ Unit = script.body[unit]
  BY UnitShape DEF Units, Unit
<1>2. fresh \subseteq AllIds(script)
  BY <1>1 DEF BodyInv, AllIds
<1>3. ASSUME AtCall, Now.do = "make" PROVE <<Now.res, Now.on>> \in Arrivals(script)
  <2>1. call \in Makes(script.body[unit]) /\ Now = script.body[unit].calls[call]
    BY <1>1, <1>3, CallShape DEF Makes, Now
  <2> QED
    BY <1>1, <2>1 DEF Arrivals
<1> QED
  BY <1>2, <1>3

(* Every step keeps to these ids and resources.                            *)
LEMMA NextKept == IInv /\ KeptInv /\ [Next]_vars => KeptInv'
<1> SUFFICES ASSUME IInv, KeptInv, [Next]_vars PROVE KeptInv'
  OBVIOUS
<1>1. TypeOK /\ DocInv /\ script' = script
  BY DEF IInv, Next, Step, SkipUnit, Create, Delete, DeleteRefused, NotFound, StartTermination, WaitUntilGone,
         Find, Answer, JudgedFalse, CallFails, TakenForRefusal, AnswerLost, UnitPasses, BodyEnds,
         CleanupEnds, Vanish, vars, Proceed
<1> SUFFICES ASSUME FindsNothing(script)
             PROVE  /\ part' = "cleanup" => fresh' = {}
                    /\ known' \subseteq AllIds(script)
                    /\ \A x \in cloud' : <<x.res, x.on>> \in Arrivals(script)
  BY <1>1 DEF KeptInv
<1>2. /\ part = "cleanup" => fresh = {}
      /\ known \subseteq AllIds(script)
      /\ \A x \in cloud : <<x.res, x.on>> \in Arrivals(script)
  BY DEF KeptInv
<1>3. InUnit => known \cup fresh \subseteq AllIds(script)
  <2>1. InUnit => part \in {"body", "cleanup"} /\ unit <= Len(Units)
    BY <1>1 DEF InUnit, TypeOK
  <2> QED
    BY <1>1, <1>2, <2>1, BodyIds DEF DocInv
<1>4. ASSUME AtCall, Now.do = "make"
      PROVE  part = "body" /\ <<Now.res, Now.on>> \in Arrivals(script)
  <2>1. part = "body" /\ unit <= Len(Units)
    BY <1>1, <1>4, FindsNone DEF AtCall, InUnit
  <2> QED
    BY <1>1, <1>4, <2>1, BodyIds DEF DocInv
<1>5. CASE SkipUnit \/ BodyEnds \/ CleanupEnds
  <2>1. cloud' = cloud /\ known' = known /\ (part' = "cleanup" => fresh' = {})
    BY <1>5 DEF SkipUnit, BodyEnds, CleanupEnds, NextUnit
  <2> QED
    BY <1>2, <2>1
<1>6. CASE Create
  <2>1. /\ AtCall /\ Now.do = "make" /\ part' = part /\ known' = known
        /\ cloud' = cloud \cup {[res |-> Now.res, in |-> Now.in, on |-> Now.on, going |-> FALSE]}
    BY <1>6 DEF Create, Proceed
  <2> QED
    BY <1>2, <1>4, <2>1
<1>7. CASE StartTermination
  <2>1. /\ part' = part /\ fresh' = fresh /\ known' \subseteq known
        /\ cloud' = {IF x.res = Now.res THEN [x EXCEPT !.going = TRUE] ELSE x : x \in cloud}
    BY <1>7 DEF StartTermination, Proceed
  <2>2. \A x \in cloud : LET z == [x EXCEPT !.going = TRUE] IN z.res = x.res /\ z.on = x.on
    BY <1>1 DEF TypeOK, Resource
  <2>3. \A x \in cloud' : \E y \in cloud : y.res = x.res /\ y.on = x.on
    BY <2>1, <2>2
  <2> QED
    BY <1>2, <2>1, <2>3
<1>8. CASE Delete \/ WaitUntilGone \/ Answer \/ TakenForRefusal \/ Vanish \/ UNCHANGED vars
  <2>1. part' = part /\ fresh' = fresh /\ known' \subseteq known /\ cloud' \subseteq cloud
    BY <1>8 DEF Delete, WaitUntilGone, Answer, TakenForRefusal, Vanish, vars, Proceed, Without
  <2> QED
    BY <1>2, <2>1
<1>9. CASE Find
  <2>1. AtCall /\ Now.do = "look" /\ part' = part /\ UNCHANGED <<cloud, known>>
    BY <1>9 DEF Find, Proceed
  <2>2. part' # "cleanup"
    BY <1>1, <2>1, FindsNone
  <2> QED
    BY <1>2, <2>1, <2>2
<1>10. CASE JudgedFalse
  <2>1. InUnit /\ UnitFails /\ cloud' = cloud
    BY <1>10 DEF JudgedFalse, AtCall
  <2>2. known' \subseteq known \cup fresh /\ (part' = "cleanup" => fresh' = {})
    BY <1>1, <2>1, UnitEnds
  <2> QED
    BY <1>2, <1>3, <2>1, <2>2
<1>11. CASE DeleteRefused \/ NotFound \/ CallFails \/ AnswerLost
  <2>1. PICK e : Failing(e) /\ (cloud' = cloud \/ (LostAnswer /\ e \in Now.errs \ Client))
    BY <1>11, HowItFails
  <2>2. AtCall /\ InUnit /\ (UnitFails \/ UnitRaises(e))
    BY <2>1 DEF Failing, AtCall, Throw
  <2>3. known' \subseteq known \cup fresh /\ (part' = "cleanup" => fresh' = {})
    BY <1>1, <2>2, UnitEnds
  <2>4. \A x \in cloud' : <<x.res, x.on>> \in Arrivals(script)
    <3>1. CASE cloud' = cloud
      BY <1>2, <3>1
    <3>2. CASE LostAnswer
      <4>1. <<Now.res, Now.on>> \in Arrivals(script)
        BY <1>4, <2>2, <3>2 DEF LostAnswer
      <4> DEFINE y == [res |-> Now.res, in |-> Now.in, on |-> Now.on, going |-> FALSE]
      <4>2. cloud' = cloud \cup {y} /\ y.res = Now.res /\ y.on = Now.on
        BY <3>2 DEF LostAnswer
      <4> HIDE DEF y
      <4> QED
        BY <1>2, <4>1, <4>2
    <3> QED
      BY <2>1, <3>1, <3>2
  <2> QED
    BY <1>3, <2>2, <2>3, <2>4
<1>12. CASE UnitPasses
  <2>1. InUnit /\ cloud' = cloud /\ known' \subseteq known \cup fresh /\ fresh' = {}
    BY <1>12 DEF UnitPasses, NextUnit
  <2> QED
    BY <1>2, <1>3, <2>1
<1> QED
  BY <1>5, <1>6, <1>7, <1>8, <1>9, <1>10, <1>11, <1>12 DEF Next, Step

(* A call that is answered: what it deletes, main does not hold any more.  *)
LEMMA AnsweredSwept ==
    ASSUME TypeOK, LetGo, AtCall, UNCHANGED <<script, part, unit>>, call' = call + 1, known' \subseteq known,
           part = "cleanup" /\ Now.do \in Deleting \cup {"terminate"} => Now.res \notin known'
    PROVE  LetGo'
<1> SUFFICES ASSUME part # "body", NEW i \in DOMAIN script.cleanup, NEW r, Sweeps(script, i, r), GotTo(i, r)'
             PROVE  r \notin known'
  BY DEF LetGo
<1>1. part = "cleanup" /\ call \in Nat /\ Unit = script.cleanup[unit] /\ Now = Unit.calls[call]
  BY DEF TypeOK, AtCall, InUnit, Units, Unit, Now
<1>2. ASSUME GotTo(i, r) PROVE r \notin known'
  BY <1>2 DEF LetGo
<1>3. CASE i = unit
  <2>1. PICK k \in DOMAIN script.cleanup[i].calls :
            /\ k < call + 1 /\ script.cleanup[i].calls[k].res = r
            /\ script.cleanup[i].calls[k].do \in Deleting \cup {"terminate"}
    BY <1>1, <1>3, UnitShape DEF GotTo, TypeOK, AtCall, InUnit
  <2>2. k \in Nat
    <3> DEFINE cs == Unit.calls
    <3>1. cs \in Seq(CallRecord) /\ k \in DOMAIN cs
      BY <1>1, <1>3, UnitShape DEF AtCall, InUnit
    <3> HIDE DEF cs
    <3> QED
      BY <3>1
  <2>3. CASE k < call
    BY <1>2, <1>3, <2>1, <2>3 DEF GotTo
  <2>4. CASE k = call
    BY <1>1, <1>3, <2>1, <2>4
  <2> QED
    BY <1>1, <2>1, <2>2, <2>3, <2>4
<1>4. CASE i # unit
  BY <1>1, <1>2, <1>4 DEF GotTo
<1> QED
  BY <1>3, <1>4

(* Main goes on behind the unit: it holds nothing more, and nothing that   *)
(* the units it leaves behind would sweep.                                 *)
LEMMA OnwardSwept ==
    ASSUME TypeOK, LetGo, part = "cleanup", unit <= Len(Units),
           UNCHANGED <<script, part>>, unit' \in Nat, call' = 1, known' \subseteq known,
           \A i \in DOMAIN script.cleanup : \A r :
               unit <= i /\ i < unit' /\ Sweeps(script, i, r) => r \notin known'
    PROVE  LetGo'
<1> SUFFICES ASSUME NEW i \in DOMAIN script.cleanup, NEW r, Sweeps(script, i, r), GotTo(i, r)'
             PROVE  r \notin known'
  BY DEF LetGo
<1>1. i \in Nat \ {0} /\ unit \in Nat /\ script.cleanup[i] \in UnitRecord
  BY ScriptShape DEF TypeOK
<1>2. \A k \in DOMAIN script.cleanup[i].calls : ~(k < 1)
  <2> DEFINE cs == script.cleanup[i].calls
  <2>1. cs \in Seq(CallRecord)
    BY <1>1 DEF UnitRecord
  <2> HIDE DEF cs
  <2>2. \A k \in DOMAIN cs : ~(k < 1)
    BY <2>1
  <2> QED
    BY <2>2 DEF cs
<1>3. i < unit'
  BY <1>2 DEF GotTo
<1>4. CASE i < unit
  BY <1>4 DEF LetGo, GotTo
<1>5. CASE unit <= i
  BY <1>3, <1>5
<1> QED
  BY <1>1, <1>4, <1>5

(* Every step leaves success out of reach or the sweeping on record.       *)
LEMMA NextSwept == IInv /\ EarnedInv /\ KeptInv /\ SweptInv /\ [Next]_vars => SweptInv'
<1> SUFFICES ASSUME IInv, EarnedInv, KeptInv, SweptInv, [Next]_vars PROVE SweptInv'
  OBVIOUS
<1>1. TypeOK /\ script' = script
  BY DEF IInv, Next, Step, SkipUnit, Create, Delete, DeleteRefused, NotFound, StartTermination, WaitUntilGone,
         Find, Answer, JudgedFalse, CallFails, TakenForRefusal, AnswerLost, UnitPasses, BodyEnds,
         CleanupEnds, Vanish, vars, Proceed
<1>2. CASE Doomed
  BY <1>1, <1>2, StaysDoomed DEF SweptInv
<1> SUFFICES ASSUME script.sure, FindsNothing(script), LetGo PROVE Doomed' \/ LetGo'
  BY <1>1, <1>2 DEF SweptInv
<1>3. part = "cleanup" => fresh = {}
  BY DEF KeptInv
<1>4. ASSUME part' = "body" \/ (part' = "cleanup" /\ unit' = 1 /\ call' = 1) PROVE LetGo'
  <2> SUFFICES ASSUME unit' = 1, call' = 1, part' = "cleanup", NEW i \in DOMAIN script.cleanup, NEW r,
                      GotTo(i, r)'
               PROVE  FALSE
    BY <1>1, <1>4 DEF LetGo
  <2>1. i \in Nat \ {0} /\ script.cleanup[i] \in UnitRecord
    BY <1>1, ScriptShape
  <2>2. \A k \in DOMAIN script.cleanup[i].calls : ~(k < 1)
    <3> DEFINE cs == script.cleanup[i].calls
    <3>1. cs \in Seq(CallRecord)
      BY <2>1 DEF UnitRecord
    <3> HIDE DEF cs
    <3>2. \A k \in DOMAIN cs : ~(k < 1)
      BY <3>1
    <3> QED
      BY <3>2 DEF cs
  <2> QED
    BY <1>1, <2>1, <2>2 DEF GotTo
<1>5. ASSUME InUnit, UnitFails \/ \E e : UnitRaises(e) PROVE Doomed' \/ LetGo'
  <2>1. /\ known' \subseteq known \cup fresh
        /\ part = "body" => part' = "body" \/ (part' = "cleanup" /\ unit' = 1 /\ call' = 1)
        /\ part = "cleanup" =>
              \/ part' = "done" /\ ~success'
              \/ /\ part' = "cleanup" /\ call' = 1 /\ trouble' = (trouble \/ Unit.notes)
                 /\ unit' \in Nat
                 /\ \A k \in Nat : unit < k /\ k < unit' => Unit.inner /\ Units[k].inner
    BY <1>1, <1>5, UnitEnds
  <2>2. CASE part = "body"
    BY <1>4, <2>1, <2>2
  <2>3. CASE part = "cleanup" /\ part' = "done"
    BY <2>1, <2>3 DEF Doomed
  <2>4. CASE part = "cleanup" /\ part' # "done" /\ Unit.notes
    BY <2>1, <2>4 DEF Doomed
  <2>5. CASE part = "cleanup" /\ part' # "done" /\ ~Unit.notes
    <3>1. unit \in DOMAIN script.cleanup /\ Unit = script.cleanup[unit] /\ unit <= Len(Units) /\ unit \in Nat
      BY <1>1, <1>5, <2>5, UnitShape DEF InUnit, Units, Unit
    <3>2. ASSUME NEW i \in DOMAIN script.cleanup, NEW r, unit <= i, i < unit', Sweeps(script, i, r) PROVE FALSE
      <4>1. i # unit
        BY <2>5, <3>1, <3>2 DEF Sweeps
      <4>2. i \in Nat /\ unit < i
        BY <1>1, <3>1, <3>2, <4>1, ScriptShape
      <4>3. Unit.inner /\ script.cleanup[i].inner
        BY <2>1, <2>5, <3>2, <4>2 DEF Units
      <4> QED
        BY <2>5, <3>1, <3>2, <4>3 DEF Sweeps
    <3> QED
      BY <1>1, <1>3, <2>1, <2>5, <3>1, <3>2, OnwardSwept
  <2> QED
    BY <1>1, <1>5, <2>2, <2>3, <2>4, <2>5 DEF InUnit, TypeOK
<1>6. CASE SkipUnit
  <2>1. /\ part' = part /\ unit' = unit + 1 /\ call' = 1 /\ known' = known /\ unit <= Len(Units)
        /\ part # "done" /\ (~Wanted \/ Blocked) /\ trouble' = (trouble \/ (Unit.notes /\ Wanted))
    BY <1>6 DEF SkipUnit, NextUnit
  <2>2. CASE part = "body"
    BY <1>4, <2>1, <2>2
  <2>3. CASE part = "cleanup" /\ Wanted /\ Unit.notes
    BY <2>1, <2>3 DEF Doomed
  <2>4. CASE part = "cleanup" /\ ~(Wanted /\ Unit.notes)
    <3>1. unit \in DOMAIN script.cleanup /\ Unit = script.cleanup[unit] /\ unit \in Nat
      BY <1>1, <2>1, <2>4, UnitShape DEF Units, Unit
    <3>2. ASSUME NEW i \in DOMAIN script.cleanup, NEW r, unit <= i, i < unit', Sweeps(script, i, r)
          PROVE  r \notin known'
      <4>1. i = unit
        BY <1>1, <2>1, <3>1, <3>2, ScriptShape
      <4> QED
        BY <2>1, <2>4, <3>1, <3>2, <4>1 DEF Sweeps, Wanted
    <3> QED
      BY <1>1, <2>1, <2>4, <3>1, <3>2, OnwardSwept
  <2> QED
    BY <1>1, <2>1, <2>2, <2>3, <2>4 DEF TypeOK
<1>7. CASE UnitPasses
  <2>1. /\ InUnit /\ call > Len(Unit.calls) /\ part' = part /\ unit' = unit + 1 /\ call' = 1
        /\ known' \subseteq known \cup fresh
    BY <1>7 DEF UnitPasses, NextUnit
  <2>2. CASE part = "body"
    BY <1>4, <2>1, <2>2
  <2>3. CASE part = "cleanup"
    <3>1. /\ unit \in DOMAIN script.cleanup /\ Unit = script.cleanup[unit] /\ unit \in Nat /\ unit <= Len(Units)
          /\ Unit.calls \in Seq(CallRecord)
      BY <1>1, <2>1, <2>3, UnitShape DEF InUnit, Units, Unit
    <3>2. ASSUME NEW i \in DOMAIN script.cleanup, NEW r, unit <= i, i < unit', Sweeps(script, i, r)
          PROVE  r \notin known'
      <4>1. i = unit
        BY <1>1, <2>1, <3>1, <3>2, ScriptShape
      <4>2. \A k \in DOMAIN Unit.calls : k < call
        <5> DEFINE cs == Unit.calls
        <5>1. cs \in Seq(CallRecord) /\ call > Len(cs) /\ call \in Nat
          BY <1>1, <2>1, <3>1 DEF TypeOK
        <5> HIDE DEF cs
        <5>2. \A k \in DOMAIN cs : k < call
          BY <5>1
        <5> QED
          BY <5>2 DEF cs
      <4>3. GotTo(i, r)
        BY <3>1, <3>2, <4>1, <4>2 DEF Sweeps, DeletedBy, GotTo
      <4> QED
        BY <1>3, <2>1, <2>3, <3>2, <4>3 DEF LetGo
    <3> QED
      BY <1>1, <1>3, <2>1, <2>3, <3>1, <3>2, OnwardSwept
  <2> QED
    BY <1>1, <2>1, <2>2, <2>3 DEF InUnit, TypeOK
<1>8. CASE Create \/ Delete \/ StartTermination \/ WaitUntilGone \/ Find \/ Answer \/ TakenForRefusal
  <2>1. /\ AtCall /\ UNCHANGED <<script, part, unit>> /\ call' = call + 1 /\ known' \subseteq known
        /\ part = "cleanup" /\ Now.do \in Deleting \cup {"terminate"} => Now.res \notin known'
    BY <1>8 DEF Create, Delete, StartTermination, WaitUntilGone, Find, Answer, TakenForRefusal, Proceed, Deleting
  <2> QED
    BY <1>1, <2>1, AnsweredSwept
<1>9. CASE JudgedFalse
  BY <1>5, <1>9 DEF JudgedFalse, AtCall
<1>10. CASE DeleteRefused \/ NotFound \/ CallFails \/ AnswerLost
  <2>1. InUnit /\ (UnitFails \/ \E e : UnitRaises(e))
    BY <1>10 DEF DeleteRefused, NotFound, CallFails, AnswerLost, AtCall, Throw
  <2> QED
    BY <1>5, <2>1
<1>11. CASE BodyEnds
  BY <1>4, <1>11 DEF BodyEnds, CleanupStart
<1>12. CASE CleanupEnds
  <2>1. part = "cleanup" /\ unit > Len(script.cleanup) /\ known' = known
    BY <1>12 DEF CleanupEnds
  <2>2. \A i \in DOMAIN script.cleanup : i < unit
    BY <1>1, <2>1, ScriptShape DEF TypeOK
  <2> QED
    BY <1>1, <2>1, <2>2 DEF LetGo, GotTo
<1>13. CASE Vanish \/ UNCHANGED vars
  <2>1. UNCHANGED <<script, part, unit, call, known>>
    BY <1>13 DEF Vanish, vars
  <2> QED
    BY <2>1 DEF LetGo, GotTo
<1> QED
  BY <1>6, <1>7, <1>8, <1>9, <1>10, <1>11, <1>12, <1>13 DEF Next, Step

(* A script that is tidy and diligent, which can be seen without executing *)
(* it, says success only over what its document names, what it is known to *)
(* leave, and the deletes whose failure it does not report, whatever       *)
(* requests fail and however many: every other id that main holds at the   *)
(* end of the body is deleted, or success is off.                          *)
THEOREM DiligentScriptsSweep == Spec => [](Tidy(name) /\ Diligent(name) => SuccessSweeps)
<1> DEFINE Inv == IInv /\ EarnedInv /\ Progress /\ TraceInv /\ KeptInv /\ SweptInv
<1>1. Init => Inv
  <2>1. Init => KeptInv /\ SweptInv
    BY DEF Init, KeptInv, AllIds, Arrivals, SweptInv, LetGo
  <2> QED
    BY <2>1, InitInv, InitEarned, InitTrace
<1>2. Inv /\ [Next]_vars => Inv'
  <2>1. IInv => TypeOK
    BY DEF IInv
  <2> QED
    BY <2>1, NextInv, NextEarned, NextProgress, NextTrace, NextKept, NextSwept
<1>3. Inv => (Tidy(name) /\ Diligent(name) => SuccessSweeps)
  <2> SUFFICES ASSUME Inv, Tidy(name), Diligent(name), part = "done", success, NEW x \in cloud, ~x.going,
                      <<name, x.res>> \notin LeftBehind, {x.res, x.on} \cap Unseen(script) = {}
               PROVE  HandedOver /\ Traced(x)
    BY DEF SuccessSweeps, Ended, Leftover
  <2>1. Traced(x) /\ script = Scripts[name] /\ ~raised /\ script.hands \in {"never", "success", "always"}
    BY ScriptAssumption
       DEF IInv, TypeOK, EarnedInv, TraceInv, Doomed, Accounted, JustMade, ScriptRecord
  <2>2. ASSUME script.hands = "never" PROVE FALSE
    <3>1. /\ script.sure /\ FindsNothing(script)
          /\ \A o \in Arrivals(script) :
                \/ {o[1], o[2]} \cap Unseen(script) # {} \/ <<name, o[1]>> \in LeftBehind
                \/ SweptIn(script, o[1]) /\ SweptIn(script, o[2])
      BY <2>1, <2>2 DEF Diligent
    <3>2. known \subseteq AllIds(script) /\ <<x.res, x.on>> \in Arrivals(script) /\ LetGo
      BY <3>1 DEF KeptInv, SweptInv, Doomed
    <3>3. SweptIn(script, x.res) /\ SweptIn(script, x.on)
      BY <3>1, <3>2
    <3>4. \A r \in known : ~SweptIn(script, r)
      BY <3>2 DEF SweptIn, LetGo, GotTo
    <3> QED
      BY <2>1, <3>3, <3>4 DEF Traced
  <2> QED
    BY <2>1, <2>2 DEF HandedOver
<1> QED
  BY <1>1, <1>2, <1>3, PTL DEF Spec

-----------------------------------------------------------------------------
(* Of a thorough script, unless success is out of reach: no call of a unit *)
(* that insists, and that is behind, left anything standing that it        *)
(* covers; main holds the ids that such units of the finally block ask     *)
(* for; and what was given and not touched yet stands, nothing that        *)
(* terminates could take it along.                                         *)
Cleared(c) == \A x \in cloud : Covers(c, x) => x.going
BodyBehind(i, k) == part # "body" \/ i < unit \/ (i = unit /\ k < call)
CleanupBehind(i, k) == part = "done" \/ (part = "cleanup" /\ (i < unit \/ (i = unit /\ k < call)))
BodySwept ==
    \A i \in DOMAIN script.body : InsistsBody(script, i) =>
        \A k \in DOMAIN script.body[i].calls : BodyBehind(i, k) => Cleared(script.body[i].calls[k])
CleanupSwept ==
    \A i \in DOMAIN script.cleanup : InsistsCleanup(script, i) =>
        \A k \in DOMAIN script.cleanup[i].calls : CleanupBehind(i, k) => Cleared(script.cleanup[i].calls[k])
GuardsHeld ==
    part = "cleanup" =>
        \A i \in DOMAIN script.cleanup :
            InsistsCleanup(script, i) /\ (i > unit \/ (i = unit /\ call = 1)) =>
                script.cleanup[i].guard \subseteq known
StillThere ==
    part = "body" =>
        \A x \in script.given : Untouched(script, x, unit, call) =>
            /\ x \in cloud
            /\ \A z \in cloud : z.going => z.res # x.res /\ z.res # x.on
FromGiven == \A x \in cloud : \E y \in script.given : x.res = y.res /\ x.in = y.in /\ x.on = y.on
Sweep == BodySwept /\ CleanupSwept /\ GuardsHeld /\ StillThere /\ FromGiven
SweepInv == Thorough(name) => Doomed \/ Sweep

(* The cloud only loses resources, or begins to.                           *)
Shrinks ==
    \A x \in cloud' : \E y \in cloud : /\ x.res = y.res /\ x.in = y.in /\ x.on = y.on
                                       /\ y.going => x.going

(* What a call covered stays covered, and what exists was given.           *)
LEMMA StaysCleared ==
    ASSUME Shrinks
    PROVE  /\ \A c : Cleared(c) => Cleared(c)'
           /\ FromGiven /\ script' = script => FromGiven'
<1>1. ASSUME NEW c, Cleared(c) PROVE Cleared(c)'
  <2> SUFFICES ASSUME NEW x \in cloud', Covers(c, x) PROVE x.going
    BY DEF Cleared
  <2>1. PICK y \in cloud : x.res = y.res /\ x.in = y.in /\ x.on = y.on /\ (y.going => x.going)
    BY DEF Shrinks
  <2>2. Covers(c, y)
    BY <2>1 DEF Covers
  <2> QED
    BY <1>1, <2>1, <2>2 DEF Cleared
<1>2. ASSUME FromGiven, script' = script PROVE FromGiven'
  BY <1>2 DEF FromGiven, Shrinks
<1> QED
  BY <1>1, <1>2

(* A call that is answered.                                                *)
LEMMA AnsweredSweep ==
    ASSUME TypeOK, AtCall, Sweep, UNCHANGED <<script, part, unit>>, call' = call + 1,
           Shrinks, \A c : c = Now => Cleared(c)',
           \A r \in known \ known' : Sheds(Unit, r),
           part = "body" =>
               \A x \in script.given : x \in cloud /\ ~Hits(Now, x)
                                       /\ (\A z \in cloud : z.going => z.res # x.res /\ z.res # x.on) =>
                   x \in cloud' /\ \A z \in cloud' : z.going => z.res # x.res /\ z.res # x.on
    PROVE  Sweep'
<1>1. /\ script' = script /\ call \in Nat \ {0} /\ unit \in Nat /\ part \in {"body", "cleanup"}
      /\ unit <= Len(Units) /\ unit \in DOMAIN Units /\ call \in DOMAIN Unit.calls
      /\ Now = Unit.calls[call] /\ part' = part /\ unit' = unit
      /\ DOMAIN script.body \subseteq Nat /\ DOMAIN script.cleanup \subseteq Nat
  BY UnitShape, CallShape, ScriptShape DEF AtCall, InUnit, TypeOK, Now
<1>2. DOMAIN Unit.calls \subseteq Nat
  <2> DEFINE cs == Unit.calls
  <2>1. cs \in Seq(CallRecord)
    BY <1>1, UnitShape
  <2> HIDE DEF cs
  <2>2. DOMAIN cs \subseteq Nat
    BY <2>1
  <2> QED
    BY <2>2 DEF cs
<1>3. BodySwept'
  <2> SUFFICES ASSUME NEW i \in DOMAIN script.body, InsistsBody(script, i),
                      NEW k \in DOMAIN script.body[i].calls, BodyBehind(i, k)'
               PROVE  Cleared(script.body[i].calls[k])'
    BY <1>1 DEF BodySwept
  <2>1. CASE BodyBehind(i, k)
    BY <2>1, StaysCleared DEF Sweep, BodySwept
  <2>2. CASE ~BodyBehind(i, k)
    <3>1. part = "body" /\ i = unit /\ ~(k < call) /\ k < call + 1
      BY <1>1, <2>2 DEF BodyBehind
    <3>2. Unit = script.body[i]
      BY <3>1 DEF Units, Unit
    <3>3. k = call
      BY <1>1, <1>2, <3>1, <3>2
    <3>4. \A c : c = script.body[i].calls[k] => Cleared(c)'
      BY <1>1, <3>2, <3>3
    <3> QED
      BY <1>1, <3>4
  <2> QED
    BY <2>1, <2>2
<1>4. CleanupSwept'
  <2> SUFFICES ASSUME NEW i \in DOMAIN script.cleanup, InsistsCleanup(script, i),
                      NEW k \in DOMAIN script.cleanup[i].calls, CleanupBehind(i, k)'
               PROVE  Cleared(script.cleanup[i].calls[k])'
    BY <1>1 DEF CleanupSwept
  <2>1. CASE CleanupBehind(i, k)
    BY <2>1, StaysCleared DEF Sweep, CleanupSwept
  <2>2. CASE ~CleanupBehind(i, k)
    <3>1. part = "cleanup" /\ i = unit /\ ~(k < call) /\ k < call + 1
      BY <1>1, <2>2 DEF CleanupBehind
    <3>2. Unit = script.cleanup[i]
      BY <3>1 DEF Units, Unit
    <3>3. k = call
      BY <1>1, <1>2, <3>1, <3>2
    <3>4. \A c : c = script.cleanup[i].calls[k] => Cleared(c)'
      BY <1>1, <3>2, <3>3
    <3> QED
      BY <1>1, <3>4
  <2> QED
    BY <2>1, <2>2
<1>5. GuardsHeld'
  <2> SUFFICES ASSUME part = "cleanup", NEW i \in DOMAIN script.cleanup, InsistsCleanup(script, i),
                      i > unit \/ (i = unit /\ call + 1 = 1)
               PROVE  script.cleanup[i].guard \subseteq known'
    BY <1>1 DEF GuardsHeld
  <2>1. i > unit /\ unit < i /\ unit \in DOMAIN script.cleanup /\ Unit = script.cleanup[unit]
    BY <1>1 DEF Units, Unit
  <2>2. script.cleanup[i].guard \subseteq known
    BY <2>1 DEF Sweep, GuardsHeld
  <2>3. \A r \in script.cleanup[i].guard : ~Sheds(Unit, r)
    BY <2>1 DEF InsistsCleanup
  <2> QED
    BY <2>2, <2>3
<1>6. StillThere'
  <2> SUFFICES ASSUME part = "body", NEW x \in script.given, Untouched(script, x, unit, call + 1)
               PROVE  x \in cloud' /\ \A z \in cloud' : z.going => z.res # x.res /\ z.res # x.on
    BY <1>1 DEF StillThere
  <2>1. unit \in DOMAIN script.body /\ Unit = script.body[unit]
    BY <1>1 DEF Units, Unit
  <2>2. ~Hits(Now, x)
    BY <1>1, <2>1 DEF Untouched
  <2>3. Untouched(script, x, unit, call)
    <3>1. \A l : l \in DOMAIN Unit.calls /\ l < call => l < call + 1
      BY <1>1, <1>2
    <3> QED
      BY <2>1, <3>1 DEF Untouched
  <2> QED
    BY <2>2, <2>3 DEF Sweep, StillThere
<1> QED
  BY <1>1, <1>3, <1>4, <1>5, <1>6, StaysCleared DEF Sweep

(* A unit that ends: it is complete, or does not insist; neither do the    *)
(* ones that are passed over with it.                                      *)
Lax(i) == IF part = "body" THEN ~InsistsBody(script, i) ELSE ~InsistsCleanup(script, i)
LEMMA UnitEndsSweep ==
    ASSUME TypeOK, Sweep, part # "done", unit <= Len(Units), UNCHANGED <<script, part, cloud>>,
           call' = 1, unit' \in Nat, unit' > unit, part = "body" => unit' = unit + 1,
           \A i \in DOMAIN Units : unit <= i /\ i < unit' =>
               Lax(i) \/ (i = unit /\ call > Len(Unit.calls)),
           \A r \in known \ known' : r \in Unit.forgets \cup Unit.loses
    PROVE  Sweep'
<1>1. /\ script' = script /\ call \in Nat \ {0} /\ unit \in Nat /\ part \in {"body", "cleanup"}
      /\ unit \in DOMAIN Units /\ part' = part /\ cloud' = cloud
      /\ DOMAIN script.body \subseteq Nat /\ DOMAIN script.cleanup \subseteq Nat
  BY UnitShape, ScriptShape DEF TypeOK
<1>2. ASSUME NEW i \in DOMAIN Units PROVE DOMAIN Units[i].calls \subseteq Nat \ {0}
                                          /\ \A k \in DOMAIN Units[i].calls : k <= Len(Units[i].calls)
  <2> DEFINE cs == Units[i].calls
  <2>1. cs \in Seq(CallRecord)
    <3>1. Units \in Seq(UnitRecord)
      BY ScriptShape DEF Units
    <3>2. Units[i] \in UnitRecord
      BY <3>1
    <3> QED
      BY <3>2 DEF UnitRecord
  <2> HIDE DEF cs
  <2>2. DOMAIN cs \subseteq Nat \ {0} /\ \A k \in DOMAIN cs : k <= Len(cs)
    BY <2>1
  <2> QED
    BY <2>2 DEF cs
<1>3. \A c : Cleared(c) => Cleared(c)'
  BY <1>1 DEF Cleared
<1>4. Len(Unit.calls) \in Nat
  <2> DEFINE cs == Unit.calls
  <2>1. cs \in Seq(CallRecord)
    BY UnitShape
  <2> HIDE DEF cs
  <2>2. Len(cs) \in Nat
    BY <2>1
  <2> QED
    BY <2>2 DEF cs
<1>5. ASSUME NEW i \in DOMAIN Units, NEW k \in DOMAIN Units[i].calls, ~Lax(i), i \in Nat,
             i < unit' \/ (i = unit' /\ k < call')
      PROVE  i < unit \/ (i = unit /\ k < call)
  <2>1. k \in Nat \ {0} /\ k <= Len(Units[i].calls)
    BY <1>2
  <2>2. i < unit'
    BY <1>5, <2>1
  <2>3. CASE i < unit
    BY <2>3
  <2>4. CASE ~(i < unit)
    <3>1. i = unit /\ call > Len(Unit.calls)
      BY <1>1, <1>5, <2>2, <2>4
    <3> QED
      BY <1>1, <1>4, <2>1, <3>1 DEF Unit
  <2> QED
    BY <2>3, <2>4
<1>6. BodySwept'
  <2> SUFFICES ASSUME NEW i \in DOMAIN script.body, InsistsBody(script, i),
                      NEW k \in DOMAIN script.body[i].calls, BodyBehind(i, k)'
               PROVE  Cleared(script.body[i].calls[k])'
    BY <1>1 DEF BodySwept
  <2>1. BodyBehind(i, k)
    <3>1. CASE part = "body"
      <4>1. Units = script.body /\ ~Lax(i) /\ i \in Nat
        BY <1>1, <3>1 DEF Units, Lax
      <4>2. i < unit' \/ (i = unit' /\ k < call')
        BY <1>1, <3>1 DEF BodyBehind
      <4> QED
        BY <1>5, <4>1, <4>2 DEF BodyBehind
    <3>2. CASE part # "body"
      BY <3>2 DEF BodyBehind
    <3> QED
      BY <3>1, <3>2
  <2> QED
    BY <1>3, <2>1 DEF Sweep, BodySwept
<1>7. CleanupSwept'
  <2> SUFFICES ASSUME NEW i \in DOMAIN script.cleanup, InsistsCleanup(script, i),
                      NEW k \in DOMAIN script.cleanup[i].calls, CleanupBehind(i, k)'
               PROVE  Cleared(script.cleanup[i].calls[k])'
    BY <1>1 DEF CleanupSwept
  <2>1. part = "cleanup" /\ (i < unit' \/ (i = unit' /\ k < call'))
    BY <1>1 DEF CleanupBehind
  <2>2. Units = script.cleanup /\ ~Lax(i) /\ i \in Nat
    BY <1>1, <2>1 DEF Units, Lax
  <2>3. CleanupBehind(i, k)
    BY <1>5, <2>1, <2>2 DEF CleanupBehind
  <2> QED
    BY <1>3, <2>3 DEF Sweep, CleanupSwept
<1>8. GuardsHeld'
  <2> SUFFICES ASSUME part = "cleanup", NEW i \in DOMAIN script.cleanup, InsistsCleanup(script, i),
                      i > unit' \/ i = unit'
               PROVE  script.cleanup[i].guard \subseteq known'
    BY <1>1 DEF GuardsHeld
  <2>1. i > unit /\ unit < i /\ unit \in DOMAIN script.cleanup /\ Unit = script.cleanup[unit]
    BY <1>1 DEF Units, Unit
  <2>2. script.cleanup[i].guard \subseteq known
    BY <2>1 DEF Sweep, GuardsHeld
  <2>3. \A r \in script.cleanup[i].guard : ~Sheds(Unit, r)
    BY <2>1 DEF InsistsCleanup
  <2> QED
    BY <2>2, <2>3 DEF Sheds
<1>9. StillThere'
  <2> SUFFICES ASSUME part = "body", NEW x \in script.given, Untouched(script, x, unit + 1, 1)
               PROVE  x \in cloud /\ \A z \in cloud : z.going => z.res # x.res /\ z.res # x.on
    BY <1>1 DEF StillThere
  <2>1. \A j \in DOMAIN script.body : j < unit \/ j = unit => j < unit + 1
    BY <1>1
  <2>2. Untouched(script, x, unit, call)
    BY <2>1 DEF Untouched
  <2> QED
    BY <2>2 DEF Sweep, StillThere
<1> QED
  BY <1>1, <1>6, <1>7, <1>8, <1>9 DEF Sweep, FromGiven

(* What Thorough says of the unit under way.                               *)
LEMMA ThoroughUnit ==
    ASSUME TypeOK, Thorough(name), part # "done", unit <= Len(Units)
    PROVE  /\ Makes(Unit) = {}
           /\ part = "body" /\ Unit.fail = "succeed" => NeverSettles(script, unit)
<1>1. unit \in DOMAIN Units /\ script = Scripts[name] /\ part \in {"body", "cleanup"}
  BY UnitShape DEF TypeOK
<1>2. CASE part = "body"
  BY <1>1, <1>2 DEF Thorough, Units, Unit
<1>3. CASE part = "cleanup"
  BY <1>1, <1>3 DEF Thorough, Units, Unit
<1> QED
  BY <1>1, <1>2, <1>3

(* Why a unit fails: a condition, an error of the request, a delete that   *)
(* was refused, or something that does not exist.                          *)
Reason(e) ==
    \/ e \in Now.errs
    \/ e = "client" /\ Now.do \in Deleting
    \/ e = "coded" /\ Now.do \in {"drop", "look"} /\ ~Exists(Now.res)

(* A unit of a thorough script that would end the body with success does   *)
(* not fail.                                                               *)
LEMMA SettlesNever ==
    ASSUME TypeOK, Thorough(name), StillThere, AtCall, part = "body",
           \/ Now.do \in {"judge", "deny", "absent"}
           \/ \E e \in Unit.catch : Reason(e)
    PROVE  Unit.fail # "succeed"
<1> SUFFICES ASSUME Unit.fail = "succeed" PROVE FALSE
  OBVIOUS
<1>1. /\ call \in DOMAIN Unit.calls /\ Now = Unit.calls[call] /\ unit <= Len(Units) /\ unit \in DOMAIN Units
      /\ Unit = script.body[unit]
  BY CallShape, UnitShape DEF Now, AtCall, InUnit, Units, Unit
<1>2. NeverSettles(script, unit)
  BY <1>1, ThoroughUnit
<1>3. /\ Now.do \notin {"judge", "deny", "absent"} /\ Now.errs \cap Unit.catch = {}
      /\ "client" \in Unit.catch => Now.do \notin Deleting
      /\ Now.do \in {"drop", "look"} /\ "coded" \in Unit.catch =>
            \E x \in script.given : x.res = Now.res /\ Untouched(script, x, unit, call)
  BY <1>1, <1>2 DEF NeverSettles
<1>4. PICK e \in Unit.catch : Reason(e)
  BY <1>3
<1>5. Now.do \in {"drop", "look"} /\ "coded" \in Unit.catch /\ ~Exists(Now.res)
  BY <1>3, <1>4 DEF Reason
<1>6. PICK x \in script.given : x.res = Now.res /\ Untouched(script, x, unit, call)
  BY <1>3, <1>5
<1> QED
  BY <1>5, <1>6 DEF StillThere, Exists

(* A unit that fails.                                                      *)
LEMMA FailsSweep ==
    ASSUME TypeOK, EarnedInv, Thorough(name), Sweep, AtCall, UNCHANGED <<name, script, cloud>>, UnitFails,
           \/ Now.do \in {"judge", "deny", "absent"}
           \/ \E e \in Unit.catch : Reason(e)
    PROVE  Doomed' \/ Sweep'
<1>1. /\ part \in {"body", "cleanup"} /\ part # "done" /\ unit <= Len(Units) /\ unit \in DOMAIN Units
      /\ unit \in Nat /\ Unit.fail \in {"go", "return", "raise", "succeed"}
      /\ DOMAIN Units \subseteq Nat
  BY UnitShape, ScriptShape DEF AtCall, InUnit, TypeOK, Units
<1>2. \A r \in known \ known' : r \in Unit.forgets \cup Unit.loses
  BY DEF UnitFails
<1>3. ASSUME Lax(unit), part' = part, NextUnit PROVE Sweep'
  BY <1>1, <1>2, <1>3, UnitEndsSweep DEF NextUnit
<1>4. CASE part = "body"
  <2>1. ~success /\ Unit.fail # "succeed"
    BY <1>4, SettlesNever DEF EarnedInv, Sweep
  <2>2. CASE Unit.fail = "return"
    BY <1>4, <2>1, <2>2 DEF UnitFails, EnterCleanup, Doomed
  <2>3. CASE Unit.fail = "raise"
    BY <1>4, <2>1, <2>3 DEF UnitFails, LeaveBody, EnterCleanup, Abandon, Doomed
  <2>4. CASE Unit.fail = "go"
    <3>1. part' = part /\ NextUnit
      BY <1>4, <2>4 DEF UnitFails
    <3>2. Lax(unit)
      BY <1>4, <2>4 DEF Lax, InsistsBody, Units, Unit
    <3> QED
      BY <1>3, <3>1, <3>2
  <2> QED
    BY <1>1, <2>1, <2>2, <2>3, <2>4
<1>5. CASE part = "cleanup"
  <2>1. part' = part /\ NextUnit /\ trouble' = (trouble \/ Unit.notes)
    BY <1>5 DEF UnitFails
  <2>2. CASE Unit.notes
    BY <1>5, <2>1, <2>2 DEF Doomed
  <2>3. CASE ~Unit.notes
    <3>1. Lax(unit)
      BY <1>5, <2>3 DEF Lax, InsistsCleanup, Units, Unit
    <3> QED
      BY <1>3, <2>1, <3>1
  <2> QED
    BY <2>2, <2>3
<1> QED
  BY <1>1, <1>4, <1>5

(* An exception out of a unit.                                             *)
LEMMA ThrowsSweep ==
    ASSUME TypeOK, EarnedInv, Thorough(name), Sweep, AtCall, UNCHANGED <<name, script, cloud>>,
           NEW e, Throw(e), Reason(e)
    PROVE  Doomed' \/ Sweep'
<1>1. /\ part \in {"body", "cleanup"} /\ part # "done" /\ unit <= Len(Units) /\ Unit.inner \in BOOLEAN
      /\ unit \in Nat /\ Len(Units) \in Nat /\ DOMAIN Units \subseteq Nat
  BY UnitShape, ScriptShape DEF AtCall, InUnit, TypeOK, Units
<1>2. CASE e \in Unit.catch
  BY <1>2, FailsSweep DEF Throw
<1>3. CASE e \notin Unit.catch
  <2>1. UnitRaises(e) /\ known \subseteq known'
    BY <1>3 DEF Throw, UnitRaises
  <2>2. CASE part = "body"
    BY <2>1, <2>2 DEF UnitRaises, LeaveBody, EnterCleanup, Abandon, EarnedInv, Doomed
  <2>3. CASE part = "cleanup"
    <3>1. CASE Abandon
      BY <3>1 DEF Abandon, Doomed
    <3>2. CASE LeaveInner
      <4>1. unit' \in unit + 1 .. Len(Units) + 1 /\ \A k \in unit .. (unit' - 1) : Units[k].inner
        BY <3>2 DEF LeaveInner
      <4>2. unit' \in Nat /\ unit' > unit /\ call' = 1 /\ part' = part
        BY <1>1, <3>2, <4>1 DEF LeaveInner
      <4>3. \A i \in DOMAIN Units : unit <= i /\ i < unit' => Lax(i)
        <5> SUFFICES ASSUME NEW i \in DOMAIN Units, unit <= i, i < unit' PROVE Lax(i)
          OBVIOUS
        <5>1. i \in unit .. (unit' - 1)
          BY <1>1, <4>2
        <5>2. Units[i].inner
          BY <4>1, <5>1
        <5> QED
          BY <2>3, <5>2 DEF Lax, InsistsCleanup, Units
      <4> QED
        BY <1>1, <2>1, <2>3, <4>2, <4>3, UnitEndsSweep
    <3> QED
      BY <1>1, <2>1, <2>3, <3>1, <3>2 DEF UnitRaises
  <2> QED
    BY <1>1, <2>2, <2>3
<1> QED
  BY <1>2, <1>3

(* Every step of a thorough script keeps what was swept.                   *)
LEMMA NextSweep == IInv /\ EarnedInv /\ Progress /\ SweepInv /\ [Next]_vars => SweepInv'
<1> SUFFICES ASSUME IInv, EarnedInv, Progress, SweepInv, [Next]_vars PROVE SweepInv'
  OBVIOUS
<1>0. TypeOK
  BY DEF IInv
<1>1. name' = name
  BY DEF Next, Step, SkipUnit, Create, Delete, DeleteRefused, NotFound, StartTermination, WaitUntilGone,
         Find, Answer, JudgedFalse, CallFails, TakenForRefusal, AnswerLost, UnitPasses, BodyEnds,
         CleanupEnds, Vanish, vars, Proceed
<1>2. CASE ~Thorough(name)
  BY <1>1, <1>2 DEF SweepInv
<1>3. CASE Doomed
  BY <1>0, <1>3, StaysDoomed DEF SweepInv
<1>4. ASSUME Thorough(name), Sweep PROVE Doomed' \/ Sweep'
  <2>1. AtCall => Now.do # "make"
    <3> SUFFICES ASSUME AtCall PROVE Now.do # "make"
      OBVIOUS
    <3>1. call \in DOMAIN Unit.calls /\ Now = Unit.calls[call] /\ part # "done" /\ unit <= Len(Units)
      BY <1>0, CallShape DEF Now, AtCall, InUnit
    <3> QED
      BY <1>0, <1>4, <3>1, ThoroughUnit DEF Makes
  <2>2. CASE Create \/ AnswerLost
    BY <2>1, <2>2 DEF Create, AnswerLost
  <2>3. CASE Delete
    <3>1. /\ AtCall /\ UNCHANGED <<script, part, unit>> /\ call' = call + 1 /\ Now.do \in Deleting
          /\ cloud' = Without(Now.res) /\ ~InUse(Now.res)
          /\ known' = IF part = "cleanup" THEN known \ {Now.res} ELSE known
      BY <2>3 DEF Delete, Proceed, Deleting
    <3>2. Shrinks
      BY <3>1 DEF Shrinks, Without
    <3>3. \A c : c = Now => Cleared(c)'
      BY <3>1 DEF Cleared, Covers, Without, InUse, Deleting
    <3>4. \A r \in known \ known' : Sheds(Unit, r)
      BY <1>0, <3>1, CallShape DEF Sheds, Now
    <3>5. \A x \in script.given : x \in cloud /\ ~Hits(Now, x) => x \in cloud'
      BY <3>1 DEF Hits, Without
    <3>6. cloud' \subseteq cloud
      BY <3>1 DEF Without
    <3> QED
      BY <1>0, <1>4, <3>1, <3>2, <3>3, <3>4, <3>5, <3>6, AnsweredSweep
  <2>4. CASE StartTermination
    <3>1. /\ AtCall /\ UNCHANGED <<script, part, unit>> /\ call' = call + 1 /\ Now.do = "terminate"
          /\ cloud' = {IF x.res = Now.res THEN [x EXCEPT !.going = TRUE] ELSE x : x \in cloud}
          /\ known' = IF part = "cleanup" THEN known \ {Now.res} ELSE known
      BY <2>4 DEF StartTermination, Proceed
    <3>2. ASSUME NEW z \in cloud'
          PROVE  \E y \in cloud : /\ z.res = y.res /\ z.in = y.in /\ z.on = y.on
                                  /\ y.going => z.going
                                  /\ z.res = Now.res => z.going
                                  /\ z.res # Now.res => z = y
      <4>1. PICK y \in cloud : z = IF y.res = Now.res THEN [y EXCEPT !.going = TRUE] ELSE y
        BY <3>1, <3>2
      <4>2. y \in Resource
        BY <1>0 DEF TypeOK
      <4>3. CASE y.res = Now.res
        <5>1. z = [y EXCEPT !.going = TRUE]
          BY <4>1, <4>3
        <5>2. z.res = y.res /\ z.in = y.in /\ z.on = y.on /\ z.going
          BY <4>2, <5>1 DEF Resource
        <5> QED
          BY <4>3, <5>2
      <4>4. CASE y.res # Now.res
        BY <4>1, <4>4
      <4> QED
        BY <4>3, <4>4
    <3>3. Shrinks
      BY <3>2 DEF Shrinks
    <3>4. \A c : c = Now => Cleared(c)'
      BY <3>1, <3>2 DEF Cleared, Covers, Deleting
    <3>5. \A r \in known \ known' : Sheds(Unit, r)
      BY <1>0, <3>1, CallShape DEF Sheds, Now
    <3>6. ASSUME NEW x \in script.given, x \in cloud, ~Hits(Now, x),
                 \A z \in cloud : z.going => z.res # x.res /\ z.res # x.on
          PROVE  x \in cloud' /\ \A z \in cloud' : z.going => z.res # x.res /\ z.res # x.on
      <4>1. Now.res # x.res /\ Now.res # x.on
        BY <3>1, <3>6 DEF Hits
      <4>2. x \in cloud'
        BY <3>1, <3>6, <4>1
      <4>3. \A z \in cloud' : z.going => z.res # x.res /\ z.res # x.on
        BY <3>2, <3>6, <4>1
      <4> QED
        BY <4>2, <4>3
    <3> QED
      BY <1>0, <1>4, <3>1, <3>3, <3>4, <3>5, <3>6, AnsweredSweep
  <2>5. CASE WaitUntilGone \/ Find \/ Answer \/ TakenForRefusal
    <3>1. /\ AtCall /\ UNCHANGED <<script, part, unit, cloud, known>> /\ call' = call + 1
          /\ Now.do \in {"gone", "look", "absent", "ask", "judge", "deny"}
          /\ Now.do = "gone" => ~Exists(Now.res)
      BY <2>5 DEF WaitUntilGone, Find, Answer, TakenForRefusal, Proceed
    <3>2. Shrinks
      BY <3>1 DEF Shrinks
    <3>3. \A c : c = Now => Cleared(c)'
      BY <3>1 DEF Cleared, Covers, Deleting, Exists
    <3> QED
      BY <1>0, <1>4, <3>1, <3>2, <3>3, AnsweredSweep
  <2>6. CASE SkipUnit
    <3>1. /\ part # "done" /\ unit <= Len(Units) /\ call = 1 /\ (~Wanted \/ Blocked)
          /\ trouble' = (trouble \/ (Unit.notes /\ Wanted)) /\ NextUnit
          /\ UNCHANGED <<script, part, cloud, known>>
      BY <2>6 DEF SkipUnit
    <3>2. unit \in DOMAIN Units /\ unit \in Nat /\ part \in {"body", "cleanup"} /\ DOMAIN Units \subseteq Nat
      BY <1>0, <3>1, UnitShape, ScriptShape DEF TypeOK, Units
    <3>3. ASSUME Lax(unit) PROVE Sweep'
      BY <1>0, <1>4, <3>1, <3>2, <3>3, UnitEndsSweep DEF NextUnit
    <3>4. ASSUME part = "body", ~Lax(unit) PROVE FALSE
      <4>1. InsistsBody(script, unit) /\ Unit = script.body[unit]
        BY <3>4 DEF Lax, Units, Unit
      <4>2. Unit.needs = {} /\ Unit.after = {} /\ Unit.guard \subseteq known
        BY <3>4, <4>1 DEF InsistsBody, Progress, NamesHeld
      <4> QED
        BY <3>1, <4>2 DEF Wanted, Blocked
    <3>5. ASSUME part = "cleanup", ~Lax(unit) PROVE Doomed'
      <4>1. InsistsCleanup(script, unit) /\ Unit = script.cleanup[unit] /\ unit \in DOMAIN script.cleanup
        BY <3>2, <3>5 DEF Lax, Units, Unit
      <4>2. Unit.needs = {} /\ Unit.notes /\ Unit.guard \subseteq known
        BY <1>4, <3>1, <3>5, <4>1 DEF InsistsCleanup, Sweep, GuardsHeld
      <4>3. Wanted
        BY <4>2 DEF Wanted
      <4> QED
        BY <3>1, <3>5, <4>2, <4>3 DEF Doomed
    <3> QED
      BY <3>2, <3>3, <3>4, <3>5
  <2>7. CASE JudgedFalse
    <3>1. /\ AtCall /\ UnitFails /\ UNCHANGED <<name, script, cloud>>
          /\ Now.do \in {"judge", "deny", "absent"}
      BY <2>7 DEF JudgedFalse
    <3> QED
      BY <1>0, <1>4, <3>1, FailsSweep
  <2>8. CASE DeleteRefused \/ NotFound \/ CallFails
    <3>1. AtCall /\ UNCHANGED <<name, script, cloud>>
      BY <2>8 DEF DeleteRefused, NotFound, CallFails
    <3>2. PICK e : Throw(e) /\ Reason(e)
      BY <2>8 DEF DeleteRefused, NotFound, CallFails, Reason, Deleting
    <3> QED
      BY <1>0, <1>4, <3>1, <3>2, ThrowsSweep
  <2>9. CASE UnitPasses
    <3>1. /\ part # "done" /\ unit <= Len(Units) /\ call > Len(Unit.calls) /\ NextUnit
          /\ UNCHANGED <<script, part, cloud>> /\ known' = (known \cup fresh) \ Unit.forgets
      BY <2>9 DEF UnitPasses, InUnit
    <3>2. unit \in DOMAIN Units /\ unit \in Nat /\ DOMAIN Units \subseteq Nat
      BY <1>0, <3>1, UnitShape, ScriptShape DEF Units
    <3>3. \A i \in DOMAIN Units : unit <= i /\ i < unit + 1 => i = unit
      BY <3>2
    <3> QED
      BY <1>0, <1>4, <3>1, <3>2, <3>3, UnitEndsSweep DEF NextUnit
  <2>10. CASE BodyEnds
    <3>1. /\ part = "body" /\ unit > Len(script.body) /\ part' = "cleanup" /\ unit' = CleanupStart /\ call' = 1
          /\ UNCHANGED <<script, cloud, known>>
      BY <2>10 DEF BodyEnds
    <3>2. \A c : Cleared(c) => Cleared(c)'
      BY <3>1 DEF Cleared
    <3>3. BodySwept'
      <4>1. \A i \in DOMAIN script.body : i < unit
        BY <1>0, <3>1, ScriptShape DEF TypeOK
      <4>2. \A i \in DOMAIN script.body : \A k : BodyBehind(i, k)
        BY <4>1 DEF BodyBehind
      <4> QED
        BY <1>4, <3>1, <3>2, <4>2 DEF Sweep, BodySwept
    <3>4. CleanupSwept'
      <4> SUFFICES ASSUME NEW i \in DOMAIN script.cleanup, InsistsCleanup(script, i),
                          NEW k \in DOMAIN script.cleanup[i].calls, CleanupBehind(i, k)'
                   PROVE  FALSE
        BY <3>1 DEF CleanupSwept
      <4>1. unit' = 1
        BY <3>1 DEF CleanupStart, InsistsCleanup
      <4>2. i \in Nat \ {0} /\ script.cleanup[i] \in UnitRecord
        BY <1>0, ScriptShape
      <4>3. k \in Nat \ {0}
        <5> DEFINE cs == script.cleanup[i].calls
        <5>1. cs \in Seq(CallRecord) /\ k \in DOMAIN cs
          BY <4>2 DEF UnitRecord
        <5> HIDE DEF cs
        <5> QED
          BY <5>1
      <4> QED
        BY <3>1, <4>1, <4>2, <4>3 DEF CleanupBehind
    <3>5. GuardsHeld'
      BY <3>1 DEF GuardsHeld, InsistsCleanup, Progress, NamesHeld
    <3>6. StillThere' /\ FromGiven'
      BY <1>4, <3>1 DEF StillThere, FromGiven, Sweep
    <3> QED
      BY <3>3, <3>4, <3>5, <3>6 DEF Sweep
  <2>11. CASE CleanupEnds
    <3>1. /\ part = "cleanup" /\ unit > Len(script.cleanup) /\ part' = "done" /\ UNCHANGED <<script, cloud, known>>
      BY <2>11 DEF CleanupEnds
    <3>2. \A c : Cleared(c) => Cleared(c)'
      BY <3>1 DEF Cleared
    <3>3. \A i \in DOMAIN script.cleanup : i < unit
      BY <1>0, <3>1, ScriptShape DEF TypeOK
    <3>4. \A i \in DOMAIN script.cleanup : \A k : CleanupBehind(i, k)
      BY <3>1, <3>3 DEF CleanupBehind
    <3>5. CleanupSwept'
      BY <1>4, <3>1, <3>2, <3>4 DEF Sweep, CleanupSwept
    <3>6. BodySwept'
      BY <1>4, <3>1, <3>2 DEF Sweep, BodySwept, BodyBehind
    <3>7. GuardsHeld' /\ StillThere' /\ FromGiven'
      BY <1>4, <3>1 DEF GuardsHeld, StillThere, FromGiven, Sweep
    <3> QED
      BY <3>5, <3>6, <3>7 DEF Sweep
  <2>12. CASE Vanish \/ UNCHANGED vars
    <3>1. UNCHANGED <<script, part, unit, call, known>> /\ cloud' \subseteq cloud
      BY <2>12 DEF Vanish, vars, Without
    <3>2. Shrinks
      BY <3>1 DEF Shrinks
    <3>3. BodySwept' /\ CleanupSwept'
      BY <1>4, <3>1, <3>2, StaysCleared DEF Sweep, BodySwept, CleanupSwept, BodyBehind, CleanupBehind
    <3>4. GuardsHeld' /\ FromGiven'
      BY <1>4, <3>1 DEF GuardsHeld, FromGiven, Sweep
    <3>5. StillThere'
      <4> SUFFICES ASSUME part = "body", NEW x \in script.given, Untouched(script, x, unit, call)
                   PROVE  x \in cloud' /\ \A z \in cloud' : z.going => z.res # x.res /\ z.res # x.on
        BY <3>1 DEF StillThere
      <4>1. x \in cloud /\ \A z \in cloud : z.going => z.res # x.res /\ z.res # x.on
        BY <1>4 DEF Sweep, StillThere
      <4>2. x \in cloud'
        BY <2>12, <4>1 DEF Vanish, vars, Without
      <4> QED
        BY <3>1, <4>1, <4>2
    <3> QED
      BY <3>3, <3>4, <3>5 DEF Sweep
  <2> QED
    BY <2>2, <2>3, <2>4, <2>5, <2>6, <2>7, <2>8, <2>9, <2>10, <2>11, <2>12 DEF Next, Step
<1> QED
  BY <1>1, <1>2, <1>3, <1>4 DEF SweepInv

(* A thorough script starts with nothing swept and all that was given.     *)
LEMMA InitSweep == Init => SweepInv
<1> SUFFICES ASSUME Init, Thorough(name) PROVE Sweep
  BY DEF SweepInv
<1>1. /\ TypeOK /\ script = Scripts[name] /\ cloud = script.given /\ part = "body" /\ unit = 1 /\ call = 1
  BY InitInv DEF Init, IInv
<1>2. BodySwept
  <2> SUFFICES ASSUME NEW i \in DOMAIN script.body, NEW k \in DOMAIN script.body[i].calls, BodyBehind(i, k)
               PROVE  FALSE
    BY DEF BodySwept
  <2>1. i \in Nat \ {0} /\ script.body[i] \in UnitRecord
    BY <1>1, ScriptShape
  <2>2. k \in Nat \ {0}
    <3> DEFINE cs == script.body[i].calls
    <3>1. cs \in Seq(CallRecord) /\ k \in DOMAIN cs
      BY <2>1 DEF UnitRecord
    <3> HIDE DEF cs
    <3> QED
      BY <3>1
  <2> QED
    BY <1>1, <2>1, <2>2 DEF BodyBehind
<1>3. CleanupSwept /\ GuardsHeld
  BY <1>1 DEF CleanupSwept, CleanupBehind, GuardsHeld
<1>4. StillThere /\ FromGiven
  BY <1>1 DEF StillThere, FromGiven, Thorough
<1> QED
  BY <1>2, <1>3, <1>4 DEF Sweep

(* A teardown says success only when everything it was given is deleted or *)
(* terminating, but for what it may tolerate, whichever of its requests    *)
(* fail: each of these scripts insists on the delete of all the rest.      *)
THEOREM TeardownsEndClean == Spec => []TeardownSuccessMeansGone
<1> DEFINE Inv == IInv /\ EarnedInv /\ Progress /\ SweepInv
<1>1. Init => Inv
  BY InitInv, InitEarned, InitTrace, InitSweep
<1>2. Inv /\ [Next]_vars => Inv'
  <2>1. IInv => TypeOK
    BY DEF IInv
  <2> QED
    BY <2>1, NextInv, NextEarned, NextProgress, NextSweep
<1>3. Inv => TeardownSuccessMeansGone
  <2> SUFFICES ASSUME Inv, part = "done", success, name \in Teardowns, NEW x \in cloud, ~x.going
               PROVE  <<name, x.res>> \in Tolerated
    BY DEF TeardownSuccessMeansGone, Ended, Leftover
  <2>1. Thorough(name) /\ script = Scripts[name]
    BY TeardownAssumption DEF IInv, TypeOK
  <2>2. Sweep
    BY <2>1 DEF SweepInv, Doomed
  <2>3. PICK y \in script.given : x.res = y.res /\ x.in = y.in /\ x.on = y.on
    BY <2>2 DEF Sweep, FromGiven
  <2>4. ASSUME Removes(script, y) PROVE FALSE
    <3>1. PICK c : Cleared(c) /\ Covers(c, y)
      BY <2>2, <2>4 DEF Removes, Sweep, BodySwept, CleanupSwept, BodyBehind, CleanupBehind
    <3>2. Covers(c, x)
      BY <2>3, <3>1 DEF Covers
    <3> QED
      BY <3>1, <3>2 DEF Cleared
  <2> QED
    BY <2>1, <2>3, <2>4 DEF Thorough
<1> QED
  BY <1>1, <1>2, <1>3, PTL DEF Spec
=============================================================================
