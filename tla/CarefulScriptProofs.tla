------------------------ MODULE CarefulScriptProofs ------------------------
(***************************************************************************)
(* A careful script whose requests are all granted leaves nothing behind   *)
(* but what it hands on.                                                   *)
(***************************************************************************)
EXTENDS CarefulScripts, ProviderScriptProofs

(* Where the execution is, and what lies behind it.                        *)
Here    == At(part, unit, call)
Past(p) == part = "done" \/ Prior(p, Here)
Unhit(y) == \A q \in Places(script) : Past(q) => ~Hits(CallAt(script, q), y)
(* The unit under way has made x, or is about to make y next.              *)
Making(x)  == part = "body" /\ \E q \in MakesOf(script, Made(x)) : q.unit = unit /\ q.call < call
Pending(y) == part = "body" /\ call > 1 /\ Here \in MakesOf(script, y)
(* The finally block has let go of the id g.                               *)
Shed(g) ==
    /\ part # "body"
    /\ \E i \in DOMAIN script.cleanup :
          Sheds(script.cleanup[i], g) /\ (part = "done" \/ i < unit \/ (i = unit /\ call > 1))

(* What exists was given or made; what terminates was told to.             *)
Origins ==
    \A x \in cloud :
        /\ Made(x) \in script.given \/ \E q \in MakesOf(script, Made(x)) : Past(q)
        /\ x.going => \E q \in Places(script) : /\ Past(q) /\ CallAt(script, q).do = "terminate"
                                                /\ CallAt(script, q).res = x.res
(* What main holds: the condition of the unit under way, the ids of units  *)
(* it does not get past without, those tied to something that exists; and  *)
(* not the ids that the finally block has released.                        *)
GuardHeld == part = "body" /\ call > 1 => unit <= Len(Units) /\ Unit.guard \subseteq known
FoundIsFresh ==
    part # "done" /\ unit <= Len(Units) =>
        \A k \in DOMAIN Unit.calls \cap Behind : Unit.calls[k].do \in {"make", "look"} => Unit.calls[k].res \in fresh
MandatoryHeld ==
    part = "body" =>
        \A j \in DOMAIN script.body : j < unit /\ Mandatory(script.body[j]) =>
            \A g \in Ids(script.body[j]) : NeverLost(script, g) => g \in known
TiesHold == \A x \in cloud : \A g : Tied(script, Made(x), g) => g \in known \/ Making(x) \/ Shed(g)
NothingFound == part = "cleanup" => fresh = {}
ReleasedIsGone ==
    part = "cleanup" /\ script.sure =>
        \A i \in DOMAIN script.cleanup : \A k \in DOMAIN script.cleanup[i].calls : \A a :
            Releases(script, a, i, k) /\ Past(At("cleanup", i, k)) => a \notin known
(* A call that was reached has taken along what it clears or ends.         *)
SweepDone ==
    \A x \in cloud : \A p \in Places(script) : Past(p) /\ Reached(script, Made(x), p) =>
        ~Clears(CallAt(script, p), x) /\ (Ends(CallAt(script, p), x) => x.going)
(* What is not touched stands, alone and in company.                       *)
StillStands == \A y \in Possible(script) : Unhit(y) /\ (y \in script.given \/ Making(y)) => y \in cloud
Together ==
    \A x \in cloud : \A y \in Possible(script) :
        Unhit(y) /\ Companions(script, Made(x), y) => y \in cloud \/ Pending(y)
(* The document that hands things on.                                      *)
NothingRaised == NeverRaises(script) => ~raised
Untroubled == script.cleanup = <<>> /\ (\A i \in DOMAIN script.body : ~script.body[i].notes) => ~trouble
SuccessSaid ==
    part # "body" /\ NeverRaises(script) =>
        \A x \in cloud : AlwaysSucceeds(script, Made(x)) => success

CareParts ==
    /\ Origins /\ GuardHeld /\ FoundIsFresh /\ MandatoryHeld /\ TiesHold /\ NothingFound
    /\ ReleasedIsGone /\ SweepDone /\ StillStands /\ Together /\ NothingRaised /\ Untroubled /\ SuccessSaid
CareInv == faults = 0 /\ Careful(name) => CareParts

-----------------------------------------------------------------------------
(* Places.  A place lies in the script, and what lies in it is a place.    *)
LEMMA UnitsShape ==
    ASSUME TypeOK, NEW w, NEW i \in DOMAIN UnitsOf(script, w)
    PROVE  /\ i \in Nat \ {0} /\ i <= Len(UnitsOf(script, w)) /\ Len(UnitsOf(script, w)) \in Nat
           /\ UnitsOf(script, w)[i] \in UnitRecord
           /\ UnitsOf(script, w)[i].calls \in Seq(CallRecord)
<1>1. UnitsOf(script, w) \in Seq(UnitRecord)
  BY ScriptShape DEF UnitsOf
<1>2. /\ i \in Nat \ {0} /\ i <= Len(UnitsOf(script, w)) /\ Len(UnitsOf(script, w)) \in Nat
      /\ UnitsOf(script, w)[i] \in UnitRecord
  <2> DEFINE us == UnitsOf(script, w)
  <2>1. us \in Seq(UnitRecord) /\ i \in DOMAIN us
    BY <1>1
  <2> HIDE DEF us
  <2>2. i \in Nat \ {0} /\ i <= Len(us) /\ Len(us) \in Nat /\ us[i] \in UnitRecord
    BY <2>1
  <2> QED
    BY <2>2 DEF us
<1>3. \A u \in UnitRecord : u.calls \in Seq(CallRecord)
  BY DEF UnitRecord
<1> QED
  BY <1>2, <1>3

(* Indices of calls are numbers.                                           *)
LEMMA CallsShape ==
    ASSUME NEW cs \in Seq(CallRecord)
    PROVE  /\ Len(cs) \in Nat /\ DOMAIN cs \subseteq Nat \ {0}
           /\ \A k \in DOMAIN cs : k <= Len(cs) /\ cs[k] \in CallRecord
           /\ \A k \in Nat \ {0} : k <= Len(cs) => k \in DOMAIN cs
OBVIOUS

(* What an index of a unit and one of its calls make up.                   *)
LEMMA PlaceAt ==
    ASSUME NEW s, NEW w \in {"body", "cleanup"}, NEW i \in DOMAIN UnitsOf(s, w),
           NEW k \in DOMAIN UnitsOf(s, w)[i].calls
    PROVE  /\ At(w, i, k) \in PlacesIn(s, w) /\ At(w, i, k) \in Places(s)
           /\ UnitAt(s, At(w, i, k)) = UnitsOf(s, w)[i]
           /\ CallAt(s, At(w, i, k)) = UnitsOf(s, w)[i].calls[k]
<1>1. At(w, i, k) \in PlacesIn(s, w)
  BY DEF PlacesIn
<1>2. At(w, i, k).part = w /\ At(w, i, k).unit = i /\ At(w, i, k).call = k
  BY DEF At
<1> QED
  BY <1>1, <1>2 DEF Places, UnitAt, CallAt

(* What a place is made of.                                                *)
LEMMA PlaceIs ==
    ASSUME NEW s, NEW w, NEW p \in PlacesIn(s, w)
    PROVE  /\ p.part = w /\ p = At(w, p.unit, p.call)
           /\ p.unit \in DOMAIN UnitsOf(s, w) /\ p.call \in DOMAIN UnitsOf(s, w)[p.unit].calls
<1>1. PICK i \in DOMAIN UnitsOf(s, w) : \E k \in DOMAIN UnitsOf(s, w)[i].calls : p = At(w, i, k)
  BY DEF PlacesIn
<1>2. PICK k \in DOMAIN UnitsOf(s, w)[i].calls : p = At(w, i, k)
  BY <1>1
<1>3. p.part = w /\ p.unit = i /\ p.call = k
  BY <1>2 DEF At
<1> QED
  BY <1>1, <1>2, <1>3

(* A place of the script.                                                  *)
LEMMA PlaceShape ==
    ASSUME TypeOK, NEW p \in Places(script)
    PROVE  /\ p.part \in {"body", "cleanup"} /\ p \in PlacesIn(script, p.part)
           /\ p = At(p.part, p.unit, p.call)
           /\ p.unit \in Nat \ {0} /\ p.unit <= Len(UnitsOf(script, p.part))
           /\ p.unit \in DOMAIN UnitsOf(script, p.part) /\ UnitAt(script, p) \in UnitRecord
           /\ p.call \in Nat \ {0} /\ p.call <= Len(UnitAt(script, p).calls)
           /\ p.call \in DOMAIN UnitAt(script, p).calls /\ CallAt(script, p) \in CallRecord
<1>1. /\ p.part \in {"body", "cleanup"} /\ p \in PlacesIn(script, p.part)
      /\ p = At(p.part, p.unit, p.call) /\ p.unit \in DOMAIN UnitsOf(script, p.part)
      /\ p.call \in DOMAIN UnitsOf(script, p.part)[p.unit].calls
  <2>1. CASE p \in PlacesIn(script, "body")
    BY <2>1, PlaceIs
  <2>2. CASE p \in PlacesIn(script, "cleanup")
    BY <2>2, PlaceIs
  <2> QED
    BY <2>1, <2>2 DEF Places
<1>2. UnitAt(script, p).calls \in Seq(CallRecord)
  BY <1>1, UnitsShape DEF UnitAt
<1> QED
  BY <1>1, <1>2, UnitsShape, CallsShape DEF UnitAt, CallAt

(* Where the execution is.                                                 *)
LEMMA HereFields == Here.part = part /\ Here.unit = unit /\ Here.call = call
BY DEF Here, At

(* The units under way.                                                    *)
LEMMA UnitsNow ==
    ASSUME TypeOK, part # "done"
    PROVE  /\ UnitsOf(script, part) = Units /\ Len(Units) \in Nat
           /\ unit \in DOMAIN Units => unit <= Len(Units)
           /\ Unit = UnitsOf(script, part)[unit]
<1>1. UnitsOf(script, part) = Units /\ Unit = UnitsOf(script, part)[unit]
  BY DEF UnitsOf, Units, Unit
<1>2. Units \in Seq(UnitRecord)
  BY ScriptShape DEF Units
<1> HIDE DEF Units
<1> QED
  BY <1>1, <1>2

(* The call under way has a place.                                         *)
LEMMA HerePlace ==
    ASSUME TypeOK, AtCall
    PROVE  /\ Here \in Places(script) /\ Here \in PlacesIn(script, part)
           /\ UnitAt(script, Here) = Unit /\ CallAt(script, Here) = Now
<1>1. part \in {"body", "cleanup"} /\ unit <= Len(Units) /\ part # "done"
  BY DEF AtCall, InUnit, TypeOK
<1>2. /\ unit \in DOMAIN UnitsOf(script, part) /\ call \in DOMAIN UnitsOf(script, part)[unit].calls
      /\ Unit = UnitsOf(script, part)[unit]
  BY <1>1, UnitShape, CallShape, UnitsNow
<1> QED
  BY <1>1, <1>2, PlaceAt DEF Here, Now

(* A place of the unit under way.                                          *)
LEMMA PlaceInUnit ==
    ASSUME TypeOK, part # "done", NEW p \in Places(script), p.part = part, p.unit = unit
    PROVE  /\ UnitAt(script, p) = Unit /\ p.call \in DOMAIN Unit.calls /\ p.call <= Len(Unit.calls)
           /\ unit \in DOMAIN Units /\ unit <= Len(Units) /\ p = At(part, unit, p.call)
           /\ CallAt(script, p) = Unit.calls[p.call]
BY PlaceShape, UnitsNow DEF UnitAt, CallAt

-----------------------------------------------------------------------------
(* What lies behind after a step.  An answered call adds its place.        *)
LEMMA PastAdvance ==
    ASSUME TypeOK, AtCall, UNCHANGED <<script, part, unit>>, call' = call + 1, NEW p \in Places(script)
    PROVE  Past(p)' <=> Past(p) \/ p = Here
<1>1. /\ part \in {"body", "cleanup"} /\ unit \in Nat \ {0} /\ call \in Nat \ {0}
      /\ p.part \in {"body", "cleanup"} /\ p.unit \in Nat \ {0} /\ p.call \in Nat \ {0}
      /\ p = At(p.part, p.unit, p.call)
  BY PlaceShape DEF AtCall, InUnit, TypeOK
<1>2. Here'.part = part /\ Here'.unit = unit /\ Here'.call = call + 1
  BY DEF Here, At
<1>3. p = Here <=> p.part = part /\ p.unit = unit /\ p.call = call
  BY <1>1, HereFields DEF Here
<1>4. Past(p) <=> Prior(p, Here)
  BY <1>1 DEF Past
<1>5. Past(p)' <=> Prior(p, Here')
  BY <1>1 DEF Past, Prior
<1> QED
  BY <1>1, <1>2, <1>3, <1>4, <1>5, HereFields DEF Prior

(* A unit that ends adds its places.                                       *)
LEMMA PastOver ==
    ASSUME TypeOK, part # "done", UNCHANGED <<script, part>>, unit' = unit + 1, call' = 1,
           NEW p \in Places(script)
    PROVE  Past(p)' <=> Past(p) \/ (p.part = part /\ p.unit = unit)
<1>1. /\ part \in {"body", "cleanup"} /\ unit \in Nat \ {0} /\ call \in Nat \ {0}
      /\ p.part \in {"body", "cleanup"} /\ p.unit \in Nat \ {0} /\ p.call \in Nat \ {0}
  BY PlaceShape DEF TypeOK
<1>2. Here'.part = part /\ Here'.unit = unit + 1 /\ Here'.call = 1
  BY DEF Here, At
<1>3. Past(p) <=> Prior(p, Here)
  BY <1>1 DEF Past
<1>4. Past(p)' <=> Prior(p, Here')
  BY <1>1 DEF Past, Prior
<1> QED
  BY <1>1, <1>2, <1>3, <1>4, HereFields DEF Prior

(* Leaving the body puts it behind; of the finally block nothing is.       *)
LEMMA PastLeft ==
    ASSUME TypeOK, part = "body", part' \in {"cleanup", "done"}, NEW p \in Places(script)
    PROVE  /\ p.part = "body" => Past(p)'
           /\ Past(p) => p.part = "body"
           /\ part' = "cleanup" /\ unit' = 1 /\ call' = 1 /\ Past(p)' => p.part = "body"
<1>1. /\ p.part \in {"body", "cleanup"} /\ p.unit \in Nat \ {0} /\ p.call \in Nat \ {0}
  BY PlaceShape
<1>2. Here'.part = part' /\ Here'.unit = unit' /\ Here'.call = call'
  BY DEF Here, At
<1>3. Past(p)' <=> part' = "done" \/ Prior(p, Here')
  BY DEF Past, Prior
<1>4. Past(p) <=> Prior(p, Here)
  BY DEF Past
<1> QED
  BY <1>1, <1>2, <1>3, <1>4, HereFields DEF Prior

(* What is behind within the script.                                       *)
LEMMA PastIs ==
    ASSUME TypeOK, part # "done", NEW p \in Places(script)
    PROVE  /\ Past(p) <=> Prior(p, Here)
           /\ Past(p) => p.part = "body" \/ part = "cleanup"
           /\ p.part = part => (Past(p) <=> p.unit < unit \/ (p.unit = unit /\ p.call < call))
<1>1. p.part \in {"body", "cleanup"} /\ part \in {"body", "cleanup"}
  BY PlaceShape DEF TypeOK
<1> QED
  BY <1>1, HereFields DEF Past, Prior

-----------------------------------------------------------------------------
(* What the text of a careful script says of the execution.                *)
LEMMA CareText ==
    ASSUME TypeOK, Careful(name)
    PROVE  /\ Plain(script) /\ InOrder(script)
           /\ \A x \in Possible(script) :
                 <<name, x.res>> \in LeftBehind \/ Swept(script, x) \/ HandedOn(script, x)
BY DEF TypeOK, Careful

(* Only the body makes anything or finds ids.                              *)
LEMMA FoundInBody ==
    ASSUME TypeOK, Plain(script), NEW p \in Places(script), CallAt(script, p).do \in {"make", "look"}
    PROVE  p.part = "body"
<1>1. SUFFICES ASSUME p.part = "cleanup" PROVE FALSE
  BY PlaceShape
<1>2. p.unit \in DOMAIN script.cleanup /\ p.call \in DOMAIN script.cleanup[p.unit].calls
      /\ CallAt(script, p) = script.cleanup[p.unit].calls[p.call]
  BY <1>1, PlaceShape DEF UnitsOf, UnitAt, CallAt
<1>3. CallAt(script, p).res \in Ids(script.cleanup[p.unit])
  BY <1>2 DEF Ids
<1> QED
  BY <1>2, <1>3 DEF Plain

(* So everything is made in the body.                                      *)
LEMMA MakesPlace ==
    ASSUME TypeOK, Plain(script), NEW x, NEW q \in MakesOf(script, x)
    PROVE  /\ q \in Places(script) /\ q.part = "body" /\ CallAt(script, q).do = "make"
           /\ Made(CallAt(script, q)) = x
           /\ q.unit \in DOMAIN script.body /\ q.unit \in Nat \ {0} /\ q.call \in Nat \ {0}
           /\ UnitAt(script, q) = script.body[q.unit] /\ q.call \in DOMAIN script.body[q.unit].calls
<1>1. q \in Places(script) /\ CallAt(script, q).do = "make" /\ Made(CallAt(script, q)) = x
  BY DEF MakesOf
<1>2. q.part = "body"
  BY <1>1, FoundInBody
<1> QED
  BY <1>1, <1>2, PlaceShape DEF UnitsOf, UnitAt

(* What is possible is not terminating, and made of what it is.            *)
LEMMA MadeIsMade ==
    ASSUME NEW x
    PROVE  /\ Made(x).res = x.res /\ Made(x).in = x.in /\ Made(x).on = x.on /\ ~Made(x).going
           /\ Made(Made(x)) = Made(x)
           /\ x \in Resource /\ ~x.going => Made(x) = x
BY DEF Made, Resource

(* Things that differ at the most in whether they terminate.               *)
Kin(x, y) == x.res = y.res /\ x.in = y.in /\ x.on = y.on

(* They are made alike, and the same calls clear and end them.             *)
LEMMA KinMade ==
    ASSUME NEW x, NEW y, Kin(x, y)
    PROVE  /\ Made(x) = Made(y)
           /\ \A c : (Clears(c, x) <=> Clears(c, y)) /\ (Ends(c, x) <=> Ends(c, y))
BY DEF Kin, Made, Clears, Ends

(* What is possible is as it was given or made.                            *)
LEMMA PossibleIsMade ==
    ASSUME TypeOK, Plain(script), NEW y \in Possible(script)
    PROVE  Made(y) = y
<1>1. CASE y \in script.given
  BY <1>1, MadeIsMade, ScriptShape DEF Plain
<1>2. CASE y \notin script.given
  BY <1>2, MadeIsMade DEF Possible
<1> QED
  BY <1>1, <1>2

-----------------------------------------------------------------------------
(* The ways of a unit to fail when no request does: a negative answer, and *)
(* something that is not found.                                            *)
Stumbles == AtCall /\ (Now.do \in Judged \/ (Now.do \in Seeks /\ ~Exists(Now.res)))

(* Nothing happens to what is not hit.                                     *)
LEMMA SpotlessUnhit ==
    ASSUME TypeOK, part # "done", NEW y, Spotless(script, y, Here)
    PROVE  Unhit(y)
BY PastIs DEF Spotless, Unhit

(* What was given and is not touched exists.                               *)
LEMMA RemainsExists ==
    ASSUME TypeOK, CareParts, part # "done", NEW r, Remains(script, r, Here)
    PROVE  Exists(r)
<1>1. PICK y \in script.given : y.res = r /\ Spotless(script, y, Here)
  BY DEF Remains
<1>2. y \in cloud
  BY <1>1, SpotlessUnhit DEF CareParts, StillStands, Possible
<1> QED
  BY <1>1, <1>2 DEF Exists

(* What is present along with x exists when x does.                        *)
LEMMA PresentExists ==
    ASSUME TypeOK, CareParts, AtCall, NEW x \in cloud, NEW r, Now.do \in Seeks,
           Present(script, Made(x), r, Here)
    PROVE  Exists(r)
<1>1. part # "done"
  BY DEF AtCall, InUnit
<1>2. CASE r = Made(x).res
  BY <1>2, MadeIsMade DEF Exists
<1>3. CASE Remains(script, r, Here)
  BY <1>1, <1>3, RemainsExists
<1>4. CASE \E y \in Possible(script) : y.res = r /\ Companions(script, Made(x), y) /\ Spotless(script, y, Here)
  <2>1. PICK y \in Possible(script) : y.res = r /\ Companions(script, Made(x), y) /\ Spotless(script, y, Here)
    BY <1>4
  <2>2. ~Pending(y)
    BY HerePlace DEF Pending, MakesOf, Seeks
  <2>3. y \in cloud
    BY <1>1, <2>1, <2>2, SpotlessUnhit DEF CareParts, Together
  <2> QED
    BY <2>1, <2>3 DEF Exists
<1> QED
  BY <1>2, <1>3, <1>4 DEF Present

(* What exists may exist, and is possible.                                 *)
LEMMA ExistsMay ==
    ASSUME TypeOK, CareParts, part # "done", NEW x \in cloud
    PROVE  Made(x) \in Possible(script) /\ MayExist(script, Made(x), Here)
<1>1. CASE Made(x) \in script.given
  BY <1>1 DEF Possible, MayExist
<1>2. CASE \E q \in MakesOf(script, Made(x)) : Past(q)
  <2>1. PICK q \in MakesOf(script, Made(x)) : Past(q)
    BY <1>2
  <2>2. q \in Places(script) /\ CallAt(script, q).do = "make" /\ Made(CallAt(script, q)) = Made(x)
    BY DEF MakesOf
  <2>3. Prior(q, Here)
    BY <2>1, <2>2, PastIs
  <2> QED
    BY <2>2, <2>3 DEF Possible, MayExist
<1> QED
  BY <1>1, <1>2 DEF CareParts, Origins

(* A unit fails only where the text says that it may, whatever exists.     *)
LEMMA FailingFalters ==
    ASSUME TypeOK, CareParts, Stumbles, NEW x \in cloud
    PROVE  Falters(script, Made(x), Here) /\ MayExist(script, Made(x), Here)
<1>1. AtCall /\ part # "done" /\ CallAt(script, Here) = Now
  BY HerePlace DEF Stumbles, AtCall, InUnit
<1>2. MayExist(script, Made(x), Here)
  BY <1>1, ExistsMay
<1>3. CASE Now.do \in Judged
  BY <1>1, <1>2, <1>3 DEF Falters
<1>4. CASE Now.do \in Seeks /\ ~Exists(Now.res)
  BY <1>1, <1>2, <1>4, PresentExists DEF Falters
<1> QED
  BY <1>3, <1>4 DEF Stumbles

(* The cloud has no reason to refuse a delete.                             *)
LEMMA NoRefusal ==
    ASSUME TypeOK, Careful(name), CareParts
    PROVE  ~DeleteRefused
<1> SUFFICES ASSUME DeleteRefused PROVE FALSE
  OBVIOUS
<1>1. AtCall /\ part # "done" /\ Now.do \in Deleting
  BY DEF DeleteRefused, AtCall, InUnit, Deleting
<1>2. PICK x \in cloud : Now.res \in x.in /\ (Now.do = "retry" => ~x.going)
  BY DEF DeleteRefused, InUse
<1>3. /\ Here \in Places(script) /\ CallAt(script, Here) = Now
      /\ Made(x) \in Possible(script) /\ MayExist(script, Made(x), Here) /\ Made(x).in = x.in
  BY <1>1, HerePlace, ExistsMay, MadeIsMade
<1>4. PICK q \in Places(script) :
          /\ Prior(q, Here) /\ Reached(script, Made(x), q)
          /\ \/ Clears(CallAt(script, q), Made(x))
             \/ Now.do = "retry" /\ Ends(CallAt(script, q), Made(x))
  BY <1>1, <1>2, <1>3, CareText DEF InOrder
<1>5. Past(q)
  BY <1>1, <1>4, PastIs
<1>6. Kin(x, Made(x))
  BY MadeIsMade DEF Kin
<1>7. ~Clears(CallAt(script, q), x) /\ (Ends(CallAt(script, q), x) => x.going)
  BY <1>4, <1>5 DEF CareParts, SweepDone
<1> QED
  BY <1>2, <1>4, <1>6, <1>7, KinMade

-----------------------------------------------------------------------------
(* The steps, by what they do to the places behind.  A call is answered:   *)
(* what it makes is there, what it does not hit stays, what it clears is   *)
(* gone; main lets go of ids only in the finally block.                    *)
Granted ==
    /\ AtCall /\ call' = call + 1
    /\ UNCHANGED <<name, script, part, unit, raised, trouble, success>>
    /\ \A x \in cloud' :
          \/ Now.do = "make" /\ x = Made(Now)
          \/ \E y \in cloud : /\ Kin(x, y) /\ (y.going => x.going)
                              /\ x.going => y.going \/ (Now.do = "terminate" /\ Now.res = x.res)
    /\ \A y \in cloud : ~Hits(Now, y) => y \in cloud'
    /\ Now.do = "make" => Made(Now) \in cloud'
    /\ \A x \in cloud' : ~Clears(Now, x) /\ (Ends(Now, x) => x.going)
    /\ known' \subseteq known /\ (part = "body" => known' = known)
    /\ \A g \in known \ known' : Sheds(Unit, g)
    /\ part = "cleanup" /\ Now.do \in {"purge", "retry", "terminate"} => Now.res \notin known'
    /\ fresh \subseteq fresh'
    /\ IF Now.do \in {"make", "look"} THEN Now.res \in fresh' ELSE fresh' = fresh

(* The unit under way fails: main loses ids, or an exception is not caught.*)
GivenUp ==
    /\ Stumbles
    /\ \/ known' = (IF Unit.keeps THEN known \cup fresh ELSE known) \ Unit.loses
       \/ /\ Now.do \in Seeks /\ "coded" \notin Unit.catch
          /\ known' = IF Unit.keeps /\ Unit.catch = None THEN known \cup fresh ELSE known

(* The unit under way is over, and the next one of the same part begins.   *)
Skipped  == call = 1 /\ (~Wanted \/ Blocked) /\ known' = known
Complete == InUnit /\ call > Len(Unit.calls) /\ known' = (known \cup fresh) \ Unit.forgets
Over ==
    /\ part # "done" /\ unit <= Len(Units) /\ unit' = unit + 1 /\ call' = 1 /\ fresh' = {}
    /\ UNCHANGED <<name, script, part, cloud, raised, success>>
    /\ trouble' => trouble \/ Unit.notes
    /\ Skipped \/ Complete \/ (GivenUp /\ (part = "body" => Unit.fail = "go"))

(* Main leaves the body, at its end or because a unit failed.              *)
BodyOver == unit > Len(script.body) /\ known' = known /\ success' = AllPassed /\ raised' = raised
CutShort ==
    /\ GivenUp /\ unit <= Len(Units)
    /\ Unit.fail # "go" \/ (Now.do \in Seeks /\ "coded" \notin Unit.catch)
    /\ raised' => \/ raised
                  \/ Unit.fail = "raise" /\ "other" \notin script.catch
                  \/ Now.do \in Seeks /\ "coded" \notin Unit.catch /\ "coded" \notin script.catch
Left ==
    /\ part = "body" /\ part' \in {"cleanup", "done"}
    /\ part' = "cleanup" => call' = 1 /\ fresh' = {}
    /\ script.sure => part' = "cleanup" /\ unit' = 1
    /\ UNCHANGED <<name, script, cloud, trouble>>
    /\ BodyOver \/ CutShort

-----------------------------------------------------------------------------
(* What is known of a state from which a careful script goes on.           *)
Before == IInv /\ Progress /\ Careful(name) /\ CareParts

(* An answered call, in terms of places.                                   *)
LEMMA GrantedPlaces ==
    ASSUME Before, Granted
    PROVE  /\ TypeOK /\ Plain(script) /\ script' = script /\ part' = part /\ unit' = unit
           /\ part \in {"body", "cleanup"} /\ unit \in Nat \ {0} /\ call \in Nat \ {0}
           /\ unit <= Len(Units) /\ unit \in DOMAIN Units /\ call \in DOMAIN Unit.calls
           /\ Here \in Places(script) /\ CallAt(script, Here) = Now /\ UnitAt(script, Here) = Unit
           /\ Now.do \in {"make", "look"} => part = "body"
           /\ \A p \in Places(script) : Past(p)' <=> Past(p) \/ p = Here
<1>1. TypeOK /\ AtCall /\ part # "done" /\ unit <= Len(Units)
  BY DEF Before, IInv, Granted, AtCall, InUnit
<1>2. Plain(script)
  BY <1>1, CareText DEF Before
<1>3. Here \in Places(script) /\ CallAt(script, Here) = Now /\ UnitAt(script, Here) = Unit
  BY <1>1, HerePlace
<1>4. Now.do \in {"make", "look"} => part = "body"
  BY <1>1, <1>2, <1>3, FoundInBody, HereFields
<1>5. \A p \in Places(script) : Past(p)' <=> Past(p) \/ p = Here
  BY <1>1, PastAdvance DEF Granted
<1> QED
  BY <1>1, <1>2, <1>3, <1>4, <1>5, UnitShape, CallShape DEF TypeOK, Granted

(* What the call leaves untouched stays.                                   *)
LEMMA GrantedSpares ==
    ASSUME Before, Granted, NEW y, Unhit(y)'
    PROVE  Unhit(y) /\ (y \in cloud => y \in cloud')
<1>1. ~Hits(Now, y) /\ Unhit(y)
  BY GrantedPlaces DEF Unhit
<1> QED
  BY <1>1 DEF Granted

(* Where things come from, after an answered call.                         *)
LEMMA GrantedOrigins ==
    ASSUME Before, Granted
    PROVE  Origins'
<1>1. /\ script' = script /\ Here \in Places(script) /\ CallAt(script, Here) = Now
      /\ \A p \in Places(script) : Past(p)' <=> Past(p) \/ p = Here
  BY GrantedPlaces
<1>2. \A z : MakesOf(script, z) \subseteq Places(script)
  BY DEF MakesOf
<1> SUFFICES ASSUME NEW x \in cloud'
             PROVE  /\ Made(x) \in script.given \/ \E q \in MakesOf(script, Made(x)) : Past(q)'
                    /\ x.going => \E q \in Places(script) : /\ Past(q)' /\ CallAt(script, q).do = "terminate"
                                                            /\ CallAt(script, q).res = x.res
  BY <1>1 DEF Origins
<1>3. CASE Now.do = "make" /\ x = Made(Now)
  BY <1>1, <1>3, MadeIsMade DEF MakesOf
<1>4. ASSUME NEW y \in cloud, Kin(x, y), x.going => y.going \/ (Now.do = "terminate" /\ Now.res = x.res)
      PROVE  /\ Made(x) \in script.given \/ \E q \in MakesOf(script, Made(x)) : Past(q)'
             /\ x.going => \E q \in Places(script) : /\ Past(q)' /\ CallAt(script, q).do = "terminate"
                                                     /\ CallAt(script, q).res = x.res
  <2>1. Made(x) = Made(y) /\ x.res = y.res
    BY <1>4, KinMade DEF Kin
  <2>2. Made(y) \in script.given \/ \E q \in MakesOf(script, Made(y)) : Past(q)
    BY DEF Before, CareParts, Origins
  <2>3. y.going => \E q \in Places(script) : /\ Past(q) /\ CallAt(script, q).do = "terminate"
                                             /\ CallAt(script, q).res = y.res
    BY DEF Before, CareParts, Origins
  <2> QED
    BY <1>1, <1>2, <1>4, <2>1, <2>2, <2>3
<1> QED
  BY <1>3, <1>4 DEF Granted

(* What main holds, after an answered call.                                *)
LEMMA GrantedHolds ==
    ASSUME Before, Granted
    PROVE  GuardHeld' /\ FoundIsFresh' /\ MandatoryHeld' /\ NothingFound'
<1>1. /\ script' = script /\ part' = part /\ unit' = unit /\ Units' = Units /\ Unit' = Unit
      /\ part \in {"body", "cleanup"} /\ unit <= Len(Units) /\ call \in Nat \ {0}
      /\ call \in DOMAIN Unit.calls /\ Now = Unit.calls[call] /\ call' = call + 1
      /\ Now.do \in {"make", "look"} => part = "body"
  BY GrantedPlaces DEF Units, Unit, Now, Granted
<1>2. GuardHeld'
  <2> SUFFICES ASSUME part = "body" PROVE Unit.guard \subseteq known'
    BY <1>1 DEF GuardHeld
  <2>1. known' = known
    BY DEF Granted
  <2>2. CASE call > 1
    BY <2>1, <2>2 DEF Before, CareParts, GuardHeld
  <2>3. CASE ~(call > 1)
    BY <2>1, <2>3 DEF Granted, AtCall, InUnit, Wanted
  <2> QED
    BY <2>2, <2>3
<1>3. FoundIsFresh'
  <2>1. Behind' = Behind \cup {call}
    BY <1>1 DEF Behind
  <2>2. fresh \subseteq fresh' /\ (Now.do \in {"make", "look"} => Now.res \in fresh')
    BY DEF Granted
  <2> QED
    BY <1>1, <2>1, <2>2 DEF Before, CareParts, FoundIsFresh
<1>4. MandatoryHeld'
  <2>1. part = "body" => known' = known
    BY DEF Granted
  <2> QED
    BY <1>1, <2>1 DEF Before, CareParts, MandatoryHeld
<1>5. NothingFound'
  <2>1. part = "cleanup" => fresh' = fresh
    BY <1>1 DEF Granted
  <2> QED
    BY <1>1, <2>1 DEF Before, CareParts, NothingFound
<1> QED
  BY <1>2, <1>3, <1>4, <1>5

(* Ids that are tied, after an answered call.                              *)
LEMMA GrantedTies ==
    ASSUME Before, Granted
    PROVE  TiesHold'
<1>1. /\ script' = script /\ part' = part /\ unit' = unit /\ call' = call + 1 /\ unit \in DOMAIN Units
      /\ part \in {"body", "cleanup"} /\ unit \in Nat \ {0} /\ call \in Nat \ {0}
      /\ Here \in Places(script) /\ CallAt(script, Here) = Now /\ TypeOK /\ Plain(script)
      /\ Now.do \in {"make", "look"} => part = "body"
  BY GrantedPlaces DEF Granted
<1> SUFFICES ASSUME NEW x \in cloud', NEW g, Tied(script, Made(x), g)
             PROVE  g \in known' \/ Making(x)' \/ Shed(g)'
  BY <1>1 DEF TiesHold
<1>2. CASE Now.do = "make" /\ x = Made(Now)
  <2>1. Here \in MakesOf(script, Made(x)) /\ part = "body"
    BY <1>1, <1>2, MadeIsMade DEF MakesOf
  <2> QED
    BY <1>1, <2>1, HereFields DEF Making
<1>3. ASSUME NEW y \in cloud, Kin(x, y) PROVE g \in known' \/ Making(x)' \/ Shed(g)'
  <2>1. Made(x) = Made(y)
    BY <1>3, KinMade
  <2>2. g \in known \/ Making(y) \/ Shed(g)
    BY <2>1 DEF Before, CareParts, TiesHold
  <2>3. ASSUME Making(y) PROVE Making(x)'
    <3>1. PICK q \in MakesOf(script, Made(y)) : part = "body" /\ q.unit = unit /\ q.call < call
      BY <2>3 DEF Making
    <3>2. q.call \in Nat
      BY <1>1, MakesPlace
    <3> QED
      BY <1>1, <2>1, <3>1, <3>2 DEF Making
  <2>4. ASSUME Shed(g) PROVE Shed(g)'
    BY <1>1, <2>4 DEF Shed
  <2>5. ASSUME g \in known, g \notin known' PROVE Shed(g)'
    <3>1. part = "cleanup" /\ Sheds(Unit, g)
      BY <1>1, <2>5 DEF Granted
    <3>2. unit \in DOMAIN script.cleanup /\ Unit = script.cleanup[unit]
      BY <1>1, <3>1 DEF Units, Unit
    <3> QED
      BY <1>1, <3>1, <3>2 DEF Shed
  <2> QED
    BY <2>2, <2>3, <2>4, <2>5
<1> QED
  BY <1>2, <1>3 DEF Granted

(* What was released stays so, after an answered call.                     *)
LEMMA GrantedReleases ==
    ASSUME Before, Granted
    PROVE  ReleasedIsGone'
<1>1. /\ script' = script /\ part' = part /\ TypeOK
      /\ Here \in Places(script) /\ CallAt(script, Here) = Now
      /\ \A p \in Places(script) : Past(p)' <=> Past(p) \/ p = Here
      /\ known' \subseteq known
  BY GrantedPlaces DEF Granted
<1> SUFFICES ASSUME part = "cleanup", script.sure, NEW i \in DOMAIN script.cleanup,
                    NEW k \in DOMAIN script.cleanup[i].calls, NEW a, Releases(script, a, i, k),
                    Past(At("cleanup", i, k))'
             PROVE  a \notin known'
  BY <1>1 DEF ReleasedIsGone
<1>2. /\ At("cleanup", i, k) \in Places(script)
      /\ CallAt(script, At("cleanup", i, k)) = script.cleanup[i].calls[k]
  <2>1. UnitsOf(script, "cleanup") = script.cleanup
    BY DEF UnitsOf
  <2> QED
    BY <2>1, PlaceAt
<1>3. CASE Past(At("cleanup", i, k))
  BY <1>1, <1>3 DEF Before, CareParts, ReleasedIsGone
<1>4. CASE At("cleanup", i, k) = Here
  <2>1. Now.do \in {"purge", "retry", "terminate"} /\ Now.res = a
    BY <1>1, <1>2, <1>4 DEF Releases
  <2> QED
    BY <2>1 DEF Granted
<1> QED
  BY <1>1, <1>2, <1>3, <1>4

(* What a reached call has swept stays swept, after an answered call.      *)
LEMMA GrantedSweeps ==
    ASSUME Before, Granted
    PROVE  SweepDone'
<1>1. /\ script' = script /\ part' = part /\ unit' = unit /\ TypeOK /\ Plain(script)
      /\ part \in {"body", "cleanup"} /\ unit \in Nat \ {0}
      /\ Here \in Places(script) /\ CallAt(script, Here) = Now
      /\ Now.do \in {"make", "look"} => part = "body"
      /\ \A p \in Places(script) : Past(p)' <=> Past(p) \/ p = Here
  BY GrantedPlaces
<1> SUFFICES ASSUME NEW x \in cloud', NEW p \in Places(script), Past(p)', Reached(script, Made(x), p)
             PROVE  ~Clears(CallAt(script, p), x) /\ (Ends(CallAt(script, p), x) => x.going)
  BY <1>1 DEF SweepDone
<1>2. CASE p = Here
  <2>1. ~Clears(Now, x) /\ (Ends(Now, x) => x.going)
    BY DEF Granted
  <2> QED
    BY <1>1, <1>2, <2>1
<1>3. CASE Past(p) /\ Now.do = "make" /\ x = Made(Now)
  <2>1. Here \in MakesOf(script, Made(x)) /\ part = "body"
    BY <1>1, <1>3, MadeIsMade DEF MakesOf
  <2>2. p.part = "body" /\ ~(unit < p.unit)
    <3>1. p.part = "body" /\ p.unit \in Nat
      BY <1>1, <1>3, <2>1, PastIs, PlaceShape
    <3> QED
      BY <1>1, <1>3, <2>1, <3>1, PastIs
  <2>3. unit < p.unit
    BY <2>1, <2>2, HereFields DEF Reached, ReachedInBody
  <2> QED
    BY <2>2, <2>3
<1>4. ASSUME Past(p), NEW y \in cloud, Kin(x, y), y.going => x.going
      PROVE  ~Clears(CallAt(script, p), x) /\ (Ends(CallAt(script, p), x) => x.going)
  <2>1. ~Clears(CallAt(script, p), y) /\ (Ends(CallAt(script, p), y) => y.going)
    BY <1>4, KinMade DEF Before, CareParts, SweepDone
  <2> QED
    BY <1>4, <2>1, KinMade
<1> QED
  BY <1>1, <1>2, <1>3, <1>4 DEF Granted

(* What stands, after an answered call.                                    *)
LEMMA GrantedStands ==
    ASSUME Before, Granted
    PROVE  StillStands' /\ Together'
<1>1. /\ script' = script /\ part' = part /\ unit' = unit /\ call' = call + 1 /\ TypeOK /\ Plain(script)
      /\ part \in {"body", "cleanup"} /\ unit \in Nat \ {0} /\ call \in Nat \ {0}
      /\ Here \in Places(script) /\ CallAt(script, Here) = Now
      /\ Now.do \in {"make", "look"} => part = "body"
  BY GrantedPlaces DEF Granted
<1>2. ASSUME NEW y, Here \in MakesOf(script, y) PROVE y \in cloud'
  BY <1>1, <1>2 DEF MakesOf, Granted
<1>3. ASSUME NEW y, NEW q \in MakesOf(script, y), q.unit = unit, q.call = call, part = "body"
      PROVE  Here \in MakesOf(script, y)
  <2>1. q \in Places(script) /\ q.part = "body"
    BY <1>1, <1>3, MakesPlace
  <2>2. q = Here
    BY <1>1, <1>3, <2>1, PlaceShape DEF Here
  <2> QED
    BY <1>3, <2>2
<1>4. StillStands'
  <2> SUFFICES ASSUME NEW y \in Possible(script), Unhit(y)', y \in script.given \/ Making(y)'
               PROVE  y \in cloud'
    BY <1>1 DEF StillStands
  <2>1. Unhit(y) /\ (y \in cloud => y \in cloud')
    BY GrantedSpares
  <2>2. CASE y \in script.given \/ Making(y)
    BY <2>1, <2>2 DEF Before, CareParts, StillStands
  <2>3. CASE y \notin script.given /\ ~Making(y)
    <3>1. PICK q \in MakesOf(script, Made(y)) : part = "body" /\ q.unit = unit /\ q.call < call + 1
      BY <1>1, <2>3 DEF Making
    <3>2. q.call \in Nat /\ ~(q.call < call)
      BY <1>1, <2>3, <3>1, MakesPlace DEF Making
    <3>3. q.call = call
      BY <1>1, <3>1, <3>2
    <3> QED
      BY <1>1, <1>2, <1>3, <3>1, <3>3, PossibleIsMade
  <2> QED
    BY <2>2, <2>3
<1>5. Together'
  <2> SUFFICES ASSUME NEW x \in cloud', NEW y \in Possible(script), Unhit(y)', Companions(script, Made(x), y)
               PROVE  y \in cloud' \/ Pending(y)'
    BY <1>1 DEF Together
  <2>1. Unhit(y) /\ (y \in cloud => y \in cloud')
    BY GrantedSpares
  <2>2. CASE Now.do = "make" /\ x = Made(Now)
    <3>1. Here \in MakesOf(script, Made(x)) /\ part = "body"
      BY <1>1, <2>2, MadeIsMade DEF MakesOf
    <3>2. PICK q \in MakesOf(script, y) : q.unit = unit /\ q.call <= call + 1
      BY <3>1, HereFields DEF Companions
    <3>3. q \in Places(script) /\ q.part = "body" /\ q.call \in Nat
      BY <1>1, MakesPlace
    <3>4. CASE q.call < call
      BY <1>1, <2>1, <3>1, <3>2, <3>4, PossibleIsMade DEF Making, Before, CareParts, StillStands
    <3>5. CASE q.call = call
      BY <1>2, <1>3, <3>1, <3>2, <3>5
    <3>6. CASE q.call = call + 1
      <4>1. Here' = q
        BY <1>1, <3>1, <3>2, <3>3, <3>6, PlaceShape DEF Here
      <4> QED
        BY <1>1, <3>1, <4>1 DEF Pending
    <3> QED
      BY <1>1, <3>2, <3>3, <3>4, <3>5, <3>6
  <2>3. ASSUME NEW z \in cloud, Kin(x, z) PROVE y \in cloud' \/ Pending(y)'
    <3>1. y \in cloud \/ Pending(y)
      BY <2>1, <2>3, KinMade DEF Before, CareParts, Together
    <3> QED
      BY <1>2, <2>1, <3>1 DEF Pending
  <2> QED
    BY <2>2, <2>3 DEF Granted
<1> QED
  BY <1>4, <1>5

(* An answered call keeps all of it.                                       *)
LEMMA GrantedCare ==
    ASSUME Before, Granted
    PROVE  CareParts'
<1>1. /\ script' = script /\ part' = part /\ UNCHANGED <<raised, trouble, success>>
      /\ Now.do \in {"make", "look"} => part = "body"
  BY GrantedPlaces DEF Granted
<1>2. NothingRaised' /\ Untroubled'
  BY <1>1 DEF Before, CareParts, NothingRaised, Untroubled
<1>3. SuccessSaid'
  <2> SUFFICES ASSUME part # "body", NeverRaises(script), NEW x \in cloud', AlwaysSucceeds(script, Made(x))
               PROVE  success
    BY <1>1 DEF SuccessSaid
  <2>1. PICK y \in cloud : Kin(x, y)
    BY <1>1 DEF Granted
  <2> QED
    BY <2>1, KinMade DEF Before, CareParts, SuccessSaid
<1> QED
  BY <1>2, <1>3, GrantedOrigins, GrantedHolds, GrantedTies, GrantedReleases, GrantedSweeps, GrantedStands
     DEF CareParts

-----------------------------------------------------------------------------
(* The end of a unit.  An id that is tied to what the unit made is held    *)
(* already, or the unit has it.                                            *)
LEMMA MadeInUnit ==
    ASSUME Before, part = "body", NEW x \in cloud, NEW g, Tied(script, Made(x), g), Making(x)
    PROVE  /\ unit <= Len(Units) /\ g \notin Unit.forgets \cup Unit.loses /\ call > 1
           /\ \/ g \in known
              \/ \E k \in DOMAIN Unit.calls : k < call /\ Brought(script, Made(x), g, unit, k)
<1>0. TypeOK /\ Plain(script) /\ call \in Nat \ {0} /\ unit \in Nat \ {0}
  BY CareText DEF Before, IInv, TypeOK
<1>1. PICK q \in MakesOf(script, Made(x)) : q.unit = unit /\ q.call < call
  BY DEF Making
<1>2. /\ unit \in DOMAIN script.body /\ q.call \in Nat \ {0} /\ q.call \in DOMAIN script.body[unit].calls
      /\ Unit = script.body[unit]
  BY <1>0, <1>1, MakesPlace DEF Units, Unit
<1>3. call > 1 /\ unit <= Len(Units)
  BY <1>0, <1>1, <1>2, UnitsNow DEF Units
<1>4. /\ g \notin Unit.forgets \cup Unit.loses
      /\ Secured(script, unit, g) \/ Brought(script, Made(x), g, unit, q.call)
  BY <1>1, <1>2 DEF Tied
<1>5. ASSUME Secured(script, unit, g) PROVE g \in known
  <2>1. CASE g \in script.body[unit].guard
    BY <1>2, <1>3, <2>1 DEF Before, CareParts, GuardHeld
  <2>2. CASE g \in Kept(script)
    BY <2>2 DEF Before, Progress, NamesHeld
  <2>3. CASE /\ NeverLost(script, g)
             /\ \E j \in DOMAIN script.body : j < unit /\ Mandatory(script.body[j]) /\ g \in Ids(script.body[j])
    BY <2>3 DEF Before, CareParts, MandatoryHeld
  <2> QED
    BY <1>5, <2>1, <2>2, <2>3 DEF Secured
<1> QED
  BY <1>1, <1>2, <1>3, <1>4, <1>5

(* What a unit has brought is among the ids it found.                      *)
LEMMA FoundSoFar ==
    ASSUME Before, part # "done", unit <= Len(Units), NEW k \in DOMAIN Unit.calls, k < call,
           Unit.calls[k].do \in {"make", "look"}
    PROVE  Unit.calls[k].res \in fresh
<1>1. k \in Nat \ {0} /\ call \in Nat
  BY UnitShape, CallsShape DEF Before, IInv, TypeOK
<1>2. k \in Behind
  BY <1>1 DEF Behind
<1> QED
  BY <1>2 DEF Before, CareParts, FoundIsFresh

(* A unit of the body is complete: it forgets only what is gone.           *)
LEMMA CompleteTies ==
    ASSUME Before, part = "body", unit <= Len(Units), Complete, NEW x \in cloud, NEW g,
           Tied(script, Made(x), g)
    PROVE  g \in known'
<1>0. TypeOK /\ call \in Nat \ {0} /\ call > Len(Unit.calls) /\ known' = (known \cup fresh) \ Unit.forgets
  BY DEF Before, IInv, TypeOK, Complete
<1>1. unit \in DOMAIN script.body /\ Unit = script.body[unit] /\ Unit.calls \in Seq(CallRecord)
  BY <1>0, UnitShape DEF Units, Unit
<1>2. \A k \in DOMAIN Unit.calls : k \in Nat \ {0} /\ k < call
  BY <1>0, <1>1, CallsShape
<1>3. CASE g \in known
  <2>1. SUFFICES ASSUME g \in Unit.forgets PROVE FALSE
    BY <1>0, <1>3
  <2>2. Deletes(Unit, x.res)
    BY <1>1, <2>1, MadeIsMade DEF Tied
  <2>3. PICK k \in DOMAIN Unit.calls :
            /\ Unit.calls[k].do \in Deleting /\ Unit.calls[k].res = x.res
            /\ \A l \in Makes(Unit) : l > k => x.res \notin {Unit.calls[l].res, Unit.calls[l].on}
    BY <2>2 DEF Deletes
  <2>4. ~MadeAgain(k) /\ k \in Behind
    BY <1>0, <1>2, <2>3 DEF MadeAgain, Behind
  <2> QED
    BY <2>3, <2>4 DEF Before, Progress, DeletedIsGone
<1>4. CASE g \notin known
  <2>1. Making(x)
    BY <1>4 DEF Before, CareParts, TiesHold, Shed
  <2>2. g \notin Unit.forgets
    BY <2>1, MadeInUnit
  <2>3. PICK k \in DOMAIN Unit.calls : Brought(script, Made(x), g, unit, k)
    BY <1>4, <2>1, MadeInUnit
  <2>4. \E l \in DOMAIN Unit.calls : Unit.calls[l].do \in {"make", "look"} /\ Unit.calls[l].res = g
    BY <1>1, <2>3 DEF Brought, Ids
  <2>5. g \in fresh
    BY <1>2, <2>4, FoundSoFar
  <2> QED
    BY <1>0, <2>2, <2>5
<1> QED
  BY <1>3, <1>4

(* A unit of the body fails: it loses only what is gone, and keeps what it *)
(* made if it may fail after it.                                           *)
LEMMA GivenUpTies ==
    ASSUME Before, part = "body", GivenUp, NEW x \in cloud, NEW g, Tied(script, Made(x), g)
    PROVE  g \in known'
<1>0. /\ TypeOK /\ AtCall /\ Stumbles /\ CareParts /\ part # "done" /\ unit <= Len(Units)
      /\ call \in Nat \ {0}
  BY DEF Before, IInv, TypeOK, GivenUp, Stumbles, AtCall, InUnit
<1>1. /\ unit \in DOMAIN script.body /\ Unit = script.body[unit] /\ Unit.calls \in Seq(CallRecord)
      /\ call \in DOMAIN Unit.calls /\ Now = Unit.calls[call]
      /\ Here = At("body", unit, call) /\ CallAt(script, Here) = Now
  BY <1>0, UnitShape, CallShape, HerePlace DEF Units, Unit, Now, Here
<1>2. \A k \in DOMAIN Unit.calls : k \in Nat \ {0}
  BY <1>1, CallsShape
<1>3. Falters(script, Made(x), At("body", unit, call))
  BY <1>0, <1>1, FailingFalters
<1>4. CASE g \in known
  <2>1. SUFFICES ASSUME g \in Unit.loses PROVE FALSE
    BY <1>4 DEF GivenUp
  <2>2. LosesLate(script, Made(x), unit)
    BY <1>1, <2>1 DEF Tied
  <2>3. ~Steady(script, Made(x), unit, DOMAIN script.body[unit].calls)
    BY <1>1, <1>3 DEF Steady
  <2>4. PICK k \in DOMAIN script.body[unit].calls :
            /\ script.body[unit].calls[k].do \in Deleting /\ script.body[unit].calls[k].res = Made(x).res
            /\ \A l \in Makes(script.body[unit]) :
                  Made(x).res \notin {script.body[unit].calls[l].res, script.body[unit].calls[l].on}
            /\ Steady(script, Made(x), unit, {l \in DOMAIN script.body[unit].calls : l < k})
    BY <2>2, <2>3 DEF LosesLate
  <2>5. ~(call < k)
    BY <1>1, <1>3, <2>4 DEF Steady
  <2>6. call # k
    BY <1>1, <1>3, <2>4 DEF Falters, Present, Judged, Deleting
  <2>7. k \in Behind /\ ~MadeAgain(k)
    BY <1>0, <1>1, <1>2, <2>4, <2>5, <2>6 DEF Behind, MadeAgain
  <2>8. Unit.calls[k].do \in Deleting /\ Unit.calls[k].res = x.res
    BY <1>1, <2>4, MadeIsMade
  <2> QED
    BY <1>0, <1>1, <2>7, <2>8 DEF Before, Progress, DeletedIsGone
<1>5. CASE g \notin known
  <2>1. Making(x)
    BY <1>5 DEF Before, CareParts, TiesHold, Shed
  <2>2. g \notin Unit.loses
    BY <2>1, MadeInUnit
  <2>3. PICK k \in DOMAIN Unit.calls : k < call /\ Brought(script, Made(x), g, unit, k)
    BY <1>5, <2>1, MadeInUnit
  <2>4. ~Steady(script, Made(x), unit, {l \in DOMAIN script.body[unit].calls : l > k})
    BY <1>0, <1>1, <1>2, <1>3, <2>3 DEF Steady
  <2>5. /\ Unit.keeps
        /\ \E l \in DOMAIN Unit.calls : l <= k /\ Unit.calls[l].do \in {"make", "look"} /\ Unit.calls[l].res = g
        /\ \/ Unit.catch = None
           \/ \A l \in DOMAIN Unit.calls : l > k /\ Unit.calls[l].do \in Seeks => "coded" \in Unit.catch
    BY <1>1, <2>3, <2>4 DEF Brought
  <2>6. g \in fresh
    BY <1>0, <1>2, <2>3, <2>5, FoundSoFar
  <2>7. Now.do \in Seeks /\ "coded" \notin Unit.catch => Unit.catch = None
    BY <1>0, <1>1, <1>2, <2>3, <2>5
  <2> QED
    BY <2>2, <2>5, <2>6, <2>7 DEF GivenUp
<1> QED
  BY <1>4, <1>5

-----------------------------------------------------------------------------
(* A unit that is passed over or fails has no call ahead that is reached   *)
(* and would have cleared or ended something that exists.                  *)
LEMMA SkippedSweeps ==
    ASSUME Before, part # "done", unit <= Len(Units), Skipped, NEW x \in cloud,
           NEW p \in Places(script), p.part = part, p.unit = unit
    PROVE  ~Reached(script, Made(x), p)
<1> SUFFICES ASSUME Reached(script, Made(x), p) PROVE FALSE
  OBVIOUS
<1>0. TypeOK /\ Plain(script) /\ part \in {"body", "cleanup"} /\ call = 1 /\ unit \in Nat \ {0}
  BY CareText DEF Before, IInv, TypeOK, Skipped
<1>1. UnitAt(script, p) = Unit
  BY <1>0, PlaceInUnit
<1>2. ~Making(x)
  <2>1. \A q \in MakesOf(script, Made(x)) : q.call \in Nat \ {0}
    BY <1>0, MakesPlace
  <2> QED
    BY <1>0, <2>1 DEF Making
<1>3. Unit.needs = {} /\ \A g \in Unit.guard : Tied(script, Made(x), g)
  BY <1>1 DEF Reached
<1>4. \A g \in Unit.guard : g \in known \/ Shed(g)
  BY <1>2, <1>3 DEF Before, CareParts, TiesHold
<1>5. CASE part = "body"
  <2>1. Unit.after = {} /\ \A g : ~Shed(g)
    BY <1>5, <1>1 DEF Reached, ReachedInBody, UnitAt, UnitsOf, Shed
  <2> QED
    BY <1>3, <1>4, <2>1 DEF Skipped, Wanted, Blocked
<1>6. CASE part = "cleanup"
  <2>1. ReachedInCleanup(script, unit) /\ Unit = script.cleanup[unit]
    BY <1>6, <1>1 DEF Reached, UnitAt, UnitsOf
  <2>2. \A g \in Unit.guard : ~Shed(g)
    BY <1>0, <1>6, <2>1 DEF ReachedInCleanup, Shed
  <2>3. \A a \in Unit.after : a \notin known
    <3> SUFFICES ASSUME NEW a \in Unit.after PROVE a \notin known
      OBVIOUS
    <3>1. PICK i \in DOMAIN script.cleanup :
              i < unit /\ \E k \in DOMAIN script.cleanup[i].calls : Releases(script, a, i, k)
      BY <2>1 DEF ReachedInCleanup, Released
    <3>2. PICK k \in DOMAIN script.cleanup[i].calls : Releases(script, a, i, k)
      BY <3>1
    <3>3. At("cleanup", i, k) \in Places(script)
      <4>1. UnitsOf(script, "cleanup") = script.cleanup
        BY DEF UnitsOf
      <4> QED
        BY <4>1, PlaceAt
    <3>4. Past(At("cleanup", i, k))
      <4>1. At("cleanup", i, k).part = "cleanup" /\ At("cleanup", i, k).unit = i
        BY DEF At
      <4> QED
        BY <1>0, <1>6, <3>1, <3>3, <4>1, PastIs
    <3>5. script.sure
      BY <2>1 DEF ReachedInCleanup
    <3> QED
      BY <1>6, <3>2, <3>4, <3>5 DEF Before, CareParts, ReleasedIsGone
  <2> QED
    BY <1>3, <1>4, <2>2, <2>3 DEF Skipped, Wanted, Blocked
<1> QED
  BY <1>0, <1>5, <1>6

(* The same of a unit that fails at the call under way.                    *)
LEMMA GivenUpSweeps ==
    ASSUME Before, GivenUp, NEW x \in cloud, NEW p \in Places(script), p.part = part, p.unit = unit,
           ~(p.call < call), Reached(script, Made(x), p)
    PROVE  ~Clears(CallAt(script, p), x) /\ ~Ends(CallAt(script, p), x)
<1>0. TypeOK /\ AtCall /\ Stumbles /\ CareParts /\ part # "done" /\ call \in Nat \ {0}
  BY DEF Before, IInv, TypeOK, GivenUp, Stumbles, AtCall, InUnit
<1>1. Falters(script, Made(x), Here) /\ CallAt(script, Here) = Now /\ Here = At(part, unit, call)
  BY <1>0, FailingFalters, HerePlace DEF Here
<1>2. UnitAt(script, p) = Unit /\ p = At(part, unit, p.call) /\ p.call \in Nat
  BY <1>0, PlaceInUnit, PlaceShape
<1>3. call \in DOMAIN Unit.calls
  BY <1>0, CallShape
<1>4. ~(call < p.call)
  BY <1>1, <1>2, <1>3 DEF Reached
<1>5. p = Here
  BY <1>0, <1>1, <1>2, <1>4
<1>6. Now.do # "drop"
  BY <1>1, <1>5 DEF Reached, Falters, Judged, Seeks
<1>7. Now.do \in Judged \cup {"look"}
  BY <1>0, <1>6 DEF Stumbles, Seeks
<1> QED
  BY <1>1, <1>5, <1>7 DEF Clears, Ends, Deleting, Judged

(* The end of a unit, in terms of places.                                  *)
LEMMA OverPlaces ==
    ASSUME Before, Over
    PROVE  /\ TypeOK /\ Plain(script) /\ script' = script /\ part' = part /\ cloud' = cloud
           /\ part \in {"body", "cleanup"} /\ unit \in Nat \ {0} /\ call \in Nat \ {0}
           /\ unit <= Len(Units) /\ unit \in DOMAIN Units /\ part # "done"
           /\ unit' = unit + 1 /\ call' = 1 /\ fresh' = {}
           /\ known' \subseteq known \cup fresh
           /\ \A p \in Places(script) : Past(p)' <=> Past(p) \/ (p.part = part /\ p.unit = unit)
<1>1. TypeOK /\ part # "done"
  BY DEF Before, IInv, Over
<1>2. \A p \in Places(script) : Past(p)' <=> Past(p) \/ (p.part = part /\ p.unit = unit)
  BY <1>1, PastOver DEF Over
<1>3. known' \subseteq known \cup fresh
  BY DEF Over, Skipped, Complete, GivenUp
<1> QED
  BY <1>1, <1>2, <1>3, UnitShape, CareText DEF TypeOK, Over, Before

(* A place of the unit that is not behind when the unit is over.           *)
LEMMA OverAhead ==
    ASSUME Before, Over, NEW p \in Places(script), Past(p)', ~Past(p)
    PROVE  /\ p.part = part /\ p.unit = unit /\ ~(p.call < call) /\ ~Complete
           /\ p.call \in DOMAIN Unit.calls /\ UnitAt(script, p) = Unit
<1>1. /\ TypeOK /\ part # "done" /\ p.part = part /\ p.unit = unit /\ call \in Nat
  BY OverPlaces
<1>2. ~(p.call < call)
  BY <1>1, PastIs
<1>3. UnitAt(script, p) = Unit /\ p.call \in DOMAIN Unit.calls /\ p.call <= Len(Unit.calls) /\ p.call \in Nat
  BY <1>1, PlaceInUnit, PlaceShape
<1>4. Len(Unit.calls) \in Nat
  BY <1>1, OverPlaces, UnitShape, CallsShape
<1>5. ~Complete
  BY <1>1, <1>2, <1>3, <1>4 DEF Complete
<1> QED
  BY <1>1, <1>2, <1>3, <1>5

(* What main holds, after a unit.                                          *)
LEMMA OverHolds ==
    ASSUME Before, Over
    PROVE  GuardHeld' /\ FoundIsFresh' /\ MandatoryHeld' /\ NothingFound'
<1>1. /\ script' = script /\ part' = part /\ unit' = unit + 1 /\ call' = 1 /\ fresh' = {} /\ TypeOK
      /\ part \in {"body", "cleanup"} /\ unit <= Len(Units) /\ unit \in DOMAIN Units
      /\ unit \in Nat \ {0} /\ part # "done"
  BY OverPlaces
<1>2. GuardHeld' /\ NothingFound'
  BY <1>1 DEF GuardHeld, NothingFound
<1>3. FoundIsFresh'
  <2>1. Behind' = {}
    BY <1>1 DEF Behind
  <2> QED
    BY <2>1 DEF FoundIsFresh
<1>4. MandatoryHeld'
  <2> SUFFICES ASSUME part = "body", NEW j \in DOMAIN script.body, j < unit + 1, Mandatory(script.body[j]),
                      NEW g \in Ids(script.body[j]), NeverLost(script, g)
               PROVE  g \in known'
    BY <1>1 DEF MandatoryHeld
  <2>1. unit \in DOMAIN script.body /\ Unit = script.body[unit] /\ DOMAIN script.body \subseteq Nat
    BY <1>1, ScriptShape DEF Units, Unit
  <2>2. g \notin Unit.forgets \cup Unit.loses
    BY <2>1 DEF NeverLost
  <2>3. CASE j < unit
    <3>1. g \in known
      BY <2>3 DEF Before, CareParts, MandatoryHeld
    <3> QED
      BY <2>2, <3>1 DEF Over, Skipped, Complete, GivenUp
  <2>4. CASE j = unit
    <3>1. Mandatory(Unit) /\ g \in Ids(Unit)
      BY <2>1, <2>4
    <3>2. ~Skipped
      BY <3>1 DEF Mandatory, Skipped, Wanted, Blocked
    <3>3. Complete
      BY <3>1, <3>2 DEF Over, Mandatory
    <3>4. PICK k \in DOMAIN Unit.calls : Unit.calls[k].do \in {"make", "look"} /\ Unit.calls[k].res = g
      BY <3>1 DEF Ids
    <3>5. k < call
      <4>1. call > Len(Unit.calls) /\ call \in Nat /\ Unit.calls \in Seq(CallRecord)
        BY <1>1, <3>3, UnitShape DEF Complete, TypeOK
      <4> QED
        BY <4>1, CallsShape
    <3>6. g \in fresh
      BY <1>1, <3>4, <3>5, FoundSoFar
    <3> QED
      BY <2>2, <3>3, <3>6 DEF Complete
  <2> QED
    BY <1>1, <2>1, <2>3, <2>4
<1> QED
  BY <1>2, <1>3, <1>4

(* Ids that are tied, after a unit.                                        *)
LEMMA OverTies ==
    ASSUME Before, Over
    PROVE  TiesHold'
<1>1. /\ script' = script /\ part' = part /\ unit' = unit + 1 /\ call' = 1 /\ cloud' = cloud
      /\ part \in {"body", "cleanup"} /\ unit <= Len(Units) /\ unit \in DOMAIN Units
      /\ unit \in Nat \ {0} /\ TypeOK /\ Plain(script)
  BY OverPlaces
<1> SUFFICES ASSUME NEW x \in cloud, NEW g, Tied(script, Made(x), g)
             PROVE  g \in known' \/ Making(x)' \/ Shed(g)'
  BY <1>1 DEF TiesHold
<1>2. g \in known \/ Making(x) \/ Shed(g)
  BY DEF Before, CareParts, TiesHold
<1>3. CASE part = "body" /\ Skipped
  <2>1. ~Making(x)
    <3>1. \A q \in MakesOf(script, Made(x)) : q.call \in Nat \ {0}
      BY <1>1, MakesPlace
    <3> QED
      BY <1>3, <3>1 DEF Making, Skipped
  <2> QED
    BY <1>2, <1>3, <2>1 DEF Skipped, Shed
<1>4. CASE part = "body" /\ ~Skipped
  BY <1>1, <1>4, CompleteTies, GivenUpTies DEF Over
<1>5. CASE part = "cleanup"
  <2>1. unit \in DOMAIN script.cleanup /\ Unit = script.cleanup[unit] /\ DOMAIN script.cleanup \subseteq Nat
    BY <1>1, <1>5, ScriptShape DEF Units, Unit
  <2>2. ASSUME Shed(g) PROVE Shed(g)'
    BY <1>1, <1>5, <2>1, <2>2 DEF Shed
  <2>3. ASSUME g \in known, g \notin known' PROVE Shed(g)'
    <3>1. Sheds(Unit, g)
      BY <2>3 DEF Over, Skipped, Complete, GivenUp, Sheds
    <3> QED
      BY <1>1, <1>5, <2>1, <3>1 DEF Shed
  <2> QED
    BY <1>2, <1>5, <2>2, <2>3 DEF Making
<1> QED
  BY <1>1, <1>3, <1>4, <1>5

(* What was released, after a unit.                                        *)
LEMMA OverReleases ==
    ASSUME Before, Over
    PROVE  ReleasedIsGone'
<1>1. /\ script' = script /\ part' = part /\ TypeOK /\ known' \subseteq known \cup fresh
      /\ unit <= Len(Units) /\ part # "done" /\ call \in Nat \ {0}
  BY OverPlaces
<1> SUFFICES ASSUME part = "cleanup", script.sure, NEW i \in DOMAIN script.cleanup,
                    NEW k \in DOMAIN script.cleanup[i].calls, NEW a, Releases(script, a, i, k),
                    Past(At("cleanup", i, k))'
             PROVE  a \notin known'
  BY <1>1 DEF ReleasedIsGone
<1> DEFINE p == At("cleanup", i, k)
<1>2. p \in Places(script) /\ p.part = "cleanup" /\ p.unit = i /\ p.call = k
  <2>1. UnitsOf(script, "cleanup") = script.cleanup
    BY DEF UnitsOf
  <2> QED
    BY <2>1, PlaceAt DEF At
<1>3. known' \subseteq known
  BY <1>1 DEF Before, CareParts, NothingFound
<1>4. CASE Past(p)
  BY <1>3, <1>4 DEF Before, CareParts, ReleasedIsGone
<1>5. CASE ~Past(p)
  <2>1. i = unit /\ ~(k < call) /\ ~Complete /\ k \in DOMAIN Unit.calls
    BY <1>2, <1>5, OverAhead
  <2>2. Unit = script.cleanup[i]
    BY <2>1 DEF Units, Unit
  <2>3. CASE Skipped
    BY <2>2, <2>3 DEF Releases, Skipped, Wanted, Blocked
  <2>4. CASE GivenUp
    <3>1. AtCall /\ call \in DOMAIN Unit.calls /\ Now = Unit.calls[call] /\ Now.do \in Judged \cup Seeks
      BY <1>1, <2>4, CallShape DEF GivenUp, Stumbles, Now
    <3>2. k \in Nat
      BY <1>1, <2>1, UnitShape, CallsShape
    <3>3. call = k
      BY <1>1, <2>1, <2>2, <3>1, <3>2 DEF Releases
    <3> QED
      BY <2>2, <3>1, <3>3 DEF Releases, Judged, Seeks
  <2> QED
    BY <2>1, <2>3, <2>4 DEF Over
<1> QED
  BY <1>4, <1>5

(* All of it, after a unit.                                                *)
LEMMA OverCare ==
    ASSUME Before, Over
    PROVE  CareParts'
<1>1. /\ script' = script /\ part' = part /\ cloud' = cloud /\ TypeOK /\ Plain(script)
      /\ unit <= Len(Units) /\ part # "done" /\ part \in {"body", "cleanup"} /\ call' = 1
      /\ unit \in DOMAIN Units /\ UNCHANGED <<raised, success>>
      /\ \A p \in Places(script) : Past(p) => Past(p)'
  BY OverPlaces DEF Over
<1>2. \A z : MakesOf(script, z) \subseteq Places(script)
  BY DEF MakesOf
<1>3. Origins'
  BY <1>1, <1>2 DEF Before, CareParts, Origins
<1>4. SweepDone'
  <2> SUFFICES ASSUME NEW x \in cloud, NEW p \in Places(script), Past(p)', Reached(script, Made(x), p)
               PROVE  ~Clears(CallAt(script, p), x) /\ (Ends(CallAt(script, p), x) => x.going)
    BY <1>1 DEF SweepDone
  <2>1. CASE Past(p)
    BY <2>1 DEF Before, CareParts, SweepDone
  <2>2. CASE ~Past(p)
    <3>1. p.part = part /\ p.unit = unit /\ ~(p.call < call) /\ ~Complete
      BY <2>2, OverAhead
    <3>2. GivenUp
      BY <1>1, <3>1, SkippedSweeps DEF Over
    <3> QED
      BY <3>1, <3>2, GivenUpSweeps
  <2> QED
    BY <2>1, <2>2
<1>5. StillStands' /\ Together'
  <2>1. \A y : Unhit(y)' => Unhit(y)
    BY <1>1 DEF Unhit
  <2>2. \A y : ~Making(y)'
    <3>1. \A y : \A q \in MakesOf(script, Made(y)) : q.call \in Nat \ {0}
      BY <1>1, MakesPlace
    <3> QED
      BY <1>1, <3>1 DEF Making
  <2>3. \A y : ~Pending(y)
    <3> SUFFICES ASSUME NEW y, Pending(y) PROVE FALSE
      OBVIOUS
    <3>1. part = "body" /\ call > 1 /\ Here \in Places(script) /\ CallAt(script, Here).do = "make"
      BY DEF Pending, MakesOf
    <3>2. Now.do = "make" /\ call <= Len(Unit.calls) /\ Len(Unit.calls) \in Nat /\ call \in Nat
      BY <1>1, <3>1, PlaceInUnit, HereFields, UnitShape, CallsShape DEF Now, TypeOK
    <3> QED
      BY <3>1, <3>2 DEF Over, Skipped, Complete, GivenUp, Stumbles, Judged, Seeks
  <2> QED
    BY <1>1, <2>1, <2>2, <2>3 DEF Before, CareParts, StillStands, Together
<1>6. NothingRaised' /\ SuccessSaid'
  BY <1>1 DEF Before, CareParts, NothingRaised, SuccessSaid
<1>7. Untroubled'
  <2> SUFFICES ASSUME script.cleanup = <<>>, \A i \in DOMAIN script.body : ~script.body[i].notes
               PROVE  ~trouble'
    BY <1>1 DEF Untroubled
  <2>1. ~trouble
    BY DEF Before, CareParts, Untroubled
  <2>2. part = "body"
    BY <1>1 DEF Units
  <2>3. ~Unit.notes
    BY <1>1, <2>2 DEF Units, Unit
  <2> QED
    BY <2>1, <2>3 DEF Over
<1> QED
  BY <1>3, <1>4, <1>5, <1>6, <1>7, OverHolds, OverTies, OverReleases DEF CareParts

-----------------------------------------------------------------------------
(* The body is left.  At its end no unit is under way.                     *)
LEMMA NoUnitLeft ==
    ASSUME Before, part = "body", BodyOver
    PROVE  /\ \A p \in Places(script) : p.part = "body" => Past(p)
           /\ \A x : ~Making(x) /\ ~Pending(x)
<1>0. TypeOK /\ Plain(script) /\ part # "done" /\ unit \in Nat /\ unit > Len(script.body) /\ Len(script.body) \in Nat
  BY CareText, ScriptShape DEF Before, IInv, TypeOK, BodyOver
<1>1. ASSUME NEW p \in Places(script), p.part = "body" PROVE p.unit < unit
  BY <1>0, <1>1, PlaceShape DEF UnitsOf
<1>2. \A p \in Places(script) : p.part = "body" => Past(p)
  BY <1>0, <1>1, PastIs
<1>3. ASSUME NEW x, NEW q \in MakesOf(script, x) PROVE q.unit < unit
  BY <1>0, <1>1, MakesPlace
<1>4. \A x : ~Making(x)
  BY <1>0, <1>3 DEF Making
<1>5. \A x : ~Pending(x)
  BY <1>0, <1>3, HereFields DEF Pending
<1> QED
  BY <1>2, <1>4, <1>5

(* No call of the body that is passed over would have been reached.        *)
LEMMA LeftSweeps ==
    ASSUME Before, Left
    PROVE  SweepDone'
<1>0. TypeOK /\ CareParts /\ script' = script /\ cloud' = cloud /\ part = "body" /\ part # "done"
  BY DEF Before, IInv, Left
<1> SUFFICES ASSUME NEW x \in cloud, NEW p \in Places(script), Past(p)', Reached(script, Made(x), p)
             PROVE  ~Clears(CallAt(script, p), x) /\ (Ends(CallAt(script, p), x) => x.going)
  BY <1>0 DEF SweepDone
<1>1. CASE Past(p)
  BY <1>1 DEF Before, CareParts, SweepDone
<1>2. CASE ~Past(p)
  <2>1. p.part = "body"
    <3>1. SUFFICES ASSUME p.part = "cleanup" PROVE FALSE
      BY <1>0, PlaceShape
    <3>2. script.sure
      BY <3>1 DEF Reached, ReachedInCleanup
    <3> QED
      BY <1>0, <3>1, <3>2, PastLeft DEF Left
  <2>2. CutShort
    BY <1>0, <1>2, <2>1, NoUnitLeft DEF Left
  <2>3. AtCall /\ Stumbles /\ GivenUp /\ unit \in Nat /\ call \in Nat
    BY <1>0, <2>2 DEF CutShort, GivenUp, Stumbles, TypeOK
  <2>4. /\ Here \in PlacesIn(script, "body") /\ CallAt(script, Here) = Now /\ UnitAt(script, Here) = Unit
        /\ Falters(script, Made(x), Here) /\ MayExist(script, Made(x), Here)
    BY <1>0, <2>3, HerePlace, FailingFalters
  <2>5. Leaves(script, Made(x), Here)
    BY <2>2, <2>4 DEF CutShort, Leaves
  <2>6. ~(unit < p.unit)
    BY <2>1, <2>4, <2>5, HereFields DEF Reached, ReachedInBody
  <2>7. p.unit = unit /\ ~(p.call < call)
    BY <1>0, <1>2, <2>1, <2>3, <2>6, PastIs, PlaceShape
  <2> QED
    BY <1>0, <2>1, <2>3, <2>7, GivenUpSweeps
<1> QED
  BY <1>1, <1>2

(* All of it, after the body.                                              *)
LEMMA LeftCare ==
    ASSUME Before, Left
    PROVE  CareParts'
<1>0. /\ TypeOK /\ Plain(script) /\ CareParts /\ script' = script /\ cloud' = cloud /\ trouble' = trouble
      /\ part = "body" /\ part # "done" /\ part' \in {"cleanup", "done"} /\ part' # "body"
      /\ part' = "cleanup" => call' = 1 /\ fresh' = {}
  BY CareText DEF Before, IInv, Left
<1>1. \A p \in Places(script) : Past(p) => Past(p)'
  BY <1>0, PastLeft
<1>2. \A z : MakesOf(script, z) \subseteq Places(script)
  BY DEF MakesOf
<1>3. Origins'
  BY <1>0, <1>1, <1>2 DEF CareParts, Origins
<1>4. GuardHeld' /\ MandatoryHeld' /\ NothingFound'
  BY <1>0 DEF GuardHeld, MandatoryHeld, NothingFound
<1>5. FoundIsFresh'
  <2>1. CASE part' = "cleanup"
    <3>1. Behind' = {}
      BY <1>0, <2>1 DEF Behind
    <3> QED
      BY <3>1 DEF FoundIsFresh
  <2>2. CASE part' = "done"
    BY <2>2 DEF FoundIsFresh
  <2> QED
    BY <1>0, <2>1, <2>2
<1>6. TiesHold'
  <2> SUFFICES ASSUME NEW x \in cloud, NEW g, Tied(script, Made(x), g) PROVE g \in known'
    BY <1>0 DEF TiesHold
  <2>1. CASE BodyOver
    <3>1. ~Making(x) /\ ~Shed(g)
      BY <1>0, <2>1, NoUnitLeft DEF Shed
    <3> QED
      BY <2>1, <3>1 DEF BodyOver, Before, CareParts, TiesHold
  <2>2. CASE CutShort
    BY <1>0, <2>2, GivenUpTies DEF CutShort
  <2> QED
    BY <2>1, <2>2 DEF Left
<1>7. ReleasedIsGone'
  <2> SUFFICES ASSUME part' = "cleanup", script.sure, NEW i \in DOMAIN script.cleanup,
                      NEW k \in DOMAIN script.cleanup[i].calls, Past(At("cleanup", i, k))'
               PROVE  FALSE
    BY <1>0 DEF ReleasedIsGone
  <2>1. At("cleanup", i, k) \in Places(script) /\ At("cleanup", i, k).part = "cleanup"
    <3>1. UnitsOf(script, "cleanup") = script.cleanup
      BY DEF UnitsOf
    <3> QED
      BY <3>1, PlaceAt DEF At
  <2> QED
    BY <1>0, <2>1, PastLeft DEF Left
<1>8. StillStands' /\ Together'
  <2>1. \A y : Unhit(y)' => Unhit(y)
    BY <1>0, <1>1 DEF Unhit
  <2>2. \A y : ~Making(y)'
    BY <1>0 DEF Making
  <2>3. \A y : ~Pending(y)
    <3>1. CASE BodyOver
      BY <1>0, <3>1, NoUnitLeft
    <3>2. CASE CutShort
      <4>1. CallAt(script, Here) = Now /\ Now.do # "make"
        BY <1>0, <3>2, HerePlace DEF CutShort, GivenUp, Stumbles, Judged, Seeks
      <4> QED
        BY <4>1 DEF Pending, MakesOf
    <3> QED
      BY <3>1, <3>2 DEF Left
  <2> QED
    BY <1>0, <2>1, <2>2, <2>3 DEF CareParts, StillStands, Together
<1>9. NothingRaised'
  <2> SUFFICES ASSUME NeverRaises(script), raised' PROVE FALSE
    BY <1>0 DEF NothingRaised
  <2>1. ~raised
    BY <1>0 DEF CareParts, NothingRaised
  <2>2. CutShort
    BY <2>1 DEF Left, BodyOver
  <2>3. AtCall /\ Stumbles
    BY <2>2 DEF CutShort, GivenUp, Stumbles
  <2>4. Here \in PlacesIn(script, "body") /\ CallAt(script, Here) = Now /\ UnitAt(script, Here) = Unit
    BY <1>0, <2>3, HerePlace
  <2>5. Now.do \in Judged \/ (Now.do \in Seeks /\ ~Remains(script, Now.res, Here))
    BY <1>0, <2>3, RemainsExists DEF Stumbles
  <2>6. /\ Unit.fail = "raise" => "other" \in script.catch
        /\ Now.do \in Seeks => "coded" \in Unit.catch \cup script.catch
    BY <2>4, <2>5 DEF NeverRaises
  <2> QED
    BY <2>1, <2>2, <2>6 DEF CutShort
<1>10. Untroubled'
  BY <1>0 DEF CareParts, Untroubled
<1>11. SuccessSaid'
  <2> SUFFICES ASSUME NEW x \in cloud, AlwaysSucceeds(script, Made(x)) PROVE success'
    BY <1>0 DEF SuccessSaid
  <2>1. CASE BodyOver
    <3>1. DOMAIN tests = {} /\ script.graded = {}
      BY <1>0 DEF AlwaysSucceeds, TypeOK
    <3> QED
      BY <2>1, <3>1 DEF BodyOver, AllPassed
  <2>2. CASE CutShort
    <3>1. AtCall /\ Stumbles
      BY <2>2 DEF CutShort, GivenUp, Stumbles
    <3>2. /\ Here \in PlacesIn(script, "body") /\ CallAt(script, Here) = Now /\ UnitAt(script, Here) = Unit
          /\ Falters(script, Made(x), Here) /\ MayExist(script, Made(x), Here)
      BY <1>0, <3>1, HerePlace, FailingFalters
    <3>3. Leaves(script, Made(x), Here)
      BY <2>2, <3>2 DEF CutShort, Leaves
    <3> QED
      BY <3>2, <3>3 DEF AlwaysSucceeds
  <2> QED
    BY <2>1, <2>2 DEF Left
<1> QED
  BY <1>3, <1>4, <1>5, <1>6, <1>7, <1>8, <1>9, <1>10, <1>11, LeftSweeps DEF CareParts

-----------------------------------------------------------------------------
(* The end of the finally block: all of it is behind already.              *)
LEMMA CleanupEndsCare ==
    ASSUME Before, CleanupEnds
    PROVE  CareParts'
<1>0. /\ TypeOK /\ CareParts /\ part = "cleanup" /\ part # "done" /\ part' = "done" /\ unit \in Nat
      /\ unit > Len(script.cleanup) /\ Len(script.cleanup) \in Nat
      /\ UNCHANGED <<script, cloud, known, trouble, raised>> /\ success' = (success /\ ~trouble /\ ~raised)
  BY ScriptShape DEF Before, IInv, TypeOK, CleanupEnds
<1>1. ASSUME NEW p \in Places(script) PROVE Past(p) /\ Past(p)'
  <2>1. p.part = "body" \/ (p.part = "cleanup" /\ p.unit < unit)
    BY <1>0, PlaceShape DEF UnitsOf
  <2> QED
    BY <1>0, <2>1, PlaceShape, HereFields DEF Past, Prior
<1>2. Origins' /\ SweepDone'
  <2>1. \A z : MakesOf(script, z) \subseteq Places(script)
    BY DEF MakesOf
  <2>2. Origins'
    BY <1>0, <1>1, <2>1 DEF CareParts, Origins
  <2>3. SweepDone'
    BY <1>0, <1>1 DEF CareParts, SweepDone
  <2> QED
    BY <2>2, <2>3
<1>3. GuardHeld' /\ FoundIsFresh' /\ MandatoryHeld' /\ NothingFound' /\ ReleasedIsGone'
  BY <1>0 DEF GuardHeld, FoundIsFresh, MandatoryHeld, NothingFound, ReleasedIsGone
<1>4. TiesHold'
  BY <1>0 DEF CareParts, TiesHold, Making, Shed
<1>5. StillStands' /\ Together'
  <2>1. \A y : Unhit(y)' => Unhit(y)
    BY <1>0, <1>1 DEF Unhit
  <2> QED
    BY <1>0, <2>1 DEF CareParts, StillStands, Together, Making, Pending
<1>6. NothingRaised' /\ Untroubled'
  BY <1>0 DEF CareParts, NothingRaised, Untroubled
<1>7. SuccessSaid'
  BY <1>0 DEF CareParts, SuccessSaid, NothingRaised, Untroubled, AlwaysSucceeds
<1> QED
  BY <1>2, <1>3, <1>4, <1>5, <1>6, <1>7 DEF CareParts

(* Something that was told to terminate is gone, with what lives on it.    *)
LEMMA VanishCare ==
    ASSUME Before, Vanish \/ UNCHANGED vars
    PROVE  CareParts'
<1>0. /\ TypeOK /\ CareParts /\ cloud' \subseteq cloud
      /\ UNCHANGED <<script, part, unit, call, fresh, known, trouble, success, raised>>
  BY DEF Before, IInv, Vanish, vars, Without
<1>1. /\ Units' = Units /\ Unit' = Unit /\ Behind' = Behind /\ Here' = Here
  BY <1>0 DEF Units, Unit, Behind, Here
<1>2. \A p : Past(p)' <=> Past(p)
  BY <1>0, <1>1 DEF Past
<1>3. \A x : /\ (Making(x)' <=> Making(x)) /\ (Pending(x)' <=> Pending(x))
            /\ (Unhit(x)' <=> Unhit(x)) /\ (Shed(x)' <=> Shed(x))
  BY <1>0, <1>1, <1>2 DEF Making, Pending, Unhit, Shed
<1>4. ASSUME NEW y \in cloud, Unhit(y) PROVE y \in cloud'
  <2>1. CASE UNCHANGED vars
    BY <2>1 DEF vars
  <2>2. CASE Vanish
    <3>1. PICK x \in cloud : x.going /\ cloud' = Without(x.res)
      BY <2>2 DEF Vanish
    <3>2. PICK q \in Places(script) : Past(q) /\ CallAt(script, q).do = "terminate" /\ CallAt(script, q).res = x.res
      BY <1>0, <3>1 DEF CareParts, Origins
    <3>3. ~Hits(CallAt(script, q), y)
      BY <1>4, <3>2 DEF Unhit
    <3> QED
      BY <3>1, <3>2, <3>3 DEF Hits, Without
  <2> QED
    BY <2>1, <2>2
<1>5. Origins' /\ SweepDone' /\ TiesHold'
  BY <1>0, <1>2, <1>3 DEF CareParts, Origins, SweepDone, TiesHold
<1>6. GuardHeld' /\ FoundIsFresh' /\ MandatoryHeld' /\ NothingFound' /\ ReleasedIsGone'
  BY <1>0, <1>1, <1>2 DEF CareParts, GuardHeld, FoundIsFresh, MandatoryHeld, NothingFound, ReleasedIsGone
<1>7. StillStands' /\ Together'
  BY <1>0, <1>3, <1>4 DEF CareParts, StillStands, Together
<1>8. NothingRaised' /\ Untroubled' /\ SuccessSaid'
  BY <1>0 DEF CareParts, NothingRaised, Untroubled, SuccessSaid
<1> QED
  BY <1>5, <1>6, <1>7, <1>8 DEF CareParts

-----------------------------------------------------------------------------
(* Every step is one of these.  The calls:                                 *)
LEMMA CallsAreGranted ==
    ASSUME TypeOK, Create \/ Delete \/ StartTermination \/ WaitUntilGone \/ Find \/ Answer
    PROVE  Granted
<1>0. AtCall /\ call' = call + 1 /\ UNCHANGED <<name, script, part, unit, raised, trouble, success>>
  BY DEF Create, Delete, StartTermination, WaitUntilGone, Find, Answer, Proceed
<1>1. \A x : Kin(x, x)
  BY DEF Kin
<1>2. Now.do \in Deleting \cup {"terminate"} => Sheds(Unit, Now.res)
  <2>1. call \in DOMAIN Unit.calls /\ Now = Unit.calls[call]
    BY <1>0, CallShape DEF Now
  <2> QED
    BY <2>1 DEF Sheds
<1>3. CASE Create
  <2>1. /\ Now.do = "make" /\ cloud' = cloud \cup {Made(Now)} /\ fresh' = fresh \cup {Now.res} /\ known' = known
    BY <1>3 DEF Create, Made
  <2> QED
    BY <1>0, <1>1, <2>1 DEF Granted, Clears, Ends, Deleting
<1>4. CASE Delete
  <2>1. /\ Now.do \in Deleting /\ cloud' = Without(Now.res) /\ fresh' = fresh
        /\ known' = IF part = "cleanup" THEN known \ {Now.res} ELSE known
    BY <1>4 DEF Delete, Deleting
  <2>2. \A y \in cloud : ~Hits(Now, y) => y \in cloud'
    BY <2>1 DEF Hits, Without
  <2>3. \A x \in cloud' : x \in cloud /\ ~Clears(Now, x) /\ ~Ends(Now, x)
    BY <2>1 DEF Clears, Ends, Without, Deleting
  <2> QED
    BY <1>0, <1>1, <1>2, <2>1, <2>2, <2>3 DEF Granted, Deleting
<1>5. CASE StartTermination
  <2>1. /\ Now.do = "terminate" /\ fresh' = fresh
        /\ cloud' = {IF x.res = Now.res THEN [x EXCEPT !.going = TRUE] ELSE x : x \in cloud}
        /\ known' = IF part = "cleanup" THEN known \ {Now.res} ELSE known
    BY <1>5 DEF StartTermination
  <2>2. \A x \in cloud : LET z == [x EXCEPT !.going = TRUE] IN z.going /\ z.res = x.res /\ z.in = x.in /\ z.on = x.on
    BY DEF TypeOK, Resource
  <2>3. \A x \in cloud' : \E y \in cloud :
            /\ Kin(x, y) /\ (y.going => x.going)
            /\ x.going => y.going \/ (Now.do = "terminate" /\ Now.res = x.res)
    <3> SUFFICES ASSUME NEW y \in cloud, NEW x, x = IF y.res = Now.res THEN [y EXCEPT !.going = TRUE] ELSE y
                 PROVE  /\ Kin(x, y) /\ (y.going => x.going)
                        /\ x.going => y.going \/ (Now.do = "terminate" /\ Now.res = x.res)
      BY <2>1
    <3>1. CASE y.res = Now.res
      BY <2>1, <2>2, <3>1 DEF Kin
    <3>2. CASE y.res # Now.res
      BY <3>2 DEF Kin
    <3> QED
      BY <3>1, <3>2
  <2>4. \A y \in cloud : ~Hits(Now, y) => y \in cloud'
    BY <2>1 DEF Hits
  <2>5. \A x \in cloud' : ~Clears(Now, x) /\ (Ends(Now, x) => x.going)
    BY <2>1, <2>2 DEF Clears, Ends, Deleting
  <2> QED
    BY <1>0, <1>2, <2>1, <2>3, <2>4, <2>5 DEF Granted
<1>6. CASE WaitUntilGone
  <2>1. Now.do = "gone" /\ UNCHANGED <<cloud, fresh, known>> /\ \A x \in cloud : x.res # Now.res
    BY <1>6 DEF WaitUntilGone, Exists
  <2> QED
    BY <1>0, <1>1, <2>1 DEF Granted, Clears, Ends, Deleting
<1>7. CASE Find
  <2>1. Now.do = "look" /\ UNCHANGED <<cloud, known>> /\ fresh' = fresh \cup {Now.res}
    BY <1>7 DEF Find
  <2> QED
    BY <1>0, <1>1, <2>1 DEF Granted, Clears, Ends, Deleting
<1>8. CASE Answer
  <2>1. Now.do \in {"absent", "ask", "judge", "deny"} /\ UNCHANGED <<cloud, fresh, known>>
    BY <1>8 DEF Answer
  <2> QED
    BY <1>0, <1>1, <2>1 DEF Granted, Clears, Ends, Deleting
<1> QED
  BY <1>3, <1>4, <1>5, <1>6, <1>7, <1>8

(* The failures:                                                           *)
LEMMA FailuresEndUnits ==
    ASSUME Before, JudgedFalse \/ NotFound
    PROVE  Over \/ Left
<1>0. TypeOK /\ UNCHANGED <<name, script, cloud>> /\ Stumbles
  BY DEF Before, IInv, JudgedFalse, NotFound, Stumbles, Judged, Seeks
<1>1. /\ part \in {"body", "cleanup"} /\ part # "done" /\ unit <= Len(Units) /\ AtCall
      /\ Unit.fail \in {"go", "return", "raise", "succeed"}
  BY <1>0, UnitShape DEF Stumbles, AtCall, InUnit, TypeOK
<1>2. CASE UnitFails
  <2>1. GivenUp
    BY <1>0, <1>2 DEF GivenUp, UnitFails
  <2>2. CASE part = "cleanup"
    <3>1. NextUnit /\ trouble' = (trouble \/ Unit.notes) /\ UNCHANGED <<part, success, raised>>
      BY <1>2, <2>2 DEF UnitFails
    <3> QED
      BY <1>0, <1>1, <2>1, <2>2, <3>1 DEF Over, NextUnit
  <2>3. CASE part = "body" /\ Unit.fail = "go"
    <3>1. NextUnit /\ UNCHANGED <<part, trouble, success, raised>>
      BY <1>2, <2>3 DEF UnitFails
    <3> QED
      BY <1>0, <1>1, <2>1, <2>3, <3>1 DEF Over, NextUnit
  <2>4. CASE part = "body" /\ Unit.fail = "return"
    <3>1. EnterCleanup(TRUE, FALSE)
      BY <1>2, <2>4 DEF UnitFails
    <3> QED
      BY <1>0, <1>1, <2>1, <2>4, <3>1 DEF Left, CutShort, EnterCleanup, CleanupStart
  <2>5. CASE part = "body" /\ Unit.fail = "succeed"
    <3>1. ReturnEarly
      BY <1>2, <2>5 DEF UnitFails
    <3> QED
      BY <1>0, <1>1, <2>1, <2>5, <3>1 DEF Left, CutShort, ReturnEarly, CleanupStart
  <2>6. CASE part = "body" /\ Unit.fail = "raise"
    <3>1. LeaveBody("other")
      BY <1>2, <2>6 DEF UnitFails
    <3> QED
      BY <1>0, <1>1, <2>1, <2>6, <3>1 DEF Left, CutShort, LeaveBody, EnterCleanup, Abandon
  <2> QED
    BY <1>1, <2>2, <2>3, <2>4, <2>5, <2>6
<1>3. CASE ~UnitFails
  <2>1. NotFound /\ UnitRaises("coded") /\ "coded" \notin Unit.catch /\ Now.do \in Seeks
    BY <1>3 DEF JudgedFalse, NotFound, Throw, Seeks
  <2>2. part = "body"
    <3>1. SUFFICES ASSUME part = "cleanup" PROVE FALSE
      BY <1>1
    <3>2. Here \in PlacesIn(script, "cleanup") /\ CallAt(script, Here) = Now /\ UnitAt(script, Here) = Unit
      BY <1>0, <1>1, <3>1, HerePlace
    <3>3. Plain(script)
      BY <1>0, CareText DEF Before
    <3> QED
      BY <2>1, <3>2, <3>3 DEF Plain
  <2>3. GivenUp /\ LeaveBody("coded")
    BY <1>0, <2>1, <2>2 DEF GivenUp, UnitRaises
  <2> QED
    BY <1>0, <1>1, <2>1, <2>2, <2>3 DEF Left, CutShort, LeaveBody, EnterCleanup, Abandon
<1> QED
  BY <1>2, <1>3

(* The ends of units and of the body:                                      *)
LEMMA UnitsAreOver ==
    ASSUME TypeOK, SkipUnit \/ UnitPasses
    PROVE  Over
<1>1. CASE SkipUnit
  BY <1>1 DEF SkipUnit, NextUnit, Over, Skipped
<1>2. CASE UnitPasses
  BY <1>2 DEF UnitPasses, NextUnit, Over, Complete, InUnit
<1> QED
  BY <1>1, <1>2

(* The body is left at its end.                                            *)
LEMMA BodyIsOver == BodyEnds => Left
BY DEF BodyEnds, Left, BodyOver, CleanupStart

(* So no step of a careful script disturbs the account, as long as every   *)
(* request is granted.                                                     *)
LEMMA NextCare == IInv /\ Progress /\ CareInv /\ [Next]_vars => CareInv'
<1> SUFFICES ASSUME IInv, Progress, CareInv, [Next]_vars, faults' = 0, Careful(name)' PROVE CareParts'
  BY DEF CareInv
<1>1. name' = name /\ faults \in Nat /\ TypeOK
  BY DEF IInv, TypeOK, Next, Step, vars, SkipUnit, Create, Delete, DeleteRefused, NotFound, StartTermination,
         WaitUntilGone, Find, Answer, JudgedFalse, CallFails, TakenForRefusal, AnswerLost, UnitPasses, BodyEnds,
         CleanupEnds, Vanish, Proceed
<1>2. Careful(name)
  BY <1>1 DEF Careful
<1>3. ~CallFails /\ ~TakenForRefusal /\ ~AnswerLost
  BY <1>1 DEF CallFails, TakenForRefusal, AnswerLost
<1>4. faults' = faults
  BY <1>3 DEF Next, Step, vars, SkipUnit, Create, Delete, DeleteRefused, NotFound, StartTermination,
         WaitUntilGone, Find, Answer, JudgedFalse, UnitPasses, BodyEnds, CleanupEnds, Vanish, Proceed
<1>5. Before
  BY <1>2, <1>4 DEF Before, CareInv
<1>6. CASE Create \/ Delete \/ StartTermination \/ WaitUntilGone \/ Find \/ Answer
  BY <1>1, <1>5, <1>6, CallsAreGranted, GrantedCare
<1>7. CASE SkipUnit \/ UnitPasses
  BY <1>1, <1>5, <1>7, UnitsAreOver, OverCare
<1>8. CASE JudgedFalse \/ NotFound
  BY <1>5, <1>8, FailuresEndUnits, OverCare, LeftCare
<1>9. CASE BodyEnds
  BY <1>5, <1>9, BodyIsOver, LeftCare
<1>10. CASE CleanupEnds
  BY <1>5, <1>10, CleanupEndsCare
<1>11. CASE Vanish \/ UNCHANGED vars
  BY <1>5, <1>11, VanishCare
<1>12. ~DeleteRefused
  BY <1>1, <1>5, NoRefusal DEF Before
<1> QED
  BY <1>3, <1>6, <1>7, <1>8, <1>9, <1>10, <1>11, <1>12 DEF Next, Step

(* It holds when the script starts.                                        *)
LEMMA InitCare == Init => CareInv
<1> SUFFICES ASSUME Init, Careful(name) PROVE CareParts
  BY DEF CareInv
<1>0. TypeOK /\ Plain(script)
  BY InitInv, CareText DEF IInv
<1>1. /\ part = "body" /\ unit = 1 /\ call = 1 /\ cloud = script.given /\ known = script.names
      /\ trouble = FALSE /\ raised = FALSE
  BY DEF Init
<1>2. \A x \in cloud : ~x.going /\ Made(x) = x
  BY <1>0, <1>1, MadeIsMade, ScriptShape DEF Plain
<1>3. \A p \in Places(script) : ~Past(p)
  BY <1>0, <1>1, PastIs, PlaceShape
<1>4. Origins /\ SweepDone /\ StillStands /\ Together
  <2>1. \A y : ~Making(y)
    BY <1>0, <1>1, MakesPlace DEF Making
  <2>2. Origins /\ SweepDone
    BY <1>1, <1>2, <1>3 DEF Origins, SweepDone
  <2>3. StillStands /\ Together
    BY <1>1, <1>2, <2>1 DEF StillStands, Together, Companions
  <2> QED
    BY <2>2, <2>3
<1>5. GuardHeld /\ FoundIsFresh /\ MandatoryHeld /\ NothingFound /\ ReleasedIsGone
  <2>1. Behind = {} /\ DOMAIN script.body \subseteq Nat \ {0}
    BY <1>0, <1>1, ScriptShape DEF Behind
  <2> QED
    BY <1>1, <2>1 DEF GuardHeld, FoundIsFresh, MandatoryHeld, NothingFound, ReleasedIsGone
<1>6. TiesHold
  BY <1>1, <1>2 DEF TiesHold, Tied, Kept
<1>7. NothingRaised /\ Untroubled /\ SuccessSaid
  BY <1>1 DEF NothingRaised, Untroubled, SuccessSaid
<1> QED
  BY <1>4, <1>5, <1>6, <1>7 DEF CareParts

(* At the end: what is left was neither swept nor, if it was handed on,    *)
(* lost track of.                                                          *)
LEMMA CareEndsClean ==
    ASSUME TypeOK, CareInv, Careful(name)
    PROVE  CleanWithoutFaults
<1> SUFFICES ASSUME part = "done", faults = 0, NEW x \in cloud, ~x.going, <<name, x.res>> \notin LeftBehind
             PROVE  HandedOver /\ Traced(x)
  BY DEF CleanWithoutFaults, Ended, Leftover
<1>1. CareParts /\ \A p : Past(p)
  BY DEF CareInv, Past
<1>2. Made(x).res = x.res /\ Made(x).on = x.on /\ Kin(x, Made(x))
  BY MadeIsMade DEF Kin
<1>3. Made(x) \in Possible(script)
  BY <1>1 DEF CareParts, Origins, Possible, MakesOf
<1>4. ~Swept(script, Made(x))
  <2> SUFFICES ASSUME NEW p \in Places(script), Reached(script, Made(x), p),
                      Clears(CallAt(script, p), Made(x)) \/ Ends(CallAt(script, p), Made(x))
               PROVE  FALSE
    BY DEF Swept
  <2>1. ~Clears(CallAt(script, p), x) /\ (Ends(CallAt(script, p), x) => x.going)
    BY <1>1 DEF CareParts, SweepDone
  <2> QED
    BY <1>2, <2>1, KinMade
<1>5. HandedOn(script, Made(x))
  BY <1>2, <1>3, <1>4, CareText
<1>6. PICK g \in {x.res, x.on} :
          Tied(script, Made(x), g) /\ \A i \in DOMAIN script.cleanup : ~Sheds(script.cleanup[i], g)
  BY <1>2, <1>5 DEF HandedOn
<1>7. g \in known
  BY <1>1, <1>6 DEF CareParts, TiesHold, Making, Shed
<1>8. HandedOver
  BY <1>1, <1>5 DEF HandedOn, HandedOver, CareParts, NothingRaised, SuccessSaid
<1> QED
  BY <1>6, <1>7, <1>8 DEF Traced

(* A careful script, which can be seen without executing it, leaves        *)
(* nothing behind when its requests are granted but what it hands on to a  *)
(* later step by a document that names it: whichever tests came out        *)
(* negative and whatever was not found, the deletes are reached, in an     *)
(* order that the cloud accepts.                                           *)
THEOREM CarefulScriptsEndClean == Spec => [](Careful(name) => CleanWithoutFaults)
<1> DEFINE Inv == IInv /\ Progress /\ CareInv
<1>1. Init => Inv
  BY InitInv, InitTrace, InitCare
<1>2. Inv /\ [Next]_vars => Inv'
  BY NextInv, NextProgress, NextCare
<1>3. Inv => (Careful(name) => CleanWithoutFaults)
  BY CareEndsClean DEF IInv
<1> QED
  BY <1>1, <1>2, <1>3, PTL DEF Spec

(* As long as no request has failed, the cloud refuses none of the deletes *)
(* of a careful script: nothing is deleted before what is inside of it.    *)
THEOREM CarefulDeletesAreAccepted ==
    Spec => [][Careful(name) /\ faults = 0 => ~DeleteRefused]_vars
<1> DEFINE Inv == IInv /\ Progress /\ CareInv
<1>1. Init => Inv
  BY InitInv, InitTrace, InitCare
<1>2. Inv /\ [Next]_vars => Inv'
  BY NextInv, NextProgress, NextCare
<1>3. Inv => (Careful(name) /\ faults = 0 => ~DeleteRefused)
  BY NoRefusal DEF IInv, CareInv
<1> QED
  BY <1>1, <1>2, <1>3, PTL DEF Spec
=============================================================================
