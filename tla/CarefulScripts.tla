--------------------------- MODULE CarefulScripts ---------------------------
(***************************************************************************)
(* Why a script whose requests are all granted leaves nothing behind,      *)
(* without executing it: its deletes come in an order the cloud accepts,   *)
(* and what main must know to get to them it knows whenever there is       *)
(* something to delete.  Without a failing request a unit fails for two    *)
(* reasons only, a negative answer and something that is not found.        *)
(***************************************************************************)
EXTENDS ScriptResources

-----------------------------------------------------------------------------
(***************************************************************************)
(* The places of a script: a call of a unit of one of its two parts.       *)
(***************************************************************************)
At(w, i, k)   == [part |-> w, unit |-> i, call |-> k]
UnitsOf(s, w) == IF w = "body" THEN s.body ELSE s.cleanup
UnitAt(s, p)  == UnitsOf(s, p.part)[p.unit]
CallAt(s, p)  == UnitAt(s, p).calls[p.call]
PlacesIn(s, w) ==
    UNION {{At(w, i, k) : k \in DOMAIN UnitsOf(s, w)[i].calls} : i \in DOMAIN UnitsOf(s, w)}
Places(s)     == PlacesIn(s, "body") \cup PlacesIn(s, "cleanup")
Prior(p, q)   ==
    \/ p.part = "body" /\ q.part = "cleanup"
    \/ p.part = q.part /\ (p.unit < q.unit \/ (p.unit = q.unit /\ p.call < q.call))

(***************************************************************************)
(* What may exist at a place, and what is certain to be there: x itself,   *)
(* what was given and is not touched before, and what the unit that made x *)
(* made along with it.                                                     *)
(***************************************************************************)
Judged == {"judge", "deny", "absent"}
Seeks  == {"drop", "look"}
Made(c) == [res |-> c.res, in |-> c.in, on |-> c.on, going |-> FALSE]
MakesOf(s, x) == {p \in Places(s) : CallAt(s, p).do = "make" /\ Made(CallAt(s, p)) = x}
Possible(s) == s.given \cup {Made(CallAt(s, p)) : p \in {q \in Places(s) : CallAt(s, q).do = "make"}}
MayExist(s, x, p) == x \in s.given \/ \E q \in MakesOf(s, x) : Prior(q, p)

Spotless(s, y, p) == \A q \in Places(s) : Prior(q, p) => ~Hits(CallAt(s, q), y)
Remains(s, r, p)  == \E y \in s.given : y.res = r /\ Spotless(s, y, p)
Companions(s, x, y) ==
    /\ x \notin s.given
    /\ \A p \in MakesOf(s, x) : \E q \in MakesOf(s, y) : q.unit = p.unit /\ q.call <= p.call + 1
Present(s, x, r, p) ==
    \/ r = x.res \/ Remains(s, r, p)
    \/ \E y \in Possible(s) : y.res = r /\ Companions(s, x, y) /\ Spotless(s, y, p)

(***************************************************************************)
(* A call Falters that may fail while x exists, a unit Leaves the body     *)
(* when main then returns or raises, or does not catch it.                 *)
(***************************************************************************)
Falters(s, x, p) ==
    \/ CallAt(s, p).do \in Judged
    \/ CallAt(s, p).do \in Seeks /\ ~Present(s, x, CallAt(s, p).res, p)
Leaves(s, x, p) ==
    /\ MayExist(s, x, p) /\ Falters(s, x, p)
    /\ UnitAt(s, p).fail # "go" \/ (CallAt(s, p).do \in Seeks /\ "coded" \notin UnitAt(s, p).catch)

-----------------------------------------------------------------------------
(***************************************************************************)
(* The id g is Tied to x when main holds it whenever x exists, but for the *)
(* time in which a unit that makes x is under way.  It is Secured before   *)
(* the unit, by its condition, the arguments or a unit that main does not  *)
(* get past without; or Brought by the unit, which does not fail any more  *)
(* or hands over what it has.  It is set to None only when x is gone.      *)
(***************************************************************************)
NeverLost(s, g) == \A i \in DOMAIN s.body : g \notin s.body[i].forgets \cup s.body[i].loses
Mandatory(u) == u.needs = {} /\ u.guard = {} /\ u.after = {} /\ u.fail # "go"
Secured(s, i, g) ==
    \/ g \in s.body[i].guard \cup Kept(s)
    \/ /\ NeverLost(s, g)
       /\ \E j \in DOMAIN s.body : j < i /\ Mandatory(s.body[j]) /\ g \in Ids(s.body[j])
Steady(s, x, i, K) == \A k \in K : ~Falters(s, x, At("body", i, k))
Brought(s, x, g, i, k) ==
    \/ /\ g \in Ids(s.body[i])
       /\ Steady(s, x, i, {l \in DOMAIN s.body[i].calls : l > k})
    \/ /\ s.body[i].keeps
       /\ \E l \in DOMAIN s.body[i].calls :
             l <= k /\ s.body[i].calls[l].do \in {"make", "look"} /\ s.body[i].calls[l].res = g
       /\ \/ s.body[i].catch = None
          \/ \A l \in DOMAIN s.body[i].calls : l > k /\ s.body[i].calls[l].do \in Seeks => "coded" \in s.body[i].catch
LosesLate(s, x, i) ==
    \/ Steady(s, x, i, DOMAIN s.body[i].calls)
    \/ \E k \in DOMAIN s.body[i].calls :
          /\ s.body[i].calls[k].do \in Deleting /\ s.body[i].calls[k].res = x.res
          /\ \A l \in Makes(s.body[i]) : x.res \notin {s.body[i].calls[l].res, s.body[i].calls[l].on}
          /\ Steady(s, x, i, {l \in DOMAIN s.body[i].calls : l < k})
Tied(s, x, g) ==
    /\ x \in s.given => g \in Kept(s)
    /\ \A i \in DOMAIN s.body :
          /\ g \in s.body[i].forgets => Deletes(s.body[i], x.res)
          /\ g \in s.body[i].loses => LosesLate(s, x, i)
    /\ \A p \in MakesOf(s, x) :
          /\ g \notin s.body[p.unit].forgets \cup s.body[p.unit].loses
          /\ Secured(s, p.unit, g) \/ Brought(s, x, g, p.unit, p.call)

-----------------------------------------------------------------------------
(***************************************************************************)
(* The call at p is Reached whenever x exists: main gets to its unit, what *)
(* must have gone before is Released, no earlier call of the unit falters. *)
(***************************************************************************)
Releases(s, a, i, k) ==
    /\ s.cleanup[i].needs = {} /\ s.cleanup[i].after = {} /\ s.cleanup[i].guard \subseteq {a}
    /\ s.cleanup[i].calls[k].do \in {"purge", "retry", "terminate"} /\ s.cleanup[i].calls[k].res = a
    /\ \A l \in DOMAIN s.cleanup[i].calls : l < k => s.cleanup[i].calls[l].do \notin Judged \cup Seeks
Released(s, a, j) ==
    \E i \in DOMAIN s.cleanup : i < j /\ \E k \in DOMAIN s.cleanup[i].calls : Releases(s, a, i, k)
ReachedInBody(s, x, i) ==
    /\ s.body[i].after = {}
    /\ \A q \in MakesOf(s, x) : q.unit < i
    /\ \A q \in PlacesIn(s, "body") : q.unit < i => ~Leaves(s, x, q)
ReachedInCleanup(s, i) ==
    /\ s.sure
    /\ \A a \in s.cleanup[i].after : Released(s, a, i)
    /\ \A g \in s.cleanup[i].guard : \A j \in DOMAIN s.cleanup : j < i => ~Sheds(s.cleanup[j], g)
Reached(s, x, p) ==
    /\ UnitAt(s, p).needs = {} /\ \A g \in UnitAt(s, p).guard : Tied(s, x, g)
    /\ IF p.part = "body" THEN ReachedInBody(s, x, p.unit) ELSE ReachedInCleanup(s, p.unit)
    /\ \A l \in DOMAIN UnitAt(s, p).calls : l < p.call => ~Falters(s, x, At(p.part, p.unit, l))
    /\ CallAt(s, p).do = "drop" => Present(s, x, CallAt(s, p).res, p)

\* What x is after the call: gone, or on its way out.
Clears(c, x) == (c.do = "gone" /\ c.res = x.res) \/ (c.do \in Deleting /\ c.res \in {x.res, x.on})
Ends(c, x)   == c.do = "terminate" /\ c.res = x.res

(***************************************************************************)
(* Nothing is deleted before what may be inside of it; a delete that is    *)
(* repeated outlasts what is terminating.                                  *)
(***************************************************************************)
InOrder(s) ==
    \A p \in Places(s) : CallAt(s, p).do \in Deleting =>
        \A y \in Possible(s) : CallAt(s, p).res \in y.in /\ MayExist(s, y, p) =>
            \E q \in Places(s) :
                /\ Prior(q, p) /\ Reached(s, y, q)
                /\ \/ Clears(CallAt(s, q), y)
                   \/ CallAt(s, p).do = "retry" /\ Ends(CallAt(s, q), y)

(***************************************************************************)
(* What becomes of x: it is Swept, or HandedOn to a later step by a        *)
(* document that is printed and names it.                                  *)
(***************************************************************************)
Swept(s, x) ==
    \E p \in Places(s) : Reached(s, x, p) /\ (Clears(CallAt(s, p), x) \/ Ends(CallAt(s, p), x))
NeverRaises(s) ==
    \A p \in PlacesIn(s, "body") :
        CallAt(s, p).do \in Judged \/ (CallAt(s, p).do \in Seeks /\ ~Remains(s, CallAt(s, p).res, p)) =>
            /\ UnitAt(s, p).fail = "raise" => "other" \in s.catch
            /\ CallAt(s, p).do \in Seeks => "coded" \in UnitAt(s, p).catch \cup s.catch
AlwaysSucceeds(s, x) ==
    /\ s.cleanup = <<>> /\ TestNames(s) = {} /\ s.graded = {}
    /\ \A i \in DOMAIN s.body : ~s.body[i].notes
    /\ \A p \in PlacesIn(s, "body") : ~Leaves(s, x, p)
HandedOn(s, x) ==
    /\ NeverRaises(s)
    /\ s.hands = "always" \/ (s.hands = "success" /\ AlwaysSucceeds(s, x))
    /\ \E g \in {x.res, x.on} : Tied(s, x, g) /\ \A i \in DOMAIN s.cleanup : ~Sheds(s.cleanup[i], g)

\* The finally block finds no new ids, and takes what it does not find for deleted.
Plain(s) ==
    /\ \A x \in s.given : ~x.going
    /\ \A i \in DOMAIN s.cleanup : Ids(s.cleanup[i]) = {}
    /\ \A p \in PlacesIn(s, "cleanup") : CallAt(s, p).do \in Seeks => "coded" \in UnitAt(s, p).catch
Careful(n) ==
    /\ Plain(Scripts[n]) /\ InOrder(Scripts[n])
    /\ \A x \in Possible(Scripts[n]) :
          <<n, x.res>> \in LeftBehind \/ Swept(Scripts[n], x) \/ HandedOn(Scripts[n], x)
=============================================================================
