--------------------------- MODULE ScriptResources ---------------------------
(***************************************************************************)
(* What a provider script leaves in the cloud, and the conditions on the   *)
(* text of a script under which it keeps its promises whatever the cloud   *)
(* refuses.                                                                *)
(***************************************************************************)
EXTENDS ProviderScript

CONSTANTS
    LeftBehind, \* <<n, r>>: script n is known to leave r without a document that names it
    Teardowns,  \* the scripts of the teardown phase
    Tolerated   \* <<n, r>>: teardown n may leave r without saying so

(***************************************************************************)
(* Why a script that says success has lost track of nothing, again without *)
(* executing it.  Carriers are what associations live on; Kept are the ids *)
(* from the arguments that no unit of the body sets to None.  To forget r  *)
(* is no loss when r is Spared, or when the unit Deletes it and makes it   *)
(* not again.  What the k-th call of u makes Survives a failure of u when  *)
(* main holds its id all the same, or when u cannot fail between the       *)
(* request and the return.                                                 *)
(***************************************************************************)
Deleting == {"drop", "purge", "retry"}
Makes(u) == {k \in DOMAIN u.calls : u.calls[k].do = "make"}
Attached(u) == {u.calls[k].on : k \in DOMAIN u.calls}
Carriers(s) == UNION ({Attached(s.body[i]) : i \in DOMAIN s.body} \cup {{x.on} : x \in s.given}
                      \cup {Attached(s.cleanup[i]) : i \in DOMAIN s.cleanup})
Kept(s) == s.names \ UNION {s.body[i].forgets \cup s.body[i].loses : i \in DOMAIN s.body}
Spared(n, r) == <<n, r>> \in LeftBehind /\ r \notin Carriers(Scripts[n])
Deletes(u, r) ==
    \E k \in DOMAIN u.calls :
        /\ u.calls[k].do \in Deleting /\ u.calls[k].res = r
        /\ \A l \in Makes(u) : l > k => r \notin {u.calls[l].res, u.calls[l].on}
MayFail(s, u, l) ==
    u.calls[l].do \in {"judge", "deny", "absent"} \/ Throwable(s, u.calls[l]) \cap u.catch # {}
Survives(n, u, k) ==
    \/ <<n, u.calls[k].res>> \in LeftBehind \/ u.calls[k].res \in Kept(Scripts[n])
    \/ /\ (u.calls[k].errs \ Client) \cap u.catch = {}
       /\ u.keeps \/ \A l \in DOMAIN u.calls : l > k => ~MayFail(Scripts[n], u, l)

(***************************************************************************)
(* A unit of the body is tidy when its failure ends the body without       *)
(* success, or loses nothing (Harmless), or is recorded in a test that     *)
(* decides the verdict and that no later unit overwrites (Decides).  A     *)
(* unit of the finally block makes nothing, and reports an error before it *)
(* forgets an id.  What exists before the script has an id main was given. *)
(***************************************************************************)
Harmless(n, u) == (\A r \in u.loses : Spared(n, r)) /\ \A k \in Makes(u) : Survives(n, u, k)
Decides(s, i) ==
    /\ s.body[i].test # "" /\ (s.graded = {} \/ s.body[i].test \in s.graded)
    /\ \A j \in DOMAIN s.body : j > i => s.body[j].test # s.body[i].test /\ s.body[j].fail # "succeed"
ForgetsSafely(n, u) == \A r \in u.forgets : Spared(n, r) \/ Deletes(u, r)
TidyBody(n, i) ==
    /\ ForgetsSafely(n, Scripts[n].body[i])
    /\ \/ Scripts[n].body[i].fail \in {"return", "raise"}
       \/ Harmless(n, Scripts[n].body[i])
       \/ Scripts[n].body[i].fail = "go" /\ Decides(Scripts[n], i)
TidyCleanup(n, u) ==
    /\ ForgetsSafely(n, u)
    /\ u.notes \/ \A r \in u.loses : Spared(n, r)
    /\ Makes(u) = {}
    /\ \A k \in DOMAIN u.calls : u.calls[k].do = "terminate" => u.calls[k].res \notin Carriers(Scripts[n])
Tidy(n) ==
    /\ \A x \in Scripts[n].given :
          x.res \in Scripts[n].names \/ x.on \in Scripts[n].names \/ <<n, x.res>> \in LeftBehind
    /\ \A i \in DOMAIN Scripts[n].body : TidyBody(n, i)
    /\ \A i \in DOMAIN Scripts[n].cleanup : TidyCleanup(n, Scripts[n].cleanup[i])

(***************************************************************************)
(* Why a teardown that says success has deleted what it was given.  A call *)
(* c that was granted Covers x when x cannot stand any more: it deleted x, *)
(* what x lives on, or what x is inside of, which the cloud refuses while  *)
(* x is there.  A unit of the body Insists when its failure ends the body  *)
(* without success and nothing passes it over, one of the finally block    *)
(* when its failure is an error to report and main still holds the ids it  *)
(* asks for.                                                               *)
(***************************************************************************)
Covers(c, x) ==
    \/ c.do \in Deleting /\ (c.res \in {x.res, x.on} \/ c.res \in x.in)
    \/ c.do \in {"terminate", "gone"} /\ c.res = x.res
InsistsBody(s, i) ==
    /\ s.body[i].needs = {} /\ s.body[i].after = {} /\ s.body[i].guard \subseteq Kept(s)
    /\ s.body[i].fail # "go"
Sheds(u, r) ==
    \/ r \in u.forgets \cup u.loses
    \/ \E k \in DOMAIN u.calls : u.calls[k].do \in Deleting \cup {"terminate"} /\ u.calls[k].res = r
InsistsCleanup(s, i) ==
    /\ s.sure /\ s.cleanup[i].notes /\ ~s.cleanup[i].inner /\ s.cleanup[i].needs = {}
    /\ s.cleanup[i].guard \subseteq Kept(s)
    /\ \A j \in DOMAIN s.cleanup : \A r \in s.cleanup[i].guard : j < i => ~Sheds(s.cleanup[j], r)

(***************************************************************************)
(* A unit that ends the body with success when it fails may do so only if  *)
(* there was nothing to do.  Here there is: none of its conditions can be  *)
(* false, and what it looks for was given and nothing before touches it.   *)
(***************************************************************************)
Hits(c, x) == c.do \in Deleting \cup {"terminate"} /\ c.res \in {x.res, x.on}
Untouched(s, x, i, k) ==
    \A j \in DOMAIN s.body : \A l \in DOMAIN s.body[j].calls :
        (j < i \/ (j = i /\ l < k)) => ~Hits(s.body[j].calls[l], x)
NeverSettles(s, i) ==
    \A k \in DOMAIN s.body[i].calls :
        /\ s.body[i].calls[k].do \notin {"judge", "deny", "absent"}
        /\ s.body[i].calls[k].errs \cap s.body[i].catch = {}
        /\ "client" \in s.body[i].catch => s.body[i].calls[k].do \notin Deleting
        /\ s.body[i].calls[k].do \in {"drop", "look"} /\ "coded" \in s.body[i].catch =>
              \E x \in s.given : x.res = s.body[i].calls[k].res /\ Untouched(s, x, i, k)

\* The script says success only after a call that covers x was granted.
Removes(s, x) ==
    \/ \E i \in DOMAIN s.body : InsistsBody(s, i)
          /\ \E k \in DOMAIN s.body[i].calls : Covers(s.body[i].calls[k], x)
    \/ \E i \in DOMAIN s.cleanup : InsistsCleanup(s, i)
          /\ \E k \in DOMAIN s.cleanup[i].calls : Covers(s.cleanup[i].calls[k], x)
Thorough(n) ==
    /\ \A i \in DOMAIN Scripts[n].body :
          /\ Makes(Scripts[n].body[i]) = {}
          /\ Scripts[n].body[i].fail = "succeed" => NeverSettles(Scripts[n], i)
    /\ \A i \in DOMAIN Scripts[n].cleanup : Makes(Scripts[n].cleanup[i]) = {}
    /\ \A x \in Scripts[n].given :
          ~x.going /\ (<<n, x.res>> \in Tolerated \/ Removes(Scripts[n], x))

ASSUME TeardownAssumption == \A n \in Teardowns : Thorough(n)

(***************************************************************************)
(* The deletes of script s that fail unseen: an error of the unit is only  *)
(* logged, or is a warning that no check reads; it is neither recorded in  *)
(* cleanup_errors nor in a test that decides the verdict                   *)
(* (traffic_test.py:349-392; the result of delete_with_retry, where it is  *)
(* ignored).                                                               *)
(***************************************************************************)
DeletedBy(u) == {u.calls[k].res : k \in {k \in DOMAIN u.calls : u.calls[k].do \in Deleting \cup {"terminate"}}}
Grades(s, t) == t # "" /\ (s.graded = {} \/ t \in s.graded)
Unseen(s) ==
    UNION ({DeletedBy(s.cleanup[i]) : i \in {i \in DOMAIN s.cleanup : ~s.cleanup[i].notes}}
           \cup {DeletedBy(s.body[i]) : i \in {i \in DOMAIN s.body :
                                          s.body[i].fail = "go" /\ ~Grades(s, s.body[i].test)}})

(***************************************************************************)
(* Why a script that says success has swept up.  The i-th unit of the      *)
(* finally block Sweeps r when main gets to it, with the id of r in hand,  *)
(* unless an error before it is reported, and its own failure is an error  *)
(* to report.  Arrivals are what may come to exist, and on what.           *)
(***************************************************************************)
AllIds(s) == s.names \cup UNION {Ids(s.body[i]) : i \in DOMAIN s.body}
FindsNothing(s) == \A i \in DOMAIN s.cleanup : Ids(s.cleanup[i]) = {}
Sweeps(s, i, r) ==
    /\ s.cleanup[i].notes /\ s.cleanup[i].needs = {} /\ s.cleanup[i].guard \subseteq {r}
    /\ s.cleanup[i].inner => \A j \in DOMAIN s.cleanup : s.cleanup[j].inner => s.cleanup[j].notes
    /\ r \in DeletedBy(s.cleanup[i])
Arrivals(s) ==
    {<<x.res, x.on>> : x \in s.given}
    \cup UNION {{<<s.body[i].calls[k].res, s.body[i].calls[k].on>> : k \in Makes(s.body[i])} : i \in DOMAIN s.body}
SweptIn(s, r) == r \in AllIds(s) => \E i \in DOMAIN s.cleanup : Sweeps(s, i, r)
Diligent(n) ==
    Scripts[n].hands = "never" =>
        /\ Scripts[n].sure /\ FindsNothing(Scripts[n])
        /\ \A o \in Arrivals(Scripts[n]) :
              \/ {o[1], o[2]} \cap Unseen(Scripts[n]) # {} \/ <<n, o[1]>> \in LeftBehind
              \/ SweptIn(Scripts[n], o[1]) /\ SweptIn(Scripts[n], o[2])

-----------------------------------------------------------------------------
Leftover == {x \in cloud : ~x.going}
Traced(x) == x.res \in known \/ x.on \in known \/ <<name, x.res>> \in LeftBehind
HandedOver == ~raised /\ (script.hands = "always" \/ (script.hands = "success" /\ success))

(***************************************************************************)
(* A script whose requests are all granted leaves nothing behind,          *)
(* whichever of its tests came out negative: the cleanup deletes           *)
(* everything the body made, in an order the cloud accepts.  A script that *)
(* works for a later step leaves what its document names.                  *)
(***************************************************************************)
CleanWithoutFaults ==
    Ended /\ faults = 0 =>
        \A x \in Leftover : <<name, x.res>> \in LeftBehind \/ (HandedOver /\ Traced(x))

(***************************************************************************)
(* A script that says success lost track of nothing: what is left is what  *)
(* it holds the id of and the cloud refused to delete, and what it is      *)
(* known to leave.                                                         *)
(***************************************************************************)
SuccessOrphansNothing == Ended /\ success => \A x \in Leftover : Traced(x)

(***************************************************************************)
(* A script that says success is not silent about what the cloud refused   *)
(* to delete: what is left is named by its document, is known to stay, or  *)
(* is among the deletes whose failure the code does not report.            *)
(***************************************************************************)
SuccessSweeps ==
    Ended /\ success => \A x \in Leftover :
        \/ HandedOver /\ Traced(x)
        \/ <<name, x.res>> \in LeftBehind
        \/ {x.res, x.on} \cap Unseen(script) # {}

(***************************************************************************)
(* A teardown that says success has deleted the fixture: a delete that was *)
(* refused, and one that was not tried because an earlier one failed, turn *)
(* success off.  The orchestrator reports the phase by this value only.    *)
(* What is Tolerated is exempt: the security group and the key of an       *)
(* instance and the snapshot of an image, whose failed delete is only a    *)
(* warning, a flow log whose delete is listed as unsuccessful, and the     *)
(* instance of somebody else that a volume was attached to.                *)
(***************************************************************************)
TeardownSuccessMeansGone ==
    Ended /\ success /\ name \in Teardowns => \A x \in Leftover : <<name, x.res>> \in Tolerated
=============================================================================
