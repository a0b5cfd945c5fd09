--------------------------- MODULE ScriptLanguage ---------------------------
(***************************************************************************)
(* The vocabulary in which the provider scripts of                         *)
(* isvctl/configs/providers are written down.  A script has a body and a   *)
(* cleanup (its finally block), each a sequence of units.  A unit is a     *)
(* helper function or a try block: calls made one after the other, the     *)
(* exceptions it catches, and what main does with its result.              *)
(*                                                                         *)
(* What a request sends and what is read from its answer is data; which    *)
(* calls there are, in which order, who catches what, and which ids main   *)
(* still holds when something goes wrong is what a unit records.           *)
(***************************************************************************)
EXTENDS Naturals, Sequences, FiniteSets

(***************************************************************************)
(* ClientError, one whose code the handler singles out (no such entity,    *)
(* not offered in this zone), BotoCoreError (waiters and connections raise *)
(* it), any other exception, and an exit code that is not zero.            *)
(***************************************************************************)
Errors == {"client", "coded", "boto", "other", "exit"}
None   == {}
Coded  == {"coded"}
Client == {"client", "coded"}
Aws    == Client \cup {"boto"}
All    == Errors
Faults == {"client", "boto"}  \* how a request to the cloud may fail

-----------------------------------------------------------------------------
(***************************************************************************)
(* Calls.  in names the resources that cannot be deleted before the new    *)
(* one, as the arguments of its request do; an association lives on        *)
(* another resource and goes with it.  Resources that one request creates  *)
(* or deletes together are one resource, and one ask stands for several    *)
(* requests in a row.                                                      *)
(***************************************************************************)
Call(do, res, in, errs) == [do |-> do, res |-> res, in |-> in, on |-> "", errs |-> errs]

Make(r, in)  == Call("make", r, in, Faults)      \* create r
Attach(r, host, in) == [Make(r, in) EXCEPT !.on = host]
Drop(r)      == Call("drop", r, {}, Faults)      \* delete r
Purge(r)     == Call("purge", r, {}, Faults)     \* delete r; already gone is success
Retry(r)     == Call("retry", r, {}, Faults)     \* the same, repeated while r is in use
Terminate(r) == Call("terminate", r, {}, Faults) \* start to terminate r
Gone(r)      == Call("gone", r, {}, {"boto"})    \* wait until r has terminated
EndAll(rs)   ==                                  \* one request, one wait for all of rs
    [i \in 1 .. Len(rs) |-> [Terminate(rs[i]) EXCEPT !.errs = IF i = 1 THEN @ ELSE {}]]
    \o [i \in 1 .. Len(rs) |-> [Gone(rs[i]) EXCEPT !.errs = IF i = 1 THEN @ ELSE {}]]
Also(r, in)  == Call("make", r, in, {})          \* created by the request before
Fit(r, in)   == [Make(r, in) EXCEPT !.errs = Faults \cup Coded] \* may not be offered here
Look(r)      == Call("look", r, {}, Faults)      \* describe r; it may not exist
Shown(r)     == Call("look", r, {}, {})          \* named by the answer before
Absent(r)    == Call("absent", r, {}, Faults)    \* describe r, which must be gone or going
Ask          == Call("ask", "", {}, Faults)      \* any other request, a waiter included
Exec         == Call("ask", "", {}, {"other"})   \* SSH, a subprocess, a socket
Judge        == Call("judge", "", {}, {})        \* a condition on what was answered
Deny         == Call("deny", "", {}, {})         \* a command that must be refused

Calls == {"make", "drop", "purge", "retry", "terminate", "gone", "look", "absent", "ask", "judge", "deny"}

-----------------------------------------------------------------------------
(***************************************************************************)
(* Units.                                                                  *)
(*   test   entry of result["tests"] that takes the outcome, "" for none   *)
(*   keeps  main takes over the ids of a unit that failed                  *)
(*   fail   what main does when the unit failed: go on, return, raise, or  *)
(*          return with success (there was nothing to do)                  *)
(*   needs  tests that must have passed for main to get here               *)
(*   guard  ids main must hold (if sg_id: ...)                             *)
(*   after  resources main must not hold any more                          *)
(*   forgets ids main sets to None when the unit passed                    *)
(*   loses  ids main sets to None when it failed                           *)
(*   notes  a failure is recorded in cleanup_errors                        *)
(*   inner  the unit belongs to a block inside of the finally block (of a  *)
(*          helper, or a try block): an exception leaves that block only   *)
(***************************************************************************)
Fn(catch, calls) ==
    [test |-> "", catch |-> catch, calls |-> calls, keeps |-> FALSE, fail |-> "go",
     needs |-> {}, guard |-> {}, after |-> {}, forgets |-> {}, loses |-> {},
     notes |-> FALSE, inner |-> FALSE]

As(t, u)       == [u EXCEPT !.test = t]
Test(t, catch, calls) == As(t, Fn(catch, calls))
Return(u)      == [u EXCEPT !.fail = "return"]
Settles(u)     == [u EXCEPT !.fail = "succeed"]
Raise(u)       == [u EXCEPT !.fail = "raise"]
Keeps(u)       == [u EXCEPT !.keeps = TRUE]
Needs(ts, u)   == [u EXCEPT !.needs = ts]
Guard(rs, u)   == [u EXCEPT !.guard = rs]
After(rs, u)   == [u EXCEPT !.after = rs]
Forgets(rs, u) == [u EXCEPT !.forgets = rs]
Loses(rs, u)   == [u EXCEPT !.forgets = rs, !.loses = rs]
Noted(u)       == [u EXCEPT !.notes = TRUE]
Inner(u)       == [u EXCEPT !.inner = TRUE]

Probe(t)   == Test(t, Client, <<Ask, Judge>>)  \* one request, one condition on its answer
Expects    == Return(Fn(None, <<Judge>>))      \* print the result and return when it is not so
Otherwise  == Settles(Fn(None, <<Judge>>))     \* the same, but that is success

(***************************************************************************)
(* Straight code of main: nothing is caught on the spot, ids are held as   *)
(* soon as they are known, a condition that fails raises.                  *)
(***************************************************************************)
Main(calls) == Raise(Keeps(Fn(None, calls)))

(***************************************************************************)
(* Scripts.                                                                *)
(*   catch  what the except clause of main catches                         *)
(*   graded tests that decide success; {} stands for all that are recorded *)
(*   wrapped main is decorated with handle_aws_errors                      *)
(*   sure   the cleanup is a finally block; otherwise it belongs to the    *)
(*          except clause of main                                          *)
(*   hands  when the document names what main holds the id of, for the     *)
(*          scripts of later steps: never, with success, or always         *)
(*   given  what exists before the script starts                           *)
(*   names  the ids main has from its arguments, or chooses itself         *)
(***************************************************************************)
Script(body, cleanup) ==
    [body |-> body, cleanup |-> cleanup, catch |-> All, graded |-> {}, wrapped |-> TRUE,
     sure |-> TRUE, hands |-> "never", given |-> {}, names |-> {}]
Graded(ts, s)   == [s EXCEPT !.graded = ts]
Catches(es, s)  == [s EXCEPT !.catch = es]
Bare(s)         == [s EXCEPT !.wrapped = FALSE]
OnError(s)      == [s EXCEPT !.sure = FALSE]
Hands(s)        == [s EXCEPT !.hands = "always"]
HandsOver(s)    == [s EXCEPT !.hands = "success"]
Names(rs, s)    == [s EXCEPT !.names = rs]
Finds(xs, s)    == [s EXCEPT !.given = xs]
Standing(r, in) == [res |-> r, in |-> in, on |-> "", going |-> FALSE]

CallRecord == [do: Calls, res: STRING, in: SUBSET STRING, on: STRING, errs: SUBSET Errors]
Resource   == [res: STRING, in: SUBSET STRING, on: STRING, going: BOOLEAN]
UnitRecord ==
    [test: STRING, catch: SUBSET Errors, calls: Seq(CallRecord),
     keeps: BOOLEAN, fail: {"go", "return", "raise", "succeed"}, needs: SUBSET STRING,
     guard: SUBSET STRING, after: SUBSET STRING, forgets: SUBSET STRING,
     loses: SUBSET STRING, notes: BOOLEAN, inner: BOOLEAN]
ScriptRecord ==
    [body: Seq(UnitRecord), cleanup: Seq(UnitRecord), catch: SUBSET Errors,
     graded: SUBSET STRING, wrapped: BOOLEAN, sure: BOOLEAN, hands: {"never", "success", "always"},
     given: SUBSET Resource, names: SUBSET STRING]

-----------------------------------------------------------------------------
(***************************************************************************)
(* common/errors.py: delete_with_retry tries three times and never raises. *)
(***************************************************************************)
delete_with_retry(r) == Guard({r}, Fn(All, <<Purge(r)>>))

(***************************************************************************)
(* common/vpc.py                                                           *)
(***************************************************************************)
create_test_vpc(vpc)       == Fn(Aws, <<Make(vpc, {}), Ask>>)
delete_vpc(vpc)            == delete_with_retry(vpc)
cleanup_vpc_resources(vpc, rs) ==
    [i \in 1 .. Len(rs) |-> Guard({vpc, rs[i]}, delete_with_retry(rs[i]))] \o <<delete_vpc(vpc)>>

(***************************************************************************)
(* common/ec2.py: the IAM role and instance profile for SSM.               *)
(***************************************************************************)
create_ssm_instance_profile ==
    <<Make("role", {}), Make("policy", {"role"}), Make("profile", {}),
      Make("member", {"role", "profile"})>>
delete_ssm_instance_profile ==
    [i \in 1 .. 4 |-> Guard({"role"}, Fn(Client, <<Drop(<<"member", "profile", "policy", "role">>[i])>>))]
=============================================================================
