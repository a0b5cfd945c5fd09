--------------------------- MODULE ClusterLanguage ---------------------------
(***************************************************************************)
(* The vocabulary of the validations that create objects in a Kubernetes   *)
(* cluster or on a storage system.  They have the shape of a provider      *)
(* script: run works in a try block and deletes in its finally block what  *)
(* it created, and execute, like handle_aws_errors, turns an exception     *)
(* into one result.  A command that fails says so by its exit code, a      *)
(* timeout included, and the request may have been applied all the same.   *)
(***************************************************************************)
EXTENDS ScriptLanguage

Exit == {"exit"}

New(r)    == Call("make", r, {}, Exit)                  \* kubectl create
Apply(r)  == [New(r) EXCEPT !.on = "ns"]             \* kubectl apply in the namespace
ApplyIn(r, ns) == [New(r) EXCEPT !.on = ns]
Get       == Call("ask", "", {}, Exit)                  \* get, wait, exec, patch, logs
Must      == Call("ask", "", {}, {"other"})             \* a query that raises when it fails
Erase(r)  == Call("purge", r, {}, Exit)                 \* kubectl delete --ignore-not-found

Gate(calls)  == Return(Fn(Exit, calls))   \* if it fails: set_failed, return
Sub(t, calls) == Test(t, Exit, calls)     \* report_subtest with its outcome
Vital(t, calls) == Return(Sub(t, calls))  \* the same, and the others are not tried
Tried(calls) == Fn(Exit, calls)           \* a failure is only logged
Config       == Return(Fn(None, <<Judge>>))  \* a setting is missing: set_failed or pytest.skip

(***************************************************************************)
(* The same calls where a helper turns the exit code into an exception.    *)
(***************************************************************************)
Raising(c) == [c EXCEPT !.errs = {"other"}]

(***************************************************************************)
(* run has no except clause of its own: an exception goes through finally  *)
(* to execute.                                                             *)
(***************************************************************************)
Check(body, finally) == Catches(None, Script(body, finally))

Namespace       == Gate(<<New("ns")>>)
DeleteNamespace == Guard({"ns"}, Tried(<<Erase("ns")>>))
InNamespace(body) == Check(<<Config, Namespace>> \o body, <<DeleteNamespace>>)
=============================================================================
