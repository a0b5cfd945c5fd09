---------------------------- MODULE MCReporting ----------------------------
(***************************************************************************)
(* Instances of Reporting: a single-config command that writes the default *)
(* path, a discovery command over two configs of which the first imports a *)
(* demo provider, a command of a demo provider, and a split CI job before  *)
(* or after them.                                                          *)
(***************************************************************************)
EXTENDS Reporting

CONSTANTS one, two, three, a, b1, b2, d, s

MCMatches == [c \in {one, two, three} |->
    CASE c = one -> <<a>> [] c = two -> <<b1, b2>> [] c = three -> <<d>>]
MCRequested == [j \in {a, b1, b2, d} |->
    CASE j \in {a, d} -> "out" [] j = b1 -> "out-b1" [] j = b2 -> "out-b2"]
MCFallbacks == <<"out", "workdir", "cwd">>
MCPlaces == {"out", "out-b1", "out-b2", "workdir", "cwd"}
=============================================================================
