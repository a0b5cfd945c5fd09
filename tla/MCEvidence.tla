----------------------------- MODULE MCEvidence -----------------------------
(***************************************************************************)
(* Every wiring of the suites, executed on documents.  A document is the   *)
(* one the check asks for with up to MaxDamage pieces of evidence damaged, *)
(* the demo document or the un-implemented document of its template, the   *)
(* one of a teardown that spares the fixture, or a step that says it was   *)
(* skipped.                                                                *)
(***************************************************************************)
EXTENDS EvidenceCheck, Suites, TLC, FiniteSetsExt

CONSTANT MaxDamage

Wirings ==
    BareMetalSuite @@ ControlPlaneSuite @@ IamSuite @@ ImageRegistrySuite @@ NetworkSuite
    @@ K8sSuite @@ ClusterSuite @@ ObservabilitySuite @@ SecuritySuite @@ SlurmSuite @@ StorageSuite @@ VmSuite

MCChecks == [n \in DOMAIN Wirings |-> Wirings[n].members]
MCEchoing == {n \in DOMAIN Wirings : Wirings[n].members = <<StableIdentifierCheck>>}
\* These read success only: they pass although nothing was deleted.
MCWaived ==
    {"BmResourcesDeletedCheck", "BmHostTerminatedCheck", "IamUserDeletedCheck",
     "CustomOsImageDeletedCheck", "NetworkResourcesDeletedCheck", "VolumeDeletedCheck"}

Damage(evidence) ==
    UNION {[d -> {"skip", "wrong", "absent"}] : d \in UNION {kSubset(k, evidence) : k \in 0 .. MaxDamage}}

Damaged(evidence, f) ==
    [from    |-> "damaged",
     good    |-> evidence \ DOMAIN f,
     skip    |-> {x \in DOMAIN f : f[x] = "skip"},
     wrong   |-> {x \in DOMAIN f : f[x] = "wrong"},
     skipped |-> FALSE]

Documents(w) ==
    LET evidence == Evidence(w.members)
    IN  {Damaged(evidence, f) : f \in Damage(evidence)}
        \cup {[Damaged(evidence, <<>>) EXCEPT !.skipped = TRUE]}
        \cup {DemoDocument(t) : t \in w.wired} \cup {StubDocument(t) : t \in w.wired}
        \cup UNION {SparedDocuments(t) : t \in w.wired}

MCOutputs == [n \in DOMAIN Wirings |-> Documents(Wirings[n])]

-----------------------------------------------------------------------------
(***************************************************************************)
(* A validation that passed leaves no failed subtest with pytest, whose    *)
(* count of failures becomes the exit code of the phase.                   *)
(***************************************************************************)
PassedMeansExitZero == verdict = "passed" => shown = {}
=============================================================================
