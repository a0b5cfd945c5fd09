---------------------------- MODULE ClusterProbes ----------------------------
(***************************************************************************)
(* The other validations that create objects in a cluster                  *)
(* (isvtest/validations/k8s_crd_webhook.py, k8s_network_policy.py,         *)
(* k8s_conformance.py, k8s_dra.py, k8s_gpu.py).  Loops over nodes are      *)
(* written out for two; the pods of different nodes do not interact.       *)
(***************************************************************************)
EXTENDS ClusterLanguage

\* k8s_crd_webhook.py: the webhooks and the definition are cluster-wide.
apply_or_fail(r)       == Gate(<<Apply(r)>>)
apply_cluster_wide(r)  == Gate(<<New(r)>>)
\* Applied again and again until it is refused for the expected reason.
expect_apply_rejected(r) == Gate(<<Get, Judge>>)
verify_custom_resource_mutation == Gate(<<Apply("mutated"), Get, Judge>>)
cleanup_command(r)     == Fn(All, <<Erase(r)>>)
CrdWebhookLeftovers    == <<"crd_validator", "cr_validator", "cr_mutator", "mutated", "crd", "ns">>
K8sCrdWebhookCheck == Check(
    <<Config, Gate(<<New("ns")>>), Gate(<<Get>>), apply_or_fail("server"), Gate(<<Get>>),
      apply_cluster_wide("crd_validator"), expect_apply_rejected("crd"), apply_cluster_wide("crd"), Gate(<<Get>>),
      Gate(<<New("cr_mutator"), New("cr_validator")>>), verify_custom_resource_mutation,
      expect_apply_rejected("rejected")>>,
    [i \in DOMAIN CrdWebhookLeftovers |-> cleanup_command(CrdWebhookLeftovers[i])])

-----------------------------------------------------------------------------
\* k8s_network_policy.py
probe        == <<Get>>
get_pod_ips  == Gate(<<Get, Judge, Get, Judge>>)
wait_for_policy_enforcement == Gate(<<Deny>>)
report_probe(t, expected) == Sub(t, <<expected>>)
K8sNetworkPolicyCheck == InNamespace(
    <<Gate(<<Apply("pods")>>), Gate(<<Get>>), get_pod_ips, Gate(probe), Gate(probe), Gate(probe),
      Gate(<<Apply("ingress")>>), Gate(<<Apply("egress")>>),
      wait_for_policy_enforcement, wait_for_policy_enforcement,
      report_probe("allow", Get), report_probe("ingress-deny", Deny), report_probe("egress-deny", Deny)>>)

-----------------------------------------------------------------------------
\* k8s_conformance.py: one apply for the namespace and a cluster-wide binding.
detect_cluster_version == Gate(<<Get, Judge>>)
wait_for_pod_running   == Gate(<<Get, Judge>>)
wait_for_completion    == Gate(<<Get, Judge>>)
\* Read from a local copy, by kubectl exec (three times), by kubectl cp.
fetch_junit            == Gate(<<Get, Judge>>)
parse_junit            == <<Sub("case", <<Judge>>), Gate(<<Judge>>)>>
K8sCncfConformanceCheck == Check(
    <<Config, detect_cluster_version, Gate(<<New("ns"), New("binding")>>), wait_for_pod_running, wait_for_completion,
      fetch_junit>> \o parse_junit,
    <<DeleteNamespace, Guard({"binding"}, Tried(<<Erase("binding")>>))>>)

-----------------------------------------------------------------------------
\* k8s_dra.py: what cannot be deleted turns a pass into a failure.
served_version    == Gate(<<Get, Judge>>)
wait_for_evidence == Gate(<<Get, Judge, Get, Judge>>)
run_claim_pod     == <<Gate(<<Apply("claim_and_pod")>>), wait_for_evidence, Gate(<<Get, Judge>>)>>
dra_cleanup       == <<Noted(Guard({"ns"}, Tried(<<Erase("claim_and_pod")>>))), Noted(DeleteNamespace)>>
K8sDraCheck ==
    Check(<<Config, served_version, Gate(<<Get>>), Gate(<<Get>>), Config, Namespace>> \o run_claim_pod, dra_cleanup)

-----------------------------------------------------------------------------
\* k8s_gpu.py: a pod that was started is deleted whatever became of it.
run_single_pod(node, pod) ==
    <<Keeps(Sub(node, <<New(pod), Get, Judge>>)), Guard({pod}, Tried(<<Erase(pod)>>))>>
run_ephemeral_pods == <<Gate(<<Get>>)>> \o run_single_pod("node_1", "pod_1") \o run_single_pod("node_2", "pod_2")
K8sNvidiaSmiCheck  == Check(run_ephemeral_pods, <<>>)

ClusterProbeSet ==
    [crd_webhook |-> K8sCrdWebhookCheck, network_policy |-> K8sNetworkPolicyCheck,
     conformance |-> K8sCncfConformanceCheck, dra |-> K8sDraCheck, nvidia_smi |-> K8sNvidiaSmiCheck]
=============================================================================
