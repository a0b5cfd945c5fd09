---------------------------- MODULE ClusterChecks ----------------------------
(***************************************************************************)
(* The classes that only read a cluster, or a document about one:          *)
(* validations/k8s_nodes.py, k8s_cluster.py, k8s_gpu.py,                   *)
(* k8s_gpu_operator.py, k8s_scheduling.py, k8s_mig.py, k8s_node_pool.py,   *)
(* k8s_autoscaler.py, k8s_network_policy.py, k8s_networking.py,            *)
(* k8s_api_network_acl.py, k8s_oidc.py, k8s_control_plane_logs.py,         *)
(* k8s_control_plane_size.py, k8s_metrics.py, k8s_multi_cluster.py,        *)
(* k8s_upgrades.py, k8s_versions.py, k8s_service_account_iam.py,           *)
(* k8s_csi_lifecycle.py, k8s_storage.py and k8s_launch_kit.                *)
(* A query is one piece of evidence: wrong when the command failed or its  *)
(* answer could not be parsed.                                             *)
(***************************************************************************)
EXTENDS CheckLanguage

\* k8s_nodes.py, k8s_cluster.py
get_node_names     == Need({"nodes"})
K8sNodeCountCheck  == <<Need({"count"}), get_node_names, Need({"node_count"})>>
K8sNodeReadyCheck  == <<Need({"nodes"}), Need({"all_ready"})>>
\* Without expected names the class passes at once.
K8sExpectedNodesCheck(names) == IF names = {} THEN <<>> ELSE <<Need({"nodes"}), Need(names)>>
K8sPodHealthCheck     == <<Need({"pods"}), Unless({"unhealthy"})>>
K8sNoPendingPodsCheck == <<Need({"pods"}), Unless({"pending"})>>
K8sNoErrorPodsCheck   == <<Need({"pods"}), Unless({"error_states"})>>

\* k8s_gpu.py: a node whose pod did not answer is passed over.
K8sDriverVersionCheck == <<Need({"gpu_nodes"}), Unless({"driver_node_1", "driver_node_2"})>>
K8sGpuPodAccessCheck  == <<Need({"gpu_nodes"}), Need({"total_gpu_count"}), Unless({"gpus_node_1", "gpus_node_2"})>>

\* k8s_gpu_operator.py
K8sGpuOperatorNamespaceCheck == <<Need({"namespace"})>>
K8sGpuOperatorPodsCheck      == <<Need({"pods"}), Need({"pods_ready"})>>
discover_driver_config       == Need({"driver_config"})
tenant_can_replace_operator  == Need({"can_patch", "can_delete"})
verify_override_admitted     == <<Need({"dry_run"}), Need({"admitted_version"})>>
K8sGpuOperatorOverrideCheck ==
    <<SkipUnless("driver_version"), discover_driver_config, tenant_can_replace_operator>> \o verify_override_admitted

\* k8s_scheduling.py, k8s_mig.py, k8s_node_pool.py
K8sGpuLabelsCheck   == <<Need({"gpu_nodes"})>>
K8sGpuCapacityCheck == <<Need({"nodes"}), Need({"gpu_nodes"}), Need({"per_node"}), Need({"total"})>>
K8sMigConfigCheck   == <<Need({"nodes"}), Unless({"mig_labels"}), SkipUnless("mig_nodes")>>
wait_for_ready_nodes == Need({"ready_nodes"})
K8sNodePoolCheck ==
    <<Need({"label_selector", "expected_replicas"}), Need({"expectations"}), wait_for_ready_nodes,
      Need({"labels", "taints", "instance_types"})>>

\* k8s_autoscaler.py
discover_deployments == <<Need({"deployment_query"}), SkipUnless("deployments")>>
K8sClusterAutoscalerCheck ==
    <<Need({"mode"})>> \o discover_deployments
    \o <<Need({"container", "replicas", "available", "pods"})>>
provider_managed == <<Need({"mode"}), Need({"command"}), Need({"evidence"})>>

\* k8s_network_policy.py
K8sDualStackNodeCheck ==
    <<Need({"require_dual_stack"}), Need({"nodes"}), Need({"pods"}), SkipUnless("dual_stack_hint"),
      Subs({"node", "pod"}), Need({"pods_seen"})>>

\* k8s_networking.py: a document that says skipped does not get here.
networking_evidence == <<SkipUnless("step_output"), Need({"test_name"}), Unless({"cleanup_errors"}), Need({"success"})>>
K8sLoadBalancerCheck ==
    networking_evidence \o <<Need({"expected_response"}), Need({"services"}), Need({"external", "internal", "static"})>>
K8sDnsForwardingCheck ==
    networking_evidence \o <<Need({"query"}), Need({"answers"}), Need({"forwarded_query_seen"}), Need({"control_answers"}),
                  Need({"rule_restored"})>>
K8sCidrRangesCheck ==
    networking_evidence \o <<Need({"requested_ranges"}), Need({"service_cidrs"}), Need({"node_pod_cidrs"}),
                  Need({"service_ips", "node_ips", "pod_ips"})>>

-----------------------------------------------------------------------------
\* k8s_api_network_acl.py: any exit code but 0, 126 and 127 counts as blocked.
acl_config == <<Need({"commands"}), SkipUnless("unauthorized_probe"), Need({"endpoints"})>>
run_authorized_probe         == Need({"authorized"})
enforce_endpoint_consistency == Unless({"same_endpoint"})
run_unauthorized_probe       == Unless({"unauthorized"})
K8sApiNetworkAclCheck ==
    acl_config \o <<run_authorized_probe, enforce_endpoint_consistency, run_unauthorized_probe>>

\* k8s_oidc.py
fetch_json_anonymously(document) == Need({document})
resolve_issuer_url == Need({"issuer"})
K8sOidcIssuerCheck ==
    <<Need({"required_fields"}), resolve_issuer_url, fetch_json_anonymously("discovery"), Need({"jwks_uri_and_others"}),
      Need({"advertised_issuer"}), Need({"jwks_uri"}), fetch_json_anonymously("jwks"), Need({"keys"})>>

\* k8s_control_plane_logs.py, k8s_control_plane_size.py, k8s_metrics.py
logs_config == Need({"config"})
build_plan  == Need({"plan"})
find_component_pods == Need({"component_pods"})
execute_plan == Need({"apiserver_log", "scheduler_log", "controller_manager_log"})
K8sControlPlaneLogsCheck == <<logs_config, find_component_pods, build_plan, execute_plan>>
registered_apiservers == Need({"registered"})
K8sControlPlaneSizePinnedCheck ==
    <<Unless({"success"}), Need({"requested_instance_count"}), Need({"instance_count"}), registered_apiservers,
      Need({"within_pin"})>>
K8sApiServerMetricsCheck ==
    <<Need({"expected_metrics"}), SkipUnless("kubectl"), Need({"metrics"}), Need({"exposition"}), Need({"families"}),
      Need({"slo_labels"})>>

\* k8s_multi_cluster.py
K8sMultiClusterSameVpcCheck ==
    <<SkipUnless("step_output"), Unless({"success"}), Need({"tenancy_id"}), Need({"network_id"}), Need({"clusters"}),
      Need({"cluster_identities"}), Need({"same_tenancy"}), Need({"same_network"}), Need({"active"}),
      Need({"ready_node_counts"})>>

-----------------------------------------------------------------------------
\* k8s_upgrades.py: whatever a helper raises fails the class.
upgrade_output == <<SkipUnless("step_output"), Need({"test_name"}), Unless({"cleanup_errors"}), Need({"success"})>>
operation      == <<Need({"operation"})>>
coverage       == <<Need({"observations"})>>
continuity     == coverage \o <<Need({"responses"}), Need({"durations"})>>
pdb            == <<Need({"pdb"}), Need({"pdb_samples"}), Need({"blocked_eviction"}), Need({"evictions"})>>
K8sManagedUpgradePolicyCheck == upgrade_output \o <<Need({"policy"}), Need({"supported_transitions"})>>
K8sControlPlaneUpgradeCheck ==
    upgrade_output \o operation \o <<Need({"next_minor"}), Need({"executed_by"}), Need({"maintenance_window"})>>
    \o continuity
K8sNodePoolUpgradeCheck ==
    upgrade_output \o operation \o <<Need({"initiated_by"})>> \o continuity
    \o <<Need({"nodes"}), Need({"rollouts"}), Need({"concurrency"})>> \o pdb

\* k8s_versions.py
upstream_cycles == SkipUnless("upstream_cycles")
server_version  == Need({"server_version"})
verify_cluster_version == <<server_version, Need({"cluster_minor"})>>
K8sSupportedMinorVersionsCheck ==
    <<Unless({"success"}), Need({"offered_versions"}), upstream_cycles, Need({"window_offered"})>>
    \o verify_cluster_version
K8sAutomatedControlPlanePatchingCheck ==
    <<Unless({"success"}), Need({"automated_patching_enabled"}), Need({"current_version"}), server_version,
      Need({"not_rolled_back"}), upstream_cycles, Need({"cycle"}), SkipUnless("latest_patch"), SkipUnless("lag_known"),
      Need({"patch_lag"})>>

\* k8s_service_account_iam.py
K8sServiceAccountIamCheck ==
    <<SkipUnless("step_output"), Tests({"identity", "allowed_access", "out_of_scope_denied"}), Unless({"cleanup_errors"})>>

-----------------------------------------------------------------------------
\* k8s_csi_lifecycle.py, k8s_storage.py
K8sCsiHelmInstallCheck ==
    <<Need({"success"}), Need({"installed", "drivers_registered", "workloads_ready"}), Need({"method"}),
      SkipUnless("this_method")>>
check_controller_rbac == Subs({"serviceaccount-rbac-scoped"})
K8sCsiTenantScopedCredentialsCheck ==
    <<Need({"csi_driver_query"}), SkipUnless("csi_drivers"), Need({"pods"}), Need({"pvs"}),
      Subs({"secrets-not-cross-namespace", "no-shared-cluster-markers"}), check_controller_rbac,
      Subs({"node-plugin-uses-hostpath"})>>
check_csidriver_registered  == Subs({"csidriver-registered"})
check_controller_deployment == Subs({"controller-deployment-healthy"})
check_node_daemonset        == Subs({"node-daemonset-healthy"})
K8sCsiDriverHealthCheck ==
    <<SkipUnless("drivers"), Need({"min_controller_replicas"}), Need({"storageclasses"}), Subs({"storageclass-found"}),
      check_csidriver_registered, check_controller_deployment, check_node_daemonset>>

-----------------------------------------------------------------------------
\* k8s_launch_kit: one run of the tool per session, shared by the classes.
validate_inputs    == SkipUnless("inputs")
resolve_executable == SkipUnless("executable")
launch_kit_output  == <<SkipUnless("user_config"), validate_inputs, resolve_executable>>
validation_junit   == Need({"junit"})
EastWestNetworkCheck == launch_kit_output \o <<validation_junit, SkipUnless("suite"), Tests({"case_1", "case_2"})>>
NetworkOperatorDeployment ==
    launch_kit_output \o <<validation_junit, Unless({"success"}), SkipUnless("suite"), Tests({"case_1", "case_2"})>>
LaunchKitSosreport == launch_kit_output \o <<Need({"sosreport"})>>
=============================================================================
