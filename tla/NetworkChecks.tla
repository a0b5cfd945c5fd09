---------------------------- MODULE NetworkChecks ----------------------------
(***************************************************************************)
(* The classes of isvtest/validations/network.py that judge a step output, *)
(* one member each.  Evidence is named after the field it is read from.    *)
(***************************************************************************)
EXTENDS CheckLanguage

NetworkProvisionedCheck == <<Need({"network_id"})>>
VpcCrudCheck(operations) == <<Tests(operations)>>
SubnetConfigCheck(require_multi_az) ==
    <<Need({"subnets"}),
      Tests({"create_vpc", "create_subnets", "subnets_available", "route_table_exists"}
            \cup (IF require_multi_az THEN {"az_distribution"} ELSE {})),
      Need(IF require_multi_az THEN {"az_distribution.az_count"} ELSE {})>>
SubnetMultiAzCheck == SubnetConfigCheck(TRUE)
VpcIsolationCheck ==
    <<Tests({"no_peering", "no_cross_routes_a", "no_cross_routes_b", "sg_isolation_a", "sg_isolation_b"})>>
\* The control connected before a dropped flow counts; refused is not dropped.
SegmentBoundaryDefaultDenyCheck == <<Need({"success"}), Need({"positive_control"}), Need({"prohibited_flows"})>>
AllowRuleApprovalCheck ==
    <<Need({"success"}), Need({"effective_rule", "approval"}), Need({"observed_at", "approval.approved_at"}),
      Need({"scope"})>>
SgCrudCheck(operations) == <<Tests(operations)>>
SecurityBlockingCheck ==
    <<Tests({"sg_default_deny_inbound", "sg_allows_specific_ssh", "sg_denies_vpc_icmp",
             "nacl_explicit_deny", "sg_restricted_egress"})>>
FiveTupleFilteringCheck == <<Need({"success"}), Need({"baseline"}), Need({"variants"})>>
NetworkConnectivityCheck ==
    <<Need({"instances"}), Tests({"instance_to_instance", "instance_to_internet"})>>
TrafficFlowCheck == <<Tests({"traffic_allowed", "traffic_blocked", "internet_icmp", "internet_http"})>>
DhcpIpManagementCheck == <<Need({"ssh"}), Subs({"dhcp_lease_active", "private_ip", "dhcp_options_correct"})>>
VpcIpConfigCheck == <<Subs({"dhcp_options", "subnets.cidr", "subnets.auto_assign_public_ip"})>>

-----------------------------------------------------------------------------
_run_sdn_logging_check(required_keys, evidence_keys) == <<Tests(required_keys), Need(evidence_keys)>>
SdnHardwareFaultLoggingCheck == _run_sdn_logging_check(
    {"logging_endpoint_reachable", "fault_event_source_queryable", "log_destination_configured",
     "event_schema_valid"}, {"log_destination", "recent_event_count"})
SdnLatencyPerfLoggingCheck == _run_sdn_logging_check(
    {"metrics_endpoint_reachable", "performance_metric_present", "packet_metric_present", "samples_recent"},
    {"telemetry_namespace", "sample_window_seconds", "probe_resource_id"})
SdnFilterAuditTrailCheck == _run_sdn_logging_check(
    {"audit_endpoint_reachable", "create_rule_logged", "modify_rule_logged", "delete_rule_logged",
     "audit_event_has_required_fields", "cleanup"}, {"trail_id", "actor_field", "target_rule_id"})
\* A propagation that was measured as too slow fails before the tests are looked at.
SgPolicyPropagationTimingCheck ==
    <<Unless({"add_observed_seconds", "remove_observed_seconds"}),
      Tests({"create_probe_rule", "rule_observed", "revoke_probe_rule", "removal_observed", "cleanup"}),
      Need({"target_rule_id", "add_observed_seconds", "remove_observed_seconds"})>>

_run_sg_scoping_check(required_keys) == <<Tests(required_keys \cup {"create_sg", "cleanup"})>>
SgWorkloadScopingCheck == _run_sg_scoping_check({"apply_workload_rule", "workload_allowed", "other_workload_blocked"})
SgNodeScopingCheck == _run_sg_scoping_check({"apply_node_rule", "target_node_allowed", "other_node_blocked"})
SgSubnetScopingCheck == _run_sg_scoping_check({"apply_subnet_rule", "subnet_allowed", "other_subnet_blocked"})
SgServiceScopingCheck ==
    _run_sg_scoping_check({"apply_service_rule", "service_endpoint_allowed", "other_endpoint_blocked"})
SgPortSecurityPolicyCheck ==
    <<Tests({"create_virtual_interface", "apply_port_policy", "allowed_port_permitted",
             "unlisted_port_blocked", "other_interface_unaffected", "cleanup"})>>

-----------------------------------------------------------------------------
BackendSwitchFabricCheck ==
    <<Tests({"node_resolved", "leaf_switch_ids_present", "spine_switch_ids_present", "core_switch_ids_present"}),
      Need({"node_id", "fabric.leaf_switch_ids", "fabric.spine_switch_ids", "fabric.core_switch_ids"})>>
NvlinkDomainCheck ==
    <<Need({"node_id"}), Tests({"node_resolved", "nvlink_support_detected"}), Offer("nvlink_supported"),
      Tests({"nvlink_domain_id_present"}), Need({"nvlink_domain_id"})>>
\* Every expected member reports itself and every pair of members sees each other.
ImexDomainConnectivityCheck ==
    <<Need({"domain.domain_id", "domain.state", "domain.expected_members"}),
      Need({"nodes.domain_member", "nodes.peers_reachable"})>>
ImexServicePresenceCheck ==
    <<Need({"nodes.in_nvlink_allocation"}),
      Need({"nodes.service_present", "nodes.control_tooling_present", "nodes.service_registration"})>>
ImexServiceResilienceCheck ==
    <<Need({"node_id"}), Need({"operations.unaided_presence"}), Need({"operations.terminate"}),
      Need({"operations.recovery"}), Need({"operations.restore"})>>
ImexNodeDepartureCheck ==
    <<Need({"target_node"}), Need({"operations.stop"}), Need({"operations.peer_convergence"}),
      Need({"operations.restore"})>>
ImexRebootRejoinCheck == <<Need({"node_id"}), Need({"reboot_confirmed", "uptime_seconds"}), Need({"post_reboot"}),
                           Need({"persistence_configured"})>>
ImexComputeDomainCapabilityCheck ==
    <<Need({"api-resources"}), SkipUnless("computedomains.resource.nvidia.com"),
      Need({"deviceclasses", "resourceslices", "nodes"}), Need({"nodes.clique_labelled"}),
      Need({"compute_domain_device_classes", "nodes.published"})>>

-----------------------------------------------------------------------------
ByoipCheck ==
    <<Tests({"custom_cidr_create", "custom_cidr_verify", "standard_cidr_create", "no_conflict", "custom_cidr_subnet"})>>
StablePrivateIpCheck ==
    <<Tests({"create_instance", "record_ip", "stop_instance", "start_instance", "ip_unchanged"})>>
StorageL3RoutingCheck ==
    <<Tests({"distinct_subnets", "all_to_all_reachable", "cross_subnet_routing", "no_gateway_hop"})>>
StableEgressIpCheck ==
    <<Tests({"create_instance", "probe_egress_ip", "egress_ip_stable"}), Need({"probe_egress_ip.probes"})>>
\* A switch that was not timed is not too slow.
FloatingIpCheck ==
    <<Unless({"reassociate_to_b.switch_seconds"}),
      Tests({"allocate_eip", "associate_to_a", "verify_on_a", "reassociate_to_b", "verify_on_b", "verify_not_on_a"})>>
LocalizedDnsCheck ==
    <<Tests({"create_vpc_with_dns", "create_hosted_zone", "create_dns_record", "verify_dns_settings", "resolve_record"})>>
VpcPeeringCheck ==
    <<Tests({"create_vpc_a", "create_vpc_b", "create_peering", "accept_peering", "add_routes", "peering_active"})>>
=============================================================================
