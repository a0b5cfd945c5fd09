----------------------------- MODULE Templates -----------------------------
(***************************************************************************)
(* The scripts of the my-isv provider, the scaffold a new provider starts  *)
(* from.  Each prints one document.  Its fields start out empty, except    *)
(* the ones filled from the arguments or by constants; with                *)
(* ISVCTL_DEMO_MODE=1 the script fills in dummy values and says success,   *)
(* otherwise it says "Not implemented" and success stays false.  The       *)
(* scripts on common/stub.py print the whole payload either way.           *)
(***************************************************************************)
EXTENDS CheckLanguage

(***************************************************************************)
(* always: the evidence the un-implemented script already prints; demo:    *)
(* what the demo branch fills in besides success; blank: those of them     *)
(* that are omitted or None until then, where a check can tell that from a *)
(* wrong value; spared: what a teardown prints that is told to leave the   *)
(* fixture alone (--skip-destroy, BM_SKIP_TEARDOWN), implemented or not:   *)
(* success, or success and skipped.                                        *)
(***************************************************************************)
Template(always, demo) == [always |-> always, demo |-> demo, blank |-> {}, spared |-> ""]
Blank(fs, t)  == [t EXCEPT !.blank = fs]
Spares(as, t) == [t EXCEPT !.spared = as]

Success == {"success", "success_or_status"}

DemoDocument(t) == [from |-> "demo", good |-> t.always \cup t.demo \cup Success,
                    skip |-> {}, wrong |-> {}, skipped |-> FALSE]
StubDocument(t) == [from |-> "stub", good |-> t.always,
                    skip |-> {}, wrong |-> (t.demo \ t.blank) \cup Success, skipped |-> FALSE]
SparedDocuments(t) ==
    {[from |-> "spared", good |-> t.always \cup Success,
      skip |-> {}, wrong |-> {}, skipped |-> as = "skipped"] : as \in {t.spared} \ {""}}

-----------------------------------------------------------------------------
\* my-isv/scripts/bare_metal
bare_metal_describe_instance == Template({"instance_id"}, {"state"})
bare_metal_describe_tags == Template({"instance_id"}, {"tags"})
bare_metal_host_status_log == Template({}, {"dmesg_recent", "journalctl_recent", "some_source",
    "tests"})
bare_metal_launch_instance == Template({}, {"instance_id", "state"})
bare_metal_power_cycle_instance == Blank({"recovery_seconds"},
    Template({"instance_id", "instance_id.unchanged"},
    {"power_cycle_initiated", "power_was_off", "recovery_seconds", "ssh_ready", "state"}))
bare_metal_reboot_instance == Blank({"reboot_confirmed", "uptime_seconds"},
    Template({"instance_id", "instance_id.unchanged"},
    {"reboot_confirmed", "reboot_initiated", "ssh_ready", "state", "uptime_seconds"}))
bare_metal_serial_console == Template({"instance_id"}, {"console", "console_log_queryable",
    "oldest_queryable_log_age_days", "query_result_count", "retention_days_configured",
    "retention_evidence"})
bare_metal_start_instance == Template({"instance_id", "instance_id.unchanged"}, {"ssh_ready",
    "start_initiated", "state"})
bare_metal_stop_instance == Template({"instance_id"}, {"stop_initiated", "stopped"})
bare_metal_teardown == Spares("success", Template({}, {}))
bare_metal_topology_placement == Template({"instance_id"}, {"create_group", "delete_group",
    "describe_group", "placement_supported", "verify_instance"})
bare_metal_verify_terminated == Spares("success", Template({}, {}))

-----------------------------------------------------------------------------
\* my-isv/scripts/breakfix
breakfix_query_bmc_kernel_logs == Template({"hosts", "hosts.entries_returned", "hosts.host_id",
    "hosts.window"}, {})
breakfix_query_failure_notifications == Template({"notification_channel_observable",
    "notifications"}, {})
breakfix_query_maintenance_events == Template({"events", "events_queryable"}, {})
breakfix_query_node_health_agents == Template({"agents", "agents.agent_name", "agents.node_id",
    "agents.running", "agents_observable", "nodes_expected"}, {})
breakfix_query_planned_notifications == Template({"notification_channel_observable",
    "notifications"}, {})
breakfix_query_repair_history == Template({"history_queryable", "records"}, {})
breakfix_query_retirement_notices == Template({"notices", "notices_queryable"}, {})
breakfix_query_serial_numbers == Template({"machines", "machines.identifiers"}, {})
breakfix_query_switch_firmware == Template({"trays", "trays.firmware_version", "trays.tray_id"}, {})
breakfix_request_host_replacement == Template({"label", "node_removed_from_pool"}, {})
breakfix_return_node_maintenance == Template({"instance_deleted", "label", "machine_quarantined"},
    {})
breakfix_return_rack_maintenance == Template({"accepted", "label"}, {})

-----------------------------------------------------------------------------
\* my-isv/scripts/capacity
capacity_reservation_grouping == Template({}, {"account_id", "isolation_enforced", "pinned",
    "reservation_id", "resources", "resources.account_id", "resources.pinned"})
capacity_topology_block_atomic_allocation == Template({}, {"atomic_allocation", "block_id",
    "isolation_boundary", "performance_homogeneity", "requested_counts", "reservation_id",
    "resource_membership", "resources", "tenant_id", "topology_block"})

-----------------------------------------------------------------------------
\* my-isv/scripts/control-plane
control_plane_check_api == Template({}, {"account_id", "tests"})
control_plane_create_access_key == Template({}, {"access_key_id", "username"})
control_plane_create_tenant == Template({}, {"tenant_id", "tenant_name"})
control_plane_delete_access_key == Template({}, {})
control_plane_delete_tenant == Template({}, {})
control_plane_disable_access_key == Template({}, {"status"})
control_plane_get_tenant == Template({}, {"tenant_id", "tenant_name"})
control_plane_list_tenants == Template({}, {"found_target"})
control_plane_s3_object_lifecycle == Template({"bucket_name", "object_key", "operations"},
    {"delete", "get", "put"})
control_plane_test_access_key == Template({}, {"authenticated"})
control_plane_verify_key_rejected == Template({}, {"rejected"})

-----------------------------------------------------------------------------
\* my-isv/scripts/iam
iam_create_user == Template({"username"}, {"access_key_id"})
iam_delete_user == Spares("success", Template({}, {}))
iam_test_credentials == Template({}, {"access", "identity"})

-----------------------------------------------------------------------------
\* my-isv/scripts/image-registry
image_registry_crud_image == Template({"image_id", "operations"}, {"create", "delete", "get",
    "list"})
image_registry_crud_install_config == Template({"operations"}, {"config_id", "config_name",
    "create", "delete", "read", "update"})
image_registry_install_config_bm == Template({"config_id"}, {"instance_id", "instance_state",
    "state"})
image_registry_install_image_bm == Template({"image_id"}, {"instance_id", "instance_state",
    "state"})
image_registry_launch_instance == Template({}, {"instance_id", "key_path", "public_ip", "state"})
image_registry_teardown == Spares("success", Template({}, {}))
image_registry_upload_image == Template({}, {"disk_ids", "image_id", "storage_bucket"})

-----------------------------------------------------------------------------
\* my-isv/scripts/network
network_allow_rule_approval_test == Template({}, {"approval", "approval.approved_at",
    "effective_rule", "observed_at", "scope"})
network_backend_switch_fabric_test == Template({"node_id"}, {"core_switch_ids_present",
    "fabric.core_switch_ids", "fabric.leaf_switch_ids", "fabric.spine_switch_ids",
    "leaf_switch_ids_present", "node_resolved", "spine_switch_ids_present"})
network_byoip_test == Template({}, {"custom_cidr_create", "custom_cidr_subnet",
    "custom_cidr_verify", "no_conflict", "standard_cidr_create"})
network_create_vpc == Template({}, {"network_id"})
network_dns_test == Template({}, {"create_dns_record", "create_hosted_zone", "create_vpc_with_dns",
    "resolve_record", "verify_dns_settings"})
network_five_tuple_filtering_test == Template({}, {"baseline", "variants"})
network_floating_ip_test == Blank({"reassociate_to_b.switch_seconds"},
    Template({}, {"allocate_eip", "associate_to_a", "reassociate_to_b",
    "reassociate_to_b.switch_seconds", "verify_not_on_a", "verify_on_a", "verify_on_b"}))
network_imex_departure_test == Template({"target_node"}, {"operations.peer_convergence",
    "operations.restore", "operations.stop"})
network_imex_domain_test == Template({"domain.expected_members"}, {"domain.domain_id",
    "domain.state", "nodes.domain_member", "nodes.peers_reachable"})
network_imex_reboot_test == Template({"node_id"}, {"persistence_configured", "post_reboot",
    "reboot_confirmed", "uptime_seconds"})
network_imex_resilience_test == Template({"node_id"}, {"operations.recovery", "operations.restore",
    "operations.terminate", "operations.unaided_presence"})
network_imex_service_test == Template({}, {"nodes.control_tooling_present",
    "nodes.in_nvlink_allocation", "nodes.service_present", "nodes.service_registration"})
network_isolation_test == Template({}, {"no_cross_routes_a", "no_cross_routes_b", "no_peering",
    "sg_isolation_a", "sg_isolation_b"})
network_nvlink_domain_test == Template({"node_id"}, {"node_resolved", "nvlink_domain_id",
    "nvlink_domain_id_present", "nvlink_support_detected", "nvlink_supported"})
network_peering_test == Template({}, {"accept_peering", "add_routes", "create_peering",
    "create_vpc_a", "create_vpc_b", "peering_active"})
network_sdn_logging_test == Template({}, {"actor_field", "audit_endpoint_reachable",
    "audit_event_has_required_fields", "cleanup", "create_rule_logged", "delete_rule_logged",
    "event_schema_valid", "fault_event_source_queryable", "log_destination",
    "log_destination_configured", "logging_endpoint_reachable", "metrics_endpoint_reachable",
    "modify_rule_logged", "packet_metric_present", "performance_metric_present",
    "probe_resource_id", "recent_event_count", "sample_window_seconds", "samples_recent",
    "target_rule_id", "telemetry_namespace", "trail_id"})
network_security_test == Template({}, {"nacl_explicit_deny", "sg_allows_specific_ssh",
    "sg_default_deny_inbound", "sg_denies_vpc_icmp", "sg_restricted_egress"})
network_segment_boundary_test == Template({}, {"positive_control", "prohibited_flows"})
network_sg_crud_test == Template({}, {"create_sg", "create_vpc", "delete_sg", "read_sg",
    "update_sg_add_rule", "update_sg_modify_rule", "update_sg_remove_rule", "verify_deleted"})
network_sg_policy_propagation_test == Blank({"add_observed_seconds", "remove_observed_seconds"},
    Template({}, {"add_observed_seconds", "cleanup",
    "create_probe_rule", "removal_observed", "remove_observed_seconds", "revoke_probe_rule",
    "rule_observed", "target_rule_id"}))
network_sg_port_security_policy == Template({}, {"allowed_port_permitted", "apply_port_policy",
    "cleanup", "create_virtual_interface", "other_interface_unaffected", "unlisted_port_blocked"})
network_sg_scoping_test == Template({}, {"apply_node_rule", "apply_service_rule",
    "apply_subnet_rule", "apply_workload_rule", "cleanup", "create_sg", "other_endpoint_blocked",
    "other_node_blocked", "other_subnet_blocked", "other_workload_blocked",
    "service_endpoint_allowed", "subnet_allowed", "target_node_allowed", "workload_allowed"})
network_stable_egress_ip_test == Template({}, {"create_instance", "egress_ip_stable",
    "probe_egress_ip", "probe_egress_ip.probes"})
network_stable_ip_test == Template({}, {"create_instance", "ip_unchanged", "record_ip",
    "start_instance", "stop_instance"})
network_storage_l3_routing_test == Template({}, {"all_to_all_reachable", "cross_subnet_routing",
    "distinct_subnets", "no_gateway_hop"})
network_subnet_test == Template({}, {"az_distribution", "az_distribution.az_count",
    "create_subnets", "create_vpc", "route_table_exists", "subnets", "subnets_available"})
network_teardown == Spares("success", Template({}, {}))
network_test_connectivity == Template({}, {"instance_to_instance", "instance_to_internet",
    "instances"})
network_traffic_test == Template({}, {"internet_http", "internet_icmp", "traffic_allowed",
    "traffic_blocked"})
network_vpc_crud_test == Template({}, {"create_vpc", "delete_vpc", "read_vpc", "update_dns",
    "update_tags"})
network_vpc_ip_config_test == Template({}, {"dhcp_options", "subnets.auto_assign_public_ip",
    "subnets.cidr"})

-----------------------------------------------------------------------------
\* my-isv/scripts/observability
observability_log_availability_test == Blank({"traffic_type"},
    Template({}, {"bmc_endpoints_checked", "entries_queryable",
    "entries_recent", "entry_count", "event_entries_queryable", "event_log_endpoint_reachable",
    "event_log_source_present", "flow_log_endpoint_reachable", "flow_logs_configured",
    "gpu_metrics_present", "host_log_source_present", "host_os_gap_identified",
    "host_os_unavailable_metrics", "hosts_checked", "kernel_log_source_present", "latest_timestamp",
    "log_destination", "log_destination_accessible", "log_endpoint_reachable",
    "log_endpoints_checked", "log_entries_queryable", "log_source", "log_source_present",
    "metric_names", "network_id", "sample_count", "sel_entries_queryable",
    "sel_log_endpoint_reachable", "sel_log_source_present", "switch_log_source_present",
    "switch_syslog_source_present", "switches_checked", "syslog_endpoint_reachable",
    "telemetry_endpoint", "telemetry_endpoint_reachable", "telemetry_samples_recent",
    "traffic_type", "traffic_type_all"}))
observability_network_telemetry_test == Template({}, {"latest_timestamp", "metric_names",
    "nic_metrics_present", "nics_checked", "plane_metrics_present", "sample_count",
    "samples_recent", "telemetry_endpoint_reachable", "telemetry_source"})
observability_nvlink_telemetry_test == Template({}, {"latest_timestamp", "link_metrics_present",
    "links_checked", "metric_names", "port_metrics_present", "ports_checked", "sample_count",
    "samples_recent", "telemetry_endpoint_reachable", "telemetry_source"})
observability_storage_telemetry_test == Template({}, {"capacity_kinds", "capacity_metrics_present",
    "latest_timestamp", "metric_names", "performance_kinds", "performance_metrics_present",
    "sample_count", "samples_recent", "telemetry_endpoint_reachable", "telemetry_source",
    "volumes_checked"})
observability_telemetry_delivery_test == Blank({"observed_delivery_seconds"},
    Template({}, {"delivery_sample_present",
    "delivery_within_threshold", "observed_delivery_seconds", "telemetry_endpoint_reachable",
    "telemetry_source"}))

-----------------------------------------------------------------------------
\* my-isv/scripts/security
security_api_endpoint_test == Template({}, {"dns_not_public", "probe_api_from_public",
    "probe_mgmt_from_public", "verify_private_only"})
security_audit_logging_test == Template({}, {"audit_log_entry", "audit_log_entry_found",
    "audit_log_event_name_matches", "audit_log_event_source_matches",
    "audit_log_event_time_in_window", "audit_log_region_matches", "audit_log_retention",
    "audit_log_retention_at_least_30_days", "audit_log_source_ip_present",
    "audit_log_trail_logging_enabled", "audit_log_user_agent_matches",
    "audit_log_user_identity_present"})
security_bmc_bastion_access_test == Template({}, {"bastion_hardened", "bastion_identifiable",
    "management_ingress_via_bastion_only", "no_direct_public_route"})
security_bmc_isolation_test == Template({}, {"probe_bmc_from_tenant", "probe_ipmi_port",
    "probe_redfish_port", "reverse_path_check"})
security_bmc_management_network_test == Template({}, {"dedicated_management_network",
    "management_acl_enforced", "restricted_management_routes", "tenant_network_not_management"})
security_bmc_protocol_security_test == Template({}, {"ipmi_disabled", "redfish_accounting_enabled",
    "redfish_authentication_required", "redfish_authorization_enforced",
    "redfish_plain_http_disabled", "redfish_tls_enabled"})
security_centralized_kms_test == Template({"non_kms_resources"}, {"all_encrypted_resources_use_kms",
    "encrypted_resources_inspected", "kms_keys_present", "kms_keys_total", "kms_service_reachable"})
security_cert_rotation_test == Template({"out_of_policy", "rotation_window_days"},
    {"cert_inventory_non_empty", "certs_inspected", "no_certs_out_of_policy",
    "rotation_evidence_present"})
security_customer_managed_key_test == Template({}, {"customer_managed_key_available",
    "encrypt_decrypt_roundtrip", "encrypted_resource_id", "key_id", "key_manager_is_customer",
    "provider_managed_key_not_used", "resource_encrypted_with_customer_key"})
security_kms_encryption_options_test == Template({}, {"both_options_supported",
    "customer_managed_key_available", "customer_managed_key_id", "provider_managed_key_available"})
security_least_privilege_test == Template({}, {"allowed_resource", "out_of_scope_compute_denied",
    "out_of_scope_network_denied", "out_of_scope_storage_denied",
    "policy_dimensions_allowed_action_succeeds", "policy_dimensions_resource_based",
    "policy_dimensions_user_based", "test_identity"})
security_mfa_enforcement_test == Template({}, {"admin_account_mfa", "interactive_access_mfa",
    "programmatic_access_mfa"})
security_oidc_user_auth_test == Template({}, {"audience", "bad_signature_rejected",
    "discovery_and_jwks_reachable", "endpoints_tested", "expired_token_rejected", "issuer_url",
    "missing_required_claim_rejected", "target_url", "valid_token_accepted",
    "wrong_audience_rejected", "wrong_issuer_rejected"})
security_sa_credential_test == Template({}, {"authenticated", "credential_type", "identity"})
security_short_lived_credentials_test == Template({"max_ttl_seconds"},
    {"node_credential_has_expiry", "node_credential_ttl_seconds",
    "node_credential_ttl_within_bound", "workload_credential_has_expiry",
    "workload_credential_ttl_seconds", "workload_credential_ttl_within_bound"})
security_teardown == Spares("skipped", Template({}, {}))
security_tenant_isolation_test == Template({}, {"compute_isolated", "data_isolated",
    "network_isolated", "storage_isolated", "tenant_a_id", "tenant_b_id"})

-----------------------------------------------------------------------------
\* my-isv/scripts/storage
storage_changelog_audit_test == Template({}, {"changelog_enabled", "records_dir_ops",
    "records_file_ops", "tracks_uid_gid"})
storage_create_volume == Template({"mount_point", "operations"}, {"attach", "create", "format",
    "mount", "volume_id", "write_sentinel"})
storage_flock_mount_test == Template({}, {"flock_contention", "flock_exclusive", "flock_shared",
    "mounted_with_flock"})
storage_home_directory_storage_test == Template({}, {"filesystem_quota_configured",
    "filesystem_quota_enforced", "filesystem_quota_updated", "gid_usage_accounted",
    "identity_usage_isolated", "nfs_read_write", "nfs_shared_visibility", "nfsv4_mounted",
    "uid_usage_accounted"})
storage_live_expansion_test == Template({}, {"capacity_expanded", "inodes_expanded",
    "io_uninterrupted", "metadata_consistent"})
storage_multipath_test == Template({}, {"all_servers_reachable", "failover_works",
    "multiple_paths"})
storage_multiple_filesystems_test == Template({}, {"min_fs_size", "multiple_filesystems",
    "within_total_capacity"})
storage_non_disruptive_upgrade_test == Template({}, {"io_continuity", "maintenance_deferrable",
    "upgrade_available"})
storage_provision_parallel_fs_test == Template({}, {"api_available", "filesystem_provisioned",
    "mount_successful"})
storage_provision_storage_test == Template({}, {"api_available", "capacity_matches", "provisioned"})
storage_qos_throughput_test == Template({}, {"bandwidth_meets_min", "iops_meets_min"})
storage_quota_enforcement_test == Template({}, {"gid_quota_enforced", "hard_quota_blocks",
    "project_quota_enforced", "soft_quota_grace", "uid_quota_enforced"})
storage_rdma_memory_protection_test == Template({}, {"local_key_enforced", "rdma_enabled",
    "remote_key_enforced", "unauthorized_access_blocked"})
storage_root_squash_test == Template({}, {"disable_root_squash", "enable_root_squash",
    "root_squashed", "root_unsquashed"})
storage_snapshot_lifecycle == Template({"operations", "volume_id"}, {"create_snapshot",
    "restore_volume", "snapshot_id", "verify_data"})
storage_teardown_volume == Spares("success", Template({}, {}))
storage_volume_persistence == Template({"operations", "volume_id"}, {"start", "stop",
    "verify_attached", "verify_data"})
storage_volume_resize == Template({"operations", "volume_id"}, {"grow_partition", "modify_volume",
    "resize_filesystem", "verify_size"})

-----------------------------------------------------------------------------
\* my-isv/scripts/vm
vm_component_key_access == Template({"key_name"}, {"network_device_access", "sol_access"})
vm_console_rbac == Template({"instance_id"}, {"access_restricted",
    "allowed_principal_can_access_console", "allowed_principal_is_resource_scoped",
    "denied_principal_cannot_access_console", "restricted_actions"})
vm_describe_tags == Template({"instance_id"}, {"tags"})
vm_launch_instance == Template({}, {"instance_id", "key_name", "requested_key_name", "state"})
vm_list_instances == Blank({"found_target"},
    Template({}, {"found_target", "instances"}))
\* Mutant: the demo branch does not confirm the reboot.
MutantRebootUnconfirmed == Blank({"uptime_seconds"},
    Template({"instance_id", "instance_id.unchanged"},
    {"reboot_initiated", "ssh_ready", "state", "uptime_seconds"}))
vm_reboot_instance == Blank({"reboot_confirmed", "uptime_seconds"},
    Template({"instance_id", "instance_id.unchanged"}, {"reboot_confirmed",
    "reboot_initiated", "ssh_ready", "state", "uptime_seconds"}))
vm_serial_console == Template({"instance_id"}, {"console"})
vm_start_instance == Template({"instance_id", "instance_id.unchanged"}, {"ssh_ready",
    "start_initiated", "state"})
vm_stop_instance == Template({"instance_id"}, {"stop_initiated", "stopped"})
vm_teardown == Template({}, {})
vm_virtual_device_hardening == Template({}, {"clipboard_disabled",
    "unnecessary_virtual_devices_absent", "usb_devices_disabled"})
=============================================================================
