----------------------------- MODULE FleetChecks -----------------------------
(***************************************************************************)
(* The classes that judge records about a fleet: validations/breakfix.py,  *)
(* hardware.py, governance.py, capacity.py, sanitization.py, health.py,    *)
(* infiniband.py, attestation.py, topology.py, key_access.py, cluster.py   *)
(* and storage_infra.py.  "machines.x" is good when every record has an    *)
(* acceptable x, wrong when one of them has not.                           *)
(***************************************************************************)
EXTENDS CheckLanguage

\* breakfix.py
breakfix_step_output == <<Need({"success"})>>
\* An empty list of records is nothing to judge.
_QueryableRecordsCheck(queryable_key, records_key) ==
    breakfix_step_output \o <<Need({queryable_key}), SkipUnless(records_key)>>
MaintenanceEventsCheck == _QueryableRecordsCheck("events_queryable", "events")
RetirementNoticesCheck == _QueryableRecordsCheck("notices_queryable", "notices")
RepairHistoryCheck == _QueryableRecordsCheck("history_queryable", "records")
PlannedMaintenanceNotificationCheck == _QueryableRecordsCheck("notification_channel_observable", "notifications")
FailureNotificationCheck == _QueryableRecordsCheck("notification_channel_observable", "notifications")
NvSwitchFirmwareCheck ==
    breakfix_step_output \o <<Need({"trays"}), Need({"trays.tray_id"}), Need({"trays.firmware_version"})>>
BmcKernelLogCheck ==
    breakfix_step_output \o <<Need({"hosts"}), Need({"hosts.host_id"}), Need({"hosts.window"}),
                              Need({"hosts.entries_returned"})>>

_OperationCheck(completion_key, more) ==
    breakfix_step_output \o <<Need({completion_key})>> \o more \o <<Need({"label"})>>
GpuResetCheck == _OperationCheck("accepted", <<Need({"request_id"}), Need({"gpu_ids"})>>)
ReturnNodeMaintenanceCheck == _OperationCheck("instance_deleted", <<Need({"machine_quarantined"})>>)
ReturnRackMaintenanceCheck == _OperationCheck("accepted", <<>>)
HostReplacementCheck == _OperationCheck("node_removed_from_pool", <<>>)
ReportNodeRepairCheck == _OperationCheck("repair_state_observed", <<Need({"restored"})>>)
CordonNodeCheck ==
    breakfix_step_output \o <<Need({"cordoned"}), Need({"new_workloads_blocked"}),
                              Need({"existing_workloads_running"})>>
\* Every agent is identified, running and named, and they cover the nodes expected.
NodeHealthAgentCheck ==
    breakfix_step_output \o <<Need({"agents_observable"}), Need({"agents"}),
                              Need({"agents.node_id", "agents.running", "agents.agent_name"}),
                              Need({"nodes_expected"})>>

-----------------------------------------------------------------------------
\* hardware.py
HardwareIngestionCheck ==
    <<Need({"success"}), Need({"expected_count"}), Faults({"missing"}),
      Faults({"machines.status", "machines.health"})>>
\* A component that is not present on the host is a skipped subtest.
BmHardwareSerialCheck == <<Need({"success"}), Need({"machines"}), Subs({"machines.identifiers"})>>
BmDpuHealthCheck ==
    <<Need({"success"}), Need({"machines"}), Subs({"machines.dpu_count", "machines.dpu_agent_heartbeat"}),
      Faults({"machines.health_summary"})>>
BmDpuNetworkCheck ==
    <<Need({"success"}), Need({"interfaces"}), Subs({"interfaces.status"}), Subs({"bgp_enabled"}),
      Faults({"dpu_extension_deployments"})>>

-----------------------------------------------------------------------------
\* governance.py
GovernanceMetricsCheck ==
    <<Need({"success"}), Need({"metrics"}), Need({"metrics.nodes", "metrics.gpus"}),
      Need({"metrics.relationships"})>>
FleetManagementApiCheck ==
    <<Need({"success"}), Need({"nodes"}), Subs({"nodes.record"}), Unless({"nodes.duplicate_id"})>>
ResourceDiscoveryApiCheck ==
    <<Need({"success"}), Need({"resources"}), Need({"polls"}), Faults({"unstable_identifiers"}),
      Subs({"resources.resource_id"}), Unless({"resources.duplicate_id"}), Subs({"resources.discovered"})>>

-----------------------------------------------------------------------------
\* capacity.py
CapacityReservationGroupingCheck ==
    <<Need({"success"}), Need({"reservation_id", "account_id"}), Need({"resources"}),
      Need({"resources.account_id"}), Need({"pinned", "resources.pinned"}), Need({"isolation_enforced"})>>
CapacityTopologyBlockAtomicAllocationCheck ==
    <<Need({"success"}), Need({"topology_block"}), Need({"resources"}), Subs({"atomic_allocation"}),
      Subs({"requested_counts"}), Subs({"resource_membership"}), Subs({"performance_homogeneity"}),
      Subs({"isolation_boundary"}), Need({"block_id", "tenant_id", "reservation_id"})>>

-----------------------------------------------------------------------------
\* sanitization.py: a machine that served no tenant has nothing to be sanitized.
evaluate_sanitization == Faults({"machines.stale_tenant_binding", "machines.sanitized"})
_TenantSanitizationCheck(machines, more) ==
    <<Need({"success"}), Need({machines}), evaluate_sanitization>> \o more
SkipSanitizationBreakfixCheck ==
    _TenantSanitizationCheck("machines", <<Faults({"machines.tenancy_preserved"})>>)
BmMemorySanitizationCheck == _TenantSanitizationCheck("machines", <<>>)
BmGpuMemorySanitizationCheck == _TenantSanitizationCheck("machines.has_gpu", <<>>)
BmFirmwareResetCheck == _TenantSanitizationCheck("machines", <<>>)
BmDiskSanitizationCheck == _TenantSanitizationCheck("machines", <<>>)

-----------------------------------------------------------------------------
\* health.py
HostHealthCheck ==
    <<Need({"success"}), Need({"hosts"}), Subs({"hosts.health_present"}), Faults({"hosts.alerts"}),
      Subs({"hosts.probe_ids"}), Subs({"hosts.observed_age_seconds"})>>
HealthAggregationCheck(require_all_healthy) ==
    <<Need({"success"}), Need({"aggregation_level"}), Need({"groups"}),
      Subs({"groups.counts", "groups.status"})>>
    \o (IF require_all_healthy THEN <<Unless({"groups.unhealthy"})>> ELSE <<>>)

-----------------------------------------------------------------------------
\* infiniband.py
IbTenantIsolationCheck ==
    <<Need({"success"}), Need({"partitions"}), Subs({"partitions.partition_key", "partitions.tenant_id"}),
      Faults({"partitions.shared_pkey"})>>
\* A key that is reported and not required has its subtest too.
IbKeysConfiguredCheck(required_keys, other_keys) ==
    <<Need({"success"}), Need({"keys"}), Need({"partitions_with_pkey"}), Notes(other_keys),
      Need({"partitions_with_pkey.some"}), Tests(required_keys)>>

-----------------------------------------------------------------------------
\* attestation.py
_AttestationCheck(evidence) ==
    <<Need({"success"}), Need({"machines"}), Subs({"machines.attestation_supported"} \cup evidence)>>
BmNonceAttestationCheck ==
    _AttestationCheck({"machines.nonce_verified", "machines.attestation_signature_valid"})
BmFirmwareAttestationCheck ==
    _AttestationCheck({"machines.secure_boot_enabled", "machines.boot_measurements_attested"})

\* topology.py
FailureDomainObservabilityCheck ==
    <<Need({"success"}), Need({"hosts"}), Subs({"hosts.failure_domain"}), Need({"min_failure_domains"})>>

\* key_access.py: a target known to be closed fails, one that could not be tried skips.
BmComponentKeyAccessCheck ==
    <<Need({"success"}), Need({"access_targets", "specified_keys"}), SkipUnless("specified_keys.some"),
      Unless({"access_targets.key_access"}), Tests({"access_targets.accessible"})>>

\* cluster.py
NodeCountCheck == <<Need({"node_count"})>>
ClusterHealthCheck == <<Need({"cluster_name"}), Need({"node_count"})>>
GpuOperatorInstalledCheck == <<Need({"installed"})>>
PerformanceCheck == <<Need({"metrics.bandwidth", "metrics.latency"})>>

\* storage_infra.py
StableStorageNodeIpCheck ==
    <<Need({"success"}), Need({"hosts"}), Subs({"hosts.primary_ip_addresses"})>>
OobFailureDetectionCheck ==
    <<Need({"success"}), Need({"hosts"}), Subs({"hosts.oob_health_present"}),
      Subs({"hosts.bmc_probe_ids"}), Subs({"hosts.failure_categories"})>>
=============================================================================
