------------------------------- MODULE Suites -------------------------------
(***************************************************************************)
(* The validations the suites wire to steps (configs/suites/*.yaml): On    *)
(* for a check whose step is run by a my-isv template, Live for one that   *)
(* judges what a host or a provider's own script answers.  A wiring that   *)
(* repeats another's template and members appears once.                    *)
(***************************************************************************)
EXTENDS Templates, NetworkChecks, SecurityChecks, ObservabilityChecks, InstanceChecks,
        FleetChecks, HostChecks, ServiceChecks, ClusterChecks

On(template, members) == [wired |-> {template}, members |-> members]
Live(members)         == [wired |-> {}, members |-> members]

\* suites/bare_metal.yaml
BareMetalSuite ==
    [BmHostRunningCheck |-> On(bare_metal_launch_instance, <<InstanceStateCheck>>),
     BmHostListedCheck |-> On(vm_list_instances, <<InstanceListCheck>>),
     BmHostTaggedCheck |-> On(bare_metal_describe_tags, <<InstanceTagCheck>>),
     BmTopologyPlacementCheck |-> On(bare_metal_topology_placement, <<BmTopologyPlacementCheck>>),
     BmSerialConsoleCheck |-> On(bare_metal_serial_console, <<SerialConsoleCheck>>),
     SerialConsoleRetentionCheck |-> On(bare_metal_serial_console, <<SerialConsoleRetentionCheck>>),
     BmCloudInitCheck |-> Live(<<CloudInitCheck>>),
     BmHostRunsExpectedImageCheck |-> Live(<<StepSuccessCheck, FieldExistsCheck({"instance_id",
        "image_id", "image_name", "instance_state"}), InstanceStateCheck>>),
     BmHostStateReportedCheck |-> On(bare_metal_describe_instance, <<InstanceStateCheck>>),
     BmHostReadyCheck |-> Live(<<ConnectivityCheck, OsCheck>>),
     BmGpusPresentCheck |-> Live(<<GpuCheck>>),
     BmVcpuPinningCheck |-> Live(<<VcpuPinningCheck>>),
     BmPciBusCheck |-> Live(<<PciBusCheck>>),
     BmHostSoftwareCheck |-> Live(<<HostSoftwareCheck({"kernel"})>>),
     BmHostStatusLogCheck |-> On(bare_metal_host_status_log, <<BmHostStatusLogCheck({})>>),
     BmGpuStressCheck |-> Live(<<BmGpuStressCheck>>),
     BmNcclCheck |-> Live(<<BmNcclCheck>>),
     BmTrainingCheck |-> Live(<<BmTrainingCheck>>),
     BmNvlinkCheck |-> Live(<<BmNvlinkCheck>>),
     BmInfiniBandCheck |-> Live(<<BmInfiniBandCheck>>),
     BmEthernetCheck |-> Live(<<BmEthernetCheck>>),
     BmGpuDriverCheck |-> Live(<<DriverCheck>>),
     BmCpuInfoCheck |-> Live(<<CpuInfoCheck>>),
     BmContainerRuntimeCheck |-> Live(<<ContainerRuntimeCheck>>),
     BmHostStoppedCheck |-> On(bare_metal_stop_instance, <<InstanceStopCheck>>),
     BmHostStartedCheck |-> On(bare_metal_start_instance, <<InstanceStartCheck>>),
     BmIdentifierStableAfterStartCheck |-> On(bare_metal_start_instance, <<StableIdentifierCheck>>),
     BmHostRebootedCheck |-> On(bare_metal_reboot_instance, <<InstanceRebootCheck>>),
     BmIdentifierStableAfterRebootCheck |-> On(bare_metal_reboot_instance, <<StableIdentifierCheck>>),
     BmHostRunningAfterRebootCheck |-> On(bare_metal_reboot_instance, <<InstanceStateCheck>>),
     BmHostPowerCycledCheck |-> On(bare_metal_power_cycle_instance, <<InstancePowerCycleCheck>>),
     BmIdentifierStableAfterPowerCycleCheck |-> On(bare_metal_power_cycle_instance,
        <<StableIdentifierCheck>>),
     BmHostRunningAfterPowerCycleCheck |-> On(bare_metal_power_cycle_instance, <<InstanceStateCheck>>),
     BmHostRunningAfterReinstallCheck |-> Live(<<InstanceStateCheck>>),
     BmIdentifierStableAfterReinstallCheck |-> Live(<<StableIdentifierCheck>>),
     BmNimInferenceReadyCheck |-> Live(<<NimHealthCheck, NimModelCheck, NimInferenceCheck>>),
     BmNimDeploymentDeletedCheck |-> Live(<<StepSuccessCheck>>),
     BmResourcesDeletedCheck |-> On(bare_metal_teardown, <<StepSuccessCheck>>),
     BmHostTerminatedCheck |-> On(bare_metal_verify_terminated, <<StepSuccessCheck>>),
     HardwareIngestionCheck |-> Live(<<HardwareIngestionCheck>>),
     BmDpuHealthCheck |-> Live(<<BmDpuHealthCheck>>),
     BmDpuNetworkCheck |-> Live(<<BmDpuNetworkCheck>>),
     GovernanceMetricsCheck |-> Live(<<GovernanceMetricsCheck>>),
     FleetManagementApiCheck |-> Live(<<FleetManagementApiCheck>>),
     ResourceDiscoveryApiCheck |-> Live(<<ResourceDiscoveryApiCheck>>),
     HostHealthCheck |-> Live(<<HostHealthCheck>>),
     HealthAggregationCheck |-> Live(<<HealthAggregationCheck(FALSE)>>),
     IbTenantIsolationCheck |-> Live(<<IbTenantIsolationCheck>>),
     IbKeysConfiguredCheck |-> Live(<<IbKeysConfiguredCheck({"p_key", "management_key"},
        {"sharp_key"})>>),
     BmMemorySanitizationCheck |-> Live(<<BmMemorySanitizationCheck>>),
     BmGpuMemorySanitizationCheck |-> Live(<<BmGpuMemorySanitizationCheck>>),
     BmFirmwareResetCheck |-> Live(<<BmFirmwareResetCheck>>),
     BmDiskSanitizationCheck |-> Live(<<BmDiskSanitizationCheck>>),
     FailureDomainObservabilityCheck |-> Live(<<FailureDomainObservabilityCheck>>),
     SkipSanitizationBreakfixCheck |-> Live(<<SkipSanitizationBreakfixCheck>>),
     StableStorageNodeIpCheck |-> Live(<<StableStorageNodeIpCheck>>),
     OobFailureDetectionCheck |-> Live(<<OobFailureDetectionCheck>>),
     BmNonceAttestationCheck |-> Live(<<BmNonceAttestationCheck>>),
     BmFirmwareAttestationCheck |-> Live(<<BmFirmwareAttestationCheck>>),
     BmComponentKeyAccessCheck |-> Live(<<BmComponentKeyAccessCheck>>),
     BmHardwareSerialCheck |-> On(breakfix_query_serial_numbers, <<BmHardwareSerialCheck>>),
     NvSwitchFirmwareCheck |-> On(breakfix_query_switch_firmware, <<NvSwitchFirmwareCheck>>),
     BmcKernelLogCheck |-> On(breakfix_query_bmc_kernel_logs, <<BmcKernelLogCheck>>),
     MaintenanceEventsCheck |-> On(breakfix_query_maintenance_events, <<MaintenanceEventsCheck>>),
     RetirementNoticesCheck |-> On(breakfix_query_retirement_notices, <<RetirementNoticesCheck>>),
     RepairHistoryCheck |-> On(breakfix_query_repair_history, <<RepairHistoryCheck>>),
     ReportNodeRepairCheck |-> Live(<<ReportNodeRepairCheck>>),
     ReturnNodeMaintenanceCheck |-> On(breakfix_return_node_maintenance, <<ReturnNodeMaintenanceCheck>>),
     ReturnRackMaintenanceCheck |-> On(breakfix_return_rack_maintenance, <<ReturnRackMaintenanceCheck>>),
     HostReplacementCheck |-> On(breakfix_request_host_replacement, <<HostReplacementCheck>>),
     NodeHealthAgentCheck |-> On(breakfix_query_node_health_agents, <<NodeHealthAgentCheck>>),
     PlannedMaintenanceNotificationCheck |-> On(breakfix_query_planned_notifications,
        <<PlannedMaintenanceNotificationCheck>>),
     FailureNotificationCheck |-> On(breakfix_query_failure_notifications, <<FailureNotificationCheck>>)]

\* suites/control-plane.yaml
ControlPlaneSuite ==
    [ControlPlaneApiHealthCheck |-> On(control_plane_check_api, <<FieldExistsCheck({"account_id",
        "tests"}), FieldValueCheck("success")>>),
     AccessKeyCreatedCheck |-> On(control_plane_create_access_key, <<AccessKeyCreatedCheck>>),
     TenantCreatedCheck |-> On(control_plane_create_tenant, <<TenantCreatedCheck>>),
     AccessKeyAuthenticatedCheck |-> On(control_plane_test_access_key, <<AccessKeyAuthenticatedCheck>>),
     AccessKeyDisabledCheck |-> On(control_plane_disable_access_key, <<AccessKeyDisabledCheck>>),
     AccessKeyRejectedCheck |-> On(control_plane_verify_key_rejected, <<AccessKeyRejectedCheck>>),
     TenantListedCheck |-> On(control_plane_list_tenants, <<TenantListedCheck>>),
     TenantInfoCheck |-> On(control_plane_get_tenant, <<TenantInfoCheck>>),
     ObjectStorageCrudCheck |-> On(control_plane_s3_object_lifecycle, <<StepSuccessCheck,
        FieldExistsCheck({"bucket_name", "object_key", "operations"}), CrudOperationsCheck({"put",
        "get", "delete"})>>),
     AccessKeyDeletedCheck |-> On(control_plane_delete_access_key, <<StepSuccessCheck>>),
     TenantDeletedCheck |-> On(control_plane_delete_tenant, <<StepSuccessCheck>>)]

\* suites/iam.yaml
IamSuite ==
    [IamUserCreatedCheck |-> On(iam_create_user, <<StepSuccessCheck, FieldExistsCheck({"username",
        "access_key_id"})>>),
     IamUserAuthenticatedCheck |-> On(iam_test_credentials, <<StepSuccessCheck,
        IamCredentialAccessCheck({"identity"})>>),
     IamUserApiAccessCheck |-> On(iam_test_credentials, <<IamCredentialAccessCheck({"access"})>>),
     IamUserDeletedCheck |-> On(iam_delete_user, <<StepSuccessCheck>>)]

\* suites/image-registry.yaml
ImageRegistrySuite ==
    [CustomOsImageUploadedCheck |-> On(image_registry_upload_image, <<StepSuccessCheck,
        FieldExistsCheck({"image_id", "storage_bucket", "disk_ids"})>>),
     CustomOsImageCrudCheck |-> On(image_registry_crud_image, <<StepSuccessCheck,
        FieldExistsCheck({"image_id", "operations"}), CrudOperationsCheck({"get", "list", "create",
        "delete"})>>),
     VmBootedFromCustomImageCheck |-> On(image_registry_launch_instance, <<StepSuccessCheck,
        FieldExistsCheck({"instance_id", "public_ip", "key_path"}), InstanceStateCheck>>),
     OsInstallConfigCrudCheck |-> On(image_registry_crud_install_config, <<StepSuccessCheck,
        FieldExistsCheck({"config_id", "config_name", "operations"}), CrudOperationsCheck({"create",
        "read", "update", "delete"})>>),
     BmHostBootedFromCustomImageCheck |-> On(image_registry_install_image_bm, <<StepSuccessCheck,
        FieldExistsCheck({"instance_id", "image_id", "instance_state"}), InstanceStateCheck>>),
     BmHostBootedFromInstallConfigCheck |-> On(image_registry_install_config_bm, <<StepSuccessCheck,
        FieldExistsCheck({"instance_id", "config_id", "instance_state"}), InstanceStateCheck>>),
     CustomOsImageDeletedCheck |-> On(image_registry_teardown, <<StepSuccessCheck>>)]

\* suites/k8s.yaml
K8sSuite ==
    [GpuResetCheck |-> Live(<<GpuResetCheck>>),
     CordonNodeCheck |-> Live(<<CordonNodeCheck>>)]

\* suites/network.yaml
NetworkSuite ==
    [NetworkProvisionedCheck |-> On(network_create_vpc, <<NetworkProvisionedCheck>>),
     VpcListedCheck |-> Live(<<StepSuccessCheck, FieldExistsCheck({"vpcs", "count"}),
        FieldValueCheck("found_target")>>),
     VpcReadFromInventoryCheck |-> Live(<<StepSuccessCheck, FieldExistsCheck({"vpc_id", "vpc_name"})>>),
     VpcContainsExpectedSubnetCheck |-> Live(<<StepSuccessCheck,
        FieldValueCheck("tests.subnet_assigned.passed")>>),
     VpcCreatedCheck |-> On(network_vpc_crud_test, <<VpcCrudCheck({"create_vpc"})>>),
     VpcReadCheck |-> On(network_vpc_crud_test, <<VpcCrudCheck({"read_vpc"})>>),
     VpcUpdatedCheck |-> On(network_vpc_crud_test, <<VpcCrudCheck({"update_tags", "update_dns"})>>),
     VpcDeletedCheck |-> On(network_vpc_crud_test, <<VpcCrudCheck({"delete_vpc"})>>),
     SubnetConfigCheck |-> On(network_subnet_test, <<SubnetConfigCheck(FALSE)>>),
     SubnetMultiAzCheck |-> On(network_subnet_test, <<SubnetMultiAzCheck>>),
     VpcIsolationCheck |-> On(network_isolation_test, <<VpcIsolationCheck>>),
     SecurityGroupCreatedCheck |-> On(network_sg_crud_test, <<SgCrudCheck({"create_vpc", "create_sg"})>>),
     SecurityGroupReadCheck |-> On(network_sg_crud_test, <<SgCrudCheck({"read_sg"})>>),
     SecurityGroupUpdatedCheck |-> On(network_sg_crud_test, <<SgCrudCheck({"update_sg_add_rule",
        "update_sg_modify_rule", "update_sg_remove_rule"})>>),
     SecurityGroupDeletedCheck |-> On(network_sg_crud_test, <<SgCrudCheck({"delete_sg",
        "verify_deleted"})>>),
     SecurityBlockingCheck |-> On(network_security_test, <<SecurityBlockingCheck>>),
     NetworkConnectivityCheck |-> On(network_test_connectivity, <<NetworkConnectivityCheck>>),
     TrafficFlowCheck |-> On(network_traffic_test, <<TrafficFlowCheck>>),
     FiveTupleFilteringCheck |-> On(network_five_tuple_filtering_test, <<FiveTupleFilteringCheck>>),
     VpcIpConfigCheck |-> On(network_vpc_ip_config_test, <<VpcIpConfigCheck>>),
     DhcpIpManagementCheck |-> Live(<<DhcpIpManagementCheck>>),
     AllowRuleApprovalCheck |-> On(network_allow_rule_approval_test, <<AllowRuleApprovalCheck>>),
     SegmentBoundaryDefaultDenyCheck |-> On(network_segment_boundary_test,
        <<SegmentBoundaryDefaultDenyCheck>>),
     SgWorkloadScopingCheck |-> On(network_sg_scoping_test, <<SgWorkloadScopingCheck>>),
     SgNodeScopingCheck |-> On(network_sg_scoping_test, <<SgNodeScopingCheck>>),
     SgSubnetScopingCheck |-> On(network_sg_scoping_test, <<SgSubnetScopingCheck>>),
     SgServiceScopingCheck |-> On(network_sg_scoping_test, <<SgServiceScopingCheck>>),
     SgPortSecurityPolicyCheck |-> On(network_sg_port_security_policy, <<SgPortSecurityPolicyCheck>>),
     SgPolicyPropagationTimingCheck |-> On(network_sg_policy_propagation_test,
        <<SgPolicyPropagationTimingCheck>>),
     SdnHardwareFaultLoggingCheck |-> On(network_sdn_logging_test, <<SdnHardwareFaultLoggingCheck>>),
     SdnLatencyPerfLoggingCheck |-> On(network_sdn_logging_test, <<SdnLatencyPerfLoggingCheck>>),
     SdnFilterAuditTrailCheck |-> On(network_sdn_logging_test, <<SdnFilterAuditTrailCheck>>),
     ByoipCheck |-> On(network_byoip_test, <<ByoipCheck>>),
     StablePrivateIpCheck |-> On(network_stable_ip_test, <<StablePrivateIpCheck>>),
     StableEgressIpCheck |-> On(network_stable_egress_ip_test, <<StableEgressIpCheck>>),
     FloatingIpCheck |-> On(network_floating_ip_test, <<FloatingIpCheck>>),
     LocalizedDnsCheck |-> On(network_dns_test, <<LocalizedDnsCheck>>),
     VpcPeeringCheck |-> On(network_peering_test, <<VpcPeeringCheck>>),
     StorageL3RoutingCheck |-> On(network_storage_l3_routing_test, <<StorageL3RoutingCheck>>),
     BackendSwitchFabricCheck |-> On(network_backend_switch_fabric_test, <<BackendSwitchFabricCheck>>),
     NvlinkDomainCheck |-> On(network_nvlink_domain_test, <<NvlinkDomainCheck>>),
     ImexDomainConnectivityCheck |-> On(network_imex_domain_test, <<ImexDomainConnectivityCheck>>),
     ImexServicePresenceCheck |-> On(network_imex_service_test, <<ImexServicePresenceCheck>>),
     ImexServiceResilienceCheck |-> On(network_imex_resilience_test, <<ImexServiceResilienceCheck>>),
     ImexNodeDepartureCheck |-> On(network_imex_departure_test, <<ImexNodeDepartureCheck>>),
     ImexRebootRejoinCheck |-> On(network_imex_reboot_test, <<ImexRebootRejoinCheck>>),
     ImexComputeDomainCapabilityCheck |-> Live(<<ImexComputeDomainCapabilityCheck>>),
     NetworkResourcesDeletedCheck |-> On(network_teardown, <<StepSuccessCheck>>)]

\* suites/observability.yaml
ObservabilitySuite ==
    [TelemetryDeliveryLatencyCheck |-> On(observability_telemetry_delivery_test,
        <<TelemetryDeliveryLatencyCheck>>),
     NorthSouthNetworkTelemetryCheck |-> On(observability_network_telemetry_test,
        <<NorthSouthNetworkTelemetryCheck>>),
     EastWestNetworkTelemetryCheck |-> On(observability_network_telemetry_test,
        <<EastWestNetworkTelemetryCheck>>),
     ManagementNetworkTelemetryCheck |-> On(observability_network_telemetry_test,
        <<ManagementNetworkTelemetryCheck>>),
     NvswitchFabricTelemetryCheck |-> On(observability_network_telemetry_test,
        <<NvswitchFabricTelemetryCheck>>),
     HostNicNetworkTelemetryCheck |-> On(observability_network_telemetry_test,
        <<HostNicNetworkTelemetryCheck>>),
     VpcFlowLogsCheck |-> On(observability_log_availability_test, <<VpcFlowLogsCheck>>),
     HostSyslogCheck |-> On(observability_log_availability_test, <<HostSyslogCheck>>),
     BmcSelLogsCheck |-> On(observability_log_availability_test, <<BmcSelLogsCheck>>),
     BmcGpuTelemetryCheck |-> On(observability_log_availability_test, <<BmcGpuTelemetryCheck>>),
     StorageCapacityTelemetryCheck |-> On(observability_storage_telemetry_test,
        <<StorageCapacityTelemetryCheck>>),
     StoragePerformanceTelemetryCheck |-> On(observability_storage_telemetry_test,
        <<StoragePerformanceTelemetryCheck>>),
     GpuNvlinkTelemetryCheck |-> On(observability_nvlink_telemetry_test, <<GpuNvlinkTelemetryCheck>>),
     SwitchNvlinkTelemetryCheck |-> On(observability_nvlink_telemetry_test,
        <<SwitchNvlinkTelemetryCheck>>),
     FabricManagerLogsCheck |-> On(observability_log_availability_test, <<FabricManagerLogsCheck>>),
     UfmEventLogsCheck |-> On(observability_log_availability_test, <<UfmEventLogsCheck>>),
     SubnetManagerLogsCheck |-> On(observability_log_availability_test, <<SubnetManagerLogsCheck>>),
     GeneralSwitchLogsCheck |-> On(observability_log_availability_test, <<GeneralSwitchLogsCheck>>),
     SwitchSyslogCheck |-> On(observability_log_availability_test, <<SwitchSyslogCheck>>),
     SwitchKernelLogsCheck |-> On(observability_log_availability_test, <<SwitchKernelLogsCheck>>)]

\* suites/security.yaml
SecuritySuite ==
    [BmcManagementNetworkCheck |-> On(security_bmc_management_network_test,
        <<BmcManagementNetworkCheck>>),
     BmcTenantIsolationCheck |-> On(security_bmc_isolation_test, <<BmcTenantIsolationCheck>>),
     BmcProtocolSecurityCheck |-> On(security_bmc_protocol_security_test, <<BmcProtocolSecurityCheck>>),
     BmcBastionAccessCheck |-> On(security_bmc_bastion_access_test, <<BmcBastionAccessCheck>>),
     ApiEndpointIsolationCheck |-> On(security_api_endpoint_test, <<ApiEndpointIsolationCheck>>),
     MutualTlsCheck |-> Live(<<MutualTlsCheck>>),
     InsecureProtocolsCheck |-> Live(<<InsecureProtocolsCheck>>),
     MfaEnforcedCheck |-> On(security_mfa_enforcement_test, <<MfaEnforcedCheck>>),
     CertRotationCycleCheck |-> On(security_cert_rotation_test, <<CertRotationCycleCheck>>),
     KmsEncryptionOptionCheck |-> On(security_kms_encryption_options_test, <<KmsEncryptionOptionCheck>>),
     CentralizedKmsCheck |-> On(security_centralized_kms_test, <<CentralizedKmsCheck>>),
     CustomerManagedKeyCheck |-> On(security_customer_managed_key_test, <<CustomerManagedKeyCheck>>),
     ServiceAccountCredentialCheck |-> On(security_sa_credential_test, <<ServiceAccountCredentialCheck>>),
     OidcUserAuthCheck |-> On(security_oidc_user_auth_test, <<OidcUserAuthCheck>>),
     ShortLivedCredentialsCheck |-> On(security_short_lived_credentials_test,
        <<ShortLivedCredentialsCheck>>),
     LeastPrivilegePolicyCheck |-> On(security_least_privilege_test, <<LeastPrivilegePolicyCheck>>),
     MinimalRoleEnforcementCheck |-> On(security_least_privilege_test, <<MinimalRoleEnforcementCheck>>),
     AuditLogEntryCheck |-> On(security_audit_logging_test, <<AuditLogEntryCheck>>),
     AuditLogRetentionCheck |-> On(security_audit_logging_test, <<AuditLogRetentionCheck>>),
     TenantIsolationCheck |-> On(security_tenant_isolation_test, <<TenantIsolationCheck>>),
     CapacityReservationGroupingCheck |-> On(capacity_reservation_grouping,
        <<CapacityReservationGroupingCheck>>),
     CapacityTopologyBlockAtomicAllocationCheck |-> On(capacity_topology_block_atomic_allocation,
        <<CapacityTopologyBlockAtomicAllocationCheck>>),
     SecurityResourcesDeletedCheck |-> On(security_teardown, <<StepSuccessCheck>>)]

\* suites/slurm.yaml
SlurmSuite ==
    [SlurmInfoAvailable |-> Live(<<SlurmInfoAvailable>>),
     SlurmPartition_cpu |-> Live(<<SlurmPartition>>),
     SlurmJobSubmission |-> Live(<<SlurmJobSubmission>>),
     SlurmGpuAllocation_1gpu |-> Live(<<SlurmGpuAllocation>>)]

\* suites/storage.yaml
StorageSuite ==
    [VolumeHostRunningCheck |-> On(vm_launch_instance, <<InstanceStateCheck>>),
     VolumeProvisionedCheck |-> On(storage_create_volume, <<StepSuccessCheck,
        FieldExistsCheck({"volume_id", "mount_point", "operations"}), CrudOperationsCheck({"create",
        "attach", "format", "mount", "write_sentinel"})>>),
     VolumeSnapshotRestoredCheck |-> On(storage_snapshot_lifecycle, <<StepSuccessCheck,
        FieldExistsCheck({"volume_id", "snapshot_id", "operations"}),
        CrudOperationsCheck({"create_snapshot", "restore_volume", "verify_data"})>>),
     VolumeResizedCheck |-> On(storage_volume_resize, <<StepSuccessCheck, FieldExistsCheck({"volume_id",
        "operations"}), CrudOperationsCheck({"modify_volume", "grow_partition", "resize_filesystem",
        "verify_size"})>>),
     VolumePersistsAcrossRestartCheck |-> On(storage_volume_persistence, <<StepSuccessCheck,
        FieldExistsCheck({"volume_id", "operations"}), CrudOperationsCheck({"stop", "start",
        "verify_attached", "verify_data"})>>),
     DirectoryFilesystemQuotaCheck |-> On(storage_home_directory_storage_test,
        <<DirectoryFilesystemQuotaCheck>>),
     DirectoryUsageAccountingCheck |-> On(storage_home_directory_storage_test,
        <<DirectoryUsageAccountingCheck>>),
     DirectoryNfsAvailabilityCheck |-> On(storage_home_directory_storage_test,
        <<DirectoryNfsAvailabilityCheck>>),
     HssStorageProvisioningCheck |-> On(storage_provision_storage_test, <<HssStorageProvisioningCheck>>),
     HssQosThroughputCheck |-> On(storage_qos_throughput_test, <<HssQosThroughputCheck>>),
     HssNonDisruptiveUpgradeCheck |-> On(storage_non_disruptive_upgrade_test,
        <<HssNonDisruptiveUpgradeCheck>>),
     HssRdmaMemoryProtectionCheck |-> On(storage_rdma_memory_protection_test,
        <<HssRdmaMemoryProtectionCheck>>),
     HssParallelFsProvisioningCheck |-> On(storage_provision_parallel_fs_test,
        <<HssParallelFsProvisioningCheck>>),
     HssMultipleFilesystemsCheck |-> On(storage_multiple_filesystems_test,
        <<HssMultipleFilesystemsCheck>>),
     HssLiveExpansionCheck |-> On(storage_live_expansion_test, <<HssLiveExpansionCheck>>),
     HssQuotaEnforcementCheck |-> On(storage_quota_enforcement_test, <<HssQuotaEnforcementCheck>>),
     HssRootSquashCheck |-> On(storage_root_squash_test, <<HssRootSquashCheck>>),
     HssFlockMountCheck |-> On(storage_flock_mount_test, <<HssFlockMountCheck>>),
     HssChangelogAuditCheck |-> On(storage_changelog_audit_test, <<HssChangelogAuditCheck>>),
     HssMultipathCheck |-> On(storage_multipath_test, <<HssMultipathCheck>>),
     VolumeDeletedCheck |-> On(storage_teardown_volume, <<StepSuccessCheck>>)]

\* suites/vm.yaml
VmSuite ==
    [VmCreatedCheck |-> On(vm_launch_instance, <<VmInstanceIdReportedCheck, InstanceStateCheck>>),
     VmLaunchedWithSpecifiedKeyCheck |-> On(vm_launch_instance, <<VmLaunchedWithSpecifiedKeyCheck>>),
     VmComponentKeyAccessCheck |-> On(vm_component_key_access, <<VmComponentKeyAccessCheck>>),
     VmTaggedCheck |-> On(vm_describe_tags, <<InstanceTagCheck>>),
     VmSerialConsoleCheck |-> On(vm_serial_console, <<SerialConsoleCheck>>),
     VmConsoleRbacCheck |-> On(vm_console_rbac, <<VmConsoleRbacCheck>>),
     VirtualDeviceHardeningCheck |-> On(vm_virtual_device_hardening, <<VirtualDeviceHardeningCheck>>),
     VmReachableOverSshCheck |-> Live(<<ConnectivityCheck>>),
     VmOsImageCheck |-> Live(<<OsCheck>>),
     VmComputeTopologyCheck |-> Live(<<VcpuPinningCheck, PciBusCheck>>),
     VmSoftwareStackCheck |-> Live(<<HostSoftwareCheck({"kernel"}), DriverCheck>>),
     VmStoppedCheck |-> On(vm_stop_instance, <<InstanceStopCheck>>),
     VmStartedCheck |-> On(vm_start_instance, <<InstanceStartCheck>>),
     VmIdentifierStableAfterStartCheck |-> On(vm_start_instance, <<StableIdentifierCheck>>),
     VmRebootedCheck |-> On(vm_reboot_instance, <<InstanceRebootCheck>>),
     VmIdentifierStableAfterRebootCheck |-> On(vm_reboot_instance, <<StableIdentifierCheck>>),
     VmRunningAfterRebootCheck |-> On(vm_reboot_instance, <<InstanceStateCheck>>),
     VmResourcesDeletedCheck |-> On(vm_teardown, <<StepSuccessCheck>>)]

\* suites/k8s.yaml and the cluster part of suites/storage.yaml
ClusterSuite ==
    [K8sNodeCountCheck |-> Live(<<K8sNodeCountCheck>>), K8sNodeReadyCheck |-> Live(<<K8sNodeReadyCheck>>),
     K8sExpectedNodesCheck |-> Live(<<K8sExpectedNodesCheck({"node_1", "node_2"})>>),
     K8sPodHealthCheck |-> Live(<<K8sPodHealthCheck>>), K8sNoPendingPodsCheck |-> Live(<<K8sNoPendingPodsCheck>>),
     K8sNoErrorPodsCheck |-> Live(<<K8sNoErrorPodsCheck>>),
     K8sDriverVersionCheck |-> Live(<<K8sDriverVersionCheck>>),
     K8sGpuPodAccessCheck |-> Live(<<K8sGpuPodAccessCheck>>),
     K8sGpuOperatorNamespaceCheck |-> Live(<<K8sGpuOperatorNamespaceCheck>>),
     K8sGpuOperatorPodsCheck |-> Live(<<K8sGpuOperatorPodsCheck>>),
     K8sGpuOperatorOverrideCheck |-> Live(<<K8sGpuOperatorOverrideCheck>>),
     K8sGpuLabelsCheck |-> Live(<<K8sGpuLabelsCheck>>), K8sGpuCapacityCheck |-> Live(<<K8sGpuCapacityCheck>>),
     K8sMigConfigCheck |-> Live(<<K8sMigConfigCheck>>), K8sNodePoolCheck |-> Live(<<K8sNodePoolCheck>>),
     K8sClusterAutoscalerCheck |-> Live(<<K8sClusterAutoscalerCheck>>),
     K8sClusterAutoscalerProviderManaged |-> Live(<<provider_managed>>),
     K8sDualStackNodeCheck |-> Live(<<K8sDualStackNodeCheck>>),
     K8sLoadBalancerCheck |-> Live(<<K8sLoadBalancerCheck>>), K8sDnsForwardingCheck |-> Live(<<K8sDnsForwardingCheck>>),
     K8sCidrRangesCheck |-> Live(<<K8sCidrRangesCheck>>), K8sApiNetworkAclCheck |-> Live(<<K8sApiNetworkAclCheck>>),
     K8sOidcIssuerCheck |-> Live(<<K8sOidcIssuerCheck>>),
     K8sControlPlaneLogsCheck |-> Live(<<K8sControlPlaneLogsCheck>>),
     K8sControlPlaneSizePinnedCheck |-> Live(<<K8sControlPlaneSizePinnedCheck>>),
     K8sApiServerMetricsCheck |-> Live(<<K8sApiServerMetricsCheck>>),
     K8sMultiClusterSameVpcCheck |-> Live(<<K8sMultiClusterSameVpcCheck>>),
     K8sManagedUpgradePolicyCheck |-> Live(<<K8sManagedUpgradePolicyCheck>>),
     K8sControlPlaneUpgradeCheck |-> Live(<<K8sControlPlaneUpgradeCheck>>),
     K8sNodePoolUpgradeCheck |-> Live(<<K8sNodePoolUpgradeCheck>>),
     K8sSupportedMinorVersionsCheck |-> Live(<<K8sSupportedMinorVersionsCheck>>),
     K8sAutomatedControlPlanePatchingCheck |-> Live(<<K8sAutomatedControlPlanePatchingCheck>>),
     K8sServiceAccountIamCheck |-> Live(<<K8sServiceAccountIamCheck>>),
     K8sCsiHelmInstallCheck |-> Live(<<K8sCsiHelmInstallCheck>>),
     K8sCsiTenantScopedCredentialsCheck |-> Live(<<K8sCsiTenantScopedCredentialsCheck>>),
     K8sCsiDriverHealthCheck |-> Live(<<K8sCsiDriverHealthCheck>>),
     EastWestNetworkICMPPing |-> Live(<<EastWestNetworkCheck>>),
     NetworkOperatorDeployment |-> Live(<<NetworkOperatorDeployment>>),
     LaunchKitSosreport |-> Live(<<LaunchKitSosreport>>)]
=============================================================================
