---------------------------- MODULE ServiceChecks ----------------------------
(***************************************************************************)
(* The classes about a storage, home-directory or identity service, and    *)
(* the generic ones: validations/hss.py, home_directory.py, iam.py,        *)
(* generic.py.                                                             *)
(***************************************************************************)
EXTENDS CheckLanguage

\* hss.py
HssStorageProvisioningCheck == <<Tests({"api_available", "provisioned", "capacity_matches"})>>
HssQosThroughputCheck == <<Tests({"bandwidth_meets_min", "iops_meets_min"})>>
HssNonDisruptiveUpgradeCheck == <<Tests({"upgrade_available", "io_continuity", "maintenance_deferrable"})>>
HssRdmaMemoryProtectionCheck ==
    <<Tests({"rdma_enabled", "local_key_enforced", "remote_key_enforced", "unauthorized_access_blocked"})>>
HssParallelFsProvisioningCheck == <<Tests({"api_available", "filesystem_provisioned", "mount_successful"})>>
HssMultipleFilesystemsCheck == <<Tests({"multiple_filesystems", "within_total_capacity", "min_fs_size"})>>
HssLiveExpansionCheck ==
    <<Tests({"capacity_expanded", "inodes_expanded", "io_uninterrupted", "metadata_consistent"})>>
HssQuotaEnforcementCheck ==
    <<Tests({"uid_quota_enforced", "gid_quota_enforced", "project_quota_enforced", "soft_quota_grace",
             "hard_quota_blocks"})>>
HssRootSquashCheck ==
    <<Tests({"enable_root_squash", "root_squashed", "disable_root_squash", "root_unsquashed"})>>
HssFlockMountCheck ==
    <<Tests({"mounted_with_flock", "flock_exclusive", "flock_shared", "flock_contention"})>>
HssChangelogAuditCheck ==
    <<Tests({"changelog_enabled", "records_file_ops", "records_dir_ops", "tracks_uid_gid"})>>
HssMultipathCheck == <<Tests({"multiple_paths", "all_servers_reachable", "failover_works"})>>

\* home_directory.py
DirectoryFilesystemQuotaCheck ==
    <<Tests({"filesystem_quota_configured", "filesystem_quota_updated", "filesystem_quota_enforced"})>>
DirectoryUsageAccountingCheck ==
    <<Tests({"uid_usage_accounted", "gid_usage_accounted", "identity_usage_isolated"})>>
DirectoryNfsAvailabilityCheck == <<Tests({"nfsv4_mounted", "nfs_read_write", "nfs_shared_visibility"})>>

-----------------------------------------------------------------------------
\* iam.py
IamCredentialAccessCheck(required) == <<Tests(required)>>
AccessKeyCreatedCheck == <<Need({"access_key_id"}), Need({"username"})>>
AccessKeyAuthenticatedCheck == <<Need({"authenticated"})>>
AccessKeyDisabledCheck == <<Need({"status"})>>
AccessKeyRejectedCheck == <<Need({"rejected"})>>
ServiceAccountCredentialCheck == <<Need({"authenticated"}), Need({"credential_type"}), Need({"identity"})>>
TenantCreatedCheck == <<Need({"tenant_name"}), Need({"tenant_id"})>>
TenantListedCheck == <<Unless({"found_target"})>>
TenantInfoCheck == <<Need({"tenant_name"}), Need({"tenant_id"})>>

-----------------------------------------------------------------------------
\* generic.py
FieldExistsCheck(fields) == <<Has(fields)>>
FieldValueCheck(field) == <<Need({field})>>
SchemaValidation == <<Need({"schema"})>>
\* Mutant: a document that carries the flag is taken for one that sets it.
MutantFlagPresent == <<Has({"success_or_status"})>>
\* Without success, a status of "passed" or "skipped" is enough.
StepSuccessCheck == <<Unless({"success"}), Need({"success_or_status"})>>
CrudOperationsCheck(operations) == <<Need({"operations"}), Tests(operations)>>
=============================================================================
