--------------------------- MODULE SecurityChecks ---------------------------
(***************************************************************************)
(* The classes of isvtest/validations/security.py, one member each.        *)
(***************************************************************************)
EXTENDS CheckLanguage

BmcManagementNetworkCheck ==
    <<Tests({"dedicated_management_network", "restricted_management_routes", "tenant_network_not_management",
             "management_acl_enforced"})>>
BmcTenantIsolationCheck ==
    <<Tests({"probe_bmc_from_tenant", "probe_ipmi_port", "probe_redfish_port", "reverse_path_check"})>>
TenantIsolationCheck ==
    <<Need({"tenant_a_id", "tenant_b_id"}),
      Tests({"network_isolated", "data_isolated", "compute_isolated", "storage_isolated"})>>
BmcProtocolSecurityCheck ==
    <<Tests({"ipmi_disabled", "redfish_tls_enabled", "redfish_plain_http_disabled",
             "redfish_authentication_required", "redfish_authorization_enforced", "redfish_accounting_enabled"})>>
InsecureProtocolsCheck ==
    <<Unless({"success"}),
      Tests({"sslv3_disabled", "tlsv1_0_disabled", "tlsv1_1_disabled", "plain_http_disabled"}),
      Need({"endpoints_tested"})>>
MutualTlsCheck ==
    <<Unless({"success"}), Tests({"north_south_mtls_enforced", "east_west_mtls_enforced"}),
      Need({"endpoints_tested"})>>
BmcBastionAccessCheck ==
    <<Tests({"bastion_identifiable", "management_ingress_via_bastion_only", "no_direct_public_route",
             "bastion_hardened"})>>
MfaEnforcedCheck == <<Tests({"admin_account_mfa", "interactive_access_mfa", "programmatic_access_mfa"})>>
CentralizedKmsCheck ==
    <<Unless({"non_kms_resources"}),
      Tests({"kms_service_reachable", "kms_keys_present", "all_encrypted_resources_use_kms"}),
      Need({"kms_keys_total", "non_kms_resources", "encrypted_resources_inspected"})>>
CertRotationCycleCheck ==
    <<Unless({"out_of_policy"}),
      Tests({"cert_inventory_non_empty", "no_certs_out_of_policy", "rotation_evidence_present"}),
      Need({"certs_inspected", "rotation_window_days", "out_of_policy"})>>
CustomerManagedKeyCheck ==
    <<Tests({"customer_managed_key_available", "key_manager_is_customer", "encrypt_decrypt_roundtrip",
             "resource_encrypted_with_customer_key", "provider_managed_key_not_used"}),
      Need({"key_id", "encrypted_resource_id"})>>
KmsEncryptionOptionCheck ==
    <<Tests({"provider_managed_key_available", "customer_managed_key_available", "both_options_supported"}),
      Need({"customer_managed_key_id"})>>
ApiEndpointIsolationCheck ==
    <<Tests({"probe_api_from_public", "probe_mgmt_from_public", "verify_private_only", "dns_not_public"})>>
VmConsoleRbacCheck ==
    <<Need({"instance_id"}), Need({"access_restricted"}), Need({"restricted_actions"}),
      Tests({"denied_principal_cannot_access_console", "allowed_principal_can_access_console",
             "allowed_principal_is_resource_scoped"})>>
\* A step that failed fails the check, with the failed tests named when there are any.
VirtualDeviceHardeningCheck ==
    <<Tests({"usb_devices_disabled", "clipboard_disabled", "unnecessary_virtual_devices_absent"}),
      Unless({"success"})>>
OidcUserAuthCheck ==
    <<Tests({"valid_token_accepted", "bad_signature_rejected", "wrong_issuer_rejected", "wrong_audience_rejected",
             "expired_token_rejected", "missing_required_claim_rejected", "discovery_and_jwks_reachable"}),
      Need({"issuer_url", "audience", "target_url", "endpoints_tested"})>>
ShortLivedCredentialsCheck ==
    <<Unless({"node_credential_ttl_seconds", "workload_credential_ttl_seconds"}),
      Tests({"node_credential_has_expiry", "node_credential_ttl_within_bound", "workload_credential_has_expiry",
             "workload_credential_ttl_within_bound"}),
      Need({"max_ttl_seconds", "node_credential_ttl_seconds", "workload_credential_ttl_seconds"})>>
LeastPrivilegePolicyCheck ==
    <<Tests({"policy_dimensions_user_based", "policy_dimensions_resource_based",
             "policy_dimensions_allowed_action_succeeds"}),
      Need({"test_identity", "allowed_resource"})>>
MinimalRoleEnforcementCheck ==
    <<Tests({"out_of_scope_compute_denied", "out_of_scope_storage_denied", "out_of_scope_network_denied"}),
      Need({"test_identity"})>>
AuditLogEntryCheck ==
    <<Offer("audit_log_entry"),
      Tests({"audit_log_entry_found", "audit_log_event_name_matches", "audit_log_event_time_in_window",
             "audit_log_user_identity_present", "audit_log_source_ip_present", "audit_log_user_agent_matches",
             "audit_log_region_matches", "audit_log_event_source_matches"})>>
AuditLogRetentionCheck ==
    <<Offer("audit_log_retention"),
      Tests({"audit_log_trail_logging_enabled", "audit_log_retention_at_least_30_days"})>>
=============================================================================
