--------------------------- MODULE InstanceChecks ---------------------------
(***************************************************************************)
(* The classes of isvtest/validations/instance.py, one member each.        *)
(***************************************************************************)
EXTENDS CheckLanguage

InstanceStateCheck == <<Need({"instance_id", "state"})>>
VmLaunchedWithSpecifiedKeyCheck == <<Need({"instance_id", "requested_key_name", "key_name"})>>
VmComponentKeyAccessCheck == <<Need({"key_name"}), Tests({"sol_access", "network_device_access"})>>
InstanceRebootCheck ==
    <<Need({"instance_id"}), Need({"reboot_initiated"}), Need({"state"}), Need({"ssh_ready"}),
      Unless({"uptime_seconds"}), Need({"reboot_confirmed"})>>
InstancePowerCycleCheck ==
    <<Need({"instance_id"}), Need({"power_cycle_initiated"}), Need({"power_was_off"}), Need({"state"}),
      Need({"ssh_ready"}), Unless({"recovery_seconds"})>>
\* The id is compared with the one the launch step reported.
StableIdentifierCheck == <<Need({"instance_id"}), Need({"instance_id.unchanged"})>>
VmInstanceIdReportedCheck == <<Need({"instance_id"})>>
InstanceStopCheck  == <<Need({"instance_id"}), Need({"stop_initiated"}), Need({"stopped"})>>
InstanceStartCheck == <<Need({"instance_id"}), Need({"start_initiated"}), Need({"state"}), Need({"ssh_ready"})>>
InstanceTagCheck   == <<Need({"instance_id"}), Need({"tags"})>>
\* Either way of reaching the console will do; console stands for the disjunction.
SerialConsoleCheck == <<Need({"instance_id"}), Need({"console"})>>
SerialConsoleRetentionCheck ==
    <<Need({"instance_id"}), Need({"console_log_queryable"}), Need({"retention_days_configured"}),
      Need({"oldest_queryable_log_age_days"}), Need({"query_result_count"}), Need({"retention_evidence"})>>
BmTopologyPlacementCheck ==
    <<Need({"instance_id"}), Need({"placement_supported"}),
      Tests({"create_group", "verify_instance", "describe_group", "delete_group"})>>
InstanceListCheck == <<Need({"instances"}), Unless({"found_target"})>>
=============================================================================
