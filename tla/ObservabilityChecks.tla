------------------------- MODULE ObservabilityChecks -------------------------
(***************************************************************************)
(* The classes of isvtest/validations/observability.py, one member each.   *)
(* Fields are read from the probes of the test entries, merged.            *)
(***************************************************************************)
EXTENDS CheckLanguage

VpcFlowLogsCheck ==
    <<Unless({"traffic_type"}),
      Tests({"flow_log_endpoint_reachable", "flow_logs_configured", "traffic_type_all", "log_destination_accessible"}),
      Need({"network_id", "log_destination", "traffic_type"})>>
HostSyslogCheck ==
    <<Tests({"syslog_endpoint_reachable", "host_log_source_present", "entries_recent"}),
      Need({"log_source", "latest_timestamp", "hosts_checked", "entry_count"})>>
BmcSelLogsCheck ==
    <<Tests({"sel_log_endpoint_reachable", "sel_log_source_present", "sel_entries_queryable"}),
      Need({"log_source", "bmc_endpoints_checked", "entry_count"})>>

_StorageTelemetryCheck(metrics_present_test, kind_field) ==
    <<Tests({"telemetry_endpoint_reachable", metrics_present_test, "samples_recent"}),
      Need({"telemetry_source", "metric_names", kind_field, "volumes_checked", "sample_count", "latest_timestamp"})>>
StorageCapacityTelemetryCheck    == _StorageTelemetryCheck("capacity_metrics_present", "capacity_kinds")
StoragePerformanceTelemetryCheck == _StorageTelemetryCheck("performance_metrics_present", "performance_kinds")

_NvlinkTelemetryCheck(metrics_present_test, count_field) ==
    <<Tests({"telemetry_endpoint_reachable", metrics_present_test, "samples_recent"}),
      Need({"telemetry_source", "metric_names", count_field, "sample_count", "latest_timestamp"})>>
GpuNvlinkTelemetryCheck    == _NvlinkTelemetryCheck("link_metrics_present", "links_checked")
SwitchNvlinkTelemetryCheck == _NvlinkTelemetryCheck("port_metrics_present", "ports_checked")

BmcGpuTelemetryCheck ==
    <<Tests({"telemetry_endpoint_reachable", "gpu_metrics_present", "host_os_gap_identified",
             "telemetry_samples_recent"}),
      Need({"telemetry_endpoint", "metric_names", "host_os_unavailable_metrics", "bmc_endpoints_checked",
            "sample_count"})>>
TelemetryDeliveryLatencyCheck ==
    <<Unless({"observed_delivery_seconds"}),
      Tests({"telemetry_endpoint_reachable", "delivery_sample_present", "delivery_within_threshold"}),
      Need({"telemetry_source", "observed_delivery_seconds"})>>

_NetworkTelemetryCheck(metrics_present_test, count_fields) ==
    <<Tests({"telemetry_endpoint_reachable", metrics_present_test, "samples_recent"}),
      Need({"telemetry_source", "metric_names", "sample_count", "latest_timestamp"} \cup count_fields)>>
NorthSouthNetworkTelemetryCheck == _NetworkTelemetryCheck("plane_metrics_present", {})
EastWestNetworkTelemetryCheck   == _NetworkTelemetryCheck("plane_metrics_present", {})
ManagementNetworkTelemetryCheck == _NetworkTelemetryCheck("plane_metrics_present", {})
NvswitchFabricTelemetryCheck    == _NetworkTelemetryCheck("plane_metrics_present", {})
HostNicNetworkTelemetryCheck    == _NetworkTelemetryCheck("nic_metrics_present", {"nics_checked"})

_FabricLogCheck(required_tests, fields) == <<Tests(required_tests), Need({"log_source", "entry_count"} \cup fields)>>
FabricManagerLogsCheck == _FabricLogCheck(
    {"log_endpoint_reachable", "log_source_present", "log_entries_queryable"}, {"log_endpoints_checked"})
SubnetManagerLogsCheck == _FabricLogCheck(
    {"log_endpoint_reachable", "log_source_present", "log_entries_queryable"}, {"log_endpoints_checked"})
UfmEventLogsCheck == _FabricLogCheck(
    {"event_log_endpoint_reachable", "event_log_source_present", "event_entries_queryable"},
    {"log_endpoints_checked", "latest_timestamp"})
_SwitchLogCheck(required_tests) == _FabricLogCheck(required_tests, {"switches_checked", "latest_timestamp"})
GeneralSwitchLogsCheck == _SwitchLogCheck({"log_endpoint_reachable", "switch_log_source_present", "entries_queryable"})
SwitchSyslogCheck      == _SwitchLogCheck({"syslog_endpoint_reachable", "switch_syslog_source_present", "entries_recent"})
SwitchKernelLogsCheck  == _SwitchLogCheck({"log_endpoint_reachable", "kernel_log_source_present", "entries_queryable"})
=============================================================================
