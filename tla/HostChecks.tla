----------------------------- MODULE HostChecks -----------------------------
(***************************************************************************)
(* The classes that log on to a host and judge what its commands answer:   *)
(* validations/host.py, nim.py, bm_*.py, slurm_*.py.  The evidence "ssh"   *)
(* stands for a host, a key and a connection; a command whose answer is    *)
(* only looked at when it succeeded is a fault when it is wrong and        *)
(* nothing when it is absent.                                              *)
(***************************************************************************)
EXTENDS CheckLanguage

ConnectivityCheck == <<Need({"ssh"}), Subs({"command_exec"}), Faults({"uname"})>>
OsCheck           == <<Need({"ssh"}), Subs({"os_type"})>>
CpuInfoCheck      == <<Need({"ssh"}), Subs({"cpu_count", "numa", "pci_nvidia"})>>
VcpuPinningCheck  ==
    <<Need({"ssh"}), Need({"nproc"}), Subs({"vcpu_count"}), Faults({"vcpu_online"}),
      Faults({"numa_topology"}), Faults({"gpu_numa_locality"})>>
PciBusCheck ==
    <<Need({"ssh"}), Need({"lspci"}), Subs({"pci_gpu_count"}), Faults({"pcie_link"}), Faults({"gpu_memory"})>>
\* Only what the configuration expects is compared; the driver must be there.
HostSoftwareCheck(expected) == <<Need({"ssh"}), Subs(expected \cup {"nvidia_driver"})>>
GpuCheck    == <<Need({"ssh"}), Need({"nvidia_smi"}), Faults({"gpu_count"})>>
DriverCheck == <<Need({"ssh"}), Subs({"kernel", "nvidia_driver", "cuda_toolkit"})>>
BmGpuStressCheck ==
    <<Need({"script", "ssh"}), Subs({"gpu_stress"}), Need({"gpu_stress"}), Subs({"loops"}),
      Unless({"gpu_count"})>>
BmNcclCheck ==
    <<Need({"ssh"}), Need({"docker"}), Need({"gpus"}), Subs({"nccl_run"}), Need({"nccl_run"}),
      Subs({"avg_bus_bw"}), Unless({"bw_threshold"}), Unless({"data_integrity"})>>
BmTrainingCheck ==
    <<Need({"script", "ssh"}), Need({"gpus"}), Subs({"training"}), Need({"training"}),
      Faults({"grads", "synced"}), Faults({"steps"}), Unless({"gpu_count"})>>
\* No NVLink or InfiniBand on the host is a skip, a link that is down a failure.
BmNvlinkCheck ==
    <<Need({"ssh"}), SkipUnless("nvlink"), Subs({"nvlink_gpu"}), Faults({"gpu_count"}), Unless({"inactive_links"})>>
BmInfiniBandCheck == <<Need({"ssh"}), SkipUnless("ibstat"), Subs({"ib_ports"}), Faults({"port_count"})>>
BmEthernetCheck ==
    <<Need({"ssh"}), Need({"ip_link"}), Subs({"interfaces_up"}), Faults({"expected_interfaces", "ping"})>>
\* A GPU container ran, under docker or a containerd with the NVIDIA runtime.
ContainerRuntimeCheck ==
    <<Need({"ssh"}), Subs({"gpu_container"}), Need({"gpu_container"}), Faults({"ngc_login"}),
      Unless({"ngc_login"})>>
CloudInitCheck == <<Need({"ssh"}), Faults({"cloud_init"}), Subs({"metadata_service"})>>

-----------------------------------------------------------------------------
\* nim.py: a deployment that did not succeed is not judged.
_is_nim_skipped == SkipUnless("success")
NimHealthCheck  == <<_is_nim_skipped, Need({"ssh"}), Subs({"health_ready"})>>
NimInferenceCheck ==
    <<_is_nim_skipped, Need({"ssh"}), Need({"model"}), Need({"response"}), Subs({"has_choices"}),
      Need({"has_choices"}), Subs({"has_content", "finish_reason"}), Faults({"tokens_generated"})>>
NimModelCheck ==
    <<_is_nim_skipped, Need({"ssh"}), Need({"models"}), Subs({"has_models"}), Need({"has_models"}),
      Faults({"expected_model"})>>

-----------------------------------------------------------------------------
\* bm_cuda.py, bm_driver.py, bm_gpu.py
BmCudaVersion     == <<Need({"nvidia_smi"}), Need({"cuda_version"}), Unless({"cuda_version.min"})>>
BmDriverInstalled == <<Need({"nvidia_smi"})>>
BmDriverVersion   == <<Need({"nvidia_smi"}), Need({"driver_version"}), Unless({"driver_version.min"})>>
BmGpuDetection    == <<Need({"nvidia_smi"}), Need({"gpus"}), Unless({"gpus.expected_count"})>>
BmGpuHealth       == <<Need({"nvidia_smi"}), Need({"gpus"}), Need({"gpus.temperature", "gpus.utilization"})>>
BmGpuComputeCapability == <<Need({"nvidia_smi"}), Need({"compute_cap"}), Unless({"compute_cap.min"})>>

\* bm_host_status.py: without required sources one fresh source is enough, the
\* other has its subtest all the same.
BmHostStatusLogCheck(required_sources) ==
    IF required_sources # {} THEN <<Need({"tests"}), Subs(required_sources)>>
    ELSE <<Need({"tests"}), Notes({"journalctl_recent", "dmesg_recent"}), Need({"some_source"})>>

\* slurm_gpu_allocation.py, slurm_job_submission.py, slurm_partition.py
SlurmGpuAllocation == <<Need({"srun"}), Need({"gpu_count"})>>
SlurmJobSubmission == <<Need({"srun"}), Need({"gpu_output"})>>
SlurmInfoAvailable == <<Need({"sinfo"}), Unless({"expected_partitions", "required_partitions"})>>
SlurmPartition ==
    <<Need({"partitions"}), Offer("partition_name"), Need({"available"}), Unless({"node_count", "required_nodes"})>>
=============================================================================
