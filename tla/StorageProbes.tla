---------------------------- MODULE StorageProbes ----------------------------
(***************************************************************************)
(* The validations that provision storage in a cluster                     *)
(* (isvtest/validations/k8s_storage.py, k8s_filesystem.py, k8s_nfs.py,     *)
(* k8s_csi_lifecycle.py), one definition per class and per helper that     *)
(* talks to the cluster.  A loop over several storage types, claims or     *)
(* nodes is written out for two.                                           *)
(***************************************************************************)
EXTENDS ClusterLanguage

\* k8s_storage.py
poll_pvc_bound       == <<Get, Judge>>
wait_pod_ready       == <<Get>>
bound_by_pod(pvc, pod) == <<Apply(pvc), Apply(pod)>> \o wait_pod_ready \o poll_pvc_bound

storage_type(exists, binds, pvc, pod) ==
    <<Sub(exists, <<Get, Judge>>), Needs({exists}, Sub(binds, bound_by_pod(pvc, pod)))>>
K8sCsiStorageTypesCheck == InNamespace(
    storage_type("sc-exists[block]", "pvc-binds[block]", "pvc_block", "pod_block")
    \o storage_type("sc-exists[nfs]", "pvc-binds[nfs]", "pvc_nfs", "pod_nfs"))

wait_quota_section == <<Get, Judge>>
quota_api       == Vital("resourcequota-storage-api", <<Apply("quota")>> \o wait_quota_section)
per_pvc_usage   == Sub("per-pvc-usage",
    bound_by_pod("pvc", "pod") \o <<Get, Judge>> \o wait_quota_section \o <<Judge>>)
\* The claim over the quota must be refused; one that is admitted goes with the namespace.
quota_enforcement == Sub("quota-enforcement", <<Get, Judge>>)
pv_usage_api    == Needs({"per-pvc-usage"}, Sub("pv-usage-api", <<Get, Judge, Get, Judge>>))
K8sCsiStorageQuotaApiCheck == InNamespace(<<quota_api, per_pvc_usage, quota_enforcement, pv_usage_api>>)

resolve_bound_pv_driver == <<Get, Judge, Get, Judge>>
canary_write_read       == <<Get, Get, Judge>>
run_dynamic == Sub("dynamic", bound_by_pod("pvc_dyn", "pod_dyn") \o resolve_bound_pv_driver \o canary_write_read)
run_static  == Keeps(Sub("static", <<New("pv"), Apply("pvc_static")>> \o poll_pvc_bound
                    \o <<Apply("pod_static")>> \o wait_pod_ready \o canary_write_read))
\* The volume is cluster-wide and is deleted by its own name, taken before it is applied.
K8sCsiProvisioningModesCheck ==
    Check(<<Config, Namespace, run_dynamic, run_static>>,
          <<Guard({"pv"}, Tried(<<Erase("pv")>>)), DeleteNamespace>>)

K8sCsiConcurrentPvcCheck == InNamespace(
    <<Gate(<<Apply("pvc_1"), Apply("pvc_2")>>), Gate(<<Apply("pod_1"), Apply("pod_2")>>),
      Sub("pvc-bound[0]", wait_pod_ready \o poll_pvc_bound), Sub("pvc-bound[1]", wait_pod_ready \o poll_pvc_bound),
      Sub("distinct-pvs", <<Get, Judge>>)>>)

poll_pvc_capacity_updated == Sub("pvc-capacity", <<Get, Judge>>)
check_pv_capacity == Needs({"pvc-capacity"}, Sub("pv-capacity-updated", <<Get, Judge>>))
poll_df_size      == Needs({"pvc-capacity"}, Sub("df-shows-new-size", <<Get, Judge>>))
pvc_expand_before ==
    <<Config, Gate(<<Get, Judge>>), Vital("sc-allows-expansion", <<Judge>>), Config>>
K8sCsiPvcExpandCheck == Check(
    pvc_expand_before \o
    <<Namespace, Gate(bound_by_pod("pvc", "pod")), Gate(<<Get, Judge>>), Gate(<<Get>>),
      Vital("pvc-patch-accepted", <<Get>>), poll_pvc_capacity_updated, check_pv_capacity, poll_df_size,
      Sub("resize-data-preserved", <<Get, Judge>>)>>,
    <<Noted(DeleteNamespace)>>)

-----------------------------------------------------------------------------
\* k8s_filesystem.py
ready_nodes     == Raise(Fn(None, <<Must>>))
two_nodes       == <<ready_nodes, Config>>
create_namespace == Namespace
cleanup_namespace == DeleteNamespace
shared_volume(pvc) == Gate(<<Apply(pvc)>> \o poll_pvc_bound)
provision ==
    <<shared_volume("pvc"), ready_nodes, Gate(<<Judge>>), Gate(<<Apply("pod_a")>>), Gate(<<Apply("pod_b")>>),
      Gate(wait_pod_ready \o wait_pod_ready)>>
CrossNode(units) ==
    Check(<<Config>> \o two_nodes \o <<create_namespace>> \o provision \o units, <<cleanup_namespace>>)
OneNode(apply_pod, units) ==
    Check(<<Config, create_namespace, shared_volume("pvc"), apply_pod, Gate(wait_pod_ready)>> \o units,
          <<cleanup_namespace>>)

K8sFileLockingCheck == CrossNode(
    <<Sub("lock-contention", <<Deny>>), Tried(<<Erase("pod_a")>>), Sub("lock-release", <<Get, Judge>>)>>)
K8sCrossNodeWriteVisibilityCheck == CrossNode(<<Gate(<<Get>>), Gate(<<Get, Judge>>)>>)
K8sCrossNodeAttrConsistencyCheck == CrossNode(
    <<Gate(<<Get>>), Tried(<<Get>>), Gate(<<Get>>), Gate(<<Get, Judge>>), Gate(<<Get, Judge>>)>>)
large_dir_listing == OneNode(Gate(<<Apply("pod")>>), <<Gate(<<Get>>), Gate(<<Get>>), Gate(<<Get, Judge>>)>>)
copy_source       == Gate(<<Get>>)
parse_pjdfstest_output == Gate(<<Judge>>)
K8sPosixComplianceCheck == OneNode(Gate(<<Apply("pod")>>),
    <<copy_source, Gate(<<Get>>), Tried(<<Get>>), parse_pjdfstest_output,
      Sub("file", <<Judge>>), Gate(<<Judge>>)>>)

-----------------------------------------------------------------------------
\* k8s_nfs.py
node_modules(pod) == <<Gate(<<Apply(pod)>>), Gate(wait_pod_ready), Tried(<<Get>>), Tried(<<Erase(pod)>>)>>
K8sNodeKernelModulesCheck ==
    Check(<<Config, ready_nodes, Config, create_namespace>> \o node_modules("pod_1") \o node_modules("pod_2")
          \o <<Sub("module", <<Judge>>)>>, <<cleanup_namespace>>)
check_read_ahead == Sub("read-ahead-kb", <<Judge, Get, Judge>>)
K8sNfsMountOptionsCheck == OneNode(Gate(<<Apply("pod")>>),
    <<Gate(<<Get, Judge>>), Config, Sub("nfs-version", <<Judge>>), Sub("nfs-nconnect", <<Judge>>),
      Sub("nfs-proto", <<Judge>>), check_read_ahead>>)

-----------------------------------------------------------------------------
\* k8s_csi_lifecycle.py: run catches what its helpers raise.
snap_command == Raising(Get)
snap_create(r) == Raising(Apply(r))
snap_mount(pod) == <<snap_create(pod), snap_command, snap_command, Judge, snap_command, Judge>>
snapshot_body ==
    <<Config, Main(<<snap_command, snap_command, Judge, Raising(New("ns"))>>),
      Main(<<snap_create("source")>> \o snap_mount("source_pod") \o <<snap_command, snap_create("snapshot")>>),
      Main(<<snap_command, snap_command, Judge, snap_command, Judge>>),
      Main(<<snap_command, snap_create("restored")>> \o snap_mount("restored_pod")
           \o <<Judge, snap_command, Judge, snap_command, Judge>>)>>
snapshot_try(r, calls) == Inner(Noted(Guard({"ns", r}, Fn(None, calls))))
snapshot_finally ==
    <<snapshot_try("ns", <<Raising(Erase("restored_pod")), Raising(Erase("restored"))>>),
      snapshot_try("snapshot", <<Raising(Erase("snapshot")), snap_command>>),
      Noted(Guard({"ns"}, Fn({"other"}, <<Raising(Erase("ns"))>>)))>>
K8sCsiSnapshotRestoreCheck == Catches({"other"}, Script(snapshot_body, snapshot_finally))

-----------------------------------------------------------------------------
(***************************************************************************)
(* storage_quota_enforcement.py, storage_user_quota_enforcement.py,        *)
(* storage_provider.py.  A call of the storage interface raises one of its *)
(* own errors (client) or anything else.  A quota lives on a volume: the   *)
(* claim's, which goes with the namespace, or one that was there before.   *)
(***************************************************************************)
ApiErrors        == {"client", "other"}
Api              == Call("ask", "", {}, ApiErrors)
ApiMake(r, on)   == [Call("make", r, {}, ApiErrors) EXCEPT !.on = on]
ApiDrop(r)       == Call("drop", r, {}, ApiErrors)

await_hard == <<Api, Judge>>
run_crud(on) == Keeps(Test("crud", Client,
    <<ApiMake("quota", on)>> \o await_hard \o <<Api>> \o await_hard \o <<Api, Judge, ApiDrop("quota"), Api, Judge>>))
\* Set the quota, write below it, write until a write is refused for want of space.
run_enforcement(on) == Keeps(Test("enforcement", Client \cup Exit, <<ApiMake("quota", on), Get, Get, Judge>>))
writer_uid_error == Vital("enforcement", <<Get, Judge>>)
resolve_volume   == As("volume_id", Gate(<<Get, Judge, Get, Judge>> \o <<Call("ask", "", {}, {"exit", "other"})>>))
make_workdir     == Gate(<<Get>>)
quota_caps       == <<Config, Config>>
Quota(s)         == Graded({"crud", "enforcement"}, s)

\* The user quota class has its own copy of each, for a user instead of a directory.
user_run_crud(on)        == run_crud(on)
user_run_enforcement(on) == run_enforcement(on)
user_resolve_volume      == resolve_volume

\* What is done once the pod is there, with the quota on what is named.
quota_work(on)      == <<resolve_volume, make_workdir, run_crud(on), run_enforcement(on)>>
\* A provider that refuses user quotas with NotSupportedError is skipped: nothing failed.
user_quota_refused  == Settles(Fn(Coded, <<Call("ask", "", {}, Coded)>>))
user_quota_work(on) ==
    <<user_resolve_volume, make_workdir, user_quota_refused, user_run_crud(on), writer_uid_error,
      user_run_enforcement(on)>>

quota_new_claim(work) == Quota(Check(
    quota_caps \o <<Namespace, Gate(<<Apply("pvc")>>), Gate(<<Apply("pod")>> \o wait_pod_ready \o poll_pvc_bound)>> \o work,
    <<DeleteNamespace>>))
\* On a claim that exists, in one try block: an unexpected exception ends the cleanup.
quota_cleanup == <<Inner(Needs({"volume_id"}, Fn(Client, <<ApiDrop("quota")>>))), Inner(Needs({"volume_id"}, Fn(Exit, <<Get>>))),
                   Inner(Guard({"pod"}, Fn(Exit, <<Erase("pod")>>)))>>
quota_old_claim(work) == Quota(Check(
    quota_caps \o <<Gate(<<New("pod")>> \o wait_pod_ready \o poll_pvc_bound)>> \o work,
    quota_cleanup))
user_quota_new_claim == quota_new_claim(user_quota_work("ns"))
user_quota_old_claim == quota_old_claim(user_quota_work(""))
quota_cleanup_native ==
    <<Inner(Guard({"volume"}, Fn(Client, <<ApiDrop("quota")>>))),
      Inner(Guard({"mount"}, Fn(Exit, <<Get>>))), Inner(Guard({"mount"}, Fn(Exit, <<Erase("mount")>>))),
      Inner(Guard({"volume"}, Fn(None, <<ApiDrop("volume")>>)))>>
quota_native == Quota(Check(
    quota_caps \o <<Return(Fn(All, <<ApiMake("volume", "")>>)), Config, Gate(<<New("mount")>>), make_workdir,
      run_crud("volume"), run_enforcement("volume")>>,
    quota_cleanup_native))

manifest_consistency == Test("manifest-consistency", All, <<Api, Judge, Api, Judge>>)
\* A rejected login ends the provider's turn, any other error does not.
authentication       == Test("api-authentication", All, <<Api>>)
volume_provisioning ==
    <<Keeps(Test("volume-provisioning", All, <<ApiMake("volume", ""), Judge>>)),
      Guard({"volume"}, Fn(All, <<ApiDrop("volume")>>))>>
tenant_quota         == Test("tenant-quota", All, <<Api, Judge>>)
StorageProviderApiCheck ==
    Check(<<Config, manifest_consistency, authentication>> \o volume_provisioning \o <<tenant_quota>>, <<>>)

StorageProbeSet ==
    [storage_types |-> K8sCsiStorageTypesCheck, storage_quota |-> K8sCsiStorageQuotaApiCheck,
     provisioning_modes |-> K8sCsiProvisioningModesCheck, concurrent_pvc |-> K8sCsiConcurrentPvcCheck,
     pvc_expand |-> K8sCsiPvcExpandCheck, file_locking |-> K8sFileLockingCheck,
     write_visibility |-> K8sCrossNodeWriteVisibilityCheck, attr_consistency |-> K8sCrossNodeAttrConsistencyCheck,
     large_dir |-> large_dir_listing, posix |-> K8sPosixComplianceCheck,
     kernel_modules |-> K8sNodeKernelModulesCheck, nfs_mount_options |-> K8sNfsMountOptionsCheck,
     snapshot_restore |-> K8sCsiSnapshotRestoreCheck,
     directory_quota |-> quota_new_claim(quota_work("ns")),
     directory_quota_old_claim |-> quota_old_claim(quota_work("")),
     user_quota |-> user_quota_new_claim,
     user_quota_old_claim |-> user_quota_old_claim,
     quota_native |-> quota_native,
     storage_provider_api |-> StorageProviderApiCheck]
=============================================================================
