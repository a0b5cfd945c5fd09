-------------------------- MODULE MCProviderScript --------------------------
(***************************************************************************)
(* Every script of the AWS provider that is written down, each executed    *)
(* against a cloud that fails up to MaxFaults requests.                    *)
(***************************************************************************)
EXTENDS CarefulScripts, AwsNetworkScripts, AwsInstanceScripts, AwsServiceScripts, StorageProbes, ClusterProbes, TLC

MCScripts == AwsNetwork @@ AwsInstance @@ AwsService @@ StorageProbeSet @@ ClusterProbeSet

\* Boto's waiters give up after a fixed number of attempts, EC2 ends what is terminating.
FairSpec == Spec /\ WF_vars(Step) /\ WF_vars(Vanish)

(***************************************************************************)
(* What a script is known to leave behind without a document that names    *)
(* it:                                                                     *)
(*   - a mount pod next to a claim that was there before, which _cleanup   *)
(*     deletes only if the pod had become ready;                           *)
(*   - the group and the key of an instance that is gone when teardown.py  *)
(*     describes it, as their names are in its description only, or when   *)
(*     it terminates it, as that ends the script with success;             *)
(*   - the root volume that reinstall_instance.py took from an instance    *)
(*     that then does not come back, and the donor whose termination was   *)
(*     refused;                                                            *)
(*   - the user of an access key that is gone when delete_access_key.py    *)
(*     looks for it;                                                       *)
(*   - the copy of an image that crud_image.py gave up waiting for, with   *)
(*     its snapshot, as main takes the id from a test that passed only;    *)
(*   - what upload_image.py made before an import that failed;             *)
(*   - the role for which launch_instance.py could not create a profile.   *)
(***************************************************************************)
MCLeftBehind ==
    {<<n, "pod">> : n \in {m \in DOMAIN Scripts : Scripts[m].cleanup = quota_cleanup}}
    \cup {"vm_teardown_again", "vm_teardown_late", "bm_teardown_again"} \X {"sg", "key"}
    \cup {"reinstall_instance"} \X {"old_volume", "donor"}
    \cup {<<"delete_access_key_again", "user">>}
    \cup {"crud_image"} \X {"copy", "snapshot"}
    \cup {"upload_image"} \X {"role", "policy", "bucket", "object"}
    \cup {"image_launch_instance"} \X {"role", "policy"}

(***************************************************************************)
(* The scripts that success may leave something behind of only because of  *)
(* what they find on their way: the four that look up by tag or name what  *)
(* an earlier step made, and sg_crud_test.py, which sets the id to None in *)
(* a test that only confirms the delete of the test before.                *)
(***************************************************************************)
ASSUME AllButTheseAreTidy ==
    {n \in DOMAIN Scripts : ~Tidy(n)} =
        {"vm_teardown", "bm_teardown", "network_teardown", "delete_user", "sg_crud_test"}

(***************************************************************************)
(* The scripts of which the text alone does not show that they end clean   *)
(* when nothing fails, and which TLC executes:                             *)
(*   - four clean up in an except clause, so a body that ends well deletes *)
(*     what it made itself;                                                *)
(*   - teardown.py of bm learns the group and the key from what it finds;  *)
(*   - two quota probes of a claim that was there before delete the quota  *)
(*     only if the test that found the volume passed;                      *)
(*   - nothing catches the last delete of quota_native, should it find     *)
(*     nothing;                                                            *)
(*   - teardown.py of vm, when the instance it is given is terminating,    *)
(*     ends before it looks for the group and the key;                     *)
(*   - a flow log that the service did not delete goes unnoticed.          *)
(***************************************************************************)
ASSUME AllButTheseAreCareful ==
    {n \in DOMAIN Scripts : ~Careful(n)} =
        {"reinstall_instance", "crud_image", "crud_install_config", "topology_placement",
         "bm_teardown", "user_quota_old_claim", "directory_quota_old_claim", "quota_native",
         "vm_teardown_late", "teardown_vpc_flow_logs"}

(***************************************************************************)
(* The scripts of which the text alone does not show that they say success *)
(* only after sweeping up, and which TLC executes: teardowns and others    *)
(* that delete in the body; four that clean up in an except clause; and    *)
(* those where what was made goes with what it lives on, or is deleted     *)
(* under the id of something else.                                         *)
(***************************************************************************)
ASSUME AllButTheseAreDiligent ==
    {n \in DOMAIN Scripts : ~Diligent(n)} =
        {"vm_teardown", "vm_teardown_late", "bm_teardown", "delete_user", "delete_access_key",
         "delete_tenant", "s3_object_lifecycle", "crud_image", "crud_install_config",
         "topology_placement", "network_teardown", "sg_subnet_scoping", "console_rbac",
         "pvc_expand", "snapshot_restore", "dra"}

(***************************************************************************)
(* The scripts with a delete that may fail unseen: the tests that clean up *)
(* with delete_with_retry or an except clause that only logs, the probes   *)
(* that delete their namespace without looking at the answer, and the      *)
(* teardowns with warnings.                                                *)
(***************************************************************************)
ASSUME TheseSwallow ==
    {n \in DOMAIN Scripts : Unseen(Scripts[n]) # {}} =
        {"vpc_crud_test", "floating_ip_test", "subnet_test", "isolation_test", "peering_test",
         "traffic_test", "sg_workload_scoping", "sg_subnet_scoping", "sg_service_scoping",
         "reinstall_instance", "vm_teardown", "vm_teardown_again", "vm_teardown_late", "bm_teardown",
         "bm_teardown_again", "network_teardown", "teardown_vpc_flow_logs", "crud_image",
         "crud_install_config", "image_teardown", "topology_placement", "storage_types",
         "storage_quota", "provisioning_modes", "concurrent_pvc", "file_locking", "write_visibility",
         "attr_consistency", "large_dir", "posix", "kernel_modules", "nfs_mount_options",
         "directory_quota", "directory_quota_old_claim", "user_quota", "user_quota_old_claim",
         "quota_native", "storage_provider_api", "crd_webhook", "network_policy", "conformance",
         "nvidia_smi"}

(***************************************************************************)
(* The scripts of the teardown phase, and what may remain although they    *)
(* say success: a group, key or snapshot that cannot be deleted is only a  *)
(* warning, a flow log that the service lists as Unsuccessful goes         *)
(* unnoticed, and the instance a volume was attached to is not theirs.     *)
(***************************************************************************)
MCTeardowns ==
    {"vm_teardown", "bm_teardown", "network_teardown", "delete_user", "delete_access_key",
     "delete_tenant", "teardown_vpc_flow_logs", "teardown_volume", "image_teardown",
     "reservation_teardown", "topology_block_teardown"}
MCTolerated ==
    {"vm_teardown", "bm_teardown"} \X {"sg", "key"}
    \cup {<<"image_teardown", "snapshot">>, <<"teardown_vpc_flow_logs", "flow_log">>,
          <<"teardown_volume", "instance">>}

(***************************************************************************)
(* Every execution ends: the finally block is always reached and left,     *)
(* a wait for a termination included.                                      *)
(***************************************************************************)
ScriptEnds == <>Ended

UsesCreateTestVpc ==
    \E i \in DOMAIN script.body : script.body[i].calls = create_test_vpc("vpc").calls
                                 /\ script.body[i].catch = Aws

(***************************************************************************)
(* A VPC whose creation by create_test_vpc failed half way is deleted by   *)
(* the finally block: vpc_id is "set early so finally-block cleanup can    *)
(* find it on partial failure".                                            *)
(***************************************************************************)
PartialVpcIsCleanedUp ==
    Ended /\ faults = 1 /\ UsesCreateTestVpc /\ "create_vpc" \in DOMAIN tests
          /\ tests["create_vpc"] = "fail" => Leftover = {}
=============================================================================
