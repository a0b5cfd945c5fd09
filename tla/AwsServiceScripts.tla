------------------------- MODULE AwsServiceScripts -------------------------
(***************************************************************************)
(* The scripts of providers/aws/scripts that set up and tear down the      *)
(* other fixtures of a test run (users, tenants, networks, flow logs,      *)
(* volumes, images, capacity) and those that exercise a service.  As in    *)
(* AwsInstanceScripts, --skip-destroy is left out.                         *)
(***************************************************************************)
EXTENDS ScriptLanguage

Refused == Aws \cup {"other"}  \* (ClientError, BotoCoreError, RuntimeError)

-----------------------------------------------------------------------------
\* iam/: main is decorated and catches nothing itself.
user       == Standing("user", {})
access_key == Standing("access_key", {"user"})

create_user == HandsOver(Names({"user"}, Catches(None, Script(
    <<Main(<<Make("user", {}), Make("access_key", {"user"})>>)>>, <<>>))))
delete_user(left) == Names({"user"}, Finds(left, Catches(None, Script(
    <<Settles(Fn(Coded, <<Look("user"), Purge("access_key"), Ask, Purge("policy"), Ask, Drop("user")>>))>>,
    <<>>))))

-----------------------------------------------------------------------------
\* control-plane/: main catches ClientError and is not decorated.
ControlPlane(body)    == Bare(Catches(Client, Script(body, <<>>)))
create_access_key     == Hands(Names({"user"}, ControlPlane(
    <<Main(<<Make("user", {}), Make("access_key", {"user"})>>)>>)))
delete_access_key(left) == Names({"user", "access_key"}, Finds(left, ControlPlane(
    <<Settles(Fn(Coded, <<Drop("access_key"), Drop("user")>>))>>)))
disable_access_key    == Hands(Names({"user", "access_key"}, Finds({user, access_key},
    ControlPlane(<<Main(<<Ask>>)>>))))
test_access_key       == ControlPlane(<<Test("authenticated", Client, <<Ask>>)>>)
verify_key_rejected   == ControlPlane(<<Test("rejected", None, <<[Deny EXCEPT !.errs = {"boto"}]>>)>>)

tenant == Standing("group", {})
create_tenant         == Hands(Names({"group"}, ControlPlane(<<Main(<<Make("group", {})>>)>>)))
delete_tenant(left)   == Names({"group"}, Finds(left, ControlPlane(<<Settles(Fn(Coded, <<Drop("group")>>))>>)))
get_tenant            == Hands(Names({"group"}, Finds({tenant}, ControlPlane(<<Main(<<Look("group"), Ask>>)>>))))
list_tenants          == ControlPlane(<<Main(<<Ask>>)>>)

\* check_api.py: a denied request shows that the service is there.
test_service(t) == Test(t, All, <<Ask>>)
check_api == Graded({"sts_identity"}, Bare(Catches(None, Script(
    <<test_service("sts_identity"), Needs({"sts_identity"}, Fn(All, <<Ask>>)),
      test_service("ec2_api"), test_service("s3_api")>>, <<>>))))

\* s3_object_lifecycle.py
create_bucket             == Return(Fn(Client, <<Make("bucket", {})>>))
delete_bucket_best_effort == Noted(Guard({"bucket"}, Fn(Client, <<Ask, Purge("object"), Drop("bucket")>>)))
s3_object_lifecycle == Graded({"put", "get", "delete"}, Bare(Catches(None, Script(
    <<create_bucket, Test("put", Client, <<Make("object", {"bucket"})>>),
      Needs({"put"}, Probe("get")), Needs({"put"}, Test("delete", Client, <<Drop("object")>>))>>,
    <<delete_bucket_best_effort>>))))

-----------------------------------------------------------------------------
\* vm/console_rbac.py
create_test_user(u) == Make(u, {})
simulate_principal_console_decision(t) == Test(t, None, <<Ask, Judge>>)
cleanup_test_user(u, policy) ==
    <<Noted(Guard({u}, Fn(Client, <<Ask>>))), Noted(Guard({u}, Fn(Client, <<Purge(policy)>>))),
      Noted(Guard({u}, Fn(Client, <<Drop(u)>>)))>>

console_rbac == Graded({"serial_console_access_enabled", "denied_principal_cannot_access_console",
                        "allowed_principal_can_access_console", "allowed_principal_is_resource_scoped"}, Script(
    <<Return(Test("serial_console_access_enabled", Client, <<Ask>>)), Otherwise,
      Main(<<Ask, create_test_user("denied_user"), create_test_user("allowed_user")>>),
      simulate_principal_console_decision("denied_principal_cannot_access_console"),
      Main(<<Make("policy", {"allowed_user"})>>),
      simulate_principal_console_decision("allowed_principal_can_access_console"),
      simulate_principal_console_decision("allowed_principal_is_resource_scoped")>>,
    cleanup_test_user("allowed_user", "policy") \o cleanup_test_user("denied_user", "no_policy")))

-----------------------------------------------------------------------------
\* network/create_vpc.py and network/teardown.py
create_vpc_subnet(r)  == Raise(Fn(None, <<Make(r, {"vpc"}), Ask>>))
create_vpc == Hands(Catches(Client, Script(
    <<Main(<<Make("vpc", {}), Ask, Make("igw", {}), Make("attachment", {"igw", "vpc"}), Ask>>),
      create_vpc_subnet("subnet_1"), create_vpc_subnet("subnet_2"),
      Main(<<Make("rtb", {"vpc"}), Ask, Attach("assoc_1", "subnet_1", {"rtb"}),
             Attach("assoc_2", "subnet_2", {"rtb"}), Make("sg", {"vpc"}), Ask, Ask>>)>>, <<>>)))

network == {Standing("vpc", {}), Standing("igw", {}), Standing("attachment", {"igw", "vpc"}),
            Standing("subnet", {"vpc"}), Standing("rtb", {"vpc"}), Standing("sg", {"vpc"}),
            [Standing("assoc", {"rtb"}) EXCEPT !.on = "subnet"],
            Standing("instance", {"subnet", "sg"}), Standing("key", {})}
cleanup_key_pairs == <<Ask, Purge("key")>>
teardown_vpc ==
    <<Main(<<Ask, Terminate("instance"), Gone("instance")>> \o cleanup_key_pairs
           \o <<Ask, Retry("sg"), Ask, Retry("subnet"), Ask>>),
      Fn(Client, <<Purge("assoc")>>), Main(<<Retry("rtb"), Ask>>),
      Fn(Client, <<Purge("attachment")>>), Main(<<Retry("igw"), Retry("vpc")>>)>>
network_teardown == Names({"vpc"}, Finds(network, Catches(Client, Script(teardown_vpc, <<>>))))

-----------------------------------------------------------------------------
\* observability/setup_vpc_flow_logs.py.  found: the role is there already.
flow_log_names == {"log_group", "role", "policy"}
flow_log_role(found) ==
    Return(Fn(Client, IF found THEN <<Ask, Judge, Ask>> ELSE <<Make("role", {})>>))
setup_vpc_flow_logs(found) == Hands(Names(flow_log_names, Catches(None,
    Finds(IF found THEN {Standing("role", {})} ELSE {}, Script(
    <<Return(Fn(Client, <<Make("log_group", {})>>)), flow_log_role(found),
      Return(Fn(Client, <<Make("policy", {"role"})>>)),
      Return(Fn(Client, <<Make("flow_log", {})>>)), Expects>>, <<>>)))))

delete_or_already_gone(r) == Noted(Guard({r}, Fn(Client, <<Purge(r)>>)))
(***************************************************************************)
(* delete_flow_logs answers a request it did not carry out with a list of  *)
(* the logs it left, Unsuccessful, which nobody reads: the log counts as   *)
(* deleted.                                                                *)
(***************************************************************************)
delete_flow_logs ==
    <<[Noted(Guard({"flow_log"}, Fn(Client, <<Ask>>))) EXCEPT !.loses = {"flow_log"}],
      Guard({"flow_log"}, Fn(Coded, <<[Purge("flow_log") EXCEPT !.errs = Coded]>>))>>
teardown_vpc_flow_logs == Names(flow_log_names \cup {"flow_log"}, Catches(None, Finds(
    {Standing("flow_log", {}), Standing("log_group", {}), Standing("role", {}), Standing("policy", {"role"})},
    Script(<<>>, delete_flow_logs \o <<delete_or_already_gone("log_group"),
                   delete_or_already_gone("policy"), delete_or_already_gone("role")>>))))

-----------------------------------------------------------------------------
\* storage/: the block volume fixture.  instance: the machine it is attached to.
machine  == Standing("instance", {})
volume   == Standing("volume", {})
attached == [Standing("attachment", {"volume"}) EXCEPT !.on = "instance"]

\* common/ebs.py
detach_and_delete_volume(v, a) == Noted(Guard({v}, Fn(Aws, <<Purge(a), Ask, Purge(v), Ask>>)))
delete_snapshot_best_effort(s) == Noted(Guard({s}, Fn(Aws, <<Purge(s)>>)))

create_volume == Hands(Names({"instance"}, Finds({machine}, Bare(Catches(None, Script(
    <<Return(Keeps(Fn(Refused, <<Ask, Judge, Make("volume", {}), Ask,
                                 Attach("attachment", "instance", {"volume"}), Ask>>))),
      Expects, Expects, Return(Test("format", None, <<Judge>>)), Test("format", None, <<Judge>>)>>, <<>>))))))
teardown_volume == Names({"volume", "instance"}, Finds({machine, volume, attached}, Bare(Catches(None, Hands(
    Script(<<>>, <<detach_and_delete_volume("volume", "attachment")>>))))))

OnVolume(ts, body) == Hands(Names({"instance", "volume"}, Finds({machine, volume, attached},
    Graded(ts, Bare(Catches(None, Script(body, <<>>)))))))
volume_persistence == OnVolume({"stop", "start", "verify_attached", "verify_data"},
    <<Return(Test("stop", Refused, <<Ask, Ask>>)), Return(Test("start", Refused, <<Ask, Ask, Judge, Judge>>)),
      Test("verify_attached", None, <<Ask, Judge>>),
      Needs({"verify_attached"}, Test("verify_data", None, <<Judge>>))>>)
volume_resize == OnVolume({"modify_volume", "grow_partition", "resize_filesystem", "verify_size"},
    <<Return(Fn(Refused, <<Ask, Ask>>)), Return(Test("modify_volume", Refused, <<Ask, Judge>>)), Expects,
      Test("grow_partition", None, <<Judge>>), Needs({"grow_partition"}, Test("resize_filesystem", None, <<Judge>>)),
      Test("verify_size", Aws, <<Ask, Judge>>)>>)

snapshot_lifecycle == Graded({"create_snapshot", "restore_volume", "verify_data"}, Hands(Bare(Catches(Refused,
    Names({"instance", "volume"}, Finds({machine, volume, attached}, Script(
    <<Main(<<Ask, Judge>>), Return(Keeps(Test("create_snapshot", Aws, <<Make("snapshot", {}), Ask>>))),
      Return(Keeps(Test("restore_volume", Aws,
          <<Make("restored", {}), Ask, Attach("new_attachment", "instance", {"restored"}), Ask>>))),
      Return(Test("verify_data", None, <<Judge, Judge, Judge>>)), Test("verify_data", None, <<Judge>>)>>,
    <<detach_and_delete_volume("restored", "new_attachment"), delete_snapshot_best_effort("snapshot")>>)))))))

-----------------------------------------------------------------------------
\* image-registry/.  A request of CRUD that is not as expected raises RuntimeError.
Crud(body, cleanup) == OnError(Catches({"other"}, Script(body, cleanup)))
DeleteOnError(r)    == <<Guard({r}, Fn(Client, <<Drop(r)>>))>>

crud_image == Crud(
    <<Raise(Probe("get")), Raise(Probe("list")),
      Raise(Test("create", Client, <<Make("snapshot", {}), Also("copy", {"snapshot"}), Ask, Judge>>)),
      Raise(Test("delete", Client, <<Ask, Drop("copy")>>)), Fn(Client, <<Drop("snapshot")>>)>>,
    DeleteOnError("copy"))
crud_install_config == Crud(
    <<Raise(Test("create", Client, <<Make("template", {})>>)), Raise(Probe("read")),
      Raise(Test("update", Client, <<Ask>>)), Raise(Test("delete", Client, <<Drop("template")>>))>>,
    DeleteOnError("template"))

\* launch_instance.py: without its profile the role is forgotten.
create_image_profile ==
    <<Fn(Client, <<Make("role", {})>>), Guard({"role"}, Fn(Client, <<Make("policy", {"role"})>>)),
      [Guard({"role"}, Fn(Client, <<Make("profile", {})>>)) EXCEPT !.loses = {"role", "policy"}],
      Guard({"profile"}, Fn(Client, <<Make("member", {"role", "profile"})>>))>>
image_launch_instance == HandsOver(Bare(Catches(None, Script(
    <<Return(Fn({"other"}, <<Ask, Judge>>)), Return(Fn(Client, <<Ask, Make("key", {})>>)),
      Main(<<Make("sg", {}), Ask>>)>> \o create_image_profile
    \o <<Return(Fn(Client, <<Make("instance", {"sg"})>>)), Return(Fn(All, <<Ask>>)),
         Fn(All, <<Ask>>), Main(<<Ask>>)>>, <<>>))))

\* upload_image.py: the role is shared by all imports and stays.
create_vmimport_role   == Return(Fn(Client, <<Make("role", {})>>))
attach_vmimport_policy == Return(Fn(Client, <<Make("policy", {"role"})>>))
upload_to_s3           == Return(Fn(Client, <<Make("bucket", {}), Make("object", {"bucket"})>>))
import_as_ami          == Return(Fn(Client, <<Ask, Judge, Also("snapshot", {}), Also("ami", {"snapshot"})>>))
upload_image == HandsOver(Bare(Catches(None, Script(
    <<Expects, create_vmimport_role, attach_vmimport_policy, upload_to_s3, import_as_ami>>, <<>>))))

verify_image_installed == Hands(Names({"instance"}, Finds({machine}, Catches(None, Script(
    <<Main(<<Look("instance")>>), Expects, Expects, Fn(All, <<Ask>>)>>, <<>>)))))

image_fixture == {Standing("instance", {"sg"}), Standing("sg", {}), Standing("key", {}),
                  Standing("role", {}), Standing("policy", {"role"}), Standing("profile", {}),
                  Standing("member", {"role", "profile"}), Standing("snapshot", {}),
                  Standing("ami", {"snapshot"}), Standing("bucket", {}), Standing("object", {"bucket"})}
delete_ami == <<Noted(Fn(Client, <<Ask, Purge("ami")>>)), After({"ami"}, Fn(Client, <<Purge("snapshot")>>))>>
delete_instance_profile ==
    <<Fn(Client, <<Purge("member")>>), Noted(Fn(Client, <<Purge("profile")>>)),
      Fn(Client, <<Purge("policy")>>), Noted(Fn(Client, <<Purge("role")>>))>>
image_teardown == Names({x.res : x \in image_fixture}, Finds(image_fixture, Catches(None, Script(<<>>,
    <<Noted(Fn(Client, <<Terminate("instance"), Gone("instance")>>))>> \o delete_ami
    \o <<Noted(Fn(Client, <<Ask, Purge("object"), Purge("bucket")>>)), Noted(Fn(Client, <<Purge("key")>>)),
         Noted(Fn(Client, <<Retry("sg")>>))>> \o delete_instance_profile))))

-----------------------------------------------------------------------------
\* bare_metal/topology_placement.py: the name of the group is chosen by main.
topology_placement == Names({"group"}, Crud(
    <<Raise(Test("create_group", Client, <<Make("group", {})>>)), Raise(Probe("verify_instance")),
      Raise(Probe("describe_group")), Raise(Test("delete_group", Client, <<Drop("group")>>))>>,
    <<Fn(Client, <<Drop("group")>>)>>))

-----------------------------------------------------------------------------
\* capacity/: a zone that has no capacity is passed over for the next one.
InSomeZone(r, in) == <<Raise(Fn(None, <<Ask, Judge>>)), Fn(Coded, <<Fit(r, in)>>),
                       After({r}, Main(<<Make(r, in)>>))>>

reservation_grouping == Hands(Script(
    <<Main(<<Ask, Judge>>), Main(<<Make("group", {})>>)>> \o InSomeZone("reservation", {})
    \o <<Main(<<Ask, Judge>>), Test("contract", None, <<Judge>>)>>, <<>>))
reservation_teardown == Names({"reservation", "group"}, Finds({Standing("reservation", {}), Standing("group", {})},
    Script(<<>>, <<Noted(Fn(All, <<Ask, Purge("reservation")>>)), Noted(delete_with_retry("group"))>>)))

terminate_instances == Noted(Guard({"instances"}, Fn(All, <<Terminate("instances"), Gone("instances")>>)))
cancel_reservation     == Noted(Guard({"reservation"}, Fn(All, <<Purge("reservation")>>)))
delete_placement_group == Noted(Guard({"group"}, Fn(All, <<Retry("group")>>)))
block_cleanup == <<terminate_instances, cancel_reservation, delete_placement_group>>
topology_block_atomic_allocation == Bare(Script(
    <<Main(<<Judge, Ask, Judge>>), Main(<<Make("group", {})>>)>> \o InSomeZone("reservation", {"group"})
    \o <<Main(<<Ask, Judge, Make("instances", {"group"}), Ask>>), Test("contract", None, <<Judge>>)>>,
    block_cleanup))
block == {Standing("group", {}), Standing("reservation", {"group"}), Standing("instances", {"group"})}
topology_block_teardown == Names({x.res : x \in block}, Finds(block, Bare(Script(<<>>,
    <<Noted(Fn(All, <<Ask, Terminate("instances"), Gone("instances")>>)),
      Noted(Fn(All, <<Ask, Purge("reservation")>>)), delete_placement_group>>))))

-----------------------------------------------------------------------------
AwsService == [
    create_user |-> create_user, delete_user |-> delete_user({user, access_key, Standing("policy", {"user"})}),
    delete_user_again |-> delete_user({}),
    create_access_key |-> create_access_key, delete_access_key |-> delete_access_key({user, access_key}),
    delete_access_key_again |-> delete_access_key({user}), disable_access_key |-> disable_access_key,
    test_access_key |-> test_access_key, verify_key_rejected |-> verify_key_rejected,
    create_tenant |-> create_tenant, delete_tenant |-> delete_tenant({tenant}),
    delete_tenant_again |-> delete_tenant({}), get_tenant |-> get_tenant, list_tenants |-> list_tenants,
    check_api |-> check_api, s3_object_lifecycle |-> s3_object_lifecycle, console_rbac |-> console_rbac,
    create_vpc |-> create_vpc, network_teardown |-> network_teardown,
    setup_vpc_flow_logs |-> setup_vpc_flow_logs(FALSE), setup_vpc_flow_logs_again |-> setup_vpc_flow_logs(TRUE),
    teardown_vpc_flow_logs |-> teardown_vpc_flow_logs,
    create_volume |-> create_volume, teardown_volume |-> teardown_volume,
    volume_persistence |-> volume_persistence, volume_resize |-> volume_resize,
    snapshot_lifecycle |-> snapshot_lifecycle,
    crud_image |-> crud_image, crud_install_config |-> crud_install_config,
    image_launch_instance |-> image_launch_instance, upload_image |-> upload_image,
    verify_image_installed |-> verify_image_installed, image_teardown |-> image_teardown,
    topology_placement |-> topology_placement, reservation_grouping |-> reservation_grouping,
    reservation_teardown |-> reservation_teardown,
    topology_block_atomic_allocation |-> topology_block_atomic_allocation,
    topology_block_teardown |-> topology_block_teardown]
=============================================================================
