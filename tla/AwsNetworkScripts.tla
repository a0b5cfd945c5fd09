------------------------- MODULE AwsNetworkScripts -------------------------
(***************************************************************************)
(* The scripts of providers/aws/scripts/network, one definition per helper *)
(* function and one, named after the file, per main.  Resources that one   *)
(* request creates or deletes together are one resource; a loop over       *)
(* several is written out for two.                                         *)
(***************************************************************************)
EXTENDS ScriptLanguage

-----------------------------------------------------------------------------
\* sg_crud_test.py
sg_crud_create_sg   == Test("create_sg", Client, <<Make("sg", {"vpc"}), Ask>>)
sg_crud_read_sg     == Probe("read_sg")
sg_crud_add_rule    == Test("update_sg_add_rule", Client, <<Ask, Judge>>)
sg_crud_modify_rule == Test("update_sg_modify_rule", Client, <<Ask, Judge>>)
sg_crud_remove_rule == Test("update_sg_remove_rule", Client, <<Ask, Judge>>)
sg_crud_delete_sg   == Test("delete_sg", Client, <<Drop("sg")>>)
sg_crud_verify_deleted == Loses({"sg"}, Needs({"delete_sg"}, Probe("verify_deleted")))

sg_crud_test == Script(
    <<Return(As("create_vpc", create_test_vpc("vpc"))), Return(sg_crud_create_sg),
      sg_crud_read_sg, sg_crud_add_rule, sg_crud_modify_rule, sg_crud_remove_rule,
      sg_crud_delete_sg, sg_crud_verify_deleted>>,
    <<Noted(delete_with_retry("sg")), Noted(After({"sg"}, delete_with_retry("vpc")))>>)

-----------------------------------------------------------------------------
\* vpc_crud_test.py
vpc_crud_create_vpc  == Test("create_vpc", Client, <<Make("vpc", {}), Ask>>)
vpc_crud_read_vpc    == Test("read_vpc", Client, <<Ask, Judge>>)
vpc_crud_update_tags == Test("update_tags", Client, <<Ask, Judge>>)
vpc_crud_update_dns  == Test("update_dns", Client, <<Ask, Judge>>)
vpc_crud_delete_vpc  == Test("delete_vpc", Client, <<Drop("vpc"), Ask, Judge>>)

vpc_crud_test == Script(
    <<Return(vpc_crud_create_vpc), vpc_crud_read_vpc, vpc_crud_update_tags,
      vpc_crud_update_dns, Loses({"vpc"}, vpc_crud_delete_vpc)>>,
    <<delete_with_retry("vpc")>>)

-----------------------------------------------------------------------------
\* floating_ip_test.py
floating_ip_allocate_eip    == Test("allocate_eip", Client, <<Make("eip", {})>>)
floating_ip_associate_eip   == Test("associate_to_a", Client, <<Ask>>)
floating_ip_verify_on(t)    == Probe(t)
floating_ip_verify_not_on   == Probe("verify_not_on_a")
floating_ip_reassociate     == Test("reassociate_to_b", Client, <<Ask, Judge>>)

floating_ip_test == Script(
    <<Raise(create_test_vpc("vpc")),
      Main(<<Make("igw", {}), Make("attachment", {"igw", "vpc"}), Ask,
             Make("subnet", {"vpc"}), Ask,
             Make("rtb", {"vpc"}), Ask, Attach("rtb_assoc", "subnet", {"rtb"}),
             Make("sg", {"vpc"}), Ask, Judge,
             Make("instance_a", {"subnet", "sg"}), Make("instance_b", {"subnet", "sg"}), Ask>>),
      Raise(floating_ip_allocate_eip), Raise(floating_ip_associate_eip),
      floating_ip_verify_on("verify_on_a"), floating_ip_reassociate,
      floating_ip_verify_on("verify_on_b"), floating_ip_verify_not_on>>,
    <<Guard({"instance_a", "instance_b"}, Fn(Client, EndAll(<<"instance_a", "instance_b">>))),
      After({"instance_b"}, Guard({"instance_a"}, Fn(Client, EndAll(<<"instance_a">>)))),
      Guard({"eip"}, Fn(Client, <<Ask, Drop("eip")>>)),
      Guard({"sg"}, Fn(Client, <<Drop("sg")>>)),
      Guard({"rtb_assoc"}, Fn(Client, <<Drop("rtb_assoc")>>)),
      Guard({"rtb"}, Fn(Client, <<Drop("rtb")>>)),
      Guard({"subnet"}, Fn(Client, <<Drop("subnet")>>)),
      Guard({"igw"}, Fn(Client, <<Drop("attachment"), Drop("igw")>>)),
      delete_vpc("vpc")>>)

-----------------------------------------------------------------------------
\* subnet_test.py
subnet_get_availability_zones == Main(<<Ask, Judge>>)
subnet_create_subnets == Keeps(Test("create_subnets", Aws,
    <<Make("subnet_1", {"vpc"}), Ask, Make("subnet_2", {"vpc"}), Ask>>))
subnet_az_distribution     == Test("az_distribution", None, <<Judge>>)
subnet_subnets_available   == Probe("subnets_available")
subnet_route_table_exists  == Probe("route_table_exists")

subnet_test == Graded({"create_vpc", "create_subnets", "subnets_available", "route_table_exists"},
    Script(
    <<subnet_get_availability_zones,
      Return(Keeps(As("create_vpc", create_test_vpc("vpc")))), subnet_create_subnets,
      Needs({"create_subnets"}, subnet_az_distribution),
      Needs({"create_subnets"}, subnet_subnets_available),
      Needs({"create_subnets"}, subnet_route_table_exists)>>,
    cleanup_vpc_resources("vpc", <<"subnet_1", "subnet_2">>)))

-----------------------------------------------------------------------------
\* isolation_test.py
isolation_no_peering         == Probe("no_peering")
isolation_no_cross_routes(t) == Probe(t)
isolation_sg_isolation(t)    == Test(t, Client, <<Ask, Judge, Judge>>)

isolation_test == Script(
    <<Return(As("create_vpc_a", create_test_vpc("vpc_a"))),
      Return(As("create_vpc_b", create_test_vpc("vpc_b"))), isolation_no_peering,
      isolation_no_cross_routes("no_cross_routes_a"), isolation_no_cross_routes("no_cross_routes_b"),
      isolation_sg_isolation("sg_isolation_a"), isolation_sg_isolation("sg_isolation_b")>>,
    <<delete_vpc("vpc_a"), delete_vpc("vpc_b")>>)

-----------------------------------------------------------------------------
\* peering_test.py
peering_create_peering == Test("create_peering", Client, <<Make("peering", {"vpc_a", "vpc_b"}), Ask>>)
peering_accept_peering == Test("accept_peering", Client, <<Ask, Judge>>)
peering_add_routes     == Test("add_routes", Client, <<Ask>>)
peering_verify_active  == Probe("peering_active")

peering_test == Script(
    <<Raise(As("create_vpc_a", create_test_vpc("vpc_a"))),
      Raise(As("create_vpc_b", create_test_vpc("vpc_b"))),
      Raise(peering_create_peering), Raise(peering_accept_peering),
      peering_add_routes, peering_verify_active>>,
    <<delete_with_retry("peering"), delete_vpc("vpc_a"), delete_vpc("vpc_b")>>)

-----------------------------------------------------------------------------
\* sg_scoping_test.py: the entry "cleanup" of a helper is the negation of trouble.
TryDelete(r) == Inner(Noted(Guard({r}, Fn(Client, <<Drop(r)>>))))  \* try: delete r, except ClientError: note it

sg_scoping_setup == <<Return(create_test_vpc("vpc")), Main(<<Ask, Judge>>)>>
sg_scoping_workload_body ==
    <<As("create_sg", Main(<<Make("sg", {"vpc"}), Ask>>)),
      As("apply_workload_rule", Main(<<Make("subnet", {"vpc"}), Make("eni_target", {"subnet", "sg"}),
                                       Make("eni_other", {"subnet"})>>)),
      Main(<<Ask>>),
      Test("workload_allowed", None, <<Judge>>), Test("other_workload_blocked", None, <<Judge>>)>>
sg_scoping_workload_finally == <<TryDelete("eni_target"), TryDelete("eni_other"), TryDelete("subnet"), TryDelete("sg")>>

sg_scoping_subnet_body ==
    <<Test("create_sg", None, <<>>),
      As("apply_subnet_rule", Main(<<Make("subnet_a", {"vpc"}), Make("subnet_b", {"vpc"}),
                                     Make("nacl", {"vpc"}), Ask, Attach("nacl_assoc", "subnet_a", {"nacl"})>>)),
      Main(<<Ask>>),
      Test("subnet_allowed", None, <<Judge>>), Test("other_subnet_blocked", None, <<Judge>>)>>
sg_scoping_subnet_finally ==
    <<Inner(Noted(Guard({"nacl", "subnet_a"}, Fn(Client, <<Ask, Purge("nacl_assoc")>>)))),
      TryDelete("nacl"), TryDelete("subnet_a"), TryDelete("subnet_b")>>

sg_scoping_service_body ==
    <<As("create_sg", Main(<<Make("subnet", {"vpc"}), Make("sg", {"vpc"}), Ask>>)),
      As("apply_service_rule", Main(<<Make("endpoint", {"subnet", "sg", "vpc"})>>)),
      Main(<<Make("eni_other", {"subnet"}), Ask>>),
      Test("service_endpoint_allowed", None, <<Judge>>), Test("other_endpoint_blocked", None, <<Judge>>)>>
sg_scoping_delete_with_dependency_retry(r) == Inner(Noted(Guard({r}, Fn(Client, <<Retry(r)>>))))
sg_scoping_wait_for_endpoint_deletion == Inner(Noted(After({"endpoint"}, Fn(All, <<Gone("endpoint")>>))))
sg_scoping_service_finally ==
    <<Inner(Noted(Guard({"endpoint"}, Fn(All, <<Terminate("endpoint")>>)))),
      sg_scoping_delete_with_dependency_retry("eni_other"),
      sg_scoping_wait_for_endpoint_deletion,
      sg_scoping_delete_with_dependency_retry("subnet"), sg_scoping_delete_with_dependency_retry("sg")>>

sg_scoping_test(body, finally) == Script(sg_scoping_setup \o body, finally \o cleanup_vpc_resources("vpc", <<>>))

-----------------------------------------------------------------------------
\* traffic_test.py
traffic_create_igw == Test("create_igw", Client, <<Make("igw", {}), Make("attachment", {"igw", "vpc"}), Ask>>)
traffic_instance_profile == Test("create_iam", Client, create_ssm_instance_profile)
traffic_create_security_groups == Test("create_security_groups", Client,
    <<Make("sg_allow", {"vpc"}), Ask, Make("sg_deny", {"vpc"})>>)
traffic_create_subnet_with_route == Test("network_setup", Client,
    <<Ask, Make("subnet", {"vpc"}), Ask, Make("rtb", {"vpc"}), Ask, Attach("rtb_assoc", "subnet", {"rtb"})>>)
\* Nothing catches a refused lookup; no image at all is a launch that failed.
traffic_get_amazon_linux_ami == Test("launch_instances", None, <<Ask, Judge>>)
\* Three requests: the ids reach main only when all were granted.
traffic_launch_instances == Test("launch_instances", Client,
    <<Make("source", {"subnet", "sg_allow"}), Make("target_allow", {"subnet", "sg_allow"}),
      Make("target_deny", {"subnet", "sg_deny"})>>)
traffic_wait_instances_running == Test("instances_running", Client, <<Ask>>)
traffic_ssm_ready   == Test("ssm_ready", None, <<Ask, Judge>>)
\* run_ssm_command answers False on a ClientError: no ping, and for the blocked one that counts as blocked
traffic_ping(t)     == Test(t, Client, <<Ask, Judge>>)
traffic_blocked     == Test("traffic_blocked", None, <<[Deny EXCEPT !.errs = {"boto"}]>>)
traffic_internet_http == Test("internet_http", Client, <<Ask, Judge>>)
Swallow(r) == Guard({r}, Fn(Client, <<Drop(r)>>))  \* try: delete r, except ClientError: pass
traffic_cleanup ==
    <<Guard({"source"}, Fn(Client, EndAll(<<"source", "target_allow", "target_deny">>))),
      Swallow("sg_allow"), Swallow("sg_deny"), Swallow("subnet"), Swallow("rtb"),
      Guard({"igw"}, Fn(Client, <<Drop("attachment"), Drop("igw")>>)), Swallow("vpc")>>
    \o delete_ssm_instance_profile

traffic_test == Script(
    <<Raise(As("create_vpc", create_test_vpc("vpc"))), Raise(traffic_create_igw),
      Raise(traffic_create_subnet_with_route), Raise(traffic_instance_profile),
      Raise(traffic_create_security_groups), Raise(traffic_get_amazon_linux_ami),
      Raise(traffic_launch_instances), Raise(traffic_wait_instances_running), Raise(traffic_ssm_ready),
      traffic_ping("traffic_allowed"), traffic_blocked, traffic_ping("internet_icmp"),
      traffic_internet_http>>,
    traffic_cleanup)

AwsNetwork == [
    sg_crud_test |-> sg_crud_test,
    vpc_crud_test |-> vpc_crud_test,
    floating_ip_test |-> floating_ip_test,
    subnet_test |-> subnet_test,
    isolation_test |-> isolation_test,
    peering_test |-> peering_test,
    sg_workload_scoping |-> sg_scoping_test(sg_scoping_workload_body, sg_scoping_workload_finally),
    sg_subnet_scoping |-> sg_scoping_test(sg_scoping_subnet_body, sg_scoping_subnet_finally),
    sg_service_scoping |-> sg_scoping_test(sg_scoping_service_body, sg_scoping_service_finally),
    traffic_test |-> traffic_test]
=============================================================================
