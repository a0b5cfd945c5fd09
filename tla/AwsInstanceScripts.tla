------------------------- MODULE AwsInstanceScripts -------------------------
(***************************************************************************)
(* The scripts of providers/aws/scripts/vm and bare_metal that launch an   *)
(* instance, work on it and tear it down.  They are steps of one test run: *)
(* what one leaves for the next is named in its document (Hands), what it  *)
(* is given exists before it starts.  A condition on the state of the      *)
(* instance, on SSH or on what a command printed is a judgement.           *)
(*                                                                         *)
(* Left out: --skip-destroy and the variables that stand for it, which     *)
(* print a result before the first request is made.                        *)
(***************************************************************************)
EXTENDS ScriptLanguage

instance == Standing("instance", {"sg"})
sg       == Standing("sg", {})
key      == Standing("key", {})

-----------------------------------------------------------------------------
\* common/ec2.py.  found: an earlier run left the key or the group behind.
wait_for_public_ip == <<Ask, Judge>>
get_default_vpc_and_subnets == <<Ask, Judge, Ask, Judge>>
create_key_pair(found) ==
    IF found THEN <<Ask, Judge, Drop("key"), Make("key", {})>> ELSE <<Ask, Make("key", {})>>
create_security_group(found) ==
    IF found THEN <<Ask, Judge>> ELSE <<Make("sg", {}), Ask>>

(***************************************************************************)
(* main of vm/launch_instance.py and bare_metal/launch_instance.py, which  *)
(* differ in the images they look for and the time they wait: one subnet   *)
(* after the other is tried while the type is not offered in the zone.     *)
(***************************************************************************)
get_ami == <<Ask, Judge, Ask>>
try_subnets ==
    <<Fn(Coded, <<Fit("instance", {"sg"})>>),
      After({"instance"}, Main(<<Make("instance", {"sg"})>>))>>
launch(found) ==
    <<Main(get_default_vpc_and_subnets), Main(create_key_pair(found)),
      Main(create_security_group(found)), Main(get_ami)>> \o try_subnets \o
    <<As("state", Main(<<Ask, Ask>>))>>

add_specified_key_contract == Test("specified_key", None, <<Judge>>)

vm_launch_instance == Graded({"state"}, Bare(Hands(
    Script(Append(launch(FALSE), add_specified_key_contract), <<>>))))
bm_launch_instance == Names({"key", "sg"}, Finds({key, sg}, Bare(Hands(Script(launch(TRUE), <<>>)))))

(***************************************************************************)
(* A script that works on the instance it is given.                        *)
(***************************************************************************)
OnInstance(body) ==
    Bare(Hands(Names({"instance"}, Finds({instance}, Script(body, <<>>)))))
fresh_ip  == <<Return(Fn(None, wait_for_public_ip))>>
ssh_ready == <<Expects>>

vm_reuse_existing_instance == OnInstance(<<Main(<<Look("instance"), Ask>>), Main(<<Judge>>)>>)
bm_reuse_existing_instance == OnInstance(<<Main(<<Look("instance"), Judge>>)>>)

stop_instance == OnInstance(
    <<Main(<<Look("instance")>>), Otherwise, Expects, Main(<<Ask, Ask>>)>>)
start_instance == OnInstance(
    <<Main(<<Look("instance")>>), Expects, Main(<<Ask, Ask>>)>> \o fresh_ip \o ssh_ready)
reboot_instance == OnInstance(
    <<Main(<<Look("instance")>>), Expects, Main(<<Ask, Ask>>)>> \o fresh_ip \o ssh_ready
    \o <<Expects, Test("reboot_confirmed", None, <<Judge>>)>>)
power_cycle_instance == OnInstance(
    <<Main(<<Look("instance")>>), Expects, Main(<<Ask, Ask, Ask>>)>> \o fresh_ip \o ssh_ready)
describe_instance == OnInstance(<<Main(<<Look("instance")>>)>>)
describe_tags     == OnInstance(<<Main(<<Look("instance")>>), Expects>>)
list_instances    == Catches(Client, OnInstance(<<Main(<<Ask>>)>>))

\* The bare-metal scripts of the same names differ in the time they wait only.
bm_stop_instance     == stop_instance
bm_start_instance    == start_instance
bm_reboot_instance   == reboot_instance
bm_describe_instance == describe_instance
bm_describe_tags     == describe_tags

-----------------------------------------------------------------------------
\* bare_metal/reinstall_instance.py
(***************************************************************************)
(* A volume is attached to the instance by an association, and cannot be   *)
(* deleted while it is.  The replacement is made from the snapshot of the  *)
(* image or, when that is not found, taken from a donor instance; the      *)
(* volume of the donor goes with it until it is detached.                  *)
(***************************************************************************)
root_attached == [Standing("old_attachment", {"old_volume"}) EXCEPT !.on = "instance"]
get_ami_root_snapshot == <<Ask, Judge>>
create_root_volume_from_snapshot ==
    <<Fn(Coded, <<Fit("new_volume", {})>>), Guard({"new_volume"}, Main(<<Ask>>))>>
\* The finally block tolerates a refused request; a broken connection is left out.
terminate_donor == Guard({"donor"}, Loses({"donor"},
    Fn(Client, <<[Terminate("donor") EXCEPT !.errs = {"client"}]>>)))
create_root_volume_from_donor_instance ==
    <<After({"new_volume"}, Main(<<Judge, Make("donor", {}), Ask, Judge>>)),
      Guard({"donor"}, Main(<<Make("new_volume", {}), Ask>>)), terminate_donor>>

reinstall_instance == OnError(Bare(Hands(Names({"instance"},
    Finds({instance, Standing("old_volume", {}), root_attached}, Script(
    <<Main(<<Look("instance")>>), Expects, Main(get_ami_root_snapshot)>>
    \o create_root_volume_from_snapshot \o create_root_volume_from_donor_instance \o
    <<Main(<<Ask, Ask, Drop("old_attachment"), Ask,
             Attach("new_attachment", "instance", {"new_volume"}), Ask, Ask>>),
      Main(wait_for_public_ip), Main(<<Judge>>), Fn(All, <<Purge("old_volume")>>)>>,
    <<terminate_donor, delete_with_retry("new_volume")>>))))))

-----------------------------------------------------------------------------
(***************************************************************************)
(* teardown.py: the group and the key are the ones the description of the  *)
(* instance names, and one that cannot be deleted is an entry of the       *)
(* warnings of a document that says success.  An instance that is gone     *)
(* when it is described, or when the request to terminate looks it up, is  *)
(* success at once; one that was terminating before may vanish in between. *)
(***************************************************************************)
described == Settles(Fn(Coded, <<Look("instance"), Shown("sg"), Shown("key")>>))

vm_teardown(left) == Names({"instance"}, Finds(left, Bare(Catches(Client, Script(
    <<described, Settles(Fn(Coded, <<Shown("instance"), Terminate("instance")>>)), Main(<<Gone("instance")>>),
      Fn(Client, <<Ask, Drop("sg")>>), Fn(Client, <<Purge("key")>>)>>, <<>>)))))

\* The wait may run into its timeout; then the group is in use for a while.
bm_teardown(left) == Names({"instance"}, Finds(left, Bare(Script(
    <<described, [Return(Fn(All, <<Terminate("instance")>>)) EXCEPT !.loses = {"sg", "key"}],
      Fn({"boto"}, <<Gone("instance")>>)>>,
    <<Guard({"sg"}, Fn(Client, <<Ask, Retry("sg")>>)), Guard({"key"}, Fn(Client, <<Purge("key")>>))>>))))

\* bare_metal/verify_terminated.py: a request that fails is an issue, too.
verify_terminated(left) == Names({"instance", "sg", "key"}, Finds(left, Hands(Bare(Catches(None, Script(
    <<Test("instance", Client, <<Absent("instance")>>),
      Test("security_group", Client, <<Absent("sg")>>),
      Test("key_pair", Client, <<Absent("key")>>)>>, <<>>))))))

-----------------------------------------------------------------------------
\* Probes of an instance.
run_serial_console_check == OnInstance(<<Fn(Client, <<Ask>>), Fn(Client, <<Ask>>), Expects>>)
host_status_log == [OnInstance(<<Expects, Expects>>) EXCEPT !.wrapped = TRUE]
virtual_device_hardening == OnInstance(
    <<Test("guest_probe", None, <<Judge>>)>> \o
    [i \in 1 .. 3 |-> Needs({"guest_probe"}, Test(
        <<"usb_devices_disabled", "clipboard_disabled", "unnecessary_virtual_devices_absent">>[i],
        None, <<Judge>>))])
component_key_access == [Catches(None, OnInstance(
    <<Expects, Test("sol_access", Client, <<Ask>>),
      Needs({"sol_access"}, Otherwise),
      Needs({"sol_access"}, Test("sol_access", Client, <<Ask, Judge>>))>>)) EXCEPT !.wrapped = TRUE]

AwsInstance ==
    [vm_launch_instance |-> vm_launch_instance, bm_launch_instance |-> bm_launch_instance,
     vm_reuse_existing_instance |-> vm_reuse_existing_instance,
     bm_reuse_existing_instance |-> bm_reuse_existing_instance,
     stop_instance |-> stop_instance, start_instance |-> start_instance,
     reboot_instance |-> reboot_instance, power_cycle_instance |-> power_cycle_instance,
     describe_instance |-> describe_instance, describe_tags |-> describe_tags,
     bm_stop_instance |-> bm_stop_instance, bm_start_instance |-> bm_start_instance,
     bm_reboot_instance |-> bm_reboot_instance, bm_describe_instance |-> bm_describe_instance,
     bm_describe_tags |-> bm_describe_tags,
     list_instances |-> list_instances, reinstall_instance |-> reinstall_instance,
     vm_teardown |-> vm_teardown({instance, sg, key}), vm_teardown_again |-> vm_teardown({sg, key}),
     vm_teardown_late |-> vm_teardown({[instance EXCEPT !.going = TRUE], sg, key}),
     bm_teardown |-> bm_teardown({instance, sg, key}), bm_teardown_again |-> bm_teardown({sg, key}),
     verify_terminated |-> verify_terminated({}), verify_terminated_early |-> verify_terminated({key}),
     run_serial_console_check |-> run_serial_console_check, host_status_log |-> host_status_log,
     virtual_device_hardening |-> virtual_device_hardening,
     component_key_access |-> component_key_access]
=============================================================================
