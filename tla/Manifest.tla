------------------------------ MODULE Manifest ------------------------------
(***************************************************************************)
(* The manifest of manifest.rs: the VMs the hypervisor is asked to run,    *)
(* read from the "hypervisor" node of the device tree.  The nodes vm1,     *)
(* vm2, ... describe one VM each; vm1 is the primary.  The functions that  *)
(* return a Result return the record Ok(value) or Err(error); the error    *)
(* "panic" stands for an unwrap that fails.                                *)
(***************************************************************************)
EXTENDS Fdt, TLC

CONSTANTS MAX_VMS,       \* VMs the hypervisor has space for
          U16Max,        \* the largest spci_vcpu_count_t
          LongStrings    \* strings of MANIFEST_MAX_STRING_LENGTH bytes or more

ASSUME ManifestAssumption == MAX_VMS \in Nat \ {0} /\ U16Max \in Nat

HF_VM_ID_OFFSET == 1
HF_PRIMARY_VM_ID == HF_VM_ID_OFFSET

Ok(x) == [ok |-> TRUE, val |-> x]
Err(e) == [ok |-> FALSE, error |-> e]

-----------------------------------------------------------------------------
\* generate_vm_node_name
VmName(id) == "vm" \o ToString(id)

\* Mutant: a string without its final NUL is accepted.
AsStringUnterminated(data) ==
    IF ~data.some
    THEN Err("PropertyNotFound")
    ELSE IF ~(data.val.kind = "strings" /\ Len(data.val.of) = 1)
    THEN Err("MalformedString")
    ELSE IF data.val.of[1] \in LongStrings
    THEN Err("StringTooLong")
    ELSE Ok(data.val.of[1])

\* FdtNode::read_string: exactly one NUL, at the end, and room for it.
AsString(data) ==
    IF ~data.some
    THEN Err("PropertyNotFound")
    ELSE IF ~(data.val.kind = "strings" /\ Len(data.val.of) = 1 /\ data.val.terminated)
    THEN Err("MalformedString")
    ELSE IF data.val.of[1] \in LongStrings
    THEN Err("StringTooLong")
    ELSE Ok(data.val.of[1])

read_string(b, node, name) == AsString(read_property(b, node, name))

\* FdtNode::read_u64 and read_u16
AsU64(data) ==
    IF ~data.some
    THEN Err("PropertyNotFound")
    ELSE IF ~fdt_parse_number(data.val).some
    THEN Err("MalformedInteger")
    ELSE Ok(fdt_parse_number(data.val).val)

read_u64(b, node, name) == AsU64(read_property(b, node, name))

AsU16(value) == IF value.ok /\ value.val > U16Max THEN Err("IntegerOverflow") ELSE value

read_u16(b, node, name) == AsU16(read_u64(b, node, name))

\* StringList::read_from and contains, for the "compatible" property.  The
\* last byte of an empty value is unwrapped.
Compatible(data) ==
    IF ~data.some
    THEN Err("PropertyNotFound")
    ELSE IF data.val.of = <<>>
    THEN Err("panic")
    ELSE IF ~(data.val.kind = "strings" /\ data.val.terminated)
    THEN Err("MalformedStringList")
    ELSE IF "hafnium,hafnium" \notin Range(data.val.of)
    THEN Err("NotCompatible")
    ELSE Ok({})

\* ManifestVm::new: the properties in the order they are read; the first
\* that fails decides the error.
NoKernel == [kernel_filename |-> "", mem_size |-> 0, vcpu_count |-> 0]

PrimaryEntry(name) == IF name.ok THEN Ok(NoKernel) ELSE name

SecondaryEntry(name, kernel, mem, vcpus) ==
    IF name.ok /\ kernel.ok /\ mem.ok /\ vcpus.ok
    THEN Ok([kernel_filename |-> kernel.val, mem_size |-> mem.val, vcpu_count |-> vcpus.val])
    ELSE Head(SelectSeq(<<name, kernel, mem, vcpus>>, LAMBDA r : ~r.ok))

ManifestVm_new(b, node, id) ==
    IF id = HF_PRIMARY_VM_ID
    THEN PrimaryEntry(read_string(b, node, "debug_name"))
    ELSE SecondaryEntry(read_string(b, node, "debug_name"),
                        read_string(b, node, "kernel_filename"),
                        read_u64(b, node, "mem_size"),
                        read_u16(b, node, "vcpu_count"))

-----------------------------------------------------------------------------
(* Manifest::init.                                                         *)

\* The loop over the VM nodes, until one does not exist: `vms' are the ones
\* read so far, `node' is the next one and `vm' what it says.
RECURSIVE read_vms(_, _, _, _)
push_vm(b, hyp, vms, vm) ==
    IF vm.ok
    THEN read_vms(b, hyp, Append(vms, vm.val),
                  find_child(b, hyp, VmName(HF_VM_ID_OFFSET + Len(vms) + 1)))
    ELSE vm

read_vms(b, hyp, vms, node) ==
    IF ~node.some
    THEN IF vms = <<>> THEN Err("NoPrimaryVm") ELSE Ok(vms)
    ELSE IF Len(vms) = MAX_VMS
    THEN Err("TooManyVms")
    ELSE push_vm(b, hyp, vms, ManifestVm_new(b, node.val, HF_VM_ID_OFFSET + Len(vms)))

\* With the hypervisor node found, and what its "compatible" property says.
init_from(b, hyp, compatible) ==
    IF ~compatible.ok
    THEN compatible
    ELSE IF \E id \in 0 .. HF_VM_ID_OFFSET - 1 : find_child(b, hyp, VmName(id)).some
    THEN Err("ReservedVmId")
    ELSE read_vms(b, hyp, <<>>, find_child(b, hyp, VmName(HF_VM_ID_OFFSET)))

init_at(b, hyp) ==
    IF hyp.some
    THEN init_from(b, hyp.val, Compatible(read_property(b, hyp.val, "compatible")))
    ELSE Err("NoHypervisorFdtNode")

Manifest_init(b, root) == init_at(b, find_child(b, root, "hypervisor"))

-----------------------------------------------------------------------------
(* What a tree says about VMs, independently of the parser.                *)

IsText(data) ==
    /\ data.some /\ data.val.kind = "strings" /\ data.val.terminated
    /\ Len(data.val.of) = 1 /\ data.val.of[1] \notin LongStrings

IsNumber(data, max) ==
    /\ data.some /\ data.val.kind = "cells" /\ Len(data.val.of) \in {1, 2}
    /\ fdt_parse_number(data.val).val <= max

DescribesVm(tree, id) ==
    /\ IsText(TreeProperty(tree, "debug_name"))
    /\ id # HF_PRIMARY_VM_ID =>
          /\ IsText(TreeProperty(tree, "kernel_filename"))
          /\ IsNumber(TreeProperty(tree, "mem_size"), CellRadix * CellRadix)
          /\ IsNumber(TreeProperty(tree, "vcpu_count"), U16Max)

VmIds(hyp) == {id \in 0 .. MAX_VMS + 1 : TreeChild(hyp, VmName(id)).some}

\* The number of VM nodes up to the first missing id.
VmCount(hyp) ==
    CHOOSE n \in 0 .. MAX_VMS + 1 :
        /\ 1 .. n \subseteq VmIds(hyp)
        /\ n <= MAX_VMS => n + 1 \notin VmIds(hyp)

\* A tree with a manifest the hypervisor can run from.
HasManifest(tree) ==
    LET hyp        == TreeChild(tree, "hypervisor").val
        compatible == TreeProperty(hyp, "compatible")
    IN  /\ TreeChild(tree, "hypervisor").some
        /\ compatible.some /\ compatible.val.kind = "strings" /\ compatible.val.terminated
        /\ "hafnium,hafnium" \in Range(compatible.val.of)
        /\ 0 \notin VmIds(hyp)
        /\ VmCount(hyp) \in 1 .. MAX_VMS
        /\ \A id \in 1 .. VmCount(hyp) : DescribesVm(TreeChild(hyp, VmName(id)).val, id)

\* The VMs of such a tree, in the order of their ids.
TreeVms(tree) ==
    LET hyp == TreeChild(tree, "hypervisor").val
        vm(id) == TreeChild(hyp, VmName(id)).val
        number(id, name) == fdt_parse_number(TreeProperty(vm(id), name).val).val
    IN  [id \in 1 .. VmCount(hyp) |->
            IF id = HF_PRIMARY_VM_ID
            THEN NoKernel
            ELSE [kernel_filename |-> TreeProperty(vm(id), "kernel_filename").val.of[1],
                  mem_size |-> number(id, "mem_size"),
                  vcpu_count |-> number(id, "vcpu_count")]]
=============================================================================
