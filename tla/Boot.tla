-------------------------------- MODULE Boot --------------------------------
(***************************************************************************)
(* one_time_init: the boot CPU, alone, reads the device tree, sets up its  *)
(* CPUs, maps the ramdisk, loads the primary VM and then the secondary VMs *)
(* into memory it takes from the ranges the tree lists, and rewrites the   *)
(* tree for the primary.  Memory is a set of addresses; a page is PageSize *)
(* of them.  The hypervisor's own table is the set of pages it maps, a     *)
(* VM's table the set of pages the VM can reach, and `ram' says what the   *)
(* byte at an address is: a certain byte of a file, or of the device tree. *)
(*                                                                         *)
(* Every identity_map and unmap may fail, because it may need a page for a *)
(* table and find the pool empty; it then leaves the mapping as it was     *)
(* (PageTable.tla).  A failure the code does not survive (expect, unwrap,  *)
(* panic!) ends in pc = "panic", and so does an access to a page the       *)
(* hypervisor does not map.  pc = "undefined" stands for everything that    *)
(* may follow once the hypervisor has written over its own image, over its *)
(* VM structures or over a device tree it still needs.  The console's own  *)
(* mapping is left out.                                                    *)
(***************************************************************************)
EXTENDS Manifest, BootParams, Cpio, FiniteSets

CONSTANTS Inputs,        \* what the boot loader may leave: [tree, whole, fdt, files],
                         \* and if the primary then uses PSCI: psci
          PageSize, PageCount,
          Sections,      \* the image's text, rodata and data, as ranges
          PrimaryBegin,  \* layout_primary_begin()
          FdtAddr,       \* plat_get_fdt_addr()
          FdtHeaderSize, ReserveEntrySize,
          InitrdBegin,   \* where the archive lies
          BootCpu        \* the id of the CPU that runs this

ASSUME BootAssumption ==
    /\ PageSize \in Nat \ {0} /\ PageCount \in Nat
    \* The reservations patch adds fit the page it maps after the tree.
    /\ (Len(Sections) + MAX_MEM_RANGES) * ReserveEntrySize <= PageSize

VARIABLES input, fdt, pc, ret, manifest, params, cpus, hyp, vms, avail, next, ram, update

vars == <<input, fdt, pc, ret, manifest, params, cpus, hyp, vms, avail, next, ram, update>>

-----------------------------------------------------------------------------
(* Addresses, pages and ranges.                                            *)

AddrSpace == PageSize * PageCount
Addr == 0 .. AddrSpace - 1
Page == 0 .. PageCount - 1

MemRange(b, e) == [begin |-> b, end |-> e]

\* round_down, round_up and pa_difference on the machine's addresses: a
\* release build wraps around.
round_down(a) == a - (a % PageSize)
round_up(a) == round_down((a + PageSize - 1) % AddrSpace)
pa_difference(b, e) == (e - b) % AddrSpace

\* The pages identity_map and unmap touch for [begin, end).
Pages(begin, end) == {p \in Page : p >= begin \div PageSize /\ p * PageSize < end}

PagesOf(ranges) == UNION {Pages(r.begin, r.end) : r \in ranges}

ImagePages == PagesOf(Range(Sections))
FdtPages(size) == Pages(FdtAddr, FdtAddr + size)

\* A byte of memory: the k-th of file i or of the tree, a mixture of bytes,
\* or something else.
Byte(of, i, k) == <<of, i, k>>

FileBegin(files, i) == InitrdBegin + ContentsOffset(files, i)

\* The i-th file, its k-th byte at `begin' + k.
FileAt(files, i, begin) == \A k \in 0 .. files[i].size - 1 : ram[begin + k] = Byte("file", i, k)

TreeBytes(f) == FdtAddr .. FdtAddr + f.totalsize - 1

Contents(f, files) ==
    LET of(a) == {i \in DOMAIN files : a - FileBegin(files, i) \in 0 .. files[i].size - 1}
    IN  [a \in Addr |->
            IF a \in TreeBytes(f) THEN Byte("fdt", 0, 0)
            ELSE IF of(a) = {} THEN Byte("", 0, 0)
            ELSE LET i == CHOOSE j \in of(a) : TRUE IN Byte("file", i, a - FileBegin(files, i))]

Init ==
    /\ input \in Inputs
    /\ fdt = input.fdt
    /\ pc = "map"
    /\ ret = FALSE
    /\ manifest = <<>>
    /\ params = [initrd |-> MemRange(0, 0), cpu_ids |-> <<>>, mem_ranges |-> <<>>]
    /\ cpus = <<>>
    /\ hyp = ImagePages
    /\ vms = <<>>
    /\ avail = <<>>
    /\ next = HF_PRIMARY_VM_ID
    /\ ram = Contents(input.fdt, input.files)
    /\ update = [reserved |-> <<>>, initrd |-> MemRange(0, 0)]

Ends(how) ==
    /\ pc' = how
    /\ UNCHANGED <<input, fdt, ret, manifest, params, cpus, hyp, vms, avail, next, ram,
                   update>>

Panic == Ends("panic")

-----------------------------------------------------------------------------
(* boot_flow_init: map the tree, read it, unmap it.                        *)

\* fdt_handler::map: the header first, then everything.
FdtMap ==
    /\ pc = "map"
    /\ \/ /\ new_root(fdt)
          /\ hyp' = hyp \cup FdtPages(FdtHeaderSize) \cup FdtPages(fdt.totalsize)
          /\ pc' = "parse"
          /\ UNCHANGED <<input, fdt, ret, manifest, params, cpus, vms, avail, next, ram,
                         update>>
       \/ Panic

\* The root node: the child of the block whose name is empty.
Root(f) == find_child(f.struct, 1, "")

\* Manifest::init, then BootParams::init: the first that fails decides.
Outcome(vmlist, initrd, ids, mem) ==
    IF ~vmlist.ok
    THEN [is |-> IF vmlist.error = "panic" THEN "panic" ELSE "err"]
    ELSE IF ~(initrd.some /\ ids.some) \/ mem.outcome = "none"
    THEN [is |-> "err"]
    ELSE IF mem.outcome = "panic"
    THEN [is |-> "panic"]
    ELSE [is |-> "ok", manifest |-> vmlist.val,
          params |-> [initrd |-> initrd.val, cpu_ids |-> ids.val, mem_ranges |-> mem.ranges]]

Parsed(f, root) ==
    IF root.some
    THEN {Outcome(Manifest_init(f.struct, root.val), find_initrd(b, root.val),
                  find_cpus(f.struct, root.val), find_memory_ranges(f.struct, root.val)) :
            b \in FromFdtNode(f, root.val)}
    ELSE {[is |-> "err"]}

FdtParse ==
    /\ pc = "parse"
    /\ \E parsed \in Parsed(fdt, Root(fdt)) :
          \/ /\ parsed.is = "panic"
             /\ Panic
          \/ /\ parsed.is = "err"
             /\ pc' = "unmap"
             /\ UNCHANGED <<input, fdt, ret, manifest, params, cpus, hyp, vms, avail, next,
                            ram, update>>
          \/ /\ parsed.is = "ok"
             /\ manifest' = parsed.manifest
             /\ params' = parsed.params
             /\ ret' = TRUE
             /\ pc' = "unmap"
             /\ UNCHANGED <<input, fdt, cpus, hyp, vms, avail, next, ram, update>>

\* fdt_handler::unmap, whatever the parse returned; one_time_init expects it
\* to have been Ok.
FdtUnmap ==
    /\ pc = "unmap"
    /\ \/ /\ hyp' = hyp \ FdtPages(fdt.totalsize)
          /\ pc' = IF ret THEN "cpus" ELSE "panic"
          /\ UNCHANGED <<input, fdt, ret, manifest, params, cpus, vms, avail, next, ram,
                         update>>
       \/ Panic

-----------------------------------------------------------------------------
(* The CPUs and the ramdisk.                                               *)

\* The i-th CPU after the boot CPU.  (Cpu::is_on is is_on of CpuPower.)
NextCpu(id, i) == [id |-> id, stack |-> i + 1]

\* CpuManager::new: the boot CPU first, on the first stack; the others in
\* the order of the tree, off, on the stacks that follow.
CpuManagerNew ==
    /\ pc = "cpus"
    /\ LET others == SelectSeq(params.cpu_ids, LAMBDA id : id # BootCpu)
           count  == Len(params.cpu_ids) - Len(others)
           zipped == IF Len(others) < MAX_CPUS - 1 THEN Len(others) ELSE MAX_CPUS - 1
       IN  \/ /\ count = 1
              /\ cpus' = <<[id |-> BootCpu, stack |-> 1]>>
                         \o [i \in 1 .. zipped |-> NextCpu(others[i], i)]
              /\ pc' = "initrd"
              /\ UNCHANGED <<input, fdt, ret, manifest, params, hyp, vms, avail, next, ram,
                             update>>
           \/ count # 1 /\ Panic

MapInitrd ==
    /\ pc = "initrd"
    /\ \/ /\ hyp' = hyp \cup Pages(params.initrd.begin, params.initrd.end)
          /\ pc' = "primary"
          /\ UNCHANGED <<input, fdt, ret, manifest, params, cpus, vms, avail, next, ram,
                         update>>
       \/ Panic

\* The archive as the loader sees it: the range of the tree.
cpio == MemIter(params.initrd.begin, params.initrd.end, input.files)

-----------------------------------------------------------------------------
(* Loading.                                                                *)

\* The hypervisor reads addresses of pages its table, or `pages', has.
Readable(addresses, pages) == \A a \in addresses : a \div PageSize \in hyp \cup pages

\* copy_to_unmapped: map, copy, unmap.  Pages that were mapped before are
\* not any more.  A copy whose source and destination overlap leaves any
\* mixture of bytes.
Target(file, to) == Pages(to, to + file.size)

can_copy(file, to) == Readable(file.at .. file.at + file.size - 1, Target(file, to))

copy(file, to) ==
    LET source == file.at .. file.at + file.size - 1
        target == to .. to + file.size - 1
    IN  [a \in Addr |->
            IF a \notin target THEN ram[a]
            ELSE IF source \cap target # {} THEN Byte("mixed", 0, 0)
            ELSE ram[file.at + (a - to)]]

copy_unmaps(file, to) == hyp \ Target(file, to)

\* load_primary, and the start of load_secondary: the available ranges are
\* the tree's, their ends rounded down to a page.  The ramdisk is searched
\* again after the kernel has been copied.
LoadPrimary ==
    /\ pc = "primary"
    /\ LET kernel == find_file(cpio, "vmlinuz")
           initrd == find_file(cpio, "initrd.img")
       IN  \/ /\ kernel # <<>> /\ initrd # <<>>
              /\ can_copy(kernel[1], PrimaryBegin)
              /\ ram' = copy(kernel[1], PrimaryBegin)
              /\ hyp' = copy_unmaps(kernel[1], PrimaryBegin)
              /\ \A a \in looked_at(cpio, "initrd.img") : a \div PageSize \in hyp'
              /\ vms' = <<[mem |-> Page \ ImagePages, entry |-> Some(PrimaryBegin),
                           vcpus |-> MAX_CPUS, from |-> HF_PRIMARY_VM_ID]>>
              /\ update' = [update EXCEPT
                    !.initrd = MemRange(initrd[1].at, initrd[1].at + initrd[1].size)]
              /\ avail' = [i \in DOMAIN params.mem_ranges |->
                    [params.mem_ranges[i] EXCEPT !.end = round_down(@)]]
              /\ next' = HF_PRIMARY_VM_ID + 1
              /\ pc' = "secondary"
              /\ UNCHANGED <<input, fdt, ret, manifest, params, cpus>>
           \/ Panic

\* carve_out_mem_range: the end of the first range that is large enough.
carve_index(size) == SelectInSeq(avail, LAMBDA r : size <= pa_difference(r.begin, r.end))

\* What the loop of load_secondary knows of the VM it is at.
kernel_of(vm) == find_file(cpio, vm.kernel_filename)
mem_size_of(vm) == round_up(vm.mem_size)
carved(size) ==
    LET end == avail[carve_index(size)].end IN MemRange((end - size) % AddrSpace, end)
carve(size) == [avail EXCEPT ![carve_index(size)].end = carved(size).begin]

\* Mutant: the kernel need not fit the memory.
LoadableAnySize(vm) ==
    /\ kernel_of(vm) # <<>>
    /\ carve_index(mem_size_of(vm)) # 0

Loadable(vm) ==
    /\ kernel_of(vm) # <<>>
    /\ mem_size_of(vm) >= kernel_of(vm)[1].size
    /\ carve_index(mem_size_of(vm)) # 0

\* Mutant: the primary keeps the memory.
primary_withoutNothing(mem) == vms

\* The primary after the unmap, and the entry of a VM created after it.
primary_without(mem) == [vms EXCEPT ![HF_PRIMARY_VM_ID].mem = @ \ Pages(mem.begin, mem.end)]

\* Vm::init pushes vcpu_count vCPUs, unchecked, into an array of MAX_CPUS.
NewVm(vm, pages, entry) ==
    [mem |-> pages, entry |-> entry, vcpus |-> vm.vcpu_count, from |-> next]

can_create == Len(vms) < MAX_VMS

\* An iteration of load_secondary that finds the archive readable.
Loading ==
    /\ pc = "secondary" /\ next <= Len(manifest)
    /\ Readable(looked_at(cpio, manifest[next].kernel_filename), {})

\* An earlier load has taken a page of the archive from the hypervisor's table.
ArchiveGone ==
    /\ pc = "secondary" /\ next <= Len(manifest)
    /\ ~Readable(looked_at(cpio, manifest[next].kernel_filename), {})
    /\ Panic

\* No kernel, too little memory asked for, or too little left: next VM.
SkipVm ==
    /\ Loading
    /\ ~Loadable(manifest[next])
    /\ next' = next + 1
    /\ UNCHANGED <<input, fdt, pc, ret, manifest, params, cpus, hyp, vms, avail, ram, update>>

\* The kernel's destination cannot be mapped: the memory stays carved out.
CopyFails ==
    /\ Loading
    /\ Loadable(manifest[next])
    /\ avail' = carve(mem_size_of(manifest[next]))
    /\ next' = next + 1
    /\ UNCHANGED <<input, fdt, pc, ret, manifest, params, cpus, hyp, vms, ram, update>>

\* The kernel cannot be read, the primary cannot be denied the memory, and
\* load_secondary gives up; or the copied kernel cannot be unmapped again,
\* which is unwrapped.
DenyFails ==
    /\ Loading
    /\ Loadable(manifest[next])
    /\ Panic

\* The memory that was found is the image's, or the VM has too many vCPUs.
Overwrites ==
    /\ Loading
    /\ Loadable(manifest[next])
    /\ LET vm     == manifest[next]
           kernel == kernel_of(vm)[1]
           begin  == carved(mem_size_of(vm)).begin
       IN  /\ can_copy(kernel, begin)
           /\ \/ Target(kernel, begin) \cap ImagePages # {}
              \/ can_create /\ vm.vcpu_count > MAX_CPUS
    /\ Ends("undefined")

\* The rest of the iteration once the primary has lost the memory.  Without
\* a VM (new_vm fails), without its mapping (identity_map fails), or with
\* both and its first vCPU started; that vCPU must exist.
LoadVm ==
    /\ Loading
    /\ Loadable(manifest[next])
    /\ LET vm     == manifest[next]
           mem    == carved(mem_size_of(vm))
           kernel == kernel_of(vm)[1]
           pages  == Pages(mem.begin, mem.end)
           others == primary_without(mem)
       IN  /\ can_copy(kernel, mem.begin)
           /\ Target(kernel, mem.begin) \cap ImagePages = {}
           /\ avail' = carve(mem_size_of(vm))
           /\ ram' = copy(kernel, mem.begin)
           /\ hyp' = copy_unmaps(kernel, mem.begin)
           /\ \/ vms' = others /\ pc' = pc
              \/ /\ can_create /\ vm.vcpu_count <= MAX_CPUS
                 /\ \/ vms' = Append(others, NewVm(vm, {}, None)) /\ pc' = pc
                    \/ /\ vm.vcpu_count > 0
                       /\ vms' = Append(others, NewVm(vm, pages, Some(mem.begin)))
                       /\ pc' = pc
                    \/ /\ vm.vcpu_count = 0
                       /\ vms' = Append(others, NewVm(vm, pages, None))
                       /\ pc' = "panic"
    /\ next' = next + 1
    /\ UNCHANGED <<input, fdt, ret, manifest, params, cpus, update>>

\* Mutant: what was taken from the end of a range is not reserved.
TakenFront(before, after) ==
    IF after.begin > before.begin THEN <<MemRange(before.begin, after.begin)>> ELSE <<>>

\* update_reserved_ranges, the end of load_secondary: what was taken from
\* the front and from the end of every range.
Taken(before, after) ==
    (IF after.begin > before.begin THEN <<MemRange(before.begin, after.begin)>> ELSE <<>>)
    \o (IF after.end < before.end THEN <<MemRange(after.end, before.end)>> ELSE <<>>)

UpdateReserved ==
    /\ pc = "secondary" /\ next > Len(manifest)
    /\ LET taken == FlattenSeq([i \in DOMAIN avail |-> Taken(params.mem_ranges[i], avail[i])])
       IN  IF Len(taken) <= MAX_MEM_RANGES
           THEN /\ update' = [update EXCEPT !.reserved = taken]
                /\ pc' = "patch"
                /\ UNCHANGED <<input, fdt, ret, manifest, params, cpus, hyp, vms, avail, next,
                               ram>>
           ELSE Panic

-----------------------------------------------------------------------------
(* fdt_handler::patch and the end of one_time_init.                        *)

\* The block with the primary's ramdisk written into its "chosen" node.
chosen_of(b) == find_child(b, find_child(b, 1, "").val, "chosen")
with_start(b) == write_number(b, chosen_of(b).val, "linux,initrd-start", update.initrd.begin)

with_end(b) == write_number(b, chosen_of(b).val, "linux,initrd-end", update.initrd.end)

\* add_mem_reservation, for the image's sections and the reserved ranges:
\* every entry goes to the front of the table.
reserve(f, ranges) ==
    [f EXCEPT !.rsvmap = Reverse(ranges) \o @,
              !.totalsize = @ + Len(ranges) * ReserveEntrySize]

PatchFdt ==
    /\ pc = "patch"
    /\ \A a \in TreeBytes(fdt) : ram[a] = Byte("fdt", 0, 0)
    /\ \/ LET started == with_start(fdt.struct)
              ended   == with_end(started.val)
              patched == reserve([fdt EXCEPT !.struct = ended.val], Sections \o update.reserved)
          IN  /\ chosen_of(fdt.struct).some /\ started.some /\ ended.some
              /\ fdt' = patched
              /\ ram' = [a \in Addr |->
                    IF a \in TreeBytes(patched) THEN Byte("fdt", 0, 0) ELSE ram[a]]
              /\ hyp' = (hyp \cup FdtPages(fdt.totalsize + PageSize))
                        \ FdtPages(patched.totalsize + PageSize)
              /\ pc' = "done"
              /\ UNCHANGED <<input, ret, manifest, params, cpus, vms, avail, next, update>>
       \/ Panic

\* A kernel was copied over the tree.
TreeGone ==
    /\ pc = "patch"
    /\ \E a \in TreeBytes(fdt) : ram[a] # Byte("fdt", 0, 0)
    /\ Ends("undefined")

Next ==
    \/ FdtMap \/ FdtParse \/ FdtUnmap
    \/ CpuManagerNew \/ MapInitrd
    \/ LoadPrimary
    \/ ArchiveGone \/ SkipVm \/ CopyFails \/ DenyFails \/ Overwrites \/ LoadVm
    \/ UpdateReserved \/ PatchFdt \/ TreeGone

Spec == Init /\ [][Next]_vars

-----------------------------------------------------------------------------
(* Properties.                                                             *)

\* The names the loader looks for, and one it does not.
Names == {"hypervisor", "compatible", "vm0", "vm1", "vm2", "vm3", "debug_name", "mem_size",
          "chosen", "cpus", "reg", "device_type", "#address-cells", "none"}

\* At every node of a device tree, the parser of fdt.rs finds exactly the
\* properties and the children that were encoded, whatever Nops lie between
\* the tokens and however deep the nodes are that it has to skip.  A tree
\* whose structure block ends early is read as the tree it was cut from with
\* nodes and properties missing: the cursor collapses, and one node's contents
\* are never taken for another's.
ParserIsExact ==
    pc = "parse" /\ (input.whole \/ Root(fdt).some) =>
        LET root == Root(fdt).val
            kids == Children(fdt.struct, root)
        IN  /\ Root(fdt).some
            /\ IF input.whole THEN Agrees(fdt.struct, root, kids, input.tree, Names)
               ELSE NeverMisreads(fdt.struct, root, kids, input.tree, Names)

\* The CPUs and memory ranges BootParams::init takes from a tree are the
\* tree's, in its order, for numbers of one cell and of two; ranges beyond
\* MAX_MEM_RANGES are dropped from the end.
ParamsOfTree(tree) ==
    LET node  == TreeChild(tree, "cpus").val
        w     == TreeNumber(node, "#address-cells", 1)
        ids   == TreeCells(node, "cpu", w)
        a     == TreeNumber(tree, "#address-cells", 1)
        s     == TreeNumber(tree, "#size-cells", 1)
        mem   == TreeCells(tree, "memory", a + s)
    IN  /\ Len(params.cpu_ids) * w = Len(ids)
        /\ \A i \in DOMAIN params.cpu_ids :
              params.cpu_ids[i] = NumberAt(ids, (i - 1) * w, w)
        /\ \/ Len(params.mem_ranges) * (a + s) = Len(mem)
           \/ /\ Len(params.mem_ranges) = MAX_MEM_RANGES
              /\ Len(mem) > MAX_MEM_RANGES * (a + s)
        /\ \A i \in DOMAIN params.mem_ranges :
              LET at == (i - 1) * (a + s)
                  b  == NumberAt(mem, at, a)
              IN  params.mem_ranges[i] = MemRange(b, b + NumberAt(mem, at + a, s))

\* What boot_flow_init takes from a complete device tree is what the tree
\* says: Manifest::init accepts it exactly when it has a manifest, and returns
\* the VMs vm1, vm2, ... up to the first id without a node; the ramdisk, the
\* CPUs and the memory ranges are the tree's.  What it takes from a block that
\* ends too early, with a manifest, still has the tree's ramdisk, although
\* find_initrd then also sees what is stored behind the block.
BootFlowIsExact ==
    /\ input.whole =>
        /\ pc = "parse" =>
              LET read == Manifest_init(fdt.struct, Root(fdt).val)
              IN  /\ read.ok <=> HasManifest(input.tree)
                  /\ read.ok => read.val = TreeVms(input.tree)
        /\ pc = "unmap" /\ ret => ParamsOfTree(input.tree)
    /\ pc = "unmap" /\ ret =>
        LET chosen == TreeChild(input.tree, "chosen").val
        IN  params.initrd = MemRange(TreeNumber(chosen, "linux,initrd-start", 0),
                                     TreeNumber(chosen, "linux,initrd-end", 0))

\* What the loader takes for granted of the device tree and the manifest.  Its
\* ranges hold the page boundary they end at, and do not overlap.
PlainRanges ==
    /\ \A r \in Range(params.mem_ranges) : r.begin <= round_down(r.end)
    /\ \A i, j \in DOMAIN params.mem_ranges : i # j =>
          LET r == params.mem_ranges[i]
              q == params.mem_ranges[j]
          IN  r.end <= q.begin \/ q.end <= r.begin

\* What boot needs in memory: the image, the primary's kernel, the tree with
\* the reservations patch adds, the ramdisk.
InUse ==
    LET size(name) == input.files[Named(input.files, name)].size
    IN  UNION {s.begin .. s.end - 1 : s \in Range(Sections)}
        \cup PrimaryBegin .. PrimaryBegin + size("vmlinuz") - 1
        \cup FdtAddr .. FdtAddr + input.fdt.totalsize
                        + (Len(Sections) + MAX_MEM_RANGES) * ReserveEntrySize - 1
        \cup params.initrd.begin .. params.initrd.end - 1

\* The pages of all VMs that some range could hold are fewer than those above
\* anything in use, in every range; and the primary's kernel ends below the
\* tree and the ramdisk.
RoomToLoad ==
    LET pages(vm) == (vm.mem_size + PageSize - 1) \div PageSize
        top(r)    == r.end \div PageSize
        held(vm)  == \E r \in Range(params.mem_ranges) :
                        r.begin <= (top(r) - pages(vm)) * PageSize
        asked     == FoldLeft(LAMBDA sum, vm : IF held(vm) THEN sum + pages(vm) ELSE sum,
                              0, Tail(manifest))
    IN  /\ \A r \in Range(params.mem_ranges), a \in InUse :
              \/ a < r.begin \/ a >= top(r) * PageSize
              \/ a < (top(r) - asked) * PageSize
        /\ LET end == PrimaryBegin + input.files[Named(input.files, "vmlinuz")].size
           IN  Pages(PrimaryBegin, end) \cap
                 (FdtPages(fdt.totalsize) \cup Pages(params.initrd.begin, params.initrd.end)) = {}

\* Whatever fails while VMs are loaded, a page the primary can reach is no
\* other VM's and not the image's.  With plain ranges, two secondaries share
\* no page either, and the memory of each lies in one of the ranges of the
\* device tree; if there is room, it holds nothing boot has in use
\* (load_primary, load_secondary, carve_out_mem_range, which checks only
\* sizes).
MemoryIsDealtOnce ==
    vms # <<>> =>
        LET secondaries == DOMAIN vms \ {HF_PRIMARY_VM_ID}
            primary     == vms[HF_PRIMARY_VM_ID].mem
        IN  /\ primary \cap ImagePages = {}
            /\ \A i \in secondaries : vms[i].mem \cap primary = {}
            /\ PlainRanges =>
                  \A i \in secondaries :
                      /\ \A j \in secondaries : i # j => vms[i].mem \cap vms[j].mem = {}
                      /\ vms[i].mem # {} =>
                            \E r \in Range(params.mem_ranges) :
                                \A p \in vms[i].mem :
                                    r.begin <= p * PageSize /\ (p + 1) * PageSize <= r.end
                      /\ RoomToLoad => \A a \in InUse : a \div PageSize \notin vms[i].mem

\* With plain ranges and room to load, the loader destroys nothing it needs,
\* unless a VM has more than MAX_CPUS vCPUs; and every started VM is whole at
\* all times, whatever is loaded after it or fails to be.  The primary can reach
\* its kernel and its ramdisk, and both are there, byte by byte.  A secondary
\* can reach all the memory its manifest entry asked for, starts at its first
\* byte, and finds its kernel there: the first file of that name in the
\* archive, even one behind the end marker, which parse_cpio does not know.
StartedVmsAreLoaded ==
    PlainRanges /\ vms # <<>> /\ RoomToLoad =>
        LET Has(i, name, begin) ==
                LET f == Named(input.files, name)
                    end == begin + input.files[f].size
                IN  FileAt(input.files, f, begin) /\ Pages(begin, end) \subseteq vms[i].mem
        IN  /\ pc = "undefined" => \E vm \in Range(manifest) : vm.vcpu_count > MAX_CPUS
            /\ Has(HF_PRIMARY_VM_ID, "vmlinuz", PrimaryBegin)
            /\ Has(HF_PRIMARY_VM_ID, "initrd.img", update.initrd.begin)
            /\ \A i \in DOMAIN vms \ {HF_PRIMARY_VM_ID} : vms[i].entry.some =>
                  LET vm    == manifest[vms[i].from]
                      entry == vms[i].entry.val
                  IN  /\ vm.mem_size + PageSize <= AddrSpace =>
                            vms[i].mem = Pages(entry, entry + vm.mem_size)
                      /\ Has(i, vm.kernel_filename, entry)

\* When boot is done, every page the primary takes for its own, because the
\* device tree it is given lists all of it as memory and reserves none of it,
\* is a page it can reach: not the image's, not another VM's, and not one that
\* was taken for a VM that failed to load.
PrimaryReachesItsMemory ==
    pc = "done" =>
        \A p \in Page :
            LET bytes == p * PageSize .. (p + 1) * PageSize - 1
                In(a, ranges) == \E r \in Range(ranges) : r.begin <= a /\ a < r.end
            IN  (\A a \in bytes : In(a, params.mem_ranges) /\ ~In(a, fdt.rsvmap))
                    => p \in vms[HF_PRIMARY_VM_ID].mem
=============================================================================
