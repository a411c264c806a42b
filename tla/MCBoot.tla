------------------------------- MODULE MCBoot -------------------------------
(***************************************************************************)
(* System.tla, with 3 CPUs and 20 pages of 8 bytes.  The                   *)
(* image takes pages 0 to 2, the primary's kernel is copied to page 3, the *)
(* device tree lies in page 4 and the ramdisk in pages 6 to 10.            *)
(***************************************************************************)
EXTENDS System

CpusDef == 1 .. MAX_CPUS

SectionsDef == <<MemRange(0, 6), MemRange(8, 15), MemRange(16, 21)>>

-----------------------------------------------------------------------------
(* Archives.                                                               *)

Vmlinuz == File("vmlinuz", 1, 3)
InitrdImg == File("initrd.img", 2, 2)
Kernel2 == File("k2", 1, 9)
Kernel3 == File("k3", 1, 1)
BigVmlinuz == File("vmlinuz", 1, 9)
Trailer == File(EndMarker, 2, 0)

FullArchive == <<Vmlinuz, Kernel2, InitrdImg, Kernel3, Trailer>>
ArchiveEnd == InitrdBegin + 38

-----------------------------------------------------------------------------
(* Device trees.                                                           *)

Number(n) == Cells(<<n \div CellRadix, n % CellRadix>>)
Small(n) == Cells(<<n>>)

Vm1 == Node("vm1", <<Prop("debug_name", Text("primary"))>>, <<>>)

Vm(name, kernel, mem, vcpus) ==
    Node(name, <<Prop("debug_name", Text("x")), Prop("kernel_filename", Text(kernel)),
                 Prop("vcpu_count", Small(vcpus)), Prop("mem_size", Number(mem))>>, <<>>)

Hyp(vmlist) == Node("hypervisor", <<Prop("compatible", Text("hafnium,hafnium"))>>, vmlist)
HypWith(props) == Node("hypervisor", props, <<Vm1>>)

\* A node with a child of a name that is also looked for elsewhere.
Soc == Node("soc", <<Prop("reg", Small(1))>>,
            <<Node("cpus", <<>>, <<Node("vm1", <<>>, <<>>)>>), Node("hypervisor", <<>>, <<>>)>>)

Cpu(name, cells) ==
    Node(name, <<Prop("device_type", Text("cpu")), Prop("reg", Cells(cells))>>,
         <<Node("l1-cache", <<Prop("device_type", Text("cache"))>>, <<>>)>>)
Idle == Node("idle-states", <<Prop("reg", Small(9))>>, <<>>)
CpuNode(props, list) == Node("cpus", props, list)
TwoCpus == CpuNode(<<Prop("#address-cells", Small(1))>>,
                   <<Idle, Cpu("cpu@0", <<0>>), Cpu("cpu@1", <<1>>)>>)
ThreeCpus == CpuNode(<<>>, <<Cpu("cpu@0", <<0, 1>>), Cpu("cpu@2", <<2>>)>>)

Chosen == Node("chosen", <<Prop("linux,initrd-start", Number(InitrdBegin)),
                           Prop("linux,initrd-end", Number(ArchiveEnd))>>, <<>>)

Memory(name, list) ==
    Node(name, <<Prop("device_type", Text("memory")),
                 Prop("reg", Cells(FlattenSeq([i \in DOMAIN list |->
                     Number(list[i].begin).of \o Number(list[i].end - list[i].begin).of])))>>,
         <<>>)
RangeA == MemRange(2, 130)
RangeB == MemRange(136, 157)
RangeC == MemRange(157, 159)
OneRange == <<Memory("memory@2", <<RangeA>>)>>
TwoRanges == <<Memory("memory@2", <<RangeA>>), Memory("memory@136", <<RangeB, RangeC>>)>>

Wide == <<Prop("#address-cells", Small(2)), Prop("#size-cells", Small(2))>>

Tree(hypervisor, cpunode, memory, chosen) ==
    Node("", Wide, <<Soc>> \o memory \o <<cpunode, chosen, hypervisor>>)

TreeOf(hypervisor) == Tree(hypervisor, TwoCpus, OneRange, Chosen)

\* Manifests: well-formed ones, then each way not to be one.
Vm2 == Vm("vm2", "k2", 10, 1)
Vm3 == Vm("vm3", "k3", 24, 2)
Broken(prop) ==
    Node("vm2", <<Prop("debug_name", Text("x"))>>
                \o SelectSeq(Vm2.props, LAMBDA p : p.name \notin {prop.name, "debug_name"})
                \o <<prop>>, <<>>)

GoodManifests ==
    {Hyp(<<Vm1, Vm2, Vm3>>), Hyp(<<Vm3, Vm1, Vm2>>), Hyp(<<Vm1, Vm3>>), Hyp(<<Vm1>>),
     Hyp(<<Vm1, Vm("vm2", "k9", 8, 1), Vm3>>), Hyp(<<Vm1, Vm("vm2", "k2", 8, 1), Vm3>>),
     Hyp(<<Vm1, Vm("vm2", "k3", 140, 1), Vm3>>), Hyp(<<Vm1, Vm("vm2", "k3", 159, 1), Vm3>>),
     Hyp(<<Vm1, Vm("vm2", "k3", 9, 0)>>),
     HypWith(<<Prop("compatible", Strings(<<"other", "hafnium,hafnium">>, TRUE))>>)}

BadManifests ==
    {Node("other", <<>>, <<>>), HypWith(<<>>),
     HypWith(<<Prop("compatible", Strings(<<>>, FALSE))>>),
     HypWith(<<Prop("compatible", Strings(<<"hafnium,hafnium">>, FALSE))>>),
     HypWith(<<Prop("compatible", Text("other"))>>),
     Hyp(<<>>), Hyp(<<Vm2>>), Hyp(<<Node("vm0", <<>>, <<>>), Vm1>>),
     Hyp(<<Vm1, Vm2, Vm3, Vm("vm4", "k3", 8, 1)>>),
     Hyp(<<Vm1, Broken(Prop("kernel_filename", Strings(<<"k2">>, FALSE)))>>),
     Hyp(<<Vm1, Broken(Prop("kernel_filename", Strings(<<"k2", "k3">>, TRUE)))>>),
     Hyp(<<Vm1, Broken(Prop("kernel_filename", Text("long")))>>),
     Hyp(<<Vm1, Broken(Prop("mem_size", Cells(<<1, 2, 3>>)))>>),
     Hyp(<<Vm1, Broken(Prop("vcpu_count", Number(U16Max + 1)))>>),
     Hyp(<<Vm1, Broken(Prop("mem", Small(1)))>>)}

\* Other CPUs, memory and ramdisks.
CpuNodes ==
    {CpuNode(<<>>, <<Cpu("cpu@0", <<1, 0>>)>>),
     CpuNode(<<Prop("#address-cells", Small(2))>>, <<Cpu("cpu@0", <<0, 0, 1, 2>>), Idle>>),
     CpuNode(<<Prop("#address-cells", Small(3))>>, <<Cpu("cpu@0", <<0, 0, 0>>)>>),
     CpuNode(<<Prop("#address-cells", Small(3))>>, <<Cpu("cpu@0", <<0>>)>>),
     ThreeCpus, CpuNode(<<>>, <<Cpu("cpu@0", <<1>>)>>), CpuNode(<<>>, <<Cpu("cpu@0", <<0, 0>>)>>),
     CpuNode(<<>>, <<Cpu("cpu@0", <<0, 1, 2, 3>>)>>), CpuNode(<<>>, <<>>)}

Chosens ==
    {Node("chosen", <<>>, <<>>),
     Node("chosen", <<Prop("linux,initrd-start", Number(InitrdBegin)),
                      Prop("linux,initrd-end", Number(ArchiveEnd - 3))>>, <<>>),
     Node("chosen", <<Prop("linux,initrd-start", Number(InitrdBegin)),
                      Prop("linux,initrd-end", Number(InitrdBegin + 20))>>, <<>>)}

BothVms == Hyp(<<Vm1, Vm2, Vm3>>)
Base == TreeOf(BothVms)
BaseBlock == Block(Base)

Trees ==
    {TreeOf(h) : h \in GoodManifests \cup BadManifests}
    \cup {Tree(BothVms, c, TwoRanges, Chosen) : c \in CpuNodes}
    \cup {Tree(BothVms, TwoCpus, OneRange, c) : c \in Chosens}
    \cup {Tree(BothVms, TwoCpus, <<>>, Chosen),
          [Base EXCEPT !.props = <<Prop("#address-cells", Small(3))>>]}

\* The ramdisk is the last thing the tree names.
Late == Node("", Wide, OneRange \o <<TwoCpus, BothVms, Chosen>>)

\* Trees the loader is not careful with: a VM that reaches down to the
\* ramdisk (its own file there or another's), to the tree, to the primary's
\* kernel, to the image; more vCPUs than CPUs; a range inside a page; ranges
\* that overlap.
Tight ==
    {TreeOf(Hyp(<<Vm1, Vm("vm2", k, mem, 1), Vm3>>)) :
        k \in {"k2", "k3"}, mem \in {40, 48, 72, 80, 96, 104, 112}}
    \cup {TreeOf(Hyp(<<Vm1, Vm("vm2", "k3", 8, MAX_CPUS + 1), Vm3>>)),
          Tree(BothVms, TwoCpus, <<Memory("memory@157", <<RangeC, RangeA>>)>>, Chosen),
          Tree(BothVms, TwoCpus, <<Memory("memory@96", <<MemRange(104, 130), MemRange(96, 130)>>)>>,
               Chosen)}

-----------------------------------------------------------------------------
(* What the boot loader leaves.                                            *)

Blob(struct) ==
    [magic |-> TRUE, version |-> 17, last_comp_version |-> 16,
     struct |-> struct, stored |-> struct, totalsize |-> 5, rsvmap |-> <<>>]

\* A block that is stored whole, and whose size is too small in the header.
Cut(block, k, inside) == [Blob(Truncated(block, k, inside)) EXCEPT !.stored = block]

\* Boots after which the primary uses PSCI, on two CPUs and on three.
Powered == {TreeOf(Hyp(<<Vm1>>)), Tree(Hyp(<<Vm1>>), ThreeCpus, OneRange, Chosen)}

Given(tree, whole, f, files) ==
    [tree |-> tree, whole |-> whole, fdt |-> f, files |-> files, psci |-> FALSE]

InputsDef ==
    {[Given(t, TRUE, Blob(Block(t)), FullArchive) EXCEPT !.psci = t \in Powered] :
        t \in Trees \cup Powered}
    \cup {Given(t, TRUE, Blob(WithNops(Block(t))), FullArchive) :
            t \in {Base, Tree(BothVms, TwoCpus, TwoRanges, Chosen)}}
    \cup {Given(Base, FALSE, Cut(BaseBlock, k, inside), FullArchive) :
            k \in 0 .. Len(BaseBlock) - 1, inside \in BOOLEAN}
    \cup {Given(Base, TRUE, [Blob(BaseBlock) EXCEPT !.magic = FALSE], FullArchive),
          Given(Base, TRUE, [Blob(BaseBlock) EXCEPT !.version = 16], FullArchive),
          Given(Base, TRUE, [Blob(BaseBlock) EXCEPT !.totalsize = 7], FullArchive),
          Given(Base, TRUE, Blob(BaseBlock), <<Vmlinuz, Kernel2, Kernel3, Trailer>>),
          Given(Base, TRUE, Blob(BaseBlock), <<InitrdImg, Kernel3, Trailer, Vmlinuz>>),
          Given(Base, TRUE, Blob(BaseBlock), <<Vmlinuz, InitrdImg, Kernel3, Trailer, Kernel2>>),
          Given(Base, TRUE, Blob(BaseBlock), <<InitrdImg, BigVmlinuz, Kernel3, Trailer>>)}
    \cup {Given(Late, FALSE, Cut(Block(Late), k, inside), FullArchive) :
            k \in Len(Block(Late)) - 7 .. Len(Block(Late)), inside \in BOOLEAN}
    \cup {Given(t, TRUE, Blob(Block(t)), FullArchive) : t \in Tight}
=============================================================================
