----------------------------- MODULE BootParams -----------------------------
(***************************************************************************)
(* What boot_params.rs and fdt_handler.rs take from the device tree (the   *)
(* ramdisk, the CPUs and the memory ranges) and what they write back.      *)
(***************************************************************************)
EXTENDS Fdt

CONSTANTS MAX_CPUS, MAX_MEM_RANGES

ASSUME BootParamsAssumption == MAX_CPUS \in Nat \ {0} /\ MAX_MEM_RANGES \in Nat \ {0}

-----------------------------------------------------------------------------
\* FdtNode::read_number
AsNumber(data) == IF data.some THEN fdt_parse_number(data.val) ELSE None
read_number(b, node, name) == AsNumber(read_property(b, node, name))

\* FdtNode::find_initrd; plat_get_initrd_range is this function when the
\* boot flow is Linux's.
Span(begin, end) ==
    IF begin.some /\ end.some THEN Some([begin |-> begin.val, end |-> end.val]) ELSE None

initrd_of(b, chosen) ==
    IF chosen.some
    THEN Span(read_number(b, chosen.val, "linux,initrd-start"),
              read_number(b, chosen.val, "linux,initrd-end"))
    ELSE None

find_initrd(b, root) == initrd_of(b, find_child(b, root, "chosen"))

\* plat::get_initrd_range hands the root over as an fdt_node, and From<fdt_node>
\* makes a slice of the whole block's length that starts at the root.  It shows
\* what is stored behind the block, as many words as lie before the root: the
\* root's BeginNode, which is two, and the Nops before it.  A token is at
\* least a word.
FromFdtNode(f, root) ==
    {f.struct} \cup {SubSeq(f.stored, 1, n) :
        n \in {k \in DOMAIN f.stored : k \in Len(f.struct) .. Len(f.struct) + root}}

\* The number of cells of an address or a size; one if the node does not say.
OrOne(n) == IF n.some THEN n.val ELSE 1
cells_of(b, node, name) == OrOne(read_number(b, node, name))

\* The "reg" values of the children whose device_type is `type', in order.
regs_among(b, kids, type) ==
    LET wanted(c) == /\ read_property(b, c.node, "device_type") = Some(Text(type))
                     /\ read_property(b, c.node, "reg").some
        reg(c)    == read_property(b, c.node, "reg").val.of
    IN  FoldLeft(LAMBDA regs, c : IF wanted(c) THEN Append(regs, reg(c)) ELSE regs, <<>>, kids)

\* The entries of `size' cells in "reg" values; cells left over at the end of
\* a value are ignored.
Entries(regs, size) ==
    LET of(reg) == [k \in 1 .. Len(reg) \div size |-> SubSeq(reg, (k - 1) * size + 1, k * size)]
    IN  FlattenSeq([i \in DOMAIN regs |-> of(regs[i])])

HasEntry(regs, size) == \E i \in DOMAIN regs : Len(regs[i]) >= size

\* FdtNode::find_cpus.  An id of a width fdt_parse_number does not know, or
\* one CPU too many, is an error.
CpuIds(ids) ==
    IF Len(ids) > MAX_CPUS
    THEN None
    ELSE Some([i \in DOMAIN ids |-> fdt_parse_number(Cells(ids[i])).val])

cpus_from(kids, regs, size) ==
    IF kids = <<>>
    THEN None
    ELSE IF size \in {1, 2}
    THEN CpuIds(Entries(regs, size))
    ELSE IF HasEntry(regs, size) THEN None ELSE Some(<<>>)

cpus_among(b, node, kids) ==
    cpus_from(kids, regs_among(b, kids, "cpu"), cells_of(b, node, "#address-cells"))

cpus_at(b, node) ==
    IF node.some THEN cpus_among(b, node.val, Children(b, node.val)) ELSE None

find_cpus(b, root) == cpus_at(b, find_child(b, root, "cpus"))

\* FdtNode::find_memory_ranges.  A width fdt_parse_number does not know is
\* unwrapped; ranges beyond the table's size are left out.
MemRanges(entries, address) ==
    LET begin(e) == fdt_parse_number(Cells(SubSeq(e, 1, address))).val
        len(e)   == fdt_parse_number(Cells(SubSeq(e, address + 1, Len(e)))).val
        kept     == {i \in DOMAIN entries : i <= MAX_MEM_RANGES}
    IN  [i \in kept |->
            [begin |-> begin(entries[i]), end |-> begin(entries[i]) + len(entries[i])]]

ranges_from(kids, regs, address, size) ==
    IF kids = <<>>
    THEN [outcome |-> "none"]
    ELSE IF {address, size} \subseteq {1, 2}
    THEN [outcome |-> "ranges", ranges |-> MemRanges(Entries(regs, address + size), address)]
    ELSE IF HasEntry(regs, address + size)
    THEN [outcome |-> "panic"]
    ELSE [outcome |-> "ranges", ranges |-> <<>>]

ranges_among(b, root, kids) ==
    ranges_from(kids, regs_among(b, kids, "memory"),
                cells_of(b, root, "#address-cells"), cells_of(b, root, "#size-cells"))

find_memory_ranges(b, root) == ranges_among(b, root, Children(b, root))

-----------------------------------------------------------------------------
\* FdtNode::write_number: the bytes read_property found are overwritten.  The
\* value keeps its width; a number too large for one cell is truncated.  The
\* result is the new block.
property_at(b, node, name) ==
    SelectInSeq(SubSeq(b, node, skip_properties(b, node) - 1),
                LAMBDA t : t.tok = "Prop" /\ t.name = name) + node - 1

Written(b, at, data, value) ==
    IF data.some /\ data.val.kind = "cells" /\ Len(data.val.of) \in {1, 2}
    THEN Some([b EXCEPT ![at].data =
            Cells(IF Len(data.val.of) = 1 THEN <<value % CellRadix>>
                  ELSE <<value \div CellRadix, value % CellRadix>>)])
    ELSE None

write_number(b, node, name, value) ==
    Written(b, property_at(b, node, name), read_property(b, node, name), value)

-----------------------------------------------------------------------------
(* What a tree says about CPUs and memory, independently of the parser.    *)

TreeNumber(tree, name, default) ==
    IF AsNumber(TreeProperty(tree, name)).some
    THEN AsNumber(TreeProperty(tree, name)).val
    ELSE default

\* The cells of all "reg" values of the children of one device type, without
\* the cells at the end of a value that do not fill an entry of `size'.
TreeCells(tree, type, size) ==
    LET wanted(c) == /\ TreeProperty(c, "device_type") = Some(Text(type))
                     /\ TreeProperty(c, "reg").some
        whole(reg) == SubSeq(reg, 1, Len(reg) - (Len(reg) % size))
        kids == SelectSeq(tree.children, wanted)
    IN  FlattenSeq([i \in DOMAIN kids |-> whole(TreeProperty(kids[i], "reg").val.of)])

\* The number made of the `size' cells of `cells' after the first `skip'.
NumberAt(cells, skip, size) ==
    IF size = 1 THEN cells[skip + 1] ELSE cells[skip + 1] * CellRadix + cells[skip + 2]
=============================================================================
