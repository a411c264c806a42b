-------------------------------- MODULE Fdt --------------------------------
(***************************************************************************)
(* The flattened device tree the boot loader hands to the hypervisor, and  *)
(* the parser of fdt.rs that reads it in place.  A blob is a header and a  *)
(* structure block: a sequence of tokens.  A cursor is a position in the   *)
(* block.  A property's name and bytes, and a node's name, belong to their *)
(* token; the block may end inside the last token (`cut'), as it does when *)
(* the header's size is too small.                                         *)
(*                                                                         *)
(* A property value is a sequence of 32-bit cells or of strings.  A cell   *)
(* is a number below CellRadix, which stands for 2^32.  Not modelled: a    *)
(* token number outside the five of FdtToken and a name offset outside the *)
(* strings block, on both of which the parser panics at once.              *)
(***************************************************************************)
EXTENDS Integers, Sequences, SequencesExt

CONSTANT CellRadix     \* 2^32, scaled down

ASSUME CellRadixAssumption == CellRadix \in Nat \ {0, 1}

-----------------------------------------------------------------------------
(* Optional results and property values.                                   *)

None == [some |-> FALSE]
Some(x) == [some |-> TRUE, val |-> x]

Cells(cs) == [kind |-> "cells", of |-> cs]

\* The strings `ss', each followed by a NUL; the last NUL may be missing.
Strings(ss, terminated) == [kind |-> "strings", of |-> ss, terminated |-> terminated]
Text(s) == Strings(<<s>>, TRUE)

BeginNode(n) == [tok |-> "BeginNode", name |-> n, data |-> Cells(<<>>), cut |-> FALSE]
EndNode == [tok |-> "EndNode", name |-> "", data |-> Cells(<<>>), cut |-> FALSE]
Prop(n, d) == [tok |-> "Prop", name |-> n, data |-> d, cut |-> FALSE]
Nop == [tok |-> "Nop", name |-> "", data |-> Cells(<<>>), cut |-> FALSE]
End == [tok |-> "End", name |-> "", data |-> Cells(<<>>), cut |-> FALSE]

-----------------------------------------------------------------------------
(* FdtTokenizer.  `b' is the structure block, `cur' the cursor.             *)

\* The cursor collapse leaves: no more tokens.
AtEnd(b) == Len(b) + 1

\* token: the position of the next token that is not a Nop.
RECURSIVE token(_, _)
token(b, cur) ==
    IF cur < AtEnd(b) /\ b[cur].tok = "Nop" THEN token(b, cur + 1) ELSE cur

\* next_property and next_subnode: the token at `at' when it is of the
\* expected kind.  Another kind is put back (token_expect rewinds over it,
\* the Nops before it stay consumed); a token the block ends in collapses
\* the cursor.
expect_at(b, at, kind) ==
    IF at = AtEnd(b) \/ b[at].tok # kind
    THEN [some |-> FALSE, cur |-> at]
    ELSE IF b[at].cut
         THEN [some |-> FALSE, cur |-> AtEnd(b)]
         ELSE [some |-> TRUE, cur |-> at + 1, val |-> b[at]]

next_property(b, cur) == expect_at(b, token(b, cur), "Prop")
next_subnode(b, cur) == expect_at(b, token(b, cur), "BeginNode")

\* skip_properties, from what next_property returned.
RECURSIVE skip_from(_, _)
skip_from(b, p) == IF p.some THEN skip_from(b, next_property(b, p.cur)) ELSE p.cur
skip_properties(b, cur) == skip_from(b, next_property(b, cur))

\* skip_node.  Its loop is at a token that is not a Nop, with `pending' nodes
\* open; the result says whether all their ends were found, and where the
\* cursor is then.
RECURSIVE skip_pending(_, _, _)

\* Mutant: nodes inside the skipped one are not counted.
skip_pendingFlat(b, at, pending) ==
    IF at = AtEnd(b)
    THEN [ok |-> FALSE, cur |-> at]
    ELSE IF b[at].tok = "BeginNode" /\ ~b[at].cut
    THEN skip_pending(b, token(b, skip_properties(b, at + 1)), pending)
    ELSE IF b[at].tok # "EndNode"
    THEN [ok |-> FALSE, cur |-> AtEnd(b)]
    ELSE [ok |-> TRUE, cur |-> at + 1]

skip_pending(b, at, pending) ==
    IF at = AtEnd(b)
    THEN [ok |-> FALSE, cur |-> at]
    ELSE IF b[at].tok = "BeginNode" /\ ~b[at].cut
    THEN skip_pending(b, token(b, skip_properties(b, at + 1)), pending + 1)
    ELSE IF b[at].tok # "EndNode"
    THEN [ok |-> FALSE, cur |-> AtEnd(b)]
    ELSE IF pending = 1
    THEN [ok |-> TRUE, cur |-> at + 1]
    ELSE skip_pending(b, token(b, at + 1), pending - 1)

skip_node(b, cur) == skip_pending(b, token(b, skip_properties(b, cur)), 1)

-----------------------------------------------------------------------------
(* FdtNode: a cursor right after the node's name.  first_child,            *)
(* next_sibling and find_child move the node's cursor when they succeed;   *)
(* here they return the new cursor.                                        *)

\* FdtNode::new_root: the header's magic number and versions are checked.
FDT_VERSION == 17
new_root(fdt) ==
    /\ fdt.magic
    /\ fdt.last_comp_version <= FDT_VERSION
    /\ FDT_VERSION <= fdt.version

RECURSIVE read_from(_, _, _)
read_from(b, p, name) ==
    IF ~p.some
    THEN None
    ELSE IF p.val.name = name
    THEN Some(p.val.data)
    ELSE read_from(b, next_property(b, p.cur), name)

read_property(b, node, name) == read_from(b, next_property(b, node), name)

\* The child or sibling found by the tokenizer: its name and its cursor.
Entered(sub) ==
    IF sub.some THEN Some([name |-> sub.val.name, node |-> sub.cur]) ELSE None

first_child(b, node) == Entered(next_subnode(b, skip_properties(b, node)))

sibling_after(b, skipped) ==
    IF skipped.ok THEN Entered(next_subnode(b, skipped.cur)) ELSE None
next_sibling(b, node) == sibling_after(b, skip_node(b, node))

\* find_child; its loop does not look at the result of skip_node.
RECURSIVE find_among(_, _, _)
find_among(b, sub, name) ==
    IF ~sub.some
    THEN None
    ELSE IF sub.val.name = name
    THEN Some(sub.cur)
    ELSE find_among(b, next_subnode(b, skip_node(b, sub.cur).cur), name)

find_child(b, node, name) == find_among(b, next_subnode(b, skip_properties(b, node)), name)

\* The do-while loops over a node's children: every child in turn.
RECURSIVE Siblings(_, _)
Siblings(b, child) ==
    IF child.some
    THEN <<child.val>> \o Siblings(b, next_sibling(b, child.val.node))
    ELSE <<>>

Children(b, node) == Siblings(b, first_child(b, node))

\* fdt_parse_number: only values of one or two cells are numbers.  A string
\* is not: the strings of the modelled trees are not 4 or 8 bytes long.
fdt_parse_number(data) ==
    IF data.kind # "cells" \/ Len(data.of) \notin {1, 2}
    THEN None
    ELSE Some(FoldLeft(LAMBDA high, cell : high * CellRadix + cell, 0, data.of))

-----------------------------------------------------------------------------
(* What a blob means: a tree of named nodes with properties and children,  *)
(* and its encoding as tokens.                                             *)

Node(name, props, children) == [name |-> name, props |-> props, children |-> children]

RECURSIVE Encode(_)
Encode(tree) ==
    <<BeginNode(tree.name)>> \o tree.props
    \o FlattenSeq([i \in DOMAIN tree.children |-> Encode(tree.children[i])])
    \o <<EndNode>>

Block(tree) == Append(Encode(tree), End)

\* The same block with a Nop before every token, as a tool leaves them when
\* it deletes properties in place.
WithNops(block) == FlattenSeq([i \in DOMAIN block |-> <<Nop, block[i]>>])

\* The first k tokens; `inside' says that the block ends within the last of
\* them, which only a token with a name or a value leaves visible.
Truncated(block, k, inside) ==
    IF inside /\ k > 0 /\ block[k].tok \in {"BeginNode", "Prop"}
    THEN Append(SubSeq(block, 1, k - 1), [block[k] EXCEPT !.cut = TRUE])
    ELSE SubSeq(block, 1, k)

\* The first property or child of a tree with the given name.
PropertyIndex(tree, name) == SelectInSeq(tree.props, LAMBDA p : p.name = name)
ChildIndex(tree, name) == SelectInSeq(tree.children, LAMBDA c : c.name = name)

TreeProperty(tree, name) ==
    IF PropertyIndex(tree, name) = 0
    THEN None
    ELSE Some(tree.props[PropertyIndex(tree, name)].data)

TreeChild(tree, name) ==
    IF ChildIndex(tree, name) = 0 THEN None ELSE Some(tree.children[ChildIndex(tree, name)])

\* The children of a node as the parser sees them are the tree's.
SameChildren(kids, tree) ==
    /\ Len(kids) = Len(tree.children)
    /\ \A i \in DOMAIN kids : kids[i].name = tree.children[i].name

\* The cursor of the i-th child, if the parser sees that many.
Child(kids, i) == IF i \in DOMAIN kids THEN Some(kids[i].node) ELSE None

\* At the cursor `node', with children `kids', the parser's queries for
\* `names' answer what the tree holds, for the node and all nodes below it.
RECURSIVE Agrees(_, _, _, _, _)
Agrees(b, node, kids, tree, names) ==
    /\ SameChildren(kids, tree)
    /\ \A n \in names :
          /\ read_property(b, node, n) = TreeProperty(tree, n)
          /\ find_child(b, node, n) = Child(kids, ChildIndex(tree, n))
    /\ \A i \in DOMAIN kids :
          Agrees(b, kids[i].node, Children(b, kids[i].node), tree.children[i], names)

\* At the cursor `node' of a truncated block, every answer is the tree's or
\* that there is nothing.
RECURSIVE NeverMisreads(_, _, _, _, _)
NeverMisreads(b, node, kids, tree, names) ==
    /\ Len(kids) <= Len(tree.children)
    /\ SameChildren(kids, [tree EXCEPT !.children = SubSeq(@, 1, Len(kids))])
    /\ \A n \in names :
          /\ read_property(b, node, n) \in {None, TreeProperty(tree, n)}
          /\ find_child(b, node, n) = Child(kids, ChildIndex(tree, n))
    /\ \A i \in DOMAIN kids :
          NeverMisreads(b, kids[i].node, Children(b, kids[i].node), tree.children[i], names)
=============================================================================
