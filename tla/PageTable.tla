------------------------------ MODULE PageTable ------------------------------
(***************************************************************************)
(* The page-table algorithm of hfo2/src/mm.rs: a tree of tables whose       *)
(* entries are absent, a block of memory with attributes, or a subtable;    *)
(* identity_map, unmap, defrag and get_attrs on it; and the page pool its   *)
(* tables come from.                                                        *)
(*                                                                          *)
(* A page table is used under the lock of its owner (the VM, or the stage-1 *)
(* lock), so every operation is one step. The pool is shared with the other *)
(* CPUs: what they take and give back between two steps is Others.          *)
(*                                                                          *)
(* Addresses are page numbers. The operators that walk the tree are         *)
(* recursive, so this module is for TLC only.                               *)
(***************************************************************************)
EXTENDS Integers, FiniteSets, SequencesExt

CONSTANTS
    PerTable,   \* entries in a table (PTE_PER_PAGE, 512 in the code)
    MaxLevel,   \* the level of the root tables (S::max_level())
    RootCount,  \* concatenated root tables (S::root_table_count())
    BlockLevel, \* the highest level at which a block is allowed
    Valid,      \* attributes of memory the VM can access
    Owned,      \* attributes of memory the VM owns or can access
    Unowned,    \* attributes with neither the valid nor the owned bit set
    PoolPages,  \* pages the pool and the tables have between them
    MaxOthers,  \* bound: how many of them other users hold at a time
    MaxLength   \* bound: the pages of a range, if it is not the whole space

ASSUME PageTableAssumption ==
    /\ PerTable \in Nat \ {0, 1}
    /\ MaxLevel \in Nat \ {0}
    /\ RootCount \in 1 .. PerTable
    /\ BlockLevel \in Nat
    /\ Valid \subseteq Owned
    /\ Owned \cap Unowned = {}
    /\ "none" \notin Owned \cup Unowned
    /\ PoolPages \in Nat
    /\ MaxOthers \in Nat
    /\ MaxLength \in Nat

Attrs == Owned \cup Unowned

VARIABLES
    root,    \* the root tables; <<>> when the table does not exist
    free,    \* free pages of the pool
    others,  \* pages of the pool that other users hold
    lost     \* pages of tables that valid blocks have replaced

vars == <<root, free, others, lost>>

-----------------------------------------------------------------------------
(* mod addr                                                                *)

entry_size(level) == PerTable ^ level

level_end(at, level) == ((at \div entry_size(level + 1)) + 1) * entry_size(level + 1)

index(at, level) == (at \div entry_size(level)) % PerTable

start_of_next_block(at, size) == ((at + size) \div size) * size

AddrSpaceEnd == RootCount * entry_size(MaxLevel + 1)

-----------------------------------------------------------------------------
(* PageTableEntry                                                          *)

Absent == [kind |-> "absent"]

Block(at, attrs) == [kind |-> "block", at |-> at, attrs |-> attrs]

Table(entries) == [kind |-> "table", entries |-> entries]

is_table(pte) == pte.kind = "table"

is_valid(pte) == is_table(pte) \/ (pte.kind = "block" /\ pte.attrs \in Valid)

is_present(pte) == is_table(pte) \/ (pte.kind = "block" /\ pte.attrs \in Owned)

is_block_allowed(level) == level <= BlockLevel

\* At level 0 the page bit alone decides, above it the entry must be present.
is_block(pte, level) ==
    /\ is_block_allowed(level)
    /\ pte.kind = "block"
    /\ level = 0 \/ is_present(pte)

attrs_of(pte) == IF pte.kind = "block" THEN pte.attrs ELSE "none"

Index == 0 .. PerTable - 1

is_empty(table) == \A i \in Index : ~is_present(table[i])

\* The pages that dropping an entry gives back: every table below it.
RECURSIVE TablesIn(_)
TablesIn(pte) ==
    IF ~is_table(pte) THEN 0
    ELSE 1 + SumFunction([i \in Index |-> TablesIn(pte.entries[i])])

\* The outcome of a call on an entry: whether it succeeded, the entry it
\* leaves and the free pages of the pool after it.
Done(pte, pages) == [ok |-> TRUE, pte |-> pte, free |-> pages]

Err(pte, pages) == [ok |-> FALSE, pte |-> pte, free |-> pages]

\* Mutant: the tables below the old entry are freed before and after the break.
replaceTwice(old, new, pages) ==
    Done(new, pages + TablesIn(old) + (IF is_valid(old) /\ is_valid(new) THEN TablesIn(old) ELSE 0))

\* The old entry is dropped once the new one is written. When both are valid
\* the old one has been overwritten by an absent entry by then, so that the
\* tables below it are not given back.
replace(old, new, pages) ==
    Done(new, pages + (IF is_valid(old) /\ is_valid(new) THEN 0 ELSE TablesIn(old)))

\* An entry as a table with the same meaning, in a new page.
populate_table(pte, level, pages) ==
    IF is_table(pte) THEN Done(pte, pages)
    ELSE IF pages = 0 THEN Err(pte, pages)
    ELSE Done(Table([i \in Index |->
                  IF is_block(pte, level)
                  THEN Block(pte.at + i * entry_size(level - 1), pte.attrs)
                  ELSE Absent]), pages - 1)

-----------------------------------------------------------------------------
(* RawPageTable::map_level                                                 *)

\* Mutant: the first pass does not descend.
UpToDateDryRun(pte, level, call) ==
    \/ ~call.commit
    \/ call.unmap /\ ~is_present(pte)
    \/ ~call.unmap /\ is_block(pte, level) /\ pte.attrs = call.attrs

\* Nothing to do: already absent when unmapping, already right when mapping.
UpToDate(pte, level, call) ==
    \/ call.unmap /\ ~is_present(pte)
    \/ ~call.unmap /\ is_block(pte, level) /\ pte.attrs = call.attrs

\* Mutant: the start of the range need not be the start of the entry.
WholeEntryUnaligned(begin, level, call) ==
    /\ call.end - begin >= entry_size(level)
    /\ call.unmap \/ is_block_allowed(level)

\* The whole entry is within the range and can be one block.
WholeEntry(begin, level, call) ==
    /\ call.end - begin >= entry_size(level)
    /\ call.unmap \/ is_block_allowed(level)
    /\ begin % entry_size(level) = 0

NewEntry(begin, call) == IF call.unmap THEN Absent ELSE Block(begin, call.attrs)

\* An update of a table, or of the root tables, as far as it has come, with the
\* result of the call on entry i.
Put(acc, i, r) == [r EXCEPT !.pte = [acc.pte EXCEPT ![i] = r.pte]]

\* The end of the body: a table that is left empty is removed.
Ascend(below, call) ==
    IF below.ok /\ call.commit /\ call.unmap /\ is_empty(below.pte)
    THEN replace(Table(below.pte), Absent, below.free)
    ELSE [below EXCEPT !.pte = Table(@)]

RECURSIVE map_level(_, _, _, _, _)

\* The part of the entry that is in the range, once the entry is a table.
Descend(populated, begin, level, call) ==
    IF ~populated.ok THEN populated
    ELSE Ascend(map_level(Done(populated.pte.entries, populated.free), begin,
                          Min({call.end, level_end(begin, level - 1)}), level - 1, call),
                call)

\* The body of map_level's loop, for one entry.
map_entry(pte, begin, level, call, pages) ==
    IF UpToDate(pte, level, call) THEN Done(pte, pages)
    ELSE IF WholeEntry(begin, level, call)
    THEN IF call.commit THEN replace(pte, NewEntry(begin, call), pages)
                        ELSE Done(pte, pages)
    ELSE Descend(populate_table(pte, level, pages), begin, level, call)

\* The entries of one table that [begin, end) meets, in order; the first
\* failure ends the loop and leaves what was done before it.
map_level(acc, begin, end, level, call) ==
    IF ~acc.ok \/ begin >= end THEN acc
    ELSE map_level(Put(acc, index(begin, level),
                       map_entry(acc.pte[index(begin, level)], begin, level, call, acc.free)),
                   start_of_next_block(begin, entry_size(level)), end, level, call)

RECURSIVE map_roots(_, _, _)
map_roots(acc, begin, call) ==
    IF ~acc.ok \/ begin >= call.end THEN acc
    ELSE map_roots(Put(acc, index(begin, MaxLevel + 1),
                       map_level(Done(acc.pte[index(begin, MaxLevel + 1)], acc.free), begin,
                                 Min({call.end, level_end(begin, MaxLevel)}), MaxLevel, call)),
                   start_of_next_block(begin, entry_size(MaxLevel + 1)), call)

\* The same loop over the root tables.
map_root(tables, begin, call, pages) == map_roots(Done(tables, pages), begin, call)

\* A call of identity_update; the end is capped to the address space.
Call(end, attrs, unmap) ==
    [end |-> Min({end, AddrSpaceEnd}), attrs |-> attrs, unmap |-> unmap,
     commit |-> FALSE]

Commit(first, begin, call) ==
    IF ~first.ok THEN first
    ELSE map_root(first.pte, begin, [call EXCEPT !.commit = TRUE], first.free)

\* First without COMMIT, which only makes tables, then with it.
identity_update(tables, begin, call, pages) ==
    Commit(map_root(tables, begin, call, pages), begin, call)

-----------------------------------------------------------------------------
(* defrag and get_attrs                                                    *)

\* The reduce over the results of the entries of a table.
SameAttrs(child) == \A i \in Index : child[i].ok /\ child[i].attrs = child[0].attrs

\* What PageTableEntry::defrag leaves and returns: the attributes of the
\* block (or absent entry) the entry has become, or Err.
Merged(attrs, pte, freed) == [ok |-> TRUE, attrs |-> attrs, pte |-> pte, freed |-> freed]

Unmerged(pte, freed) == [ok |-> FALSE, attrs |-> "none", pte |-> pte, freed |-> freed]

Freed(done) == SumFunction([x \in DOMAIN done |-> done[x].freed])

\* The rest of defrag for a table, given what it returned for the entries.
merge(child, level) ==
    IF SameAttrs(child) /\ child[0].attrs \notin Owned
    THEN Merged("none", Absent, Freed(child) + 1)
    ELSE IF SameAttrs(child) /\ is_block_allowed(level)
    THEN Merged(child[0].attrs, Block(child[0].pte.at, child[0].attrs), Freed(child) + 1)
    ELSE Unmerged(Table([i \in Index |-> child[i].pte]), Freed(child))

RECURSIVE defrag_entry(_, _)
defrag_entry(pte, level) ==
    IF is_block(pte, level) THEN Merged(pte.attrs, pte, 0)
    ELSE IF ~is_table(pte) THEN Unmerged(pte, 0)
    ELSE merge([i \in Index |-> defrag_entry(pte.entries[i], level - 1)], level)

Roots == 0 .. RootCount - 1

Slot == Roots \X Index

\* Mutant: the tables that were merged are not freed.
DefraggedLeaks(done, pages) ==
    Done([r \in Roots |-> [i \in Index |-> done[r, i].pte]], pages)

Defragged(done, pages) ==
    Done([r \in Roots |-> [i \in Index |-> done[r, i].pte]], pages + Freed(done))

defrag(tables, pages) ==
    Defragged([s \in Slot |-> defrag_entry(tables[s[1]][s[2]], MaxLevel)], pages)

\* res_reduce: one value all over, or Err as {}.
Uniform(met) == IF Cardinality(met) = 1 THEN met ELSE {}

\* The set of attributes that get_attrs_level meets in [begin, end) in one table.
RECURSIVE AttrsIn(_, _, _, _)
AttrsIn(table, begin, end, level) ==
    LET pte == table[index(begin, level)]
    IN  IF begin >= end THEN {}
        ELSE AttrsIn(table, start_of_next_block(begin, entry_size(level)), end, level)
             \cup IF is_table(pte)
                  THEN AttrsIn(pte.entries, begin,
                               Min({end, level_end(begin, level - 1)}), level - 1)
                  ELSE {attrs_of(pte)}

\* The same over the root tables.
RECURSIVE RootAttrsIn(_, _, _)
RootAttrsIn(tables, begin, end) ==
    IF begin >= end THEN {}
    ELSE RootAttrsIn(tables, start_of_next_block(begin, entry_size(MaxLevel + 1)), end)
         \cup AttrsIn(tables[index(begin, MaxLevel + 1)], begin,
                     Min({end, level_end(begin, MaxLevel)}), MaxLevel)

\* Ok(a) as {a}, Err as {}: the range must be in the address space and not
\* empty, and have the same attributes all over.
get_attrs(tables, begin, end) ==
    IF begin <= end /\ end <= AddrSpaceEnd THEN Uniform(RootAttrsIn(tables, begin, end)) ELSE {}

-----------------------------------------------------------------------------
(* The operations as steps of the owner of the table                       *)

Exists == root # <<>>

EmptyTables == [r \in Roots |-> [i \in Index |-> Absent]]

AllTables(tables) ==
    RootCount + SumFunction([s \in Slot |-> TablesIn(tables[s[1]][s[2]])])

\* The ranges that identity_map and unmap get; an end past the address space
\* is one of them.
Ranges == {<<b, e>> \in (0 .. AddrSpaceEnd - 1) \X (1 .. AddrSpaceEnd + 1) :
               b < e /\ (e - b <= MaxLength \/ (b = 0 /\ e >= AddrSpaceEnd))}

Calls == {Call(AddrSpaceEnd, a, FALSE) : a \in Attrs} \cup {Call(AddrSpaceEnd, "none", TRUE)}

Init == root = <<>> /\ free = PoolPages /\ others = 0 /\ lost = 0

\* PageTable::new
New ==
    /\ ~Exists
    /\ free >= RootCount
    /\ root' = EmptyTables
    /\ free' = free - RootCount
    /\ UNCHANGED <<others, lost>>

\* PageTable::drop
Drop ==
    /\ Exists
    /\ root' = <<>>
    /\ free' = free + AllTables(root)
    /\ UNCHANGED <<others, lost>>

\* The outcome of a call becomes the state.
Becomes(done) == root' = done.pte /\ free' = done.free /\ UNCHANGED others

\* The tables of an address space, or of one table of the level that starts at
\* the given page, of which all the memory is in the range, where it can be
\* one block.
RECURSIVE Covered(_, _, _, _, _)
Covered(table, at, level, begin, end) ==
    SumFunction([i \in Index |->
        LET from == at + i * entry_size(level)
        IN  IF ~is_table(table[i]) THEN 0
            ELSE IF begin <= from /\ from + entry_size(level) <= end /\ is_block_allowed(level)
            THEN TablesIn(table[i])
            ELSE Covered(table[i].entries, from, level - 1, begin, end)])

AllCovered(tables, begin, end) ==
    SumFunction([r \in Roots |->
        Covered(tables[r], r * entry_size(MaxLevel + 1), MaxLevel, begin, end)])

\* identity_update. The pages of the tables in a range that is made valid are
\* not given back.
Update(begin, call) ==
    /\ Exists
    /\ \E done \in {identity_update(root, begin, call, free)} :
          /\ Becomes(done)
          /\ lost' = lost + IF done.ok /\ ~call.unmap /\ call.attrs \in Valid
                            THEN AllCovered(root, begin, call.end) ELSE 0

identity_map(begin, end, attrs) == Update(begin, Call(end, attrs, FALSE))

unmap(begin, end) == Update(begin, Call(end, "none", TRUE))

Defrag == Exists /\ Becomes(defrag(root, free)) /\ UNCHANGED lost

OthersTake ==
    /\ free > 0
    /\ others < MaxOthers
    /\ free' = free - 1
    /\ others' = others + 1
    /\ UNCHANGED <<root, lost>>

OthersGive ==
    /\ others > 0
    /\ free' = free + 1
    /\ others' = others - 1
    /\ UNCHANGED <<root, lost>>

Next ==
    \/ New
    \/ Drop
    \/ \E r \in Ranges, a \in Attrs : identity_map(r[1], r[2], a)
    \/ \E r \in Ranges : unmap(r[1], r[2])
    \/ Defrag
    \/ OthersTake
    \/ OthersGive

Spec == Init /\ [][Next]_vars

-----------------------------------------------------------------------------
(* What the MMU sees: the reference the operations are compared with       *)

Pages == 0 .. AddrSpaceEnd - 1

RECURSIVE Walk(_, _, _)
Walk(table, page, level) ==
    LET pte == table[index(page, level)]
    IN  IF is_table(pte) THEN Walk(pte.entries, page, level - 1) ELSE pte

Leaf(tables, page) == Walk(tables[index(page, MaxLevel + 1)], page, MaxLevel)

\* The attributes of every page the VM is connected to; "none" for the others,
\* whether their entry is absent or holds attributes of unowned memory.
View(tables) ==
    [p \in Pages |-> LET pte == Leaf(tables, p)
                     IN  IF is_present(pte) THEN pte.attrs ELSE "none"]

\* What the call should do to that: set the pages of the range, and no other.
Flat(view, begin, call) ==
    [p \in Pages |-> IF begin <= p /\ p < call.end
                     THEN IF call.unmap \/ call.attrs \notin Owned THEN "none" ELSE call.attrs
                     ELSE view[p]]

Called(c, end) == [c EXCEPT !.end = Min({end, AddrSpaceEnd})]

\* Every page is in the pool, in a table, with another user or lost, and lost
\* are exactly the tables that lay in a range when it was made valid as a whole
\* (replace has by then overwritten their entry, mm.rs:420). No page is freed
\* twice; an update that fails, that unmaps memory or makes it invalid, defrag
\* and drop give back every table they remove, in any order of calls.
PagesAccounted == free + (IF Exists THEN AllTables(root) ELSE 0) + others + lost = PoolPages

\* Every operation does to the mapping what it promises, whatever splits and
\* merges have made the tree.  identity_update sets exactly the pages of the
\* range, or fails and leaves the mapping as it was ("no different mapping on
\* failure", mm.rs:929).  Defragmenting changes no page's attributes, and a
\* second time nothing.  get_attrs succeeds exactly on the non-empty ranges
\* that have the same attributes all over, and returns those.
MappingIsExact ==
    Exists =>
        /\ \A before \in {View(root)}, r \in Ranges, c \in Calls :
              \A done \in {identity_update(root, r[1], Called(c, r[2]), free)} :
                  View(done.pte) = IF done.ok THEN Flat(before, r[1], Called(c, r[2]))
                                   ELSE before
        /\ \A once \in {defrag(root, free)} :
              View(once.pte) = View(root) /\ defrag(once.pte, once.free) = once
        /\ \A r \in Ranges :
              get_attrs(root, r[1], r[2]) =
                  IF /\ r[2] <= AddrSpaceEnd
                     /\ Cardinality({attrs_of(Leaf(root, p)) : p \in r[1] .. r[2] - 1}) = 1
                  THEN {attrs_of(Leaf(root, r[1]))} ELSE {}

\* The second pass of identity_update cannot fail: after a first pass that
\* succeeded it succeeds with no page left in the pool, which other CPUs may
\* have emptied in between.
CommitNeedsNoPages ==
    Exists => \A r \in Ranges, c \in Calls :
        \A first \in {map_root(root, r[1], Called(c, r[2]), free)} :
            first.ok => Commit([first EXCEPT !.free = 0], r[1], Called(c, r[2])).ok

\* Undoing an update needs no page but those that defragmenting the table gives
\* back: the unwrap()s of the roll-backs (hypervisor.rs:778, 874, 891, vm.rs:179,
\* 301, 320) cannot panic, even though the failed update of the other table may
\* have used up the pool. To undo is to unmap a range that was absent, or to
\* restore the attributes it had.
RollbackNeedsNoPages ==
    Exists => \A r \in Ranges, new \in Attrs : \A a \in get_attrs(root, r[1], r[2]) :
        \A done \in {identity_update(root, r[1], Call(r[2], new, FALSE), free)} :
            done.ok => \A table \in {Done(done.pte, 0), defrag(done.pte, 0)} :
                identity_update(table.pte, r[1], Call(r[2], a, a = "none"), table.free).ok
=============================================================================
