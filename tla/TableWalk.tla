------------------------------ MODULE TableWalk ------------------------------
(***************************************************************************)
(* The stage-2 table of one VM as the CPUs that run the VM see it: the     *)
(* hardware walks the table and caches what it finds while a CPU in the    *)
(* hypervisor changes it entry by entry (mm.rs), and a vCPU whose access   *)
(* faults waits for the VM's lock and looks again (vcpu_handle_page_fault).*)
(*                                                                         *)
(* The table has one level of entries over one level of pages.  An update  *)
(* is the sequence of its writes and TLB invalidations, which the table at *)
(* its beginning determines: the writer holds the VM's lock.  What a TLB   *)
(* holds for a page is the set of accesses the cached entry permits; the   *)
(* mapping is the identity.  A walk is one step (caches of partial walks   *)
(* are left out), and a TLB may be filled and forget at any time.          *)
(*                                                                         *)
(* arch_mm_invalidate_stage2_range reaches the VMID that is loaded on the  *)
(* CPU that calls it.  The table is changed by the VM itself, from one of  *)
(* the CPUs that run it, or by a call of another VM that gives it memory   *)
(* or access; in the second case the invalidations reach another VM's      *)
(* entries, and an entry that permitted less may stay behind.              *)
(***************************************************************************)
EXTENDS Integers, Sequences, SequencesExt, FiniteSets

CONSTANTS
    CPU,         \* the CPUs that run the VM
    Other,       \* a CPU that runs another VM
    Nobody,
    BlockCount,  \* entries of the table
    PerTable,    \* pages of an entry
    Attrs,       \* the attributes in use
    Touched,     \* the pages that the VM accesses
    Tables,      \* the tables that earlier calls may have left
    MaxUpdates   \* bounds the updates of a call

ASSUME TableWalkAssumption ==
    /\ Other \notin CPU /\ Nobody \notin CPU \cup {Other}
    /\ BlockCount \in Nat \ {0} /\ PerTable \in Nat \ {0} /\ MaxUpdates \in Nat
    /\ "none" \in Attrs /\ Attrs \subseteq {"rw", "shared", "ro", "lent", "none"}
    /\ Touched \subseteq 0 .. BlockCount * PerTable - 1

VARIABLES
    table,    \* entry -> Block(attrs) or Table(pages)
    tlb,      \* CPU -> page -> the accesses that the cached entry permits
    lock,     \* Vm::inner: who holds it
    todo,     \* what is left of the update under way
    vcpu,     \* CPU -> what the vCPU on it does
    goal,     \* page -> the attributes the table has once the update is done
    ok,       \* CPU -> every goal since its access began permits the access
    widened,  \* the pages to which another VM's call has added accesses, and
              \* that no invalidation of the VM's entries has reached since
    updates   \* how many updates have been made

vars == <<table, tlb, lock, todo, vcpu, goal, ok, widened, updates>>

-----------------------------------------------------------------------------
(* Attributes, entries and places in the table.                            *)

Page == 0 .. BlockCount * PerTable - 1
Entry == 0 .. BlockCount - 1
AccessMode == {"r", "w"}

\* Attributes are "rw" (owned, exclusive), "shared" (with another VM, or
\* borrowed: the same accesses), "ro" (borrowed, to be read), "lent" to
\* another VM, and "none": neither owned nor valid, as an absent entry is.
Permits(attrs) ==
    CASE attrs \in {"rw", "shared"} -> {"r", "w"}
      [] attrs = "ro" -> {"r"}
      [] OTHER -> {}

Block(attrs) == [kind |-> "block", attrs |-> attrs]
Absent == Block("none")
Table(pages) == [kind |-> "table", pages |-> pages]

is_table(pte) == pte.kind = "table"
is_valid(pte) == is_table(pte) \/ Permits(pte.attrs) # {}
is_block(pte) == ~is_table(pte) /\ pte.attrs # "none"

Below(pte, i) == IF is_table(pte) THEN pte.pages[i].attrs ELSE pte.attrs
attrs_at(p) == Below(table[p \div PerTable], p % PerTable)

\* What a walk finds for a page.
Walk(p) == Permits(attrs_at(p))

PagesOf(k) == k * PerTable .. (k + 1) * PerTable - 1

\* A place in the table: an entry, or a page of the table below one.
AtEntry(k) == [level |-> 1, index |-> k]
AtPage(p) == [level |-> 0, index |-> p]
Covers(place) == IF place.level = 1 THEN PagesOf(place.index) ELSE {place.index}

Write(place, pte) == [op |-> "write", place |-> place, pte |-> pte]
Invalidate(pages) == [op |-> "tlbi", pages |-> pages]

-----------------------------------------------------------------------------
(* What an update does, in the order it does it.                           *)

\* A mistake in replace: no break.
replaceDirectly(old, new, place) == <<Write(place, new)>>

\* PageTableEntry::replace: break before make when both are valid.
replace(old, new, place) ==
    (IF is_valid(old) /\ is_valid(new)
     THEN <<Write(place, Absent), Invalidate(Covers(place))>>
     ELSE <<>>)
    \o <<Write(place, new)>>

\* PageTableEntry::populate_table: an equivalent table in the entry's place.
populate_table(pte, k) ==
    IF is_table(pte) THEN <<>>
    ELSE replace(pte, Table([i \in 0 .. PerTable - 1 |->
                                IF is_block(pte) THEN Block(pte.attrs) ELSE Absent]),
                 AtEntry(k))

\* RawPageTable::map_level at the level of the entries: the entry is left
\* alone, replaced as a whole, or descended into.
UpToDate(k, attrs) == is_block(table[k]) /\ table[k].attrs = attrs
Whole(k, pages) == PagesOf(k) \subseteq pages
Descends(k, pages, attrs) ==
    PagesOf(k) \cap pages # {} /\ ~UpToDate(k, attrs) /\ ~Whole(k, pages)

\* The first pass, without COMMIT, only makes tables.
Prepare(k, pages, attrs) ==
    IF Descends(k, pages, attrs) THEN populate_table(table[k], k) ELSE <<>>

\* The committing pass, with the pages of a table in their order.
CommitPage(p, attrs) ==
    IF attrs_at(p) = attrs THEN <<>>
    ELSE replace(Block(attrs_at(p)), Block(attrs), AtPage(p))

CommitPages(k, pages, attrs) ==
    FlattenSeq([i \in 1 .. PerTable |->
        LET p == k * PerTable + i - 1
        IN  IF p \in pages THEN CommitPage(p, attrs) ELSE <<>>])

Commit(k, pages, attrs) ==
    IF PagesOf(k) \cap pages = {} \/ UpToDate(k, attrs) THEN <<>>
    ELSE IF Whole(k, pages) THEN replace(table[k], Block(attrs), AtEntry(k))
    ELSE CommitPages(k, pages, attrs)

ForEach(Op(_)) == FlattenSeq([i \in 1 .. BlockCount |-> Op(i - 1)])

\* A mistake in identity_update: the TLB is not invalidated at the end.
identity_updateNoInvalidate(pages, attrs) ==
    ForEach(LAMBDA k : Prepare(k, pages, attrs)) \o ForEach(LAMBDA k : Commit(k, pages, attrs))

\* PageTable::identity_update: both passes, then the TLB.
identity_update(pages, attrs) ==
    ForEach(LAMBDA k : Prepare(k, pages, attrs)) \o ForEach(LAMBDA k : Commit(k, pages, attrs))
    \o <<Invalidate(pages)>>

\* The first pass up to an entry for which there is no page.
identity_update_err(pages, attrs) ==
    {ForEach(LAMBDA k : IF k < j THEN Prepare(k, pages, attrs) ELSE <<>>) :
        j \in {j \in Entry : Descends(j, pages, attrs) /\ ~is_table(table[j])}}

\* PageTable::defrag: a table whose pages all have the same attributes is
\* overwritten by one entry.
Merges(k) ==
    is_table(table[k]) /\ \A p \in PagesOf(k) : attrs_at(p) = attrs_at(k * PerTable)

defrag ==
    ForEach(LAMBDA k :
        IF Merges(k) THEN <<Write(AtEntry(k), Block(attrs_at(k * PerTable)))>> ELSE <<>>)

-----------------------------------------------------------------------------
Idle == [at |-> "runs"]
Attempt(p, m) == [at |-> "access", page |-> p, mode |-> m]

\* The VM has been running.
Init ==
    /\ table \in Tables
    /\ tlb = [c \in CPU |-> [p \in Page |-> {}]]
    /\ lock = Nobody
    /\ todo = <<>>
    /\ vcpu = [c \in CPU |-> Idle]
    /\ goal = [p \in Page |-> attrs_at(p)]
    /\ ok = [c \in CPU |-> TRUE]
    /\ widened = {}
    /\ updates = 0

-----------------------------------------------------------------------------
(* The CPU that changes the table.                                         *)

InHypervisor(c) == lock = c

\* A call changes the table with the lock of the VM held, and may change it
\* several times (a failed transfer is rolled back) before it releases it.
\* A behaviour has one call: the table that it finds is any that earlier ones
\* leave.
MayLock(u) ==
    \/ lock = u /\ updates < MaxUpdates
    \/ lock = Nobody /\ updates = 0 /\ (u \in CPU => vcpu[u] = Idle)

UnlockVm(u) ==
    /\ lock = u /\ todo = <<>>
    /\ lock' = Nobody
    /\ UNCHANGED <<table, tlb, todo, vcpu, goal, ok, widened, updates>>

\* What a call of another VM makes of a page of this one: it gives or lends
\* memory, gives back what it had borrowed, or, when it has lent the page to
\* this VM, donates it.  Accesses are added, never taken.
Given(attrs) ==
    CASE attrs = "none" -> {"rw", "shared", "ro"}
      [] attrs \in {"lent", "shared", "ro"} -> {"rw"}
      [] OTHER -> {}

MayUpdate(u, pages, attrs) == u = Other => \A p \in pages : attrs \in Given(goal[p])

Widens(p, attrs) == Permits(goal[p]) \notin {{}, Permits(attrs)}

Begins(program) ==
    /\ todo' = program
    /\ updates' = updates + 1
    /\ UNCHANGED <<table, tlb, vcpu>>

Update(u) ==
    /\ MayLock(u) /\ todo = <<>>
    /\ lock' = u
    /\ \E begin \in Page, end \in Page, attrs \in Attrs :
          /\ begin <= end
          /\ MayUpdate(u, begin .. end, attrs)
          /\ \/ /\ Begins(identity_update(begin .. end, attrs))
                /\ widened' = widened \cup {p \in begin .. end : u = Other /\ Widens(p, attrs)}
                /\ goal' = [p \in Page |-> IF p \in begin .. end THEN attrs ELSE goal[p]]
                /\ ok' = [c \in CPU |->
                            /\ ok[c]
                            /\ vcpu[c] # Idle /\ vcpu[c].page \in begin .. end
                                 => vcpu[c].mode \in Permits(attrs)]
             \/ /\ \E program \in identity_update_err(begin .. end, attrs) : Begins(program)
                /\ UNCHANGED <<goal, ok, widened>>

Defrag(u) ==
    /\ MayLock(u) /\ todo = <<>>
    /\ lock' = u
    /\ Begins(defrag)
    /\ UNCHANGED <<goal, ok, widened>>

WriteEntry(place, pte) ==
    table' = IF place.level = 1 THEN [table EXCEPT ![place.index] = pte]
             ELSE [table EXCEPT ![place.index \div PerTable].pages[place.index % PerTable] = pte]

\* arch_mm_invalidate_stage2_range by a CPU that runs the VM, or another.
InvalidateTlb(u, pages) ==
    \/ u = Other /\ UNCHANGED <<tlb, widened>>
    \/ /\ u \in CPU
       /\ tlb' = [c \in CPU |-> [p \in Page |-> IF p \in pages THEN {} ELSE tlb[c][p]]]
       /\ widened' = widened \ pages

Step(u) ==
    /\ lock = u /\ todo # <<>>
    /\ \/ /\ Head(todo).op = "write"
          /\ WriteEntry(Head(todo).place, Head(todo).pte)
          /\ UNCHANGED <<tlb, widened>>
       \/ /\ Head(todo).op = "tlbi"
          /\ InvalidateTlb(u, Head(todo).pages)
          /\ UNCHANGED table
    /\ todo' = Tail(todo)
    /\ UNCHANGED <<lock, vcpu, goal, ok, widened, updates>>

-----------------------------------------------------------------------------
(* The hardware, and the vCPUs.                                            *)

Fill(c, p) ==
    /\ Walk(p) # {} /\ tlb[c][p] = {}
    /\ tlb' = [tlb EXCEPT ![c][p] = Walk(p)]
    /\ UNCHANGED <<table, lock, todo, vcpu, goal, ok, widened, updates>>

Evict(c, p) ==
    /\ tlb[c][p] # {}
    /\ tlb' = [tlb EXCEPT ![c][p] = {}]
    /\ UNCHANGED <<table, lock, todo, vcpu, goal, ok, widened, updates>>

BeginAccess(c, p, m) ==
    /\ vcpu[c] = Idle /\ ~InHypervisor(c)
    /\ vcpu' = [vcpu EXCEPT ![c] = Attempt(p, m)]
    /\ ok' = [ok EXCEPT ![c] = m \in Permits(goal[p])]
    /\ UNCHANGED <<table, tlb, lock, todo, goal, widened, updates>>

Translation(c, p) == IF tlb[c][p] # {} THEN tlb[c][p] ELSE Walk(p)

\* The access is made, or the CPU takes a stage-2 abort.
MakeAccess(c) ==
    /\ vcpu[c].at = "access"
    /\ vcpu' = [vcpu EXCEPT ![c] =
                  IF @.mode \in Translation(c, @.page) THEN Idle ELSE [@ EXCEPT !.at = "fault"]]
    /\ UNCHANGED <<table, tlb, lock, todo, goal, ok, widened, updates>>

\* What the table says of the access that faulted.
Resumes(f) == f.mode \in Permits(attrs_at(f.page))
Handled(f) == [f EXCEPT !.at = IF Resumes(f) THEN "access" ELSE "aborted"]

\* A mistake in vcpu_handle_page_fault: it does not wait for the lock.
vcpu_handle_page_faultUnlocked(c) ==
    /\ vcpu[c].at = "fault"
    /\ vcpu' = [vcpu EXCEPT ![c] = Handled(@)]
    /\ UNCHANGED <<table, tlb, lock, todo, goal, ok, widened, updates>>

\* A mistake in vcpu_handle_page_fault: every fault is taken to be spurious.
vcpu_handle_page_faultResumes(c) ==
    /\ vcpu[c].at = "fault"
    /\ lock = Nobody
    /\ vcpu' = [vcpu EXCEPT ![c] = [@ EXCEPT !.at = "access"]]
    /\ UNCHANGED <<table, tlb, lock, todo, goal, ok, widened, updates>>

\* Under the lock of the VM: the access is made again, or the VM is aborted.
vcpu_handle_page_fault(c) ==
    /\ vcpu[c].at = "fault"
    /\ lock = Nobody
    /\ vcpu' = [vcpu EXCEPT ![c] = Handled(@)]
    /\ UNCHANGED <<table, tlb, lock, todo, goal, ok, widened, updates>>

-----------------------------------------------------------------------------
Updater == CPU \cup {Other}

Next ==
    \/ \E u \in Updater : Update(u) \/ Defrag(u) \/ Step(u) \/ UnlockVm(u)
    \/ \E c \in CPU, p \in Touched : Fill(c, p) \/ Evict(c, p)
    \/ \E c \in CPU, p \in Touched, m \in AccessMode : BeginAccess(c, p, m)
    \/ \E c \in CPU : MakeAccess(c) \/ vcpu_handle_page_fault(c)

Spec == Init /\ [][Next]_vars

\* A CPU in the hypervisor goes on and releases the lock, and a CPU that runs
\* the VM goes on with its access and its fault.  The lock is taken finitely
\* often, so that a handler that waits for it gets it.
FairSpec ==
    /\ Spec
    /\ \A u \in Updater : WF_vars(Step(u)) /\ WF_vars(UnlockVm(u))
    /\ \A c \in CPU : WF_vars(MakeAccess(c)) /\ WF_vars(vcpu_handle_page_fault(c))

-----------------------------------------------------------------------------
(* Properties.                                                             *)

\* "This is to prevent cases where CPUs have different 'valid' values in their
\* TLBs" (PageTableEntry::replace): at no time, in the middle of an update
\* included, do two CPUs hold different translations of a page, or one of
\* them a translation that differs from the one the table would give it,
\* unless another VM's call has added accesses to the page.
OneValidTranslation ==
    \A c \in CPU, p \in Page \ widened : tlb[c][p] # {} =>
        /\ Walk(p) \in {{}, tlb[c][p]}
        /\ \A d \in CPU : tlb[d][p] \in {{}, tlb[c][p]}

\* When identity_map has returned, and before the caller goes on to clear the
\* memory or to give it to another VM, the table says what was asked for and
\* no CPU holds a translation that permits more than the table does, although
\* the invalidations of another VM's call do not reach this VM's entries; and
\* one that permits less only of a page to which such a call added accesses.
NoStaleTranslation ==
    todo = <<>> => \A p \in Page :
        /\ attrs_at(p) = goal[p]
        /\ \A c \in CPU : /\ tlb[c][p] \subseteq Permits(goal[p])
                          /\ p \notin widened => tlb[c][p] \in {{}, Permits(goal[p])}

\* "Otherwise, this is a spurious fault, likely because another CPU is
\* updating the page table": a VM is aborted only for an access that the table
\* did not permit, before or after one of the updates made since it began.
SpuriousFaultsResume == \A c \in CPU : vcpu[c].at = "aborted" => ~ok[c]

\* The TLB keeps an entry from before another VM's call, and the entry does
\* not permit the access.
Outdated(c) ==
    /\ vcpu[c].page \in widened
    /\ tlb[c][vcpu[c].page] # {} /\ vcpu[c].mode \notin tlb[c][vcpu[c].page]

\* An access comes to an end: a vCPU that faults on memory whose mapping is
\* being changed does not fault and resume for ever, unless its TLB keeps an
\* entry that another VM's call did not invalidate.
AccessCompletes ==
    \A c \in CPU : vcpu[c].at \in {"access", "fault"}
                       ~> vcpu[c].at \in {"runs", "aborted"} \/ Outdated(c)
=============================================================================
