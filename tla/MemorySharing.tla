---------------------------- MODULE MemorySharing ----------------------------
(***************************************************************************)
(* Memory ownership and sharing between VMs: the stage-2 tables of the     *)
(* VMs, the hypervisor's own stage-1 table, and the three hypercalls that  *)
(* change them while the system runs:                                      *)
(*                                                                         *)
(*   - hf_share_memory    (Hypervisor::share_memory, clear_memory),        *)
(*   - spci_msg_send with an architected memory message                    *)
(*     (spci_share_memory and its transition tables),                      *)
(*   - hf_vm_configure    (VmInner::configure and configure_pages).        *)
(*                                                                         *)
(* A call runs on a physical CPU.  It holds the locks of its VMs from the  *)
(* first step to the last and updates one table at a time, so other CPUs   *)
(* and the VMs themselves see the tables between two updates.  Every       *)
(* identity_map may fail for lack of page-table memory, after which the    *)
(* call rolls back.  A call that is refused changes nothing and is not a   *)
(* step.                                                                   *)
(***************************************************************************)
EXTENDS Modes, FiniteSets

CONSTANTS
  VM,          \* the VMs, primary included
  CPU,         \* the physical CPUs
  Page,        \* the pages of physical memory
  Region,      \* the address ranges that a call may name, as sets of pages
  Buffers,     \* the pairs of pages that hf_vm_configure may name
  Access,      \* the access that a lend message may ask for
  Tracked,     \* the pages whose contents are followed
  Hypervisor,  \* stands for the hypervisor as the owner of a page
  InitOwner,   \* who owns each page after the VMs have been loaded
  NoCPU,       \* a lock that is free
  NoPage,      \* a mailbox page that is not configured
  Zero         \* the contents of a cleared page

\* The modes that spci_memory_attrs_to_mode yields for a lend.
LendAccess == {{"R"}, {"R", "X"}, {"R", "W"}, {"R", "W", "X"}}

ASSUME MemoryAssumption ==
  /\ Hypervisor \notin VM
  /\ Zero \notin VM
  /\ NoCPU \notin CPU
  /\ NoPage \notin Page
  /\ Region \subseteq (SUBSET Page) \ {{}}
  /\ Buffers \subseteq Page \X Page
  /\ Access \subseteq LendAccess
  /\ Tracked \subseteq Page
  /\ InitOwner \in [Page -> VM \cup {Hypervisor}]

VARIABLES
  pte,      \* pte[v][p]: the stage-2 entry of page p in the table of VM v
  hyp,      \* hyp[p]: how the hypervisor's stage-1 table maps page p
  content,  \* content[p]: whose data page p holds
  send,     \* send[v]: the page of VM v's send buffer (Mailbox::send)
  recv,     \* recv[v]: the page of VM v's receive buffer (Mailbox::recv)
  lock,     \* lock[v]: the CPU that holds Vm::inner of v
  s1lock,   \* the CPU that holds MemoryManager::hypervisor_ptable
  xfer,     \* xfer[c]: the memory transfer in progress on CPU c
  conf      \* conf[c]: the hf_vm_configure in progress on CPU c

vars == <<pte, hyp, content, send, recv, lock, s1lock, xfer, conf>>

Share == {"Give", "Lend", "Share"}               \* HfShare
SpciShare == {"Donate", "Relinquish", "Lend"}    \* SpciMemoryShare

NoXfer == [pc |-> "idle"]
NoConf == [pc |-> "idle"]

\* A transfer in progress.  The program counter names the table update that
\* comes next; toMode is the mode the recipient gets, origMode the sender's
\* mode to be restored on failure, call the hypercall.
Xfer ==
  [pc : {"clear", "zero", "unmap", "grant"}, call : {"share", "spci"},
   kind : Share \cup SpciShare, from : VM, to : VM, region : Region,
   origMode : Mode, fromMode : Mode, toMode : Mode]

\* A configuration in progress, with the pages and their original modes.
Conf ==
  [pc : {"recv2", "send1", "recv1"}, vm : VM, send : Page, recv : Page,
   origSend : Mode, origRecv : Mode]

(***************************************************************************)
(* Page tables.                                                            *)
(***************************************************************************)

\* PageTable::get_mode succeeds iff the entries of the range have the same
\* attributes, and an empty range has none.
SameAttrs(v, region) == \A p, q \in region : pte[v][p] = pte[v][q]

get_mode(v, region) ==
  stage2_attrs_to_mode(pte[v][CHOOSE p \in region : TRUE])

\* The table of one VM after identity_map of a region with a mode.
Mapped(table, region, mode) ==
  [p \in Page |-> IF p \in region THEN mode_to_stage2_attrs(mode) ELSE table[p]]

\* Successful PageTable::identity_map on the stage-2 table of v.
identity_map(v, region, mode) ==
  pte' = [pte EXCEPT ![v] = Mapped(pte[v], region, mode)]

Valid(v, p)     == "VALID" \in pte[v][p]
Owned(v, p)     == "OWNED" \in pte[v][p]
Exclusive(v, p) == "EXCLUSIVE" \in pte[v][p]
Accessible(p)   == {v \in VM : Valid(v, p)}

is_configured(v) == send[v] # NoPage /\ recv[v] # NoPage

(***************************************************************************)
(* Initial state: what load_primary and load_secondary leave behind.  The  *)
(* owner of a page has it mapped RWX; it is absent from the other tables,  *)
(* the primary's included (unmap), and the hypervisor's own pages are      *)
(* absent from every VM's table (mm_vm_unmap_hypervisor).                  *)
(***************************************************************************)
Init ==
  /\ pte = [v \in VM |-> [p \in Page |->
              IF InitOwner[p] = v THEN mode_to_stage2_attrs(RWX) ELSE AbsentPte]]
  /\ hyp = [p \in Page |-> IF InitOwner[p] = Hypervisor THEN "rw" ELSE "absent"]
  /\ content = [p \in Page |-> IF InitOwner[p] = Hypervisor THEN Zero ELSE InitOwner[p]]
  /\ send = [v \in VM |-> NoPage]
  /\ recv = [v \in VM |-> NoPage]
  /\ lock = [v \in VM |-> NoCPU]
  /\ s1lock = NoCPU
  /\ xfer = [c \in CPU |-> NoXfer]
  /\ conf = [c \in CPU |-> NoConf]

Idle(c) == xfer[c] = NoXfer /\ conf[c] = NoConf

\* SpinLock::lock_both.
lock_both(c, v, w) ==
  /\ lock[v] = NoCPU /\ lock[w] = NoCPU
  /\ lock' = [lock EXCEPT ![v] = c, ![w] = c]

\* The end of a call: the guards of its VMs are dropped.
Unlock(c) == lock' = [v \in VM |-> IF lock[v] = c THEN NoCPU ELSE lock[v]]

(***************************************************************************)
(* Hypervisor::share_memory.                                               *)
(***************************************************************************)

\* The modes the sender and the recipient end up with.
ShareFromModeLendGivesUp(kind) ==
  CASE kind = "Give"  -> {"INVALID", "UNOWNED"}
    [] kind = "Lend"  -> {"INVALID", "UNOWNED"}
    [] kind = "Share" -> RWX \cup {"SHARED"}

ShareFromMode(kind) ==
  CASE kind = "Give"  -> {"INVALID", "UNOWNED"}
    [] kind = "Lend"  -> {"INVALID"}
    [] kind = "Share" -> RWX \cup {"SHARED"}

ShareToModeLendOwns(kind) ==
  CASE kind = "Give"  -> RWX
    [] kind = "Lend"  -> RWX
    [] kind = "Share" -> RWX \cup {"UNOWNED", "SHARED"}

ShareToMode(kind) ==
  CASE kind = "Give"  -> RWX
    [] kind = "Lend"  -> RWX \cup {"UNOWNED"}
    [] kind = "Share" -> RWX \cup {"UNOWNED", "SHARED"}

\* The sender owns the memory exclusively, or it gives memory back to the
\* VM that owns it.
MayShareShared(from, to, region, kind) ==
  LET mode == get_mode(from, region) IN
  /\ SameAttrs(from, region)
  /\ "INVALID" \notin mode
  /\ "UNOWNED" \in mode =>
       /\ SameAttrs(to, region)
       /\ "UNOWNED" \notin get_mode(to, region)
       /\ kind = "Give"

MayShare(from, to, region, kind) ==
  LET mode == get_mode(from, region) IN
  /\ SameAttrs(from, region)
  /\ "INVALID" \notin mode
  /\ IF "UNOWNED" \in mode
       THEN /\ SameAttrs(to, region)
            /\ "UNOWNED" \notin get_mode(to, region)
            /\ kind = "Give"
       ELSE "SHARED" \notin mode

\* The call up to and including the update of the sender's table.
ShareFrom(c, from, to, region, kind) ==
  /\ Idle(c)
  /\ from # to
  /\ lock_both(c, from, to)
  /\ MayShare(from, to, region, kind)
  /\ identity_map(from, region, ShareFromMode(kind))
  /\ xfer' = [xfer EXCEPT ![c] =
       [pc |-> "clear", call |-> "share", kind |-> kind, from |-> from, to |-> to,
        region |-> region, origMode |-> get_mode(from, region),
        fromMode |-> ShareFromMode(kind), toMode |-> ShareToMode(kind)]]
  /\ UNCHANGED <<hyp, content, send, recv, s1lock, conf>>

\* clear_memory, first part: lock the stage-1 table and map the region.
ClearMap(c) ==
  /\ xfer[c].pc = "clear"
  /\ s1lock = NoCPU
  /\ s1lock' = c
  /\ hyp' = [p \in Page |-> IF p \in xfer[c].region THEN "rw" ELSE hyp[p]]
  /\ xfer' = [xfer EXCEPT ![c].pc = "zero"]
  /\ UNCHANGED <<pte, content, send, recv, lock, conf>>

\* The sender's original mapping is put back and the call fails.
ForgetSender(c) ==
  /\ xfer' = [xfer EXCEPT ![c] = NoXfer]
  /\ Unlock(c)
  /\ UNCHANGED pte

RestoreSender(c) ==
  /\ identity_map(xfer[c].from, xfer[c].region, xfer[c].origMode)
  /\ xfer' = [xfer EXCEPT ![c] = NoXfer]
  /\ Unlock(c)

\* clear_memory fails to map the region.
ClearMapFails(c) ==
  /\ xfer[c].pc = "clear"
  /\ s1lock = NoCPU
  /\ RestoreSender(c)
  /\ UNCHANGED <<hyp, content, send, recv, s1lock, conf>>

\* clear_memory, second part: overwrite the region with zeros.
ClearZeroSkipped(c) ==
  /\ xfer[c].pc = "zero"
  /\ xfer' = [xfer EXCEPT ![c].pc = "unmap"]
  /\ UNCHANGED <<pte, hyp, content, send, recv, lock, s1lock, conf>>

ClearZero(c) ==
  /\ xfer[c].pc = "zero"
  /\ content' = [p \in Page |-> IF p \in xfer[c].region THEN Zero ELSE content[p]]
  /\ xfer' = [xfer EXCEPT ![c].pc = "unmap"]
  /\ UNCHANGED <<pte, hyp, send, recv, lock, s1lock, conf>>

\* clear_memory, last part: unmap the region and release the stage-1 table.
ClearUnmap(c) ==
  /\ xfer[c].pc = "unmap"
  /\ hyp' = [p \in Page |-> IF p \in xfer[c].region THEN "absent" ELSE hyp[p]]
  /\ s1lock' = NoCPU
  /\ xfer' = [xfer EXCEPT ![c].pc = "grant"]
  /\ UNCHANGED <<pte, content, send, recv, lock, conf>>

\* The recipient's table is updated and the call succeeds.
Grant(c) ==
  /\ xfer[c].pc = "grant"
  /\ identity_map(xfer[c].to, xfer[c].region, xfer[c].toMode)
  /\ xfer' = [xfer EXCEPT ![c] = NoXfer]
  /\ Unlock(c)
  /\ UNCHANGED <<hyp, content, send, recv, s1lock, conf>>

\* The update of the recipient's table fails.
GrantFails(c) ==
  /\ xfer[c].pc = "grant"
  /\ RestoreSender(c)
  /\ UNCHANGED <<hyp, content, send, recv, s1lock, conf>>

(***************************************************************************)
(* spci_share_memory, reached from spci_msg_send when both VMs have        *)
(* configured their mailboxes.                                             *)
(***************************************************************************)

Transition(origFrom, origTo, from, to) ==
  [origFrom |-> origFrom, origTo |-> origTo, from |-> from, to |-> to]

\* The three transition tables of spci_msg_check_transition.
Transitions(kind) ==
  CASE kind = "Donate" ->
         {Transition({}, {"INVALID", "UNOWNED"}, {"INVALID", "UNOWNED"}, {}),
          Transition({"INVALID"}, {"UNOWNED"}, {"INVALID", "UNOWNED"}, {}),
          Transition({"SHARED"}, {"UNOWNED", "SHARED"}, {"INVALID", "UNOWNED"}, {}),
          Transition({}, {"INVALID", "UNOWNED", "SHARED"},
                     {"INVALID", "UNOWNED", "SHARED"}, {})}
    [] kind = "Relinquish" ->
         {Transition({"UNOWNED"}, {"INVALID"}, {"INVALID", "UNOWNED", "SHARED"}, {}),
          Transition({"UNOWNED", "SHARED"}, {"SHARED"},
                     {"INVALID", "UNOWNED", "SHARED"}, {})}
    [] kind = "Lend" ->
         {Transition({}, {"INVALID", "UNOWNED", "SHARED"}, {"SHARED"},
                     {"UNOWNED", "SHARED"}),
          Transition({}, {"INVALID", "UNOWNED"}, {"SHARED"}, {"UNOWNED", "SHARED"})}

\* The access that the message asks for the recipient.
ToAttributes(kind) == IF kind = "Lend" THEN Access ELSE {RWX}

\* The call up to and including the update of the sender's table.
SpciFrom(c, from, to, region, kind, access) ==
  LET origFrom == get_mode(from, region)
      origTo == get_mode(to, region)
  IN
  /\ Idle(c)
  /\ from # to
  /\ lock_both(c, to, from)
  /\ send[from] # NoPage /\ is_configured(to)
  /\ SameAttrs(from, region) /\ SameAttrs(to, region)
  /\ \E t \in Transitions(kind) :
       /\ origFrom \cap StateMask = t.origFrom
       /\ origTo \cap StateMask = t.origTo
       /\ identity_map(from, region, t.from \cup (origFrom \ StateMask))
       /\ xfer' = [xfer EXCEPT ![c] =
            [pc |-> "grant", call |-> "spci", kind |-> kind, from |-> from, to |-> to,
             region |-> region, origMode |-> origFrom,
             fromMode |-> t.from \cup (origFrom \ StateMask),
             toMode |-> t.to \cup access]]
  /\ UNCHANGED <<hyp, content, send, recv, s1lock, conf>>

(***************************************************************************)
(* VmInner::configure.                                                     *)
(***************************************************************************)

\* A mistake in configure: the send page keeps its mode.
SendModeKept == RWX

SendMode == {"UNOWNED", "SHARED", "R", "W"}

RecvMode == {"UNOWNED", "SHARED", "R"}

\* The call up to and including the stage-2 update of the send page.
ConfigureSend(c, v, s, r) ==
  LET origSend == get_mode(v, {s})
      origRecv == get_mode(v, {r})
  IN
  /\ Idle(c)
  /\ lock_both(c, v, v)
  /\ s # r
  /\ ~is_configured(v)
  /\ valid_owned_exclusive(origSend) /\ {"R", "W"} \subseteq origSend
  /\ valid_owned_exclusive(origRecv) /\ "R" \in origRecv
  /\ identity_map(v, {s}, SendMode)
  /\ conf' = [conf EXCEPT ![c] =
       [pc |-> "recv2", vm |-> v, send |-> s, recv |-> r,
        origSend |-> origSend, origRecv |-> origRecv]]
  /\ UNCHANGED <<hyp, content, send, recv, s1lock, xfer>>

\* The stage-2 update of the receive page.
ConfigureRecv(c) ==
  /\ conf[c].pc = "recv2"
  /\ identity_map(conf[c].vm, {conf[c].recv}, RecvMode)
  /\ conf' = [conf EXCEPT ![c].pc = "send1"]
  /\ UNCHANGED <<hyp, content, send, recv, lock, s1lock, xfer>>

\* It fails: the guard of the send page restores its mode.
ConfigureRecvFails(c) ==
  /\ conf[c].pc = "recv2"
  /\ identity_map(conf[c].vm, {conf[c].send}, conf[c].origSend)
  /\ conf' = [conf EXCEPT ![c] = NoConf]
  /\ Unlock(c)
  /\ UNCHANGED <<hyp, content, send, recv, s1lock, xfer>>

\* The guards of both pages restore their modes.
RestorePages(c) ==
  /\ pte' = [pte EXCEPT ![conf[c].vm] =
       Mapped(Mapped(pte[conf[c].vm], {conf[c].recv}, conf[c].origRecv),
              {conf[c].send}, conf[c].origSend)]
  /\ conf' = [conf EXCEPT ![c] = NoConf]
  /\ Unlock(c)

\* configure_stage1: map the send page for the hypervisor to read.
Stage1Send(c) ==
  /\ conf[c].pc = "send1"
  /\ s1lock = NoCPU
  /\ s1lock' = c
  /\ hyp' = [hyp EXCEPT ![conf[c].send] = "ro"]
  /\ conf' = [conf EXCEPT ![c].pc = "recv1"]
  /\ UNCHANGED <<pte, content, send, recv, lock, xfer>>

Stage1SendFails(c) ==
  /\ conf[c].pc = "send1"
  /\ s1lock = NoCPU
  /\ RestorePages(c)
  /\ UNCHANGED <<hyp, content, send, recv, s1lock, xfer>>

\* configure_stage1: map the receive page for the hypervisor to write, and
\* the buffers are configured.
Stage1Recv(c) ==
  /\ conf[c].pc = "recv1"
  /\ hyp' = [hyp EXCEPT ![conf[c].recv] = "rw"]
  /\ send' = [send EXCEPT ![conf[c].vm] = conf[c].send]
  /\ recv' = [recv EXCEPT ![conf[c].vm] = conf[c].recv]
  /\ s1lock' = NoCPU
  /\ conf' = [conf EXCEPT ![c] = NoConf]
  /\ Unlock(c)
  /\ UNCHANGED <<pte, content, xfer>>

\* It fails: the send page is unmapped again, then the guards run.
Stage1RecvFailsLeavesSend(c) ==
  /\ conf[c].pc = "recv1"
  /\ s1lock' = NoCPU
  /\ RestorePages(c)
  /\ UNCHANGED <<hyp, content, send, recv, xfer>>

Stage1RecvFails(c) ==
  /\ conf[c].pc = "recv1"
  /\ hyp' = [hyp EXCEPT ![conf[c].send] = "absent"]
  /\ s1lock' = NoCPU
  /\ RestorePages(c)
  /\ UNCHANGED <<content, send, recv, xfer>>

(***************************************************************************)
(* The VMs write to the pages their tables let them write.                 *)
(***************************************************************************)
VmWrite(v, p) ==
  /\ {"VALID", "S2AP_W"} \subseteq pte[v][p]
  /\ content' = [content EXCEPT ![p] = v]
  /\ UNCHANGED <<pte, hyp, send, recv, lock, s1lock, xfer, conf>>

Step(c) ==
  \/ ClearMap(c) \/ ClearMapFails(c) \/ ClearZero(c) \/ ClearUnmap(c)
  \/ Grant(c) \/ GrantFails(c)
  \/ ConfigureRecv(c) \/ ConfigureRecvFails(c)
  \/ Stage1Send(c) \/ Stage1SendFails(c) \/ Stage1Recv(c) \/ Stage1RecvFails(c)

Call(c) ==
  \/ \E from, to \in VM, region \in Region, kind \in Share :
       ShareFrom(c, from, to, region, kind)
  \/ \E from, to \in VM, region \in Region, kind \in SpciShare :
       \E access \in ToAttributes(kind) :
         SpciFrom(c, from, to, region, kind, access)
  \/ \E v \in VM, b \in Buffers : ConfigureSend(c, v, b[1], b[2])

Next ==
  \/ \E c \in CPU : Call(c) \/ Step(c)
  \/ \E v \in VM, p \in Tracked : VmWrite(v, p)

Spec == Init /\ [][Next]_vars

(***************************************************************************)
(* Properties.                                                             *)
(***************************************************************************)

\* Every variable has its type.
TypeOK ==
  /\ pte \in [VM -> [Page -> Attrs]]
  /\ hyp \in [Page -> {"absent", "ro", "rw"}]
  /\ content \in [Page -> VM \cup {Zero}]
  /\ send \in [VM -> Page \cup {NoPage}]
  /\ recv \in [VM -> Page \cup {NoPage}]
  /\ lock \in [VM -> CPU \cup {NoCPU}]
  /\ s1lock \in CPU \cup {NoCPU}
  /\ xfer \in [CPU -> {NoXfer} \cup Xfer]
  /\ conf \in [CPU -> {NoConf} \cup Conf]

\* The pages whose transfer or configuration is in progress.
Sending(c, v, p) == /\ xfer[c].pc # "idle"
                    /\ xfer[c].from = v
                    /\ p \in xfer[c].region
Configuring(c, v, p) == /\ conf[c].pc # "idle"
                        /\ conf[c].vm = v
                        /\ p \in {conf[c].send, conf[c].recv}

\* The entry of page p in VM v's table as of the calls that have completed:
\* a call in progress counts only once it can no longer be rolled back.
Settled(v, p) ==
  LET c == lock[v] IN
  IF c = NoCPU THEN pte[v][p]
  ELSE IF Sending(c, v, p) THEN mode_to_stage2_attrs(xfer[c].origMode)
  ELSE IF Configuring(c, v, p)
    THEN mode_to_stage2_attrs(IF p = conf[c].send THEN conf[c].origSend
                                                  ELSE conf[c].origRecv)
  ELSE pte[v][p]

SettledOwners(p) == {v \in VM : "OWNED" \in Settled(v, p)}
SettledAccess(p) == {v \in VM : "VALID" \in Settled(v, p)}

\* The states of a page in one VM's table, as the comment on Mode names them.
ExclusiveOwner(a) == {"VALID", "OWNED", "EXCLUSIVE"} \subseteq a
SharingOwner(a)   == {"VALID", "OWNED"} \subseteq a /\ "EXCLUSIVE" \notin a
Borrower(a)       == {"VALID", "EXCLUSIVE"} \subseteq a /\ "OWNED" \notin a
SharingBorrower(a) == "VALID" \in a /\ "OWNED" \notin a /\ "EXCLUSIVE" \notin a
Lender(a)         == {"OWNED", "EXCLUSIVE"} \subseteq a /\ "VALID" \notin a
Unrelated(a)      == "VALID" \notin a /\ "OWNED" \notin a

\* The entries of one page in all the tables fit together: entry[v] is the
\* page's entry in the table of v, boxes the VMs that use it as a mailbox
\* buffer, and reserved says that it is the hypervisor's own.
FitTogether(entry, boxes, reserved) ==
  \/ \E o \in VM : /\ ExclusiveOwner(entry[o])
                   /\ \A w \in VM \ {o} : Unrelated(entry[w])
  \/ \E o, b \in VM : /\ o # b
                      /\ \/ Lender(entry[o]) /\ Borrower(entry[b])
                         \/ SharingOwner(entry[o]) /\ SharingBorrower(entry[b])
                      /\ \A w \in VM \ {o, b} : Unrelated(entry[w])
  \/ \E v \in boxes : /\ SharingBorrower(entry[v])
                      /\ \A w \in VM \ {v} : Unrelated(entry[w])
  \/ reserved /\ \A w \in VM : Unrelated(entry[w])

\* As of the completed calls, every page is owned exclusively by one VM, lent
\* or shared by its owner to exactly one other VM, a mailbox buffer of one
\* VM, or the hypervisor's: the rows of the Mode table that fit together.
PagesConsistent ==
  \A p \in Page :
    FitTogether([v \in VM |-> Settled(v, p)], {v \in VM : p \in {send[v], recv[v]}},
                InitOwner[p] = Hypervisor)

\* At every instant, between two updates of a call and after a failed one
\* included: a VM whose entry says that its access is exclusive is the only
\* one that has access, and never more than two VMs have access to a page
\* (the Mode comment: "shared with at most one other").
Isolation ==
  \A p \in Page :
    /\ \A v, w \in VM : Valid(v, p) /\ Exclusive(v, p) /\ Valid(w, p) => v = w
    /\ \A u, v, w \in VM : Valid(u, p) /\ Valid(v, p) /\ Valid(w, p)
                             => u = v \/ v = w \/ u = w

\* No two VMs own a page, and a VM that has access without owning the page
\* is the borrower of a page whose owner's entry agrees: a lender without
\* access for an exclusive borrower, a sharer for a shared one.  The only
\* page that a VM may access and no VM owns is a mailbox buffer or one whose
\* donation is in progress.
OwnerAgreesWithBorrower ==
  \A p \in Page :
    /\ \A v, w \in VM : Owned(v, p) /\ Owned(w, p) => v = w
    /\ \A v \in VM : Valid(v, p) /\ ~Owned(v, p) =>
         \/ \E o \in VM : /\ Owned(o, p)
                          /\ Exclusive(o, p) = Exclusive(v, p)
                          /\ Valid(o, p) = ~Exclusive(v, p)
         \/ p \in {send[v], recv[v]}
         \/ \E c \in CPU : \/ Configuring(c, v, p)
                           \/ \E o \in VM : Sending(c, o, p) /\ xfer[c].to = v

\* No failure, rollback or interleaving loses a page: its ownership is with
\* one VM, or with the hypervisor for its own pages and the mailbox buffers,
\* unless a call that will settle it is in progress.
NoPageLost ==
  \A p \in Page :
    \/ \E v \in VM : Owned(v, p)
    \/ InitOwner[p] = Hypervisor
    \/ \E v \in VM : p \in {send[v], recv[v]} /\ Accessible(p) = {v}
    \/ \E c \in CPU, v \in VM : Sending(c, v, p) \/ Configuring(c, v, p)

\* The hypervisor can always read the send buffer and write the receive
\* buffer of a configured VM: no later clear_memory, transfer or failed
\* configuration unmaps them, and no other VM gets access to them.
MailboxStaysMapped ==
  \A v \in VM : is_configured(v) =>
    /\ hyp[send[v]] = "ro" /\ hyp[recv[v]] = "rw"
    /\ Accessible(send[v]) = {v} /\ Accessible(recv[v]) = {v}

\* The hypervisor keeps no mapping of VM memory behind: what its own table
\* maps is its own memory, a mailbox buffer, or a page that the holder of
\* the stage-1 lock is working on; and no VM has access to its own memory.
NoStaleHypervisorMapping ==
  \A p \in Page :
    /\ hyp[p] # "absent" =>
         \/ InitOwner[p] = Hypervisor
         \/ \E v \in VM : p \in {send[v], recv[v]}
         \/ \E c \in CPU : /\ s1lock = c
                           /\ \E v \in VM : Sending(c, v, p) \/ Configuring(c, v, p)
    /\ InitOwner[p] = Hypervisor => hyp[p] = "rw" /\ Accessible(p) = {}

\* "Clear the memory so no VM or device can see the previous contents":
\* memory that a VM gains through hf_share_memory as a gift or a loan holds
\* nothing that another VM wrote.  (Shared memory stays writable for its
\* owner, a memory message passes the contents on, and a call that fails
\* gives back the access that the VM had.)
GainedMemoryIsClear ==
  [][\A v \in VM, p \in Page :
       ~Valid(v, p) /\ Valid(v, p)' =>
         \/ content[p] \in {Zero, v}
         \/ v \in SettledAccess(p)
         \/ \E c \in CPU : /\ xfer[c].pc = "grant"
                           /\ p \in xfer[c].region
                           /\ xfer[c].call = "spci" \/ xfer[c].kind = "Share"]_vars

\* The owner of a page, and the VMs with access to each page, as of the calls
\* that have completed: the refinement mapping.
OwnerOf(p) == IF SettledOwners(p) = {} THEN Hypervisor
              ELSE CHOOSE v \in SettledOwners(p) : TRUE

OwnerMap == [p \in Page |-> OwnerOf(p)]
AccessMap == [p \in Page |-> SettledAccess(p)]

Abstract == INSTANCE Ownership WITH owner <- OwnerMap, access <- AccessMap

\* The calls implement the atomic ownership changes of Ownership: a call
\* takes effect on all its pages at once, when it completes, and a call that
\* fails half-way has no effect.
ImplementsOwnership == Abstract!Spec
=============================================================================
