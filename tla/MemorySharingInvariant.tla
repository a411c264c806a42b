----------------------- MODULE MemorySharingInvariant -----------------------
(***************************************************************************)
(* The inductive invariant of MemorySharing, type correctness, and that    *)
(* every step of a transfer and of a configuration preserves the invariant;*)
(* for any number of VMs, CPUs and pages, and any regions and buffers that *)
(* the calls may name.                                                     *)
(***************************************************************************)
EXTENDS MemorySharing, TLAPS

(***************************************************************************)
(* The inductive invariant.                                                *)
(***************************************************************************)

Transferring(c) == xfer[c] \in Xfer
ConfiguringVm(c) == conf[c] \in Conf

\* The change that a transfer makes to a page, from the sender's original
\* entry F and the recipient's entry T to the entries F2 and T2.
Lawful(F, T, F2, T2) ==
  \/ /\ ExclusiveOwner(F)
     /\ \/ Unrelated(F2) /\ ExclusiveOwner(T2)
        \/ Lender(F2) /\ Borrower(T2)
        \/ SharingOwner(F2) /\ SharingBorrower(T2)
  \/ /\ "VALID" \in F /\ "OWNED" \notin F
     /\ "OWNED" \in T
     /\ Unrelated(F2) /\ ExclusiveOwner(T2)
  \/ /\ "OWNED" \in F
     /\ "VALID" \in T /\ "OWNED" \notin T
     /\ Unrelated(F2) /\ ExclusiveOwner(T2)

\* A transfer in progress holds the locks of its two VMs, has mapped the
\* region for the sender, and is about to make a lawful change.
TransferInv(c) ==
  LET x == xfer[c] IN
  Transferring(c) =>
    /\ conf[c] = NoConf
    /\ lock[x.from] = c /\ lock[x.to] = c /\ x.from # x.to
    /\ \A p \in x.region :
         /\ pte[x.from][p] = mode_to_stage2_attrs(x.fromMode)
         /\ Lawful(mode_to_stage2_attrs(x.origMode), pte[x.to][p],
                   mode_to_stage2_attrs(x.fromMode), mode_to_stage2_attrs(x.toMode))

\* A configuration in progress holds the lock of its VM, works on two pages
\* that the VM owned exclusively, and has mapped the send page, and after
\* "recv2" the receive page, as buffers.
ConfigurationInv(c) ==
  LET x == conf[c] IN
  ConfiguringVm(c) =>
    /\ lock[x.vm] = c
    /\ x.send # x.recv
    /\ valid_owned_exclusive(x.origSend) /\ valid_owned_exclusive(x.origRecv)
    /\ SharingBorrower(pte[x.vm][x.send])
    /\ IF x.pc = "recv2" THEN ExclusiveOwner(pte[x.vm][x.recv])
                         ELSE SharingBorrower(pte[x.vm][x.recv])

CallInv(c) == TransferInv(c) /\ ConfigurationInv(c)

\* The two buffers are configured together, once.
BuffersTogether ==
  /\ \A v \in VM : send[v] = NoPage <=> recv[v] = NoPage
  /\ \A c \in CPU : ConfiguringVm(c) => send[conf[c].vm] = NoPage

IInv ==
  /\ TypeOK
  /\ BuffersTogether
  /\ \A c \in CPU : CallInv(c)
  /\ PagesConsistent

(***************************************************************************)
(* The two conversions.                                                    *)
(***************************************************************************)

\* What mode_to_stage2_attrs writes into the entry.
LEMMA AttrsOfMode ==
  ASSUME NEW m
  PROVE  /\ mode_to_stage2_attrs(m) \in Attrs
         /\ "VALID" \in mode_to_stage2_attrs(m) <=> "INVALID" \notin m
         /\ "OWNED" \in mode_to_stage2_attrs(m) <=> "UNOWNED" \notin m
         /\ "EXCLUSIVE" \in mode_to_stage2_attrs(m) <=> "SHARED" \notin m
BY DEF mode_to_stage2_attrs, Attrs, AttrBit

\* What stage2_attrs_to_mode reads back.
LEMMA ModeOfAttrs ==
  ASSUME NEW a
  PROVE  /\ stage2_attrs_to_mode(a) \in Mode
         /\ "INVALID" \in stage2_attrs_to_mode(a) <=> "VALID" \notin a
         /\ "UNOWNED" \in stage2_attrs_to_mode(a) <=> "OWNED" \notin a
         /\ "SHARED" \in stage2_attrs_to_mode(a) <=> "EXCLUSIVE" \notin a
BY DEF stage2_attrs_to_mode, Mode, Flag

\* Reading the attributes of a range gives the mode of each of its pages.
LEMMA ExclusiveModes ==
  ASSUME NEW m, valid_owned_exclusive(m)
  PROVE  ExclusiveOwner(mode_to_stage2_attrs(m))
BY AttrsOfMode DEF valid_owned_exclusive, ExclusiveOwner

LEMMA GetMode ==
  ASSUME NEW v, NEW region, SameAttrs(v, region), NEW p \in region
  PROVE  get_mode(v, region) = stage2_attrs_to_mode(pte[v][p])
BY DEF SameAttrs, get_mode

(***************************************************************************)
(* Type correctness.                                                       *)
(***************************************************************************)

LEMMA ActiveXfer ==
  ASSUME TypeOK, NEW c \in CPU, xfer[c].pc # "idle"
  PROVE  xfer[c] \in Xfer
BY DEF TypeOK, NoXfer

LEMMA ActiveConf ==
  ASSUME TypeOK, NEW c \in CPU, conf[c].pc # "idle"
  PROVE  conf[c] \in Conf
BY DEF TypeOK, NoConf

\* Mapping a region keeps a table a table.
LEMMA MapType ==
  ASSUME TypeOK, NEW v \in VM, NEW region, NEW mode, identity_map(v, region, mode)
  PROVE  pte' \in [VM -> [Page -> Attrs]]
<1>1. Mapped(pte[v], region, mode) \in [Page -> Attrs]
  BY AttrsOfMode DEF Mapped, TypeOK
<1> QED
  BY <1>1 DEF identity_map, TypeOK

LEMMA UnlockType ==
  ASSUME TypeOK, NEW c \in CPU, Unlock(c)
  PROVE  lock' \in [VM -> CPU \cup {NoCPU}]
BY DEF Unlock, TypeOK

LEMMA LockType ==
  ASSUME TypeOK, NEW c \in CPU, NEW v \in VM, NEW w \in VM, lock_both(c, v, w)
  PROVE  lock' \in [VM -> CPU \cup {NoCPU}]
BY DEF lock_both, TypeOK

LEMMA TypeInit == Init => TypeOK
<1> SUFFICES ASSUME Init PROVE TypeOK
  OBVIOUS
<1>1. pte \in [VM -> [Page -> Attrs]]
  BY AttrsOfMode DEF Init, AbsentPte, Attrs
<1>2. content \in [Page -> VM \cup {Zero}]
  BY MemoryAssumption DEF Init
<1> QED
  BY <1>1, <1>2 DEF Init, TypeOK

LEMMA TypeCall ==
  ASSUME TypeOK, NEW c \in CPU, Call(c)
  PROVE  TypeOK'
<1>1. ASSUME NEW from \in VM, NEW to \in VM, NEW region \in Region, NEW kind \in Share,
             ShareFrom(c, from, to, region, kind)
      PROVE  TypeOK'
  <2>1. pte' \in [VM -> [Page -> Attrs]]
    BY <1>1, MapType DEF ShareFrom
  <2>2. lock' \in [VM -> CPU \cup {NoCPU}]
    BY <1>1, LockType, Zenon DEF ShareFrom
  <2>3. /\ get_mode(from, region) \in Mode
        /\ ShareFromMode(kind) \in Mode
        /\ ShareToMode(kind) \in Mode
    BY ModeOfAttrs DEF get_mode, ShareFromMode, ShareToMode, Mode, Flag, RWX, Share
  <2>4. xfer' \in [CPU -> {NoXfer} \cup Xfer]
    BY <1>1, <2>3, SMTT(60) DEF ShareFrom, Xfer, TypeOK
  <2> QED
    BY <1>1, <2>1, <2>2, <2>4 DEF ShareFrom, TypeOK
<1>2. ASSUME NEW from \in VM, NEW to \in VM, NEW region \in Region, NEW kind \in SpciShare,
             NEW access \in ToAttributes(kind),
             SpciFrom(c, from, to, region, kind, access)
      PROVE  TypeOK'
  <2> DEFINE origFrom == get_mode(from, region)
  <2>1. PICK t \in Transitions(kind) :
          /\ identity_map(from, region, t.from \cup (origFrom \ StateMask))
          /\ xfer' = [xfer EXCEPT ![c] =
               [pc |-> "grant", call |-> "spci", kind |-> kind, from |-> from, to |-> to,
                region |-> region, origMode |-> origFrom,
                fromMode |-> t.from \cup (origFrom \ StateMask),
                toMode |-> t.to \cup access]]
    BY <1>2, Zenon DEF SpciFrom
  <2>2. pte' \in [VM -> [Page -> Attrs]]
    BY <2>1, MapType
  <2>3. lock' \in [VM -> CPU \cup {NoCPU}]
    BY <1>2, LockType, Zenon DEF SpciFrom
  <2>4. origFrom \in Mode
    BY ModeOfAttrs DEF get_mode
  <2>5. t.from \in Mode /\ t.to \in Mode
    BY <1>2 DEF Transitions, Transition, SpciShare, Mode, Flag
  <2>6. access \in Mode
    BY <1>2, MemoryAssumption DEF ToAttributes, LendAccess, Mode, Flag, RWX
  <2>7. t.from \cup (origFrom \ StateMask) \in Mode /\ t.to \cup access \in Mode
    BY <2>4, <2>5, <2>6 DEF Mode
  <2>8. xfer' \in [CPU -> {NoXfer} \cup Xfer]
    BY <2>1, <2>4, <2>7 DEF Xfer, TypeOK
  <2> QED
    BY <1>2, <2>2, <2>3, <2>8 DEF SpciFrom, TypeOK
<1>3. ASSUME NEW v \in VM, NEW b \in Buffers, ConfigureSend(c, v, b[1], b[2])
      PROVE  TypeOK'
  <2>1. pte' \in [VM -> [Page -> Attrs]]
    BY <1>3, MapType DEF ConfigureSend
  <2>2. lock' \in [VM -> CPU \cup {NoCPU}]
    BY <1>3, LockType, Zenon DEF ConfigureSend
  <2>3. b[1] \in Page /\ b[2] \in Page
    BY MemoryAssumption
  <2>4. get_mode(v, {b[1]}) \in Mode /\ get_mode(v, {b[2]}) \in Mode
    BY ModeOfAttrs DEF get_mode
  <2>5. conf' \in [CPU -> {NoConf} \cup Conf]
    BY <1>3, <2>3, <2>4 DEF ConfigureSend, Conf, TypeOK
  <2> QED
    BY <1>3, <2>1, <2>2, <2>5 DEF ConfigureSend, TypeOK
<1> QED
  BY <1>1, <1>2, <1>3 DEF Call

LEMMA TypeStep ==
  ASSUME TypeOK, NEW c \in CPU, Step(c)
  PROVE  TypeOK'
<1>1. CASE ClearMap(c)
  <2>1. xfer[c] \in Xfer
    BY <1>1, ActiveXfer DEF ClearMap
  <2>2. xfer' \in [CPU -> {NoXfer} \cup Xfer]
    BY <1>1, <2>1, Zenon DEF ClearMap, Xfer, TypeOK
  <2> QED
    BY <1>1, <2>2 DEF ClearMap, TypeOK
<1>2. ASSUME xfer[c].pc # "idle", RestoreSender(c),
             UNCHANGED <<hyp, content, send, recv, s1lock, conf>>
      PROVE  TypeOK'
  <2>1. xfer[c] \in Xfer
    BY <1>2, ActiveXfer
  <2>2. pte' \in [VM -> [Page -> Attrs]]
    BY <1>2, <2>1, MapType DEF RestoreSender, Xfer
  <2>3. lock' \in [VM -> CPU \cup {NoCPU}]
    BY <1>2, UnlockType DEF RestoreSender
  <2> QED
    BY <1>2, <2>2, <2>3 DEF RestoreSender, TypeOK
<1>3. CASE ClearZero(c)
  <2>1. xfer[c] \in Xfer
    BY <1>3, ActiveXfer DEF ClearZero
  <2>2. xfer' \in [CPU -> {NoXfer} \cup Xfer]
    BY <1>3, <2>1, Zenon DEF ClearZero, Xfer, TypeOK
  <2> QED
    BY <1>3, <2>2 DEF ClearZero, TypeOK
<1>4. CASE ClearUnmap(c)
  <2>1. xfer[c] \in Xfer
    BY <1>4, ActiveXfer DEF ClearUnmap
  <2>2. xfer' \in [CPU -> {NoXfer} \cup Xfer]
    BY <1>4, <2>1, Zenon DEF ClearUnmap, Xfer, TypeOK
  <2> QED
    BY <1>4, <2>2 DEF ClearUnmap, TypeOK
<1>5. CASE Grant(c)
  <2>1. xfer[c] \in Xfer
    BY <1>5, ActiveXfer DEF Grant
  <2>2. pte' \in [VM -> [Page -> Attrs]]
    BY <1>5, <2>1, MapType DEF Grant, Xfer
  <2>3. lock' \in [VM -> CPU \cup {NoCPU}]
    BY <1>5, UnlockType DEF Grant
  <2> QED
    BY <1>5, <2>2, <2>3 DEF Grant, TypeOK
<1>6. CASE ConfigureRecv(c)
  <2>1. conf[c] \in Conf
    BY <1>6, ActiveConf DEF ConfigureRecv
  <2>2. pte' \in [VM -> [Page -> Attrs]]
    BY <1>6, <2>1, MapType DEF ConfigureRecv, Conf
  <2>3. conf' \in [CPU -> {NoConf} \cup Conf]
    BY <1>6, <2>1, Zenon DEF ConfigureRecv, Conf, TypeOK
  <2> QED
    BY <1>6, <2>2, <2>3 DEF ConfigureRecv, TypeOK
<1>7. CASE ConfigureRecvFails(c)
  <2>1. conf[c] \in Conf
    BY <1>7, ActiveConf DEF ConfigureRecvFails
  <2>2. pte' \in [VM -> [Page -> Attrs]]
    BY <1>7, <2>1, MapType DEF ConfigureRecvFails, Conf
  <2>3. lock' \in [VM -> CPU \cup {NoCPU}]
    BY <1>7, UnlockType DEF ConfigureRecvFails
  <2> QED
    BY <1>7, <2>2, <2>3 DEF ConfigureRecvFails, TypeOK
<1>8. CASE Stage1Send(c)
  <2>1. conf[c] \in Conf
    BY <1>8, ActiveConf DEF Stage1Send
  <2>2. conf' \in [CPU -> {NoConf} \cup Conf]
    BY <1>8, <2>1, Zenon DEF Stage1Send, Conf, TypeOK
  <2> QED
    BY <1>8, <2>1, <2>2 DEF Stage1Send, Conf, TypeOK
<1>9. ASSUME conf[c].pc # "idle", RestorePages(c)
      PROVE  /\ pte' \in [VM -> [Page -> Attrs]]
             /\ lock' \in [VM -> CPU \cup {NoCPU}]
             /\ conf' \in [CPU -> {NoConf} \cup Conf]
  <2>1. conf[c] \in Conf
    BY <1>9, ActiveConf
  <2>2. pte' \in [VM -> [Page -> Attrs]]
    BY <1>9, <2>1, AttrsOfMode DEF RestorePages, Conf, Mapped, TypeOK
  <2> QED
    BY <1>9, <2>2, UnlockType, Zenon DEF RestorePages, TypeOK
<1>10. CASE Stage1SendFails(c)
  BY <1>10, <1>9 DEF Stage1SendFails, TypeOK
<1>11. CASE Stage1Recv(c)
  <2>1. conf[c] \in Conf
    BY <1>11, ActiveConf DEF Stage1Recv
  <2>2. lock' \in [VM -> CPU \cup {NoCPU}]
    BY <1>11, UnlockType DEF Stage1Recv
  <2> QED
    BY <1>11, <2>1, <2>2, Zenon DEF Stage1Recv, Conf, TypeOK
<1>12. CASE Stage1RecvFails(c)
  <2>1. conf[c] \in Conf
    BY <1>12, ActiveConf DEF Stage1RecvFails
  <2> QED
    BY <1>12, <1>9, <2>1 DEF Stage1RecvFails, Conf, TypeOK
<1> QED
  BY <1>1, <1>2, <1>3, <1>4, <1>5, <1>6, <1>7, <1>8, <1>10, <1>11, <1>12
  DEF Step, ClearMapFails, GrantFails

LEMMA TypeWrite ==
  ASSUME TypeOK, NEW v \in VM, NEW p \in Tracked, VmWrite(v, p)
  PROVE  TypeOK'
BY Zenon DEF VmWrite, TypeOK

\* Every variable keeps its type, whatever the calls of the CPUs and the
\* failures of their maps (share_memory, spci_share_memory, configure).
THEOREM TypeCorrect == Spec => []TypeOK
<1>1. TypeOK /\ UNCHANGED vars => TypeOK'
  BY DEF TypeOK, vars
<1>2. TypeOK /\ [Next]_vars => TypeOK'
  BY <1>1, TypeCall, TypeStep, TypeWrite DEF Next
<1> QED
  BY <1>2, TypeInit, PTL DEF Spec

(***************************************************************************)
(* What a step of one CPU leaves alone.                                    *)
(***************************************************************************)

\* The step works on the calls of CPU c, and on the tables of the VMs whose
\* locks c holds or takes.
OnlyBy(c) ==
  /\ \A d \in CPU \ {c} : xfer'[d] = xfer[d] /\ conf'[d] = conf[d]
  /\ \A v \in VM : lock[v] # c => \/ lock'[v] = lock[v] /\ pte'[v] = pte[v]
                                  \/ lock[v] = NoCPU /\ lock'[v] = c

\* A step of c does not disturb the calls of the other CPUs.
LEMMA OthersUnaffected ==
  ASSUME IInv, NEW c \in CPU, OnlyBy(c), NEW d \in CPU \ {c}
  PROVE  CallInv(d)'
<1>1. CallInv(d) /\ NoCPU \notin CPU
  BY MemoryAssumption DEF IInv
<1>2. xfer'[d] = xfer[d] /\ conf'[d] = conf[d]
  BY DEF OnlyBy
<1>3. \A v \in VM : lock[v] = d => lock'[v] = d /\ pte'[v] = pte[v]
  BY <1>1 DEF OnlyBy
<1>4. TransferInv(d)'
  <2>1. TransferInv(d)
    BY <1>1 DEF CallInv
  <2>2. CASE ~Transferring(d)
    BY <1>2, <2>2, SMTT(60) DEF TransferInv, Transferring
  <2>3. CASE Transferring(d)
    <3>1. xfer[d].from \in VM /\ xfer[d].to \in VM
      BY <2>3 DEF Transferring, Xfer
    <3> QED
      BY <1>2, <1>3, <2>1, <2>3, <3>1 DEF TransferInv, Transferring
  <2> QED
    BY <2>2, <2>3
<1>5. ConfigurationInv(d)'
  <2>1. ConfigurationInv(d)
    BY <1>1 DEF CallInv
  <2>2. CASE ~ConfiguringVm(d)
    BY <1>2, <2>2, Zenon DEF ConfigurationInv, ConfiguringVm
  <2>3. CASE ConfiguringVm(d)
    <3>1. conf[d].vm \in VM
      BY <2>3 DEF ConfiguringVm, Conf
    <3> QED
      BY <1>2, <1>3, <2>1, <2>3, <3>1 DEF ConfigurationInv, ConfiguringVm
  <2> QED
    BY <2>2, <2>3
<1> QED
  BY <1>4, <1>5 DEF CallInv

\* Nor what the completed calls say of the VMs that c has not locked.
LEMMA SettledFrame ==
  ASSUME IInv, NEW c \in CPU, OnlyBy(c),
         NEW v \in VM, lock[v] # c, lock'[v] # c, NEW p \in Page
  PROVE  Settled(v, p)' = Settled(v, p)
<1>1. lock'[v] = lock[v] /\ pte'[v] = pte[v]
  BY Zenon DEF OnlyBy
<1>2. CASE lock[v] = NoCPU
  BY <1>1, <1>2, ZenonT(180) DEF Settled
<1>3. CASE lock[v] # NoCPU
  <2>1. lock[v] \in CPU \ {c}
    BY <1>3, Zenon DEF IInv, TypeOK
  <2>2. xfer'[lock[v]] = xfer[lock[v]] /\ conf'[lock[v]] = conf[lock[v]]
    BY <2>1 DEF OnlyBy
  <2> QED
    BY <1>1, <2>2 DEF Settled, Sending, Configuring
<1> QED
  BY <1>2, <1>3

\* The three bits that tell the states of the Mode table apart.
Bits == {"VALID", "OWNED", "EXCLUSIVE"}

LEMMA SameBits ==
  ASSUME NEW e, NEW f, NEW boxes \in SUBSET VM, NEW more \in SUBSET VM, NEW reserved,
         boxes \subseteq more,
         \A v \in VM, b \in Bits : b \in e[v] <=> b \in f[v],
         FitTogether(e, boxes, reserved)
  PROVE  FitTogether(f, more, reserved)
<1>1. \A v \in VM : /\ ExclusiveOwner(e[v]) <=> ExclusiveOwner(f[v])
                    /\ SharingOwner(e[v]) <=> SharingOwner(f[v])
                    /\ Borrower(e[v]) <=> Borrower(f[v])
                    /\ SharingBorrower(e[v]) <=> SharingBorrower(f[v])
                    /\ Lender(e[v]) <=> Lender(f[v])
                    /\ Unrelated(e[v]) <=> Unrelated(f[v])
  BY DEF Bits, ExclusiveOwner, SharingOwner, Borrower, SharingBorrower, Lender, Unrelated
<1> QED
  BY <1>1 DEF FitTogether

\* The step changes nothing in the states of the pages as of the completed
\* calls.
Quiet ==
  /\ UNCHANGED <<send, recv>>
  /\ \A v \in VM, p \in Page, b \in Bits : b \in Settled(v, p)' <=> b \in Settled(v, p)

\* Such a step keeps the pages consistent.
LEMMA SameSettled ==
  ASSUME IInv, TypeOK', Quiet
  PROVE  PagesConsistent'
<1> SUFFICES ASSUME NEW p \in Page
             PROVE  FitTogether([v \in VM |-> Settled(v, p)'],
                                {v \in VM : p \in {send[v], recv[v]}},
                                InitOwner[p] = Hypervisor)
  BY DEF PagesConsistent, Quiet
<1> DEFINE e == [v \in VM |-> Settled(v, p)]
           f == [v \in VM |-> Settled(v, p)']
           boxes == {v \in VM : p \in {send[v], recv[v]}}
<1>1. FitTogether(e, boxes, InitOwner[p] = Hypervisor)
  BY DEF IInv, PagesConsistent
<1>2. \A v \in VM, b \in Bits : b \in e[v] <=> b \in f[v]
  BY DEF Quiet
<1> HIDE DEF e, f
<1>3. FitTogether(f, boxes, InitOwner[p] = Hypervisor)
  BY <1>1, <1>2, SameBits
<1> QED
  BY <1>3 DEF f

LEMMA InitInv == Init => IInv
<1> SUFFICES ASSUME Init PROVE IInv
  OBVIOUS
<1>1. TypeOK
  BY TypeInit, Zenon
<1>2. BuffersTogether /\ \A c \in CPU : CallInv(c)
  <2>1. \A c \in CPU : ~Transferring(c) /\ ~ConfiguringVm(c)
    BY DEF Init, Transferring, ConfiguringVm, NoXfer, NoConf, Xfer, Conf
  <2>2. \A v \in VM : send[v] = NoPage /\ recv[v] = NoPage
    BY DEF Init
  <2> QED
    BY <2>1, <2>2, Zenon DEF BuffersTogether, CallInv, TransferInv, ConfigurationInv
<1>3. \A v \in VM, p \in Page : /\ InitOwner[p] = v => ExclusiveOwner(Settled(v, p))
                                /\ InitOwner[p] # v => Unrelated(Settled(v, p))
  <2> TAKE v \in VM, p \in Page
  <2>1. Settled(v, p) = IF InitOwner[p] = v THEN mode_to_stage2_attrs(RWX) ELSE AbsentPte
    BY SMTT(60) DEF Init, Settled
  <2> QED
    BY <2>1, AttrsOfMode DEF ExclusiveOwner, Unrelated, RWX, AbsentPte
<1>4. PagesConsistent
  <2> SUFFICES ASSUME NEW p \in Page
               PROVE  FitTogether([v \in VM |-> Settled(v, p)],
                                  {v \in VM : p \in {send[v], recv[v]}},
                                  InitOwner[p] = Hypervisor)
    BY Zenon DEF PagesConsistent
  <2> DEFINE e == [v \in VM |-> Settled(v, p)]
  <2>1. \A v \in VM : /\ InitOwner[p] = v => ExclusiveOwner(e[v])
                      /\ InitOwner[p] # v => Unrelated(e[v])
    BY <1>3, Zenon
  <2>2. InitOwner[p] \in VM \/ InitOwner[p] = Hypervisor
    BY MemoryAssumption
  <2> HIDE DEF e
  <2>3. \A boxes : FitTogether(e, boxes, InitOwner[p] = Hypervisor)
    BY <2>1, <2>2, MemoryAssumption DEF FitTogether
  <2> QED
    BY <2>3, Zenon DEF e
<1> QED
  BY <1>1, <1>2, <1>4 DEF IInv

\* A step that changes no table, no lock and no call.
LEMMA SameTables ==
  ASSUME IInv, TypeOK', UNCHANGED <<pte, send, recv, lock, xfer, conf>>
  PROVE  IInv' /\ Quiet
<1>1. /\ BuffersTogether /\ PagesConsistent
      /\ \A c \in CPU : TransferInv(c) /\ ConfigurationInv(c)
  BY DEF IInv, CallInv
<1>2. BuffersTogether'
  BY <1>1 DEF BuffersTogether, ConfiguringVm
<1>3. Quiet
  <2>1. \A v \in VM, p \in Page : Settled(v, p)' = Settled(v, p)
    BY ZenonT(180) DEF Settled, Sending, Configuring
  <2> QED
    BY <2>1 DEF Quiet
<1>4. \A c \in CPU : TransferInv(c)'
  BY <1>1, ZenonT(180) DEF TransferInv, Transferring
<1>5. \A c \in CPU : ConfigurationInv(c)'
  BY <1>1 DEF ConfigurationInv, ConfiguringVm
<1> QED
  BY <1>2, <1>3, <1>4, <1>5, SameSettled DEF IInv, CallInv

(***************************************************************************)
(* What the tables say at every instant, calls in progress included.       *)
(***************************************************************************)

\* An entry differs from the settled one only while the call of the CPU that
\* holds the VM's lock is about to settle it.
UnderWay(v, p) ==
  \/ pte[v][p] = Settled(v, p)
  \/ \E c \in CPU :
       /\ Sending(c, v, p)
       /\ xfer[c].to \in VM
       /\ pte[xfer[c].to][p] = Settled(xfer[c].to, p)
       /\ Lawful(Settled(v, p), Settled(xfer[c].to, p), pte[v][p],
                 mode_to_stage2_attrs(xfer[c].toMode))
  \/ \E c \in CPU :
       /\ Configuring(c, v, p)
       /\ ExclusiveOwner(Settled(v, p))
       /\ ExclusiveOwner(pte[v][p]) \/ SharingBorrower(pte[v][p])

LEMMA EntryUnderWay ==
  ASSUME IInv, NEW v \in VM, NEW p \in Page
  PROVE  UnderWay(v, p)
<1> USE MemoryAssumption
<1> DEFINE c == lock[v]
<1>1. TypeOK /\ (c = NoCPU \/ (c \in CPU /\ CallInv(c)))
  BY Zenon DEF IInv, TypeOK
<1>2. CASE c \in CPU /\ Sending(c, v, p)
  <2>1. Transferring(c) /\ TransferInv(c)
    BY <1>1, <1>2, ActiveXfer, Zenon DEF Transferring, CallInv, Sending
  <2>2. xfer[c].to \in VM /\ lock[xfer[c].to] = c /\ xfer[c].to # v /\ conf[c] = NoConf
    BY <1>2, <2>1, Zenon DEF TransferInv, Transferring, Xfer, Sending
  <2>3. Settled(xfer[c].to, p) = pte[xfer[c].to][p]
    BY <1>2, <2>2 DEF Settled, Sending, Configuring, NoConf
  <2>4. Settled(v, p) = mode_to_stage2_attrs(xfer[c].origMode)
    BY <1>2, Zenon DEF Settled
  <2>5. Lawful(Settled(v, p), Settled(xfer[c].to, p), pte[v][p],
               mode_to_stage2_attrs(xfer[c].toMode))
    BY <1>2, <2>1, <2>3, <2>4 DEF TransferInv, Sending
  <2> QED
    BY <1>2, <2>2, <2>3, <2>5, Zenon DEF UnderWay
<1>3. CASE c \in CPU /\ ~Sending(c, v, p) /\ Configuring(c, v, p)
  <2>1. ConfiguringVm(c) /\ ConfigurationInv(c)
    BY <1>1, <1>3, ActiveConf DEF ConfiguringVm, CallInv, Configuring
  <2>2. ExclusiveOwner(Settled(v, p))
    <3>1. /\ ExclusiveOwner(mode_to_stage2_attrs(conf[c].origSend))
          /\ ExclusiveOwner(mode_to_stage2_attrs(conf[c].origRecv))
      BY <2>1, ExclusiveModes, Zenon DEF ConfigurationInv
    <3>2. \/ Settled(v, p) = mode_to_stage2_attrs(conf[c].origSend)
          \/ Settled(v, p) = mode_to_stage2_attrs(conf[c].origRecv)
      BY <1>3, Zenon DEF Settled
    <3> QED
      BY <3>1, <3>2, Zenon
  <2>3. ExclusiveOwner(pte[v][p]) \/ SharingBorrower(pte[v][p])
    BY <1>3, <2>1 DEF ConfigurationInv, Configuring
  <2> QED
    BY <1>3, <2>2, <2>3 DEF UnderWay
<1>4. CASE ~(c \in CPU /\ (Sending(c, v, p) \/ Configuring(c, v, p)))
  <2>1. pte[v][p] = Settled(v, p)
    BY <1>1, <1>4, Zenon DEF Settled
  <2> QED
    BY <2>1, Zenon DEF UnderWay
<1> QED
  BY <1>2, <1>3, <1>4, Zenon

\* A VM never has more than the settled entry gives it.
LEMMA NoMoreThanSettled ==
  ASSUME IInv, NEW v \in VM, NEW p \in Page
  PROVE  /\ Valid(v, p) => "VALID" \in Settled(v, p)
         /\ Owned(v, p) => "OWNED" \in Settled(v, p)
         /\ Valid(v, p) /\ Exclusive(v, p) => "EXCLUSIVE" \in Settled(v, p)
BY EntryUnderWay, ZenonT(180) DEF UnderWay, Lawful, Valid, Owned, Exclusive, ExclusiveOwner,
   SharingOwner, SharingBorrower, Lender, Unrelated

\* The settled entries of one page.
LEMMA SettledFit ==
  ASSUME IInv, NEW p \in Page
  PROVE  \/ \E o \in VM : /\ ExclusiveOwner(Settled(o, p))
                          /\ \A w \in VM \ {o} : Unrelated(Settled(w, p))
         \/ \E o, b \in VM : /\ o # b
                             /\ \/ Lender(Settled(o, p)) /\ Borrower(Settled(b, p))
                                \/ SharingOwner(Settled(o, p)) /\ SharingBorrower(Settled(b, p))
                             /\ \A w \in VM \ {o, b} : Unrelated(Settled(w, p))
         \/ \E v \in VM : /\ p \in {send[v], recv[v]}
                          /\ SharingBorrower(Settled(v, p))
                          /\ \A w \in VM \ {v} : Unrelated(Settled(w, p))
         \/ InitOwner[p] = Hypervisor /\ \A w \in VM : Unrelated(Settled(w, p))
<1> DEFINE e == [v \in VM |-> Settled(v, p)]
           boxes == {v \in VM : p \in {send[v], recv[v]}}
<1>1. FitTogether(e, boxes, InitOwner[p] = Hypervisor)
  BY DEF IInv, PagesConsistent
<1>2. \A v \in VM : e[v] = Settled(v, p)
  OBVIOUS
<1>3. \A v \in boxes : v \in VM /\ p \in {send[v], recv[v]}
  BY Zenon
<1> HIDE DEF e, boxes
<1> QED
  BY <1>1, <1>2, <1>3 DEF FitTogether

LEMMA IsolationFromInv == IInv => Isolation
<1> SUFFICES ASSUME IInv, NEW p \in Page
             PROVE  /\ \A v, w \in VM : Valid(v, p) /\ Exclusive(v, p) /\ Valid(w, p) => v = w
                    /\ \A u, v, w \in VM : Valid(u, p) /\ Valid(v, p) /\ Valid(w, p)
                                             => u = v \/ v = w \/ u = w
  BY ZenonT(180) DEF Isolation
<1> QED
  BY NoMoreThanSettled, SettledFit DEF ExclusiveOwner, SharingOwner, Borrower,
     SharingBorrower, Lender, Unrelated

LEMMA NoPageLostFromInv == IInv => NoPageLost
<1> SUFFICES ASSUME IInv, NEW p \in Page
             PROVE  \/ \E v \in VM : Owned(v, p)
                    \/ InitOwner[p] = Hypervisor
                    \/ \E v \in VM : p \in {send[v], recv[v]} /\ Accessible(p) = {v}
                    \/ \E c \in CPU, v \in VM : Sending(c, v, p) \/ Configuring(c, v, p)
  BY SMTT(60) DEF NoPageLost
<1> SUFFICES ASSUME \A c \in CPU, v \in VM : ~Sending(c, v, p) /\ ~Configuring(c, v, p)
             PROVE  \/ \E v \in VM : Owned(v, p)
                    \/ InitOwner[p] = Hypervisor
                    \/ \E v \in VM : p \in {send[v], recv[v]} /\ Accessible(p) = {v}
  BY SMTT(60)
<1>1. \A v \in VM : pte[v][p] = Settled(v, p)
  BY EntryUnderWay DEF UnderWay
<1> QED
  BY <1>1, SettledFit DEF Owned, Valid, Accessible, ExclusiveOwner, SharingOwner,
     SharingBorrower, Lender, Unrelated

LEMMA OwnerAgreesFromInv == IInv => OwnerAgreesWithBorrower
<1> USE DEF ExclusiveOwner, SharingOwner, Borrower, SharingBorrower, Lender, Unrelated
<1> SUFFICES ASSUME IInv, NEW p \in Page
             PROVE  /\ \A v, w \in VM : Owned(v, p) /\ Owned(w, p) => v = w
                    /\ \A v \in VM : Valid(v, p) /\ ~Owned(v, p) =>
                         \/ \E o \in VM : /\ Owned(o, p)
                                          /\ Exclusive(o, p) = Exclusive(v, p)
                                          /\ Valid(o, p) = ~Exclusive(v, p)
                         \/ p \in {send[v], recv[v]}
                         \/ \E c \in CPU :
                              \/ Configuring(c, v, p)
                              \/ \E o \in VM : Sending(c, o, p) /\ xfer[c].to = v
  BY Zenon DEF OwnerAgreesWithBorrower
<1>1. \A v, w \in VM : Owned(v, p) /\ Owned(w, p) => v = w
  BY NoMoreThanSettled, SettledFit
<1>2. ASSUME NEW v \in VM, Valid(v, p), ~Owned(v, p),
             p \notin {send[v], recv[v]}, \A c \in CPU : ~Configuring(c, v, p),
             \A c \in CPU, o \in VM : ~(Sending(c, o, p) /\ xfer[c].to = v)
      PROVE  \E o \in VM : /\ Owned(o, p)
                           /\ Exclusive(o, p) = Exclusive(v, p)
                           /\ Valid(o, p) = ~Exclusive(v, p)
  <2>1. pte[v][p] = Settled(v, p)
    BY <1>2, EntryUnderWay, Zenon DEF UnderWay, Lawful, Valid, Owned
  <2>2. PICK o \in VM \ {v} :
          /\ \/ Lender(Settled(o, p)) /\ Borrower(Settled(v, p))
             \/ SharingOwner(Settled(o, p)) /\ SharingBorrower(Settled(v, p))
          /\ \A w \in VM \ {o, v} : Unrelated(Settled(w, p))
    BY <1>2, <2>1, SettledFit, ZenonT(180) DEF Valid, Owned
  <2>3. ASSUME NEW c \in CPU, Sending(c, o, p), xfer[c].to \in VM,
               Lawful(Settled(o, p), Settled(xfer[c].to, p), pte[o][p],
                      mode_to_stage2_attrs(xfer[c].toMode))
        PROVE  FALSE
    <3>1. "VALID" \in Settled(xfer[c].to, p) /\ "OWNED" \notin Settled(xfer[c].to, p)
      BY <2>2, <2>3, Zenon DEF Lawful
    <3>2. xfer[c].to = v
      BY <2>2, <2>3, <3>1
    <3> QED
      BY <1>2, <2>3, <3>2, Zenon
  <2>4. ~ExclusiveOwner(Settled(o, p))
    BY <2>2, ZenonT(180)
  <2>5. pte[o][p] = Settled(o, p)
    BY <2>3, <2>4, EntryUnderWay DEF UnderWay
  <2> QED
    BY <2>1, <2>2, <2>5 DEF Owned, Exclusive, Valid
<1> QED
  BY <1>1, <1>2, Zenon

(***************************************************************************)
(* A transfer: share_memory and spci_share_memory.                         *)
(***************************************************************************)

\* The entry that restores what get_mode read says the same of the page.
LEMMA RestoredBits ==
  ASSUME NEW a, NEW b \in Bits
  PROVE  b \in mode_to_stage2_attrs(stage2_attrs_to_mode(a)) <=> b \in a
BY AttrsOfMode, ModeOfAttrs DEF Bits

LEMMA LawfulBits ==
  ASSUME NEW F, NEW G, NEW T, NEW F2, NEW T2, Lawful(F, T, F2, T2),
         \A b \in Bits : b \in F <=> b \in G
  PROVE  Lawful(G, T, F2, T2)
BY DEF Lawful, Bits, ExclusiveOwner

(***************************************************************************)
(* A transfer starts.                                                      *)
(***************************************************************************)

\* CPU c has locked the two VMs of transfer x, checked that the change is
\* lawful, and mapped the region for the sender.
Starts(c, x) ==
  /\ x \in Xfer
  /\ Idle(c)
  /\ x.from # x.to
  /\ x.origMode = get_mode(x.from, x.region)
  /\ SameAttrs(x.from, x.region)
  /\ lock[x.from] = NoCPU /\ lock[x.to] = NoCPU
  /\ \A v \in VM : lock'[v] = IF v \in {x.from, x.to} THEN c ELSE lock[v]
  /\ identity_map(x.from, x.region, x.fromMode)
  /\ xfer' = [xfer EXCEPT ![c] = x]
  /\ UNCHANGED <<send, recv, conf>>
  /\ \A p \in x.region : Lawful(pte[x.from][p], pte[x.to][p],
                                mode_to_stage2_attrs(x.fromMode),
                                mode_to_stage2_attrs(x.toMode))

LEMMA StartTransfer ==
  ASSUME IInv, TypeOK', NEW c \in CPU, NEW x, Starts(c, x)
  PROVE  IInv' /\ Quiet
<1> DEFINE from == x.from
           to == x.to
           region == x.region
<1>0. /\ TypeOK /\ BuffersTogether
      /\ x \in Xfer /\ from \in VM /\ to \in VM /\ from # to /\ region \in Region
      /\ Idle(c) /\ lock[from] = NoCPU /\ lock[to] = NoCPU
      /\ \A v \in VM : lock'[v] = IF v \in {from, to} THEN c ELSE lock[v]
      /\ UNCHANGED <<send, recv, conf>>
  BY ZenonT(180) DEF Starts, Xfer, IInv
<1> USE <1>0, MemoryAssumption
<1>1. /\ \A p \in Page : pte'[from][p] = IF p \in region THEN mode_to_stage2_attrs(x.fromMode)
                                                         ELSE pte[from][p]
      /\ \A v \in VM \ {from} : pte'[v] = pte[v]
  BY SMTT(60) DEF Starts, identity_map, Mapped, TypeOK
<1>2. xfer'[c] = x /\ conf'[c] = NoConf /\ \A d \in CPU \ {c} : xfer'[d] = xfer[d]
  BY SMTT(60) DEF Starts, TypeOK, Idle
<1>3. OnlyBy(c)
  BY <1>1, <1>2, ZenonT(180) DEF OnlyBy
<1>4. \A p \in region, b \in Bits : b \in mode_to_stage2_attrs(x.origMode) <=> b \in pte[from][p]
  BY GetMode, RestoredBits, SMTT(60) DEF Starts
<1>5. CallInv(c)'
  <2>1. \A p \in region : Lawful(mode_to_stage2_attrs(x.origMode), pte'[to][p],
                                 mode_to_stage2_attrs(x.fromMode),
                                 mode_to_stage2_attrs(x.toMode))
    BY <1>1, <1>4, LawfulBits DEF Starts
  <2>2. \A p \in region : pte'[from][p] = mode_to_stage2_attrs(x.fromMode)
    BY <1>1, Zenon
  <2>3. ~ConfiguringVm(c)'
    BY <1>2 DEF ConfiguringVm, NoConf, Conf
  <2> QED
    BY <1>2, <2>1, <2>2, <2>3, ZenonT(180) DEF CallInv, TransferInv, ConfigurationInv
<1>6. \A v \in VM, p \in Page, b \in Bits : b \in Settled(v, p)' <=> b \in Settled(v, p)
  <2> SUFFICES ASSUME NEW v \in VM, NEW p \in Page, NEW b \in Bits
               PROVE  b \in Settled(v, p)' <=> b \in Settled(v, p)
    BY ZenonT(180)
  <2>1. CASE v = from
    <3>1. Settled(v, p) = pte[v][p]
      BY <2>1, ZenonT(180) DEF Settled
    <3>2. Settled(v, p)' = IF p \in region THEN mode_to_stage2_attrs(x.origMode) ELSE pte'[v][p]
      BY <1>2, <2>1, SMTT(60) DEF Settled, Sending, Configuring, NoConf, Xfer
    <3> QED
      BY <1>1, <1>4, <2>1, <3>1, <3>2
  <2>2. CASE v = to
    <3>1. Settled(v, p) = pte[v][p]
      BY <2>2, ZenonT(180) DEF Settled
    <3>2. Settled(v, p)' = pte'[v][p]
      BY <1>2, <2>2, SMTT(60) DEF Settled, Sending, Configuring, NoConf, Xfer
    <3> QED
      BY <1>1, <2>2, <3>1, <3>2
  <2>3. CASE v \notin {from, to} /\ lock[v] # c
    BY <1>3, <2>3, SettledFrame, SMTT(60)
  <2>4. CASE v \notin {from, to} /\ lock[v] = c
    BY <1>1, <1>2, <2>4, SMTT(60) DEF Settled, Sending, Configuring, NoConf, NoXfer, Idle
  <2> QED
    BY <2>1, <2>2, <2>3, <2>4, Zenon
<1>7. Quiet
  BY <1>6 DEF Quiet
<1>8. BuffersTogether'
  BY Zenon DEF BuffersTogether, ConfiguringVm
<1>9. PagesConsistent' /\ \A d \in CPU : CallInv(d)'
  BY <1>3, <1>5, <1>7, OthersUnaffected, SameSettled
<1> QED
  BY <1>7, <1>8, <1>9, Zenon DEF IInv

LEMMA LockBoth ==
  ASSUME TypeOK, NEW c \in CPU, NEW v \in VM, NEW w \in VM, lock_both(c, v, w)
  PROVE  /\ lock[v] = NoCPU /\ lock[w] = NoCPU
         /\ \A u \in VM : lock'[u] = IF u \in {v, w} THEN c ELSE lock[u]
BY DEF lock_both, TypeOK

\* What share_memory lets through is a lawful change.
LEMMA ShareLawful ==
  ASSUME NEW from, NEW to, NEW region, NEW kind \in Share,
         MayShare(from, to, region, kind), NEW p \in region
  PROVE  Lawful(pte[from][p], pte[to][p], mode_to_stage2_attrs(ShareFromMode(kind)),
                mode_to_stage2_attrs(ShareToMode(kind)))
<1> DEFINE F == pte[from][p]
           T == pte[to][p]
           F2 == mode_to_stage2_attrs(ShareFromMode(kind))
           T2 == mode_to_stage2_attrs(ShareToMode(kind))
<1>1. /\ kind = "Give" => Unrelated(F2) /\ ExclusiveOwner(T2)
      /\ kind = "Lend" => Lender(F2) /\ Borrower(T2)
      /\ kind = "Share" => SharingOwner(F2) /\ SharingBorrower(T2)
  BY AttrsOfMode DEF ShareFromMode, ShareToMode, RWX, Unrelated, ExclusiveOwner, Lender,
     Borrower, SharingOwner, SharingBorrower
<1>2. get_mode(from, region) = stage2_attrs_to_mode(F)
  BY GetMode DEF MayShare
<1>3. "VALID" \in F
  BY <1>2, ModeOfAttrs, ZenonT(180) DEF MayShare
<1>4. CASE "UNOWNED" \in get_mode(from, region)
  <2>1. kind = "Give"
    BY <1>4 DEF MayShare
  <2>2. "OWNED" \notin F
    BY <1>2, <1>4, ModeOfAttrs, Zenon
  <2>3. "OWNED" \in T
    BY <1>4, GetMode, ModeOfAttrs, SMTT(60) DEF MayShare
  <2> QED
    BY <1>1, <1>3, <2>1, <2>2, <2>3 DEF Lawful
<1>5. CASE "UNOWNED" \notin get_mode(from, region)
  <2>1. ExclusiveOwner(F)
    BY <1>2, <1>3, <1>5, ModeOfAttrs DEF MayShare, ExclusiveOwner
  <2> QED
    BY <1>1, <2>1, Zenon DEF Lawful, Share
<1> QED
  BY <1>4, <1>5

LEMMA ShareFromInv ==
  ASSUME IInv, TypeOK', NEW c \in CPU, NEW from \in VM, NEW to \in VM,
         NEW region \in Region, NEW kind \in Share, ShareFrom(c, from, to, region, kind)
  PROVE  IInv' /\ Quiet
<1> DEFINE x == [pc |-> "clear", call |-> "share", kind |-> kind, from |-> from, to |-> to,
                 region |-> region, origMode |-> get_mode(from, region),
                 fromMode |-> ShareFromMode(kind), toMode |-> ShareToMode(kind)]
<1>1. PICK y : y = x
  BY Zenon
<1>2. xfer' = [xfer EXCEPT ![c] = y]
  BY <1>1, ZenonT(180) DEF ShareFrom
<1>3. y \in Xfer
  <2>1. xfer'[c] = y /\ xfer'[c] \in {NoXfer} \cup Xfer
    BY <1>2 DEF IInv, TypeOK
  <2> QED
    BY <1>1, <2>1, SMTT(60) DEF NoXfer
<1>4. /\ lock[from] = NoCPU /\ lock[to] = NoCPU
      /\ \A v \in VM : lock'[v] = IF v \in {from, to} THEN c ELSE lock[v]
  <2>1. TypeOK /\ lock_both(c, from, to)
    BY Zenon DEF IInv, ShareFrom
  <2> QED
    BY <2>1, LockBoth, ZenonT(180)
<1>5. \A p \in region : Lawful(pte[from][p], pte[to][p],
                               mode_to_stage2_attrs(ShareFromMode(kind)),
                               mode_to_stage2_attrs(ShareToMode(kind)))
  BY ShareLawful DEF ShareFrom
<1>6. Starts(c, y)
  BY <1>1, <1>2, <1>3, <1>4, <1>5, ZenonT(180) DEF Starts, ShareFrom, MayShare
<1> QED
  BY <1>6, StartTransfer

\* So is each row of the transition tables of spci_msg_check_transition.
LEMMA TransitionLawful ==
  ASSUME NEW kind \in SpciShare, NEW t \in Transitions(kind), NEW access \in SUBSET RWX,
         NEW F, NEW T,
         stage2_attrs_to_mode(F) \cap StateMask = t.origFrom,
         stage2_attrs_to_mode(T) \cap StateMask = t.origTo
  PROVE  Lawful(F, T,
                mode_to_stage2_attrs(t.from \cup (stage2_attrs_to_mode(F) \ StateMask)),
                mode_to_stage2_attrs(t.to \cup access))
<1> DEFINE F2 == mode_to_stage2_attrs(t.from \cup (stage2_attrs_to_mode(F) \ StateMask))
           T2 == mode_to_stage2_attrs(t.to \cup access)
<1>1. /\ "VALID" \in F <=> "INVALID" \notin t.origFrom
      /\ "OWNED" \in F <=> "UNOWNED" \notin t.origFrom
      /\ "EXCLUSIVE" \in F <=> "SHARED" \notin t.origFrom
      /\ "VALID" \in T <=> "INVALID" \notin t.origTo
      /\ "OWNED" \in T <=> "UNOWNED" \notin t.origTo
  BY ModeOfAttrs DEF StateMask
<1>2. /\ "VALID" \in F2 <=> "INVALID" \notin t.from
      /\ "OWNED" \in F2 <=> "UNOWNED" \notin t.from
      /\ "EXCLUSIVE" \in F2 <=> "SHARED" \notin t.from
  BY AttrsOfMode DEF StateMask
<1>3. /\ "VALID" \in T2 <=> "INVALID" \notin t.to
      /\ "OWNED" \in T2 <=> "UNOWNED" \notin t.to
      /\ "EXCLUSIVE" \in T2 <=> "SHARED" \notin t.to
  BY AttrsOfMode DEF RWX
<1> SUFFICES Lawful(F, T, F2, T2)
  OBVIOUS
<1> HIDE DEF F2, T2
<1>4. CASE kind = "Donate"
  BY <1>1, <1>2, <1>3, <1>4 DEF Lawful, Transitions, Transition, ExclusiveOwner, Unrelated
<1>5. CASE kind = "Relinquish"
  BY <1>1, <1>2, <1>3, <1>5 DEF Lawful, Transitions, Transition, ExclusiveOwner, Unrelated
<1>6. CASE kind = "Lend"
  BY <1>1, <1>2, <1>3, <1>6 DEF Lawful, Transitions, Transition, ExclusiveOwner,
     SharingOwner, SharingBorrower
<1> QED
  BY <1>4, <1>5, <1>6 DEF SpciShare

LEMMA SpciFromInv ==
  ASSUME IInv, TypeOK', NEW c \in CPU, NEW from \in VM, NEW to \in VM,
         NEW region \in Region, NEW kind \in SpciShare, NEW access \in ToAttributes(kind),
         SpciFrom(c, from, to, region, kind, access)
  PROVE  IInv' /\ Quiet
<1> DEFINE origFrom == get_mode(from, region)
           origTo == get_mode(to, region)
<1>1. PICK t \in Transitions(kind) :
        /\ origFrom \cap StateMask = t.origFrom
        /\ origTo \cap StateMask = t.origTo
        /\ identity_map(from, region, t.from \cup (origFrom \ StateMask))
        /\ xfer' = [xfer EXCEPT ![c] =
             [pc |-> "grant", call |-> "spci", kind |-> kind, from |-> from, to |-> to,
              region |-> region, origMode |-> origFrom,
              fromMode |-> t.from \cup (origFrom \ StateMask),
              toMode |-> t.to \cup access]]
  BY Zenon DEF SpciFrom
<1>2. PICK y : y = [pc |-> "grant", call |-> "spci", kind |-> kind, from |-> from,
                    to |-> to, region |-> region, origMode |-> origFrom,
                    fromMode |-> t.from \cup (origFrom \ StateMask),
                    toMode |-> t.to \cup access]
  BY ZenonT(180)
<1>3. xfer' = [xfer EXCEPT ![c] = y]
  BY <1>1, <1>2, ZenonT(180)
<1>4. y \in Xfer
  <2>1. xfer'[c] = y /\ xfer'[c] \in {NoXfer} \cup Xfer
    BY <1>3 DEF IInv, TypeOK
  <2> QED
    BY <1>2, <2>1, SMTT(60) DEF NoXfer
<1>5. /\ lock[from] = NoCPU /\ lock[to] = NoCPU
      /\ \A v \in VM : lock'[v] = IF v \in {from, to} THEN c ELSE lock[v]
  <2>1. TypeOK /\ lock_both(c, to, from)
    BY Zenon DEF IInv, SpciFrom
  <2>2. {to, from} = {from, to}
    OBVIOUS
  <2> QED
    BY <2>1, <2>2, LockBoth, ZenonT(180)
<1>6. \A p \in region : Lawful(pte[from][p], pte[to][p],
                               mode_to_stage2_attrs(t.from \cup (origFrom \ StateMask)),
                               mode_to_stage2_attrs(t.to \cup access))
  <2> SUFFICES ASSUME NEW p \in region
               PROVE  Lawful(pte[from][p], pte[to][p],
                             mode_to_stage2_attrs(t.from \cup (origFrom \ StateMask)),
                             mode_to_stage2_attrs(t.to \cup access))
    BY Zenon
  <2>1. /\ origFrom = stage2_attrs_to_mode(pte[from][p])
        /\ origTo = stage2_attrs_to_mode(pte[to][p])
    <3>1. SameAttrs(from, region) /\ SameAttrs(to, region)
      BY Zenon DEF SpciFrom
    <3> QED
      BY <3>1, GetMode, Zenon
  <2>2. access \in SUBSET RWX
    BY MemoryAssumption DEF ToAttributes, LendAccess, RWX
  <2> HIDE DEF origFrom, origTo
  <2> QED
    BY <1>1, <2>1, <2>2, TransitionLawful, Zenon
<1>7. Starts(c, y)
  BY <1>1, <1>2, <1>3, <1>4, <1>5, <1>6, Zenon DEF Starts, SpciFrom
<1> QED
  BY <1>7, StartTransfer

(***************************************************************************)
(* A transfer goes on, is rolled back, or completes.                       *)
(***************************************************************************)

\* clear_memory touches no stage-2 table.
LEMMA TransferContinues ==
  ASSUME IInv, TypeOK', NEW c \in CPU, xfer[c].pc # "idle", NEW q, q # "idle",
         xfer' = [xfer EXCEPT ![c].pc = q], UNCHANGED <<pte, send, recv, lock, conf>>
  PROVE  IInv' /\ Quiet
<1>0. /\ TypeOK /\ BuffersTogether /\ PagesConsistent
      /\ \A d \in CPU : CallInv(d)
  BY DEF IInv
<1> USE <1>0
<1>1. Transferring(c)
  BY ActiveXfer DEF Transferring
<1>2. /\ \A d \in CPU \ {c} : xfer'[d] = xfer[d]
      /\ xfer'[c] = [xfer[c] EXCEPT !.pc = q]
  BY DEF TypeOK
<1>3. /\ xfer'[c].from = xfer[c].from /\ xfer'[c].to = xfer[c].to
      /\ xfer'[c].region = xfer[c].region /\ xfer'[c].origMode = xfer[c].origMode
      /\ xfer'[c].fromMode = xfer[c].fromMode /\ xfer'[c].toMode = xfer[c].toMode
      /\ xfer'[c].pc = q
  BY <1>1, <1>2 DEF Transferring, Xfer
<1>4. OnlyBy(c)
  BY <1>2, SMTT(60) DEF OnlyBy
<1>5. CallInv(c)'
  <2>1. CallInv(c) /\ ~ConfiguringVm(c)
    BY <1>1, SMTT(60) DEF CallInv, TransferInv, ConfiguringVm, NoConf, Conf
  <2>2. TransferInv(c)'
    BY <1>1, <1>3, <2>1 DEF CallInv, TransferInv, Transferring
  <2>3. ~ConfiguringVm(c)'
    BY <2>1 DEF ConfiguringVm
  <2> QED
    BY <2>2, <2>3 DEF CallInv, ConfigurationInv
<1>6. \A v \in VM, p \in Page : Settled(v, p)' = Settled(v, p)
  <2> SUFFICES ASSUME NEW v \in VM, NEW p \in Page PROVE Settled(v, p)' = Settled(v, p)
    OBVIOUS
  <2>1. CASE lock[v] = c
    <3>1. \A w \in VM : Sending(c, w, p)' <=> Sending(c, w, p)
      BY <1>1, <1>3 DEF Sending, Transferring, Xfer
    <3>2. \A w \in VM : Configuring(c, w, p)' <=> Configuring(c, w, p)
      BY DEF Configuring
    <3> QED
      BY <1>3, <2>1, <3>1, <3>2 DEF Settled
  <2>2. CASE lock[v] # c
    BY <1>4, <2>2, SettledFrame
  <2> QED
    BY <2>1, <2>2
<1>7. Quiet
  BY <1>6 DEF Quiet
<1>8. BuffersTogether'
  BY ZenonT(180) DEF BuffersTogether, ConfiguringVm
<1> QED
  BY <1>4, <1>5, <1>7, <1>8, OthersUnaffected, SameSettled DEF IInv

\* What a step that ends the call of c leaves: the locks of c are free and
\* the tables are the settled ones.
LEMMA EndOfCall ==
  ASSUME IInv, TypeOK', NEW c \in CPU, Unlock(c),
         xfer'[c] = NoXfer, conf'[c] = NoConf,
         \A d \in CPU \ {c} : xfer'[d] = xfer[d] /\ conf'[d] = conf[d],
         \A v \in VM : lock[v] # c => pte'[v] = pte[v]
  PROVE  /\ \A d \in CPU : CallInv(d)'
         /\ \A v \in VM, p \in Page : lock[v] = c => Settled(v, p)' = pte'[v][p]
         /\ \A v \in VM, p \in Page : lock[v] # c => Settled(v, p)' = Settled(v, p)
<1>0. /\ TypeOK /\ BuffersTogether /\ PagesConsistent
      /\ \A d \in CPU : CallInv(d)
  BY Zenon DEF IInv
<1> USE <1>0, MemoryAssumption
<1>1. \A v \in VM : lock'[v] = IF lock[v] = c THEN NoCPU ELSE lock[v]
  BY Zenon DEF Unlock
<1>2. OnlyBy(c)
  BY <1>1, ZenonT(180) DEF OnlyBy
<1>3. CallInv(c)'
  BY SMTT(60) DEF CallInv, TransferInv, ConfigurationInv, Transferring, ConfiguringVm, NoXfer, NoConf,
     Xfer, Conf
<1>4. \A v \in VM, p \in Page : lock[v] = c => Settled(v, p)' = pte'[v][p]
  BY <1>1, ZenonT(180) DEF Settled
<1> QED
  BY <1>1, <1>2, <1>3, <1>4, OthersUnaffected, SettledFrame DEF IInv

LEMMA RollBack ==
  ASSUME IInv, TypeOK', NEW c \in CPU, xfer[c].pc # "idle", RestoreSender(c),
         UNCHANGED <<send, recv, conf>>
  PROVE  IInv' /\ Quiet
<1>0. /\ TypeOK /\ BuffersTogether /\ PagesConsistent
      /\ \A d \in CPU : CallInv(d)
  BY DEF IInv
<1> USE <1>0
<1> DEFINE from == xfer[c].from
<1>1. Transferring(c) /\ CallInv(c)
  BY ActiveXfer, Zenon DEF Transferring
<1>2. from \in VM /\ lock[from] = c /\ conf[c] = NoConf
  BY <1>1, Zenon DEF CallInv, TransferInv, Transferring, Xfer
<1>3. /\ \A p \in Page : pte'[from][p] = IF p \in xfer[c].region
                                           THEN mode_to_stage2_attrs(xfer[c].origMode)
                                           ELSE pte[from][p]
      /\ \A v \in VM \ {from} : pte'[v] = pte[v]
  BY <1>2, Zenon DEF RestoreSender, identity_map, Mapped, TypeOK
<1>4. xfer'[c] = NoXfer /\ \A d \in CPU \ {c} : xfer'[d] = xfer[d]
  BY DEF RestoreSender, TypeOK
<1>5. Unlock(c)
  BY Zenon DEF RestoreSender
<1>6. /\ \A d \in CPU : CallInv(d)'
      /\ \A v \in VM, p \in Page : lock[v] = c => Settled(v, p)' = pte'[v][p]
      /\ \A v \in VM, p \in Page : lock[v] # c => Settled(v, p)' = Settled(v, p)
  BY <1>2, <1>3, <1>4, <1>5, EndOfCall, ZenonT(180)
<1>7. \A v \in VM, p \in Page : lock[v] = c => Settled(v, p) = pte'[v][p]
  <2> SUFFICES ASSUME NEW v \in VM, NEW p \in Page, lock[v] = c
               PROVE  Settled(v, p) = pte'[v][p]
    BY Zenon
  <2>1. c # NoCPU /\ ~Configuring(c, v, p)
    BY <1>2, MemoryAssumption DEF Configuring, NoConf
  <2>2. Sending(c, v, p) <=> v = from /\ p \in xfer[c].region
    BY Zenon DEF Sending
  <2> QED
    BY <1>3, <2>1, <2>2, Zenon DEF Settled
<1>8. Quiet
  BY <1>6, <1>7, ZenonT(180) DEF Quiet
<1>9. BuffersTogether'
  BY Zenon DEF BuffersTogether, ConfiguringVm
<1>10. PagesConsistent'
  BY <1>8, SameSettled, ZenonT(180)
<1> QED
  BY <1>6, <1>8, <1>9, <1>10, ZenonT(180) DEF IInv

\* A lawful change of two entries keeps the entries of the page fitting.
LEMMA LawfulFits ==
  ASSUME NEW e, NEW f, NEW boxes \in SUBSET VM, NEW reserved,
         NEW from \in VM, NEW to \in VM, from # to,
         Lawful(e[from], e[to], f[from], f[to]),
         \A v \in VM \ {from, to} : f[v] = e[v],
         FitTogether(e, boxes, reserved)
  PROVE  FitTogether(f, boxes, reserved)
<1> USE DEF ExclusiveOwner, SharingOwner, Borrower, SharingBorrower, Lender, Unrelated
<1>1. ASSUME NEW o \in VM, ExclusiveOwner(e[o]), \A w \in VM \ {o} : Unrelated(e[w])
      PROVE  FitTogether(f, boxes, reserved)
  <2>1. o = from /\ ExclusiveOwner(e[from])
    BY <1>1, Zenon DEF Lawful
  <2>2. \A w \in VM \ {from, to} : Unrelated(f[w])
    BY <1>1, <2>1, ZenonT(180)
  <2>3. \/ Unrelated(f[from]) /\ ExclusiveOwner(f[to])
        \/ Lender(f[from]) /\ Borrower(f[to])
        \/ SharingOwner(f[from]) /\ SharingBorrower(f[to])
    BY Zenon DEF Lawful
  <2> QED
    BY <2>2, <2>3, Zenon DEF FitTogether
<1>2. ASSUME NEW o \in VM, NEW b \in VM, o # b,
             \/ Lender(e[o]) /\ Borrower(e[b])
             \/ SharingOwner(e[o]) /\ SharingBorrower(e[b]),
             \A w \in VM \ {o, b} : Unrelated(e[w])
      PROVE  FitTogether(f, boxes, reserved)
  <2>1. {from, to} = {o, b} /\ Unrelated(f[from]) /\ ExclusiveOwner(f[to])
    BY <1>2, Zenon DEF Lawful
  <2>2. \A w \in VM \ {to} : Unrelated(f[w])
    BY <1>2, <2>1, Zenon
  <2> QED
    BY <2>1, <2>2, Zenon DEF FitTogether
<1>3. ASSUME NEW v \in boxes, SharingBorrower(e[v]), \A w \in VM \ {v} : Unrelated(e[w])
      PROVE  FALSE
  BY <1>3, Zenon DEF Lawful
<1>4. ASSUME \A w \in VM : Unrelated(e[w])
      PROVE  FALSE
  BY <1>4, Zenon DEF Lawful
<1> QED
  BY <1>1, <1>2, <1>3, <1>4, Zenon DEF FitTogether

\* What a completed transfer x does to the states of the pages.
Transfers(x) ==
  /\ x \in Xfer /\ x.from # x.to
  /\ UNCHANGED <<send, recv>>
  /\ \A p \in x.region :
       /\ Settled(x.from, p) = mode_to_stage2_attrs(x.origMode)
       /\ Settled(x.from, p)' = mode_to_stage2_attrs(x.fromMode)
       /\ Settled(x.to, p)' = mode_to_stage2_attrs(x.toMode)
       /\ Lawful(Settled(x.from, p), Settled(x.to, p), Settled(x.from, p)', Settled(x.to, p)')
  /\ \A v \in VM, p \in Page :
       ~(v \in {x.from, x.to} /\ p \in x.region) => Settled(v, p)' = Settled(v, p)

LEMMA GrantInv ==
  ASSUME IInv, TypeOK', NEW c \in CPU, Grant(c)
  PROVE  IInv' /\ \E x : x = xfer[c] /\ Transfers(x)
<1>0. /\ TypeOK /\ BuffersTogether /\ PagesConsistent
      /\ \A d \in CPU : CallInv(d)
  BY DEF IInv
<1> USE <1>0
<1> DEFINE from == xfer[c].from
           to == xfer[c].to
           region == xfer[c].region
<1>1. Transferring(c) /\ CallInv(c)
  BY ActiveXfer, Zenon DEF Transferring, Grant
<1>2. /\ from \in VM /\ lock[from] = c /\ to \in VM /\ lock[to] = c /\ from # to
      /\ conf[c] = NoConf /\ c # NoCPU
  BY <1>1, MemoryAssumption, Zenon DEF CallInv, TransferInv, Transferring, Xfer
<1>3. /\ \A p \in Page : pte'[to][p] = IF p \in region
                                         THEN mode_to_stage2_attrs(xfer[c].toMode)
                                         ELSE pte[to][p]
      /\ \A v \in VM \ {to} : pte'[v] = pte[v]
  BY <1>2, ZenonT(180) DEF Grant, identity_map, Mapped, TypeOK
<1>4. /\ xfer'[c] = NoXfer /\ conf'[c] = NoConf /\ Unlock(c)
      /\ \A d \in CPU \ {c} : xfer'[d] = xfer[d] /\ conf'[d] = conf[d]
  BY <1>2, ZenonT(180) DEF Grant, TypeOK
<1>5. /\ \A d \in CPU : CallInv(d)'
      /\ \A v \in VM, p \in Page : lock[v] = c => Settled(v, p)' = pte'[v][p]
      /\ \A v \in VM, p \in Page : lock[v] # c => Settled(v, p)' = Settled(v, p)
  BY <1>2, <1>3, <1>4, EndOfCall, Zenon
<1>6. \A v \in VM, p \in Page : lock[v] = c =>
        Settled(v, p) = IF v = from /\ p \in region
                          THEN mode_to_stage2_attrs(xfer[c].origMode) ELSE pte[v][p]
  <2> SUFFICES ASSUME NEW v \in VM, NEW p \in Page, lock[v] = c
               PROVE  Settled(v, p) = IF v = from /\ p \in region
                          THEN mode_to_stage2_attrs(xfer[c].origMode) ELSE pte[v][p]
    BY Zenon
  <2>1. ~Configuring(c, v, p)
    BY <1>2 DEF Configuring, NoConf
  <2>2. Sending(c, v, p) <=> v = from /\ p \in region
    BY Zenon DEF Sending, Grant
  <2> QED
    BY <1>2, <2>1, <2>2, Zenon DEF Settled
<1>7. PagesConsistent'
  <2> SUFFICES ASSUME NEW p \in Page
               PROVE  FitTogether([v \in VM |-> Settled(v, p)'],
                                  {v \in VM : p \in {send[v], recv[v]}},
                                  InitOwner[p] = Hypervisor)
    BY Zenon DEF PagesConsistent, Grant
  <2> DEFINE e == [v \in VM |-> Settled(v, p)]
             f == [v \in VM |-> Settled(v, p)']
             boxes == {v \in VM : p \in {send[v], recv[v]}}
  <2>1. FitTogether(e, boxes, InitOwner[p] = Hypervisor)
    BY Zenon DEF PagesConsistent
  <2>2. \A v \in VM \ {from, to} : f[v] = e[v]
    BY <1>3, <1>5, <1>6, SMTT(60)
  <2>3. CASE p \in region
    <3>1. /\ e[from] = mode_to_stage2_attrs(xfer[c].origMode)
          /\ e[to] = pte[to][p]
          /\ f[from] = pte[from][p]
          /\ f[to] = mode_to_stage2_attrs(xfer[c].toMode)
      BY <1>2, <1>3, <1>5, <1>6, <2>3, ZenonT(180)
    <3>2. Lawful(e[from], e[to], f[from], f[to])
      BY <1>1, <2>3, <3>1, ZenonT(180) DEF CallInv, TransferInv
    <3>3. from \in VM /\ to \in VM /\ from # to
      BY <1>2, ZenonT(180)
    <3> HIDE DEF e, f, from, to
    <3>4. FitTogether(f, boxes, InitOwner[p] = Hypervisor)
      BY <2>1, <2>2, <3>2, <3>3, LawfulFits, SMTT(60)
    <3> QED
      BY <3>4, Zenon DEF f
  <2>4. CASE p \notin region
    <3>1. \A v \in VM : f[v] = e[v]
      BY <1>2, <1>3, <1>5, <1>6, <2>2, <2>4, SMTT(60)
    <3> HIDE DEF e, f
    <3>2. FitTogether(f, boxes, InitOwner[p] = Hypervisor)
      BY <2>1, <3>1, SameBits
    <3> QED
      BY <3>2 DEF f
  <2> QED
    BY <2>3, <2>4, Zenon
<1>8. BuffersTogether'
  BY DEF BuffersTogether, ConfiguringVm, Grant
<1>9. \E x : x = xfer[c] /\ Transfers(x)
  <2>0. PICK x : x = xfer[c]
    BY Zenon
  <2>1. /\ x \in Xfer /\ x.from \in VM /\ x.to \in VM /\ x.region \subseteq Page
        /\ x.from = from /\ x.to = to /\ x.region = region
        /\ UNCHANGED <<send, recv>>
    BY <1>1, <2>0, MemoryAssumption DEF Transferring, Xfer, Grant
  <2>2. ASSUME NEW v \in VM, NEW p \in Page, ~(v \in {x.from, x.to} /\ p \in x.region)
        PROVE  Settled(v, p)' = Settled(v, p)
    <3>1. CASE lock[v] # c
      BY <3>1, <1>5, Zenon
    <3>2. CASE lock[v] = c
      <4>1. Settled(v, p)' = pte'[v][p] /\ Settled(v, p) = pte[v][p]
        BY <3>2, <1>5, <1>6, <2>1, <2>2, ZenonT(180)
      <4>2. pte'[v][p] = pte[v][p]
        BY <1>3, <2>1, <2>2, Zenon
      <4> QED
        BY <4>1, <4>2, Zenon
    <3> QED
      BY <3>1, <3>2, Zenon
  <2>3. ASSUME NEW p \in x.region
        PROVE  /\ Settled(x.from, p) = mode_to_stage2_attrs(x.origMode)
               /\ Settled(x.to, p) = pte[x.to][p]
               /\ Settled(x.from, p)' = pte[x.from][p]
               /\ Settled(x.to, p)' = mode_to_stage2_attrs(x.toMode)
    BY <1>2, <1>3, <1>5, <1>6, <2>0, <2>1, SMTT(60)
  <2>4. \A p \in x.region : /\ pte[x.from][p] = mode_to_stage2_attrs(x.fromMode)
                            /\ Lawful(mode_to_stage2_attrs(x.origMode), pte[x.to][p],
                                      mode_to_stage2_attrs(x.fromMode),
                                      mode_to_stage2_attrs(x.toMode))
    BY <1>1, <2>0, ZenonT(180) DEF CallInv, TransferInv
  <2>5. Transfers(x)
    BY <1>2, <2>1, <2>2, <2>3, <2>4 DEF Transfers
  <2> QED
    BY <2>0, <2>5
<1> QED
  BY <1>5, <1>7, <1>8, <1>9 DEF IInv

(***************************************************************************)
(* A VM configures its mailbox.                                            *)
(***************************************************************************)

LEMMA BufferModes ==
  /\ SharingBorrower(mode_to_stage2_attrs(SendMode))
  /\ SharingBorrower(mode_to_stage2_attrs(RecvMode))
BY AttrsOfMode DEF SendMode, RecvMode, SharingBorrower

LEMMA ConfigureSendInv ==
  ASSUME IInv, TypeOK', NEW c \in CPU, NEW v \in VM, NEW s \in Page, NEW r \in Page,
         ConfigureSend(c, v, s, r)
  PROVE  IInv' /\ Quiet
<1>0. TypeOK /\ BuffersTogether /\ c # NoCPU
  BY MemoryAssumption, SMTT(60) DEF IInv
<1> DEFINE origSend == get_mode(v, {s})
           origRecv == get_mode(v, {r})
<1>1. /\ Idle(c) /\ s # r /\ lock[v] = NoCPU
      /\ \A w \in VM : lock'[w] = IF w = v THEN c ELSE lock[w]
      /\ UNCHANGED <<xfer, send, recv>>
  BY <1>0, SMTT(60) DEF ConfigureSend, lock_both, TypeOK
<1>2. /\ \A p \in Page : pte'[v][p] = IF p = s THEN mode_to_stage2_attrs(SendMode) ELSE pte[v][p]
      /\ \A w \in VM \ {v} : pte'[w] = pte[w]
  BY <1>0, SMTT(60) DEF ConfigureSend, identity_map, Mapped, TypeOK
<1>3. /\ conf'[c] = [pc |-> "recv2", vm |-> v, send |-> s, recv |-> r,
                     origSend |-> origSend, origRecv |-> origRecv]
      /\ \A d \in CPU \ {c} : conf'[d] = conf[d]
  BY <1>0, SMTT(60) DEF ConfigureSend, TypeOK
<1>4. OnlyBy(c)
  BY <1>1, <1>2, <1>3 DEF OnlyBy
<1>5. /\ origSend = stage2_attrs_to_mode(pte[v][s])
      /\ origRecv = stage2_attrs_to_mode(pte[v][r])
  BY GetMode DEF SameAttrs
<1>6. valid_owned_exclusive(origSend) /\ valid_owned_exclusive(origRecv)
  BY Zenon DEF ConfigureSend
<1> HIDE DEF origSend, origRecv
<1>7. ExclusiveOwner(pte[v][r])
  <2>1. origRecv \cap {"INVALID", "UNOWNED", "SHARED"} = {}
    BY <1>6, Zenon DEF valid_owned_exclusive
  <2>2. origRecv = stage2_attrs_to_mode(pte[v][r])
    BY <1>5, Zenon
  <2>3. "INVALID" \notin origRecv /\ "UNOWNED" \notin origRecv /\ "SHARED" \notin origRecv
    BY <2>1, ZenonT(180)
  <2>4. "VALID" \in pte[v][r] /\ "OWNED" \in pte[v][r] /\ "EXCLUSIVE" \in pte[v][r]
    BY <2>2, <2>3, ModeOfAttrs, ZenonT(180)
  <2> QED
    BY <2>4, ZenonT(180) DEF ExclusiveOwner
<1>8. CallInv(c)'
  <2>1. ~Transferring(c)'
    BY <1>1 DEF Transferring, Idle, NoXfer, Xfer
  <2>2. SharingBorrower(pte'[v][s]) /\ ExclusiveOwner(pte'[v][r])
    <3>1. pte'[v][s] = mode_to_stage2_attrs(SendMode)
      BY <1>2, ZenonT(180)
    <3>2. pte'[v][r] = pte[v][r]
      BY <1>1, <1>2, ZenonT(180)
    <3> QED
      BY <3>1, <3>2, <1>7, BufferModes, ZenonT(180)
  <2>3. lock'[v] = c /\ xfer'[c] = NoXfer
    BY <1>1, SMTT(60) DEF Idle
  <2>4. /\ conf'[c].pc = "recv2" /\ conf'[c].vm = v
        /\ conf'[c].send = s /\ conf'[c].recv = r
        /\ conf'[c].origSend = origSend /\ conf'[c].origRecv = origRecv
    BY <1>3, SMTT(60)
  <2>5. TransferInv(c)'
    BY <2>1, Zenon DEF TransferInv
  <2>6. s # r
    BY <1>1, Zenon
  <2>7. ConfigurationInv(c)'
    BY <1>6, <2>2, <2>3, <2>4, <2>6, ZenonT(180) DEF ConfigurationInv
  <2> QED
    BY <2>5, <2>7, ZenonT(180) DEF CallInv
<1>9. \A w \in VM, p \in Page, b \in Bits : b \in Settled(w, p)' <=> b \in Settled(w, p)
  <2> SUFFICES ASSUME NEW w \in VM, NEW p \in Page, NEW b \in Bits
               PROVE  b \in Settled(w, p)' <=> b \in Settled(w, p)
    BY Zenon
  <2>0. xfer[c] = NoXfer /\ xfer'[c] = NoXfer /\ conf[c] = NoConf
    BY <1>1, Zenon DEF Idle
  <2>1. CASE w = v
    <3>1. Settled(w, p) = pte[v][p]
      BY <1>1, <2>1, Zenon DEF Settled
    <3>2. ~Sending(c, v, p)' /\ (Configuring(c, v, p)' <=> p \in {s, r})
      BY <2>0, <1>3, SMTT(60) DEF Sending, Configuring, NoXfer
    <3>3. Settled(w, p)' = IF p \in {s, r}
                             THEN mode_to_stage2_attrs(IF p = s THEN origSend ELSE origRecv)
                             ELSE pte'[v][p]
      <4>1. lock'[w] = c /\ c # NoCPU
        BY <1>0, <1>1, <2>1
      <4> QED
        BY <1>3, <2>1, <3>2, <4>1, SMTT(60) DEF Settled
    <3> QED
      BY <1>2, <1>5, <3>1, <3>3, RestoredBits, ZenonT(180)
  <2>2. CASE w # v /\ lock[w] # c
    <3>1. lock'[w] # c
      BY <1>1, <2>2
    <3> QED
      BY <1>4, <2>2, <3>1, SettledFrame, Zenon
  <2>3. CASE w # v /\ lock[w] = c
    <3>1. ~Sending(c, w, p) /\ ~Sending(c, w, p)'
      BY <2>0, SMTT(60) DEF Sending, NoXfer
    <3>2. ~Configuring(c, w, p) /\ ~Configuring(c, w, p)'
      BY <2>0, <1>3, <2>3, SMTT(60) DEF Configuring, NoConf
    <3>3. lock'[w] = c /\ pte'[w] = pte[w]
      BY <1>1, <1>2, <2>3
    <3> QED
      BY <2>3, <3>1, <3>2, <3>3, ZenonT(180) DEF Settled
  <2> QED
    BY <2>1, <2>2, <2>3, Zenon
<1>10. Quiet
  BY <1>1, <1>9, ZenonT(180) DEF Quiet
<1>11. BuffersTogether'
  <2>1. send[v] = NoPage
    BY <1>0 DEF ConfigureSend, is_configured, BuffersTogether
  <2> QED
    BY <1>0, <1>1, <1>3, <2>1, MemoryAssumption, SMTT(60) DEF BuffersTogether, ConfiguringVm
<1> QED
  <2>1. \A d \in CPU : CallInv(d)'
    BY <1>4, <1>8, OthersUnaffected, Zenon
  <2>2. PagesConsistent'
    BY <1>10, SameSettled, Zenon
  <2> QED
    BY <1>10, <1>11, <2>1, <2>2, Zenon DEF IInv

\* The step changes no entry but those of the two pages that c configures.
OnlyBuffers(c) ==
  /\ \A w \in VM \ {conf[c].vm} : pte'[w] = pte[w]
  /\ \A p \in Page \ {conf[c].send, conf[c].recv} :
       pte'[conf[c].vm][p] = pte[conf[c].vm][p]

\* What is known of a configuration in progress.
LEMMA Configured ==
  ASSUME IInv, NEW c \in CPU, conf[c].pc # "idle"
  PROVE  /\ ConfiguringVm(c) /\ ConfigurationInv(c)
         /\ conf[c].vm \in VM /\ conf[c].send \in Page /\ conf[c].recv \in Page
         /\ lock[conf[c].vm] = c
         /\ xfer[c] = NoXfer /\ ~Transferring(c)
<1>1. TypeOK /\ TransferInv(c) /\ ConfigurationInv(c)
  BY DEF IInv, CallInv
<1>2. ConfiguringVm(c)
  BY <1>1, ActiveConf DEF ConfiguringVm
<1>3. conf[c].vm \in VM /\ conf[c].send \in Page /\ conf[c].recv \in Page
  BY <1>2, ZenonT(180) DEF ConfiguringVm, Conf
<1>4. lock[conf[c].vm] = c
  BY <1>1, <1>2 DEF ConfigurationInv
<1>5. conf[c] # NoConf
  BY SMTT(60) DEF NoConf
<1>6. ~Transferring(c)
  BY <1>1, <1>5, Zenon DEF TransferInv
<1>7. xfer[c] = NoXfer
  BY <1>1, <1>6, Zenon DEF Transferring, TypeOK
<1> QED
  BY <1>1, <1>2, <1>3, <1>4, <1>6, <1>7, Zenon

\* The configuration of c goes on with q: its two pages are mapped as
\* buffers.
GoesOn(c, q) ==
  /\ conf' = [conf EXCEPT ![c].pc = q]
  /\ UNCHANGED <<send, recv, lock, xfer>>
  /\ OnlyBuffers(c)
  /\ SharingBorrower(pte'[conf[c].vm][conf[c].send])
  /\ SharingBorrower(pte'[conf[c].vm][conf[c].recv])

LEMMA ConfigurationContinues ==
  ASSUME IInv, TypeOK', NEW c \in CPU, conf[c].pc # "idle",
         NEW q, q \notin {"idle", "recv2"}, GoesOn(c, q)
  PROVE  IInv' /\ Quiet
<1>0. TypeOK /\ BuffersTogether /\ UNCHANGED <<send, recv, lock, xfer>> /\ OnlyBuffers(c)
  BY ZenonT(180) DEF IInv, GoesOn
<1>1. /\ ConfiguringVm(c) /\ ConfigurationInv(c) /\ conf[c].vm \in VM
      /\ lock[conf[c].vm] = c /\ ~Transferring(c)
  BY Configured
<1>2. /\ \A d \in CPU \ {c} : conf'[d] = conf[d]
      /\ conf'[c] = [conf[c] EXCEPT !.pc = q]
  BY <1>0 DEF TypeOK, GoesOn
<1>3. /\ conf'[c].vm = conf[c].vm /\ conf'[c].send = conf[c].send
      /\ conf'[c].recv = conf[c].recv /\ conf'[c].origSend = conf[c].origSend
      /\ conf'[c].origRecv = conf[c].origRecv /\ conf'[c].pc = q
  BY <1>1, <1>2, ZenonT(180) DEF ConfiguringVm, Conf
<1>4. \A v \in VM : lock[v] # c => pte'[v] = pte[v]
  BY <1>0, <1>1 DEF OnlyBuffers
<1>5. OnlyBy(c)
  BY <1>0, <1>2, <1>4, Zenon DEF OnlyBy
<1>6. CallInv(c)'
  <2>1. TransferInv(c)'
    BY <1>0, <1>1, ZenonT(180) DEF TransferInv, Transferring
  <2>2. /\ SharingBorrower(pte'[conf[c].vm][conf[c].send])
        /\ SharingBorrower(pte'[conf[c].vm][conf[c].recv])
    BY Zenon DEF GoesOn
  <2>3. /\ conf[c].send # conf[c].recv
        /\ valid_owned_exclusive(conf[c].origSend) /\ valid_owned_exclusive(conf[c].origRecv)
    BY <1>1, ZenonT(180) DEF ConfigurationInv
  <2>4. ConfigurationInv(c)'
    BY <1>0, <1>1, <1>3, <2>2, <2>3, Zenon DEF ConfigurationInv
  <2> QED
    BY <2>1, <2>4, Zenon DEF CallInv
<1>7. \A v \in VM, p \in Page : Settled(v, p)' = Settled(v, p)
  <2> SUFFICES ASSUME NEW v \in VM, NEW p \in Page PROVE Settled(v, p)' = Settled(v, p)
    BY Zenon
  <2>1. CASE lock[v] = c
    <3>1. ~Sending(c, v, p) /\ ~Sending(c, v, p)'
      BY <1>0, <1>1, ActiveXfer, ZenonT(180) DEF Sending, Transferring
    <3>2. Configuring(c, v, p) <=> v = conf[c].vm /\ p \in {conf[c].send, conf[c].recv}
      BY Zenon DEF Configuring
    <3>3. Configuring(c, v, p)' <=> Configuring(c, v, p)
      BY <1>3, <3>2, Zenon DEF Configuring
    <3>4. ~Configuring(c, v, p) => pte'[v][p] = pte[v][p]
      BY <1>0, <3>2, Zenon DEF OnlyBuffers
    <3> QED
      BY <1>0, <1>3, <2>1, <3>1, <3>3, <3>4, MemoryAssumption, ZenonT(180) DEF Settled
  <2>2. CASE lock[v] # c
    BY <1>0, <1>5, <2>2, SettledFrame, ZenonT(180)
  <2> QED
    BY <2>1, <2>2, Zenon
<1>8. Quiet
  BY <1>0, <1>7, Zenon DEF Quiet
<1>9. BuffersTogether'
  <2>1. ASSUME NEW d \in CPU, ConfiguringVm(d)' PROVE send'[conf'[d].vm] = NoPage
    <3>1. ConfiguringVm(d) /\ conf'[d].vm = conf[d].vm
      BY <1>1, <1>2, <1>3, <2>1, Zenon DEF ConfiguringVm
    <3> QED
      BY <1>0, <3>1 DEF BuffersTogether
  <2> QED
    BY <1>0, <2>1, ZenonT(180) DEF BuffersTogether
<1>10. PagesConsistent' /\ \A d \in CPU : CallInv(d)'
  BY <1>5, <1>6, <1>8, OthersUnaffected, SameSettled, Zenon
<1> QED
  BY <1>8, <1>9, <1>10 DEF IInv

\* The configuration of c is rolled back.
GoesBack(c) ==
  /\ conf' = [conf EXCEPT ![c] = NoConf]
  /\ Unlock(c)
  /\ UNCHANGED <<send, recv, xfer>>
  /\ OnlyBuffers(c)
  /\ ExclusiveOwner(pte'[conf[c].vm][conf[c].send])
  /\ ExclusiveOwner(pte'[conf[c].vm][conf[c].recv])

LEMMA ConfigurationRestored ==
  ASSUME IInv, TypeOK', NEW c \in CPU, conf[c].pc # "idle", GoesBack(c)
  PROVE  IInv' /\ Quiet
<1>0. TypeOK /\ BuffersTogether /\ UNCHANGED <<send, recv, xfer>> /\ OnlyBuffers(c)
  BY Zenon DEF IInv, GoesBack
<1>1. /\ ConfiguringVm(c) /\ ConfigurationInv(c) /\ conf[c].vm \in VM
      /\ lock[conf[c].vm] = c /\ xfer[c] = NoXfer
  BY Configured, Zenon
<1>2. Unlock(c) /\ conf'[c] = NoConf /\ \A d \in CPU \ {c} : conf'[d] = conf[d]
  BY <1>0, Zenon DEF TypeOK, GoesBack
<1>3. \A v \in VM : lock[v] # c => pte'[v] = pte[v]
  BY <1>0, <1>1, Zenon DEF OnlyBuffers
<1>4. /\ \A d \in CPU : CallInv(d)'
      /\ \A v \in VM, p \in Page : lock[v] = c => Settled(v, p)' = pte'[v][p]
      /\ \A v \in VM, p \in Page : lock[v] # c => Settled(v, p)' = Settled(v, p)
  BY <1>0, <1>1, <1>2, <1>3, EndOfCall, ZenonT(180)
<1>5. /\ ExclusiveOwner(mode_to_stage2_attrs(conf[c].origSend))
      /\ ExclusiveOwner(mode_to_stage2_attrs(conf[c].origRecv))
  BY <1>1, ExclusiveModes, ZenonT(180) DEF ConfigurationInv
<1>6. \A v \in VM, p \in Page, b \in Bits : b \in Settled(v, p)' <=> b \in Settled(v, p)
  <2> SUFFICES ASSUME NEW v \in VM, NEW p \in Page, NEW b \in Bits, lock[v] = c
               PROVE  b \in pte'[v][p] <=> b \in Settled(v, p)
    BY <1>4, ZenonT(180)
  <2>1. ~Sending(c, v, p) /\ c # NoCPU
    BY <1>1, MemoryAssumption, SMTT(60) DEF Sending, NoXfer
  <2>2. Configuring(c, v, p) <=> v = conf[c].vm /\ p \in {conf[c].send, conf[c].recv}
    BY Zenon DEF Configuring
  <2>3. CASE Configuring(c, v, p)
    <3>1. Settled(v, p) = mode_to_stage2_attrs(IF p = conf[c].send THEN conf[c].origSend
                                                                   ELSE conf[c].origRecv)
      BY <2>1, <2>3, Zenon DEF Settled
    <3>2. ExclusiveOwner(Settled(v, p))
      BY <1>5, <3>1, Zenon
    <3>3. ExclusiveOwner(pte'[v][p])
      BY <2>2, <2>3, Zenon DEF GoesBack
    <3> QED
      BY <3>2, <3>3, Zenon DEF ExclusiveOwner, Bits
  <2>4. CASE ~Configuring(c, v, p)
    <3>1. Settled(v, p) = pte[v][p]
      BY <2>1, <2>4, Zenon DEF Settled
    <3>2. pte'[v][p] = pte[v][p]
      BY <1>0, <2>2, <2>4, Zenon DEF OnlyBuffers
    <3> QED
      BY <3>1, <3>2, Zenon
  <2> QED
    BY <2>3, <2>4, Zenon
<1>7. Quiet
  BY <1>0, <1>6, ZenonT(180) DEF Quiet
<1>8. BuffersTogether'
  BY <1>0, <1>2, SMTT(60) DEF BuffersTogether, ConfiguringVm, NoConf, Conf
<1> QED
  BY <1>4, <1>7, <1>8, SameSettled, Zenon DEF IInv

\* What a completed configuration x does to the states of the pages.
Configures(x) ==
  /\ x \in Conf /\ x.send # x.recv
  /\ send[x.vm] = NoPage /\ recv[x.vm] = NoPage
  /\ \A w \in VM : send'[w] = IF w = x.vm THEN x.send ELSE send[w]
  /\ \A w \in VM : recv'[w] = IF w = x.vm THEN x.recv ELSE recv[w]
  /\ \A p \in {x.send, x.recv} : /\ ExclusiveOwner(Settled(x.vm, p))
                                 /\ SharingBorrower(Settled(x.vm, p)')
  /\ \A w \in VM, p \in Page :
       ~(w = x.vm /\ p \in {x.send, x.recv}) => Settled(w, p)' = Settled(w, p)

\* The configuration of c completes.
LEMMA Stage1RecvInv ==
  ASSUME IInv, TypeOK', NEW c \in CPU, Stage1Recv(c)
  PROVE  IInv' /\ \E x : x = conf[c] /\ Configures(x)
<1> DEFINE v == conf[c].vm
<1>0. /\ TypeOK /\ BuffersTogether /\ PagesConsistent
      /\ \A d \in CPU : CallInv(d)
      /\ c # NoCPU
  BY MemoryAssumption DEF IInv
<1>1. conf[c].pc = "recv1" /\ UNCHANGED <<pte, xfer>> /\ Unlock(c)
  BY Zenon DEF Stage1Recv
<1>2. /\ ConfiguringVm(c) /\ ConfigurationInv(c) /\ v \in VM /\ lock[v] = c
      /\ conf[c].send \in Page /\ conf[c].recv \in Page /\ xfer[c] = NoXfer
  BY <1>1, Configured, ZenonT(180)
<1>3. conf'[c] = NoConf /\ (\A d \in CPU \ {c} : conf'[d] = conf[d])
  BY <1>0, ZenonT(180) DEF TypeOK, Stage1Recv
<1>4. /\ \A d \in CPU : CallInv(d)'
      /\ \A w \in VM, p \in Page : lock[w] = c => Settled(w, p)' = pte[w][p]
      /\ \A w \in VM, p \in Page : lock[w] # c => Settled(w, p)' = Settled(w, p)
  BY <1>1, <1>2, <1>3, EndOfCall, ZenonT(180)
<1>5. /\ send[v] = NoPage /\ recv[v] = NoPage
      /\ \A w \in VM : send'[w] = IF w = v THEN conf[c].send ELSE send[w]
      /\ \A w \in VM : recv'[w] = IF w = v THEN conf[c].recv ELSE recv[w]
  <2>1. send[v] = NoPage /\ recv[v] = NoPage
    BY <1>0, <1>2, ZenonT(180) DEF BuffersTogether
  <2> QED
    BY <1>0, <1>2, <2>1, ZenonT(180) DEF Stage1Recv, TypeOK
<1>6. \A w \in VM, p \in Page : lock[w] = c =>
        /\ w = v /\ p = conf[c].send => Settled(w, p) = mode_to_stage2_attrs(conf[c].origSend)
        /\ w = v /\ p = conf[c].recv /\ p # conf[c].send
             => Settled(w, p) = mode_to_stage2_attrs(conf[c].origRecv)
        /\ ~(w = v /\ p \in {conf[c].send, conf[c].recv}) => Settled(w, p) = pte[w][p]
  <2> SUFFICES ASSUME NEW w \in VM, NEW p \in Page, lock[w] = c
      PROVE /\ w = v /\ p = conf[c].send => Settled(w, p) = mode_to_stage2_attrs(conf[c].origSend)
            /\ w = v /\ p = conf[c].recv /\ p # conf[c].send
                 => Settled(w, p) = mode_to_stage2_attrs(conf[c].origRecv)
            /\ ~(w = v /\ p \in {conf[c].send, conf[c].recv}) => Settled(w, p) = pte[w][p]
    BY ZenonT(180)
  <2>1. ~Sending(c, w, p)
    BY <1>2 DEF Sending, NoXfer
  <2>2. Configuring(c, w, p) <=> w = v /\ p \in {conf[c].send, conf[c].recv}
    BY <1>1, Zenon DEF Configuring
  <2> QED
    BY <1>0, <2>1, <2>2, Zenon DEF Settled
<1>7. PagesConsistent'
  <2> SUFFICES ASSUME NEW p \in Page
               PROVE  FitTogether([w \in VM |-> Settled(w, p)'],
                                  {w \in VM : p \in {send'[w], recv'[w]}},
                                  InitOwner[p] = Hypervisor)
    BY ZenonT(180) DEF PagesConsistent
  <2> DEFINE e == [w \in VM |-> Settled(w, p)]
             f == [w \in VM |-> Settled(w, p)']
             boxes == {w \in VM : p \in {send[w], recv[w]}}
             more == {w \in VM : p \in {send'[w], recv'[w]}}
  <2>1. FitTogether(e, boxes, InitOwner[p] = Hypervisor)
    BY <1>0 DEF PagesConsistent
  <2>2. boxes \subseteq more /\ boxes \in SUBSET VM /\ more \in SUBSET VM
    <3>1. \A w \in VM : p \in {send[w], recv[w]} => p \in {send'[w], recv'[w]}
      BY <1>5, MemoryAssumption
    <3> QED
      BY <3>1, Zenon
  <2>3. \A w \in VM : e[w] = Settled(w, p) /\ f[w] = Settled(w, p)'
    BY ZenonT(180)
  <2>4. p \in {conf[c].send, conf[c].recv} => v \in more
    BY <1>2, <1>5, ZenonT(180)
  <2> HIDE DEF e, f, boxes, more
  <2>5. \A w \in VM \ {v} : f[w] = e[w]
    BY <1>4, <1>6, <2>3, SMTT(60)
  <2>6. CASE p \in {conf[c].send, conf[c].recv}
    <3>1. f[v] = pte[v][p]
      BY <1>2, <1>4, <2>3, Zenon
    <3>2. SharingBorrower(pte[v][conf[c].send]) /\ SharingBorrower(pte[v][conf[c].recv])
      BY <1>1, <1>2, ZenonT(180) DEF ConfigurationInv
    <3>3. SharingBorrower(f[v])
      BY <2>6, <3>1, <3>2, Zenon
    <3>4. /\ ExclusiveOwner(mode_to_stage2_attrs(conf[c].origSend))
          /\ ExclusiveOwner(mode_to_stage2_attrs(conf[c].origRecv))
      BY <1>2, ExclusiveModes, ZenonT(180) DEF ConfigurationInv
    <3>5. ExclusiveOwner(e[v])
      BY <1>2, <1>6, <2>3, <2>6, <3>4, ZenonT(180)
    <3> HIDE DEF v
    <3>6. \A w \in VM \ {v} : Unrelated(e[w])
      BY <1>2, <2>1, <2>2, <3>5, Zenon DEF FitTogether, ExclusiveOwner, SharingOwner, Borrower,
         SharingBorrower, Lender, Unrelated
    <3>7. FitTogether(f, more, InitOwner[p] = Hypervisor)
      BY <2>4, <2>5, <2>6, <3>3, <3>6, ZenonT(180) DEF FitTogether
    <3> QED
      BY <3>7, Zenon DEF f, more
  <2>7. CASE p \notin {conf[c].send, conf[c].recv}
    <3>1. f[v] = e[v]
      BY <1>2, <1>4, <1>6, <2>3, <2>7, SMTT(60)
    <3>2. FitTogether(f, more, InitOwner[p] = Hypervisor)
      BY <2>1, <2>2, <2>5, <3>1, SameBits, ZenonT(180)
    <3> QED
      BY <3>2, SMTT(60) DEF f, more
  <2> QED
    BY <2>6, <2>7, Zenon
<1>8. BuffersTogether'
  <2>1. \A w \in VM : send'[w] = NoPage <=> recv'[w] = NoPage
    BY <1>0, <1>2, <1>5, MemoryAssumption, ZenonT(180) DEF BuffersTogether
  <2>2. ASSUME NEW d \in CPU, ConfiguringVm(d)'
        PROVE  send'[conf'[d].vm] = NoPage
    <3>1. d # c /\ conf'[d] = conf[d] /\ ConfiguringVm(d)
      BY <1>3, <2>2, SMTT(60) DEF ConfiguringVm, NoConf, Conf
    <3>2. conf[d].vm \in VM
      BY <3>1, ZenonT(180) DEF ConfiguringVm, Conf
    <3>3. lock[conf[d].vm] = d
      BY <1>0, <3>1 DEF CallInv, ConfigurationInv
    <3> QED
      BY <1>0, <1>2, <1>5, <3>1, <3>2, <3>3, ZenonT(180) DEF BuffersTogether
  <2> QED
    BY <2>1, <2>2, Zenon DEF BuffersTogether
<1>9. \E x : x = conf[c] /\ Configures(x)
  <2>0. PICK x : x = conf[c]
    BY Zenon
  <2>1. /\ x \in Conf /\ x.vm = v /\ x.send # x.recv
        /\ SharingBorrower(pte[v][x.send]) /\ SharingBorrower(pte[v][x.recv])
        /\ ExclusiveOwner(mode_to_stage2_attrs(x.origSend))
        /\ ExclusiveOwner(mode_to_stage2_attrs(x.origRecv))
    BY <1>1, <1>2, <2>0, ExclusiveModes, ZenonT(180) DEF ConfigurationInv, ConfiguringVm
  <2>2. ASSUME NEW p \in {x.send, x.recv}
        PROVE  ExclusiveOwner(Settled(x.vm, p)) /\ SharingBorrower(Settled(x.vm, p)')
    BY <1>2, <1>4, <1>6, <2>0, <2>1, ZenonT(180)
  <2>3. ASSUME NEW w \in VM, NEW p \in Page, ~(w = x.vm /\ p \in {x.send, x.recv})
        PROVE  Settled(w, p)' = Settled(w, p)
    BY <1>4, <1>6, <2>0, <2>3, SMTT(60)
  <2>4. Configures(x)
    BY <1>2, <1>5, <2>0, <2>1, <2>2, <2>3, ZenonT(180) DEF Configures
  <2> QED
    BY <2>0, <2>4
<1> QED
  BY <1>4, <1>7, <1>8, <1>9, Zenon DEF IInv

(***************************************************************************)
(* Every step keeps the invariant.                                         *)
(***************************************************************************)

LEMMA StepInv ==
  ASSUME IInv, TypeOK', NEW c \in CPU, Step(c)
  PROVE  IInv' /\ (Quiet \/ Grant(c) \/ Stage1Recv(c))
<1> DEFINE x == conf[c]
<1>0. TypeOK
  BY DEF IInv
<1>1. CASE ClearMap(c) \/ ClearZero(c) \/ ClearUnmap(c)
  BY <1>1, TransferContinues, ZenonT(180) DEF ClearMap, ClearZero, ClearUnmap
<1>2. CASE ClearMapFails(c) \/ GrantFails(c)
  BY <1>2, RollBack, ZenonT(180) DEF ClearMapFails, GrantFails
<1>3. CASE Grant(c)
  BY <1>3, GrantInv, Zenon
<1>4. ASSUME x.pc # "idle"
      PROVE  /\ ConfigurationInv(c)
             /\ x.vm \in VM /\ x.send \in Page /\ x.recv \in Page /\ x.send # x.recv
             /\ SharingBorrower(pte[x.vm][x.send])
             /\ x.pc = "recv2" => ExclusiveOwner(pte[x.vm][x.recv])
             /\ x.pc # "recv2" => SharingBorrower(pte[x.vm][x.recv])
             /\ ExclusiveOwner(mode_to_stage2_attrs(x.origSend))
             /\ ExclusiveOwner(mode_to_stage2_attrs(x.origRecv))
  <2>1. /\ ConfiguringVm(c) /\ ConfigurationInv(c)
        /\ x.vm \in VM /\ x.send \in Page /\ x.recv \in Page
    BY <1>4, Configured, Zenon
  <2>2. /\ x.send # x.recv
        /\ valid_owned_exclusive(x.origSend) /\ valid_owned_exclusive(x.origRecv)
        /\ SharingBorrower(pte[x.vm][x.send])
        /\ IF x.pc = "recv2" THEN ExclusiveOwner(pte[x.vm][x.recv])
                             ELSE SharingBorrower(pte[x.vm][x.recv])
    BY <2>1, Zenon DEF ConfigurationInv
  <2> HIDE DEF x
  <2> QED
    BY <2>1, <2>2, ExclusiveModes, Zenon
<1>5. CASE ConfigureRecv(c)
  <2>1. x.pc = "recv2" /\ identity_map(x.vm, {x.recv}, RecvMode)
    BY <1>5, Zenon DEF ConfigureRecv
  <2>2. /\ \A w \in VM \ {x.vm} : pte'[w] = pte[w]
        /\ \A p \in Page : pte'[x.vm][p] = IF p = x.recv THEN mode_to_stage2_attrs(RecvMode)
                                                         ELSE pte[x.vm][p]
    <3>1. x.vm \in VM
      BY <1>4, <2>1, ZenonT(180)
    <3> QED
      BY <1>0, <2>1, <3>1 DEF identity_map, Mapped, TypeOK
  <2>3. SharingBorrower(pte'[x.vm][x.send]) /\ SharingBorrower(pte'[x.vm][x.recv])
    <3>1. /\ x.send \in Page /\ x.recv \in Page /\ x.send # x.recv
          /\ SharingBorrower(pte[x.vm][x.send])
      BY <1>4, <2>1, Zenon
    <3> QED
      BY <2>2, <3>1, BufferModes, ZenonT(180)
  <2>4. GoesOn(c, "send1")
    BY <1>5, <2>2, <2>3, Zenon DEF GoesOn, OnlyBuffers, ConfigureRecv
  <2> QED
    BY <2>1, <2>4, ConfigurationContinues
<1>6. CASE Stage1Send(c)
  <2>1. x.pc = "send1" /\ UNCHANGED pte
    BY <1>6 DEF Stage1Send
  <2>2. SharingBorrower(pte'[x.vm][x.send]) /\ SharingBorrower(pte'[x.vm][x.recv])
    BY <1>4, <2>1, Zenon
  <2>3. GoesOn(c, "recv1")
    BY <1>6, <2>1, <2>2, ZenonT(180) DEF GoesOn, OnlyBuffers, Stage1Send
  <2> QED
    BY <2>1, <2>3, ConfigurationContinues
<1>7. CASE ConfigureRecvFails(c)
  <2>1. x.pc = "recv2" /\ identity_map(x.vm, {x.send}, x.origSend)
    BY <1>7, ZenonT(180) DEF ConfigureRecvFails
  <2>2. /\ \A w \in VM \ {x.vm} : pte'[w] = pte[w]
        /\ \A p \in Page : pte'[x.vm][p] = IF p = x.send THEN mode_to_stage2_attrs(x.origSend)
                                                         ELSE pte[x.vm][p]
    <3>1. x.vm \in VM
      BY <1>4, <2>1, ZenonT(180)
    <3> QED
      BY <1>0, <2>1, <3>1 DEF identity_map, Mapped, TypeOK
  <2>3. ExclusiveOwner(pte'[x.vm][x.send]) /\ ExclusiveOwner(pte'[x.vm][x.recv])
    <3>1. /\ x.send \in Page /\ x.recv \in Page /\ x.send # x.recv
          /\ ExclusiveOwner(mode_to_stage2_attrs(x.origSend))
          /\ ExclusiveOwner(pte[x.vm][x.recv])
      BY <1>4, <2>1, Zenon
    <3> QED
      BY <2>2, <3>1, ZenonT(180)
  <2>4. GoesBack(c)
    BY <1>7, <2>2, <2>3, ZenonT(180) DEF GoesBack, OnlyBuffers, ConfigureRecvFails
  <2> QED
    BY <2>1, <2>4, ConfigurationRestored, Zenon
<1>8. ASSUME x.pc # "idle", RestorePages(c), UNCHANGED <<send, recv, xfer>>
      PROVE  IInv' /\ Quiet
  <2>1. /\ \A w \in VM \ {x.vm} : pte'[w] = pte[w]
        /\ \A p \in Page : p \notin {x.send, x.recv} => pte'[x.vm][p] = pte[x.vm][p]
        /\ pte'[x.vm][x.send] = mode_to_stage2_attrs(x.origSend)
        /\ pte'[x.vm][x.recv] = mode_to_stage2_attrs(x.origRecv)
    <3>1. x.vm \in VM /\ x.send \in Page /\ x.recv \in Page /\ x.send # x.recv
      BY <1>4, <1>8, Zenon
    <3>2. pte' = [pte EXCEPT ![x.vm] = Mapped(Mapped(pte[x.vm], {x.recv}, x.origRecv),
                                              {x.send}, x.origSend)]
      BY <1>8, Zenon DEF RestorePages
    <3> QED
      BY <1>0, <3>1, <3>2, ZenonT(180) DEF Mapped, TypeOK
  <2>2. ExclusiveOwner(pte'[x.vm][x.send]) /\ ExclusiveOwner(pte'[x.vm][x.recv])
    BY <1>4, <1>8, <2>1, Zenon
  <2>3. GoesBack(c)
    BY <1>8, <2>1, <2>2, ZenonT(180) DEF GoesBack, OnlyBuffers, RestorePages
  <2> QED
    BY <1>8, <2>3, ConfigurationRestored, ZenonT(180)
<1>9. CASE Stage1SendFails(c) \/ Stage1RecvFails(c)
  BY <1>8, <1>9, ZenonT(180) DEF Stage1SendFails, Stage1RecvFails
<1>10. CASE Stage1Recv(c)
  BY <1>10, Stage1RecvInv
<1> QED
  BY <1>1, <1>2, <1>3, <1>5, <1>6, <1>7, <1>9, <1>10, Zenon DEF Step

LEMMA NextInv ==
  ASSUME IInv, [Next]_vars
  PROVE  IInv' /\ (Quiet \/ \E c \in CPU : Grant(c) \/ Stage1Recv(c))
<1>1. TypeOK
  BY ZenonT(180) DEF IInv
<1>2. CASE UNCHANGED vars
  BY <1>1, <1>2, SameTables DEF vars, TypeOK
<1>3. ASSUME NEW c \in CPU, Call(c) PROVE IInv' /\ Quiet
  <2>1. TypeOK'
    BY <1>1, <1>3, TypeCall, SMTT(60)
  <2>2. \A b \in Buffers : b[1] \in Page /\ b[2] \in Page
    BY MemoryAssumption
  <2>3. ASSUME NEW from \in VM, NEW to \in VM, NEW region \in Region, NEW kind \in Share,
               ShareFrom(c, from, to, region, kind)
        PROVE  IInv' /\ Quiet
    BY <2>1, <2>3, ShareFromInv, Zenon
  <2>4. ASSUME NEW from \in VM, NEW to \in VM, NEW region \in Region, NEW kind \in SpciShare,
               NEW access \in ToAttributes(kind), SpciFrom(c, from, to, region, kind, access)
        PROVE  IInv' /\ Quiet
    BY <2>1, <2>4, SpciFromInv, Zenon
  <2>5. ASSUME NEW v \in VM, NEW b \in Buffers, ConfigureSend(c, v, b[1], b[2])
        PROVE  IInv' /\ Quiet
    BY <2>1, <2>2, <2>5, ConfigureSendInv, Zenon
  <2> QED
    BY <1>3, <2>3, <2>4, <2>5, Zenon DEF Call
<1>4. ASSUME NEW c \in CPU, Step(c)
      PROVE  IInv' /\ (Quiet \/ Grant(c) \/ Stage1Recv(c))
  BY <1>1, <1>4, TypeStep, StepInv
<1>5. ASSUME NEW v \in VM, NEW p \in Tracked, VmWrite(v, p) PROVE IInv' /\ Quiet
  BY <1>1, <1>5, TypeWrite, SameTables, Zenon DEF VmWrite
<1> QED
  BY <1>2, <1>3, <1>4, <1>5, Zenon DEF Next
=============================================================================
